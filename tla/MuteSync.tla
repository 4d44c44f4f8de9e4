------------------------------ MODULE MuteSync ------------------------------
(***************************************************************************)
(* Source muting from end to end (src/ring.rs with src/mute.rs): the       *)
(* producer stamps samples with generation and position and mails the      *)
(* intervals to mute; the consumer carries positions through converter and *)
(* concealment delay and mutes what it plays; resets and completed bursts  *)
(* tell the producer through an epoch that its stamp has ended.            *)
(*                                                                         *)
(* The sample queue and the mailbox are the queues PcmRing and MuteMailbox *)
(* implement.  The converter is external and stands at unit ratio: output  *)
(* t of a burst lies at source position t less the delay.  Priming and the *)
(* silence between bursts do not touch muting and are left out.            *)
(***************************************************************************)
EXTENDS MuteIntervals

CONSTANTS
  Capacity,      \* slots of the ring
  MailCapacity,  \* slots of the mailbox
  Quantum,       \* samples a refill takes, and zeros it pads with
  HalfDelay,     \* converter delay in half source samples
  Lookahead,     \* retained PLC positions
  MaxGeneration, \* bound: the caller tags with generations 1..MaxGeneration
  FirstSource,   \* source position a generation starts at
  MaxSource,     \* bound: source positions end in front of it
  AwaitsCompletion  \* the caller publishes nothing until a finish is settled

ASSUME SyncAssumption ==
  /\ Capacity \in Nat /\ MailCapacity \in Nat /\ Quantum \in Nat \ {0}
  /\ HalfDelay \in Nat /\ Lookahead \in Nat /\ MaxGeneration \in Nat
  /\ FirstSource \in Nat /\ MaxSource \in Nat /\ FirstSource <= MaxSource
  /\ AwaitsCompletion \in BOOLEAN

VARIABLES
  queue, mail, moved, finish,       \* shared: unread samples, records, epoch, boundary
  pstep, job, stamp,                \* producer: step, samples of the running call, stamp
  generation, position,             \* caller: generation and next source position
  cstep, history, fault, base, taken, played, converted, end, line, remaining,
  \* History variables.
  anchor,                           \* true generation and offset of the burst
  wanted, carried,                  \* samples mailed as muted; muted by their own push
  due,                              \* wanted when the running render call began
  verdict                           \* what the outputs played so far did wrong

producerVars == <<pstep, job, stamp, generation, position>>
cacheVars    == <<base, taken, played, converted, end, anchor>>
vars == <<queue, mail, moved, finish, producerVars, cstep, history, fault, cacheVars, line,
          remaining, wanted, carried, due, verdict>>

None    == <<>>   \* an empty Option
NoEnd   == -1
Nowhere == [position |-> None, sources |-> {}, tagged |-> {}]
Idle    == [i \in 1..Lookahead |-> Nowhere]

Init ==
  /\ queue = <<>> /\ mail = <<>> /\ moved = FALSE /\ finish = "none"
  /\ pstep = "idle" /\ job = 0 /\ stamp = None
  /\ generation = 1 /\ position = FirstSource
  /\ cstep = "idle" /\ history = <<>> /\ fault = FALSE
  /\ base = None /\ taken = 0 /\ played = 0 /\ converted = 0 /\ end = NoEnd
  /\ anchor = None /\ line = Idle /\ remaining = Lookahead
  /\ wanted = {} /\ carried = {} /\ due = {}
  /\ verdict = [missed |-> FALSE, leaked |-> FALSE, swallowed |-> FALSE]

-----------------------------------------------------------------------------
(* Producer.                                                               *)

consumerVars == <<cstep, history, fault, cacheVars, line, remaining, due, verdict>>

MayCall == pstep = "idle"
MayPublish == MayCall /\ (AwaitsCompletion => finish # "pending")

Begin(step, samples) ==
  /\ pstep' = step /\ job' = samples
  /\ UNCHANGED <<queue, mail, moved, finish, stamp, generation, position, consumerVars,
                 wanted, carried>>
Return == pstep' = "idle" /\ job' = 0

\* The arguments of a call satisfy the checks of the code.  Which spans it
\* brings shows, at most one of them, where they are published.
PushTagged(n) == MayPublish /\ position + n <= MaxSource /\ Begin("sync", n)
PushPlain == MayPublish /\ position < MaxSource /\ Begin("plain", 1)
MuteSpans == MayCall /\ Begin("mute", 0)

\* A span begins within one capacity behind the first position or later.
Oldest(first) == IF first < Capacity THEN 0 ELSE first - Capacity
SpansFrom(first, last) ==
  LET spans == [generation : {generation}, start : Oldest(first)..last, end : 0..last]
  IN  {<<>>} \cup {<<span>> : span \in {x \in spans : x.start < x.end}}

\* sync_producer_epoch.  Mutant of SyncedStamp: the epoch is ignored.
StampKept == stamp
SyncedStamp == IF moved THEN None ELSE stamp
Sync(from, to) ==
  /\ pstep = from
  /\ stamp' = SyncedStamp /\ moved' = FALSE
  /\ pstep' = to
  /\ UNCHANGED <<queue, mail, finish, job, generation, position, consumerVars, wanted, carried>>

TaggedGate ==
  /\ pstep = "gate"
  /\ \/ finish = "pending" /\ Return
     \/ finish # "pending" /\ pstep' = "credit" /\ job' = job
  /\ UNCHANGED <<queue, mail, moved, finish, stamp, generation, position, consumerVars,
                 wanted, carried>>

Continues == (stamp # None /\ stamp.generation = generation) => stamp.source = position
Room == Capacity - Len(queue)

TaggedCredit ==
  /\ pstep = "credit"
  /\ \/ /\ Continues /\ Room > 0
        /\ pstep' = "publish"
        /\ job' = IF job < Room THEN job ELSE Room
     \/ (~Continues \/ Len(mail) = MailCapacity \/ Room = 0) /\ Return
  /\ UNCHANGED <<queue, mail, moved, finish, stamp, generation, position, consumerVars,
                 wanted, carried>>

\* Mutant of Clipped: intervals reach beyond the accepted samples.
ClippedNever(spans, limit) == spans
\* Mailbox::publish clips to the accepted prefix and skips what becomes empty:
\* of at most one span, all or nothing.
Clipped(spans, limit) ==
  LET cut == [i \in DOMAIN spans |->
                [spans[i] EXCEPT !.end = IF limit < @ THEN limit ELSE @]]
  IN  IF \E i \in DOMAIN cut : cut[i].start < cut[i].end THEN cut ELSE <<>>

\* What the caller asks for, up to the last sample it knows accepted.
Asked(spans, limit) ==
  {x \in UNION {Points(span) : span \in ToSet(spans)} : x[2] < limit}

\* Mutant of Posted: the intervals get lost.
PostNothing(spans, limit) ==
  /\ Len(mail) + Len(spans) <= MailCapacity
  /\ mail' = mail
  /\ wanted' = wanted \cup Asked(spans, limit)
Posted(spans, limit) ==
  /\ Len(mail) + Len(spans) <= MailCapacity
  /\ mail' = mail \o Clipped(spans, limit)
  /\ wanted' = wanted \cup Asked(spans, limit)

\* The spans were offered with up to Capacity samples, which Room may have cut:
\* a span may reach beyond the accepted samples or lie behind all of them.
TaggedPublish ==
  /\ pstep = "publish"
  /\ \E spans \in SpansFrom(position, position + Capacity) :
       /\ Posted(spans, position + job)
       /\ carried' = carried \cup {x \in Asked(spans, position + job) : x[2] >= position}
  /\ stamp' = [generation |-> generation, source |-> position]
  /\ pstep' = "push"
  /\ UNCHANGED <<queue, moved, finish, job, generation, position, consumerVars>>

\* producer_publish: its own epoch check, then the slot and its stamp.
Stored(left, tagged) ==
  /\ queue' = Append(queue, [stamp |-> SyncedStamp,
                             true |-> IF tagged
                                      THEN [generation |-> generation, source |-> position]
                                      ELSE None])
  /\ stamp' = IF SyncedStamp = None THEN None ELSE [stamp EXCEPT !.source = @ + 1]
  /\ moved' = FALSE /\ position' = position + 1
  /\ IF left = 0 THEN Return ELSE pstep' = "push" /\ job' = left
  /\ UNCHANGED <<mail, finish, generation, consumerVars, wanted, carried>>

PushOne == pstep = "push" /\ Stored(job - 1, TRUE)

\* An untagged push or a gap continues the timeline of the stamp.
PlainPush ==
  /\ pstep = "plainGate"
  /\ \/ finish # "pending" /\ Room > 0 /\ Stored(0, FALSE)
     \/ /\ finish = "pending" \/ Room = 0
        /\ Return
        /\ UNCHANGED <<queue, mail, moved, finish, stamp, generation, position,
                       consumerVars, wanted, carried>>

\* producer_mute takes the spans that fit, for what this stamp has accepted.
MutePublish ==
  /\ pstep = "mutePublish"
  /\ \/ /\ stamp # None /\ stamp.generation = generation
        /\ \E spans \in SpansFrom(stamp.source, stamp.source) : Posted(spans, stamp.source)
     \/ UNCHANGED <<mail, wanted>>
  /\ Return
  /\ UNCHANGED <<queue, moved, finish, stamp, generation, position, consumerVars, carried>>

Finish ==
  /\ MayCall /\ finish # "pending"
  /\ finish' = "pending"
  /\ UNCHANGED <<queue, mail, moved, producerVars, consumerVars, wanted, carried>>

\* Once a burst has ended the caller may start the next generation.
NewGeneration ==
  /\ MayPublish /\ (moved \/ stamp = None) /\ generation < MaxGeneration
  /\ generation' = generation + 1 /\ position' = FirstSource
  /\ wanted' = {} /\ carried' = {}
  /\ UNCHANGED <<queue, mail, moved, finish, pstep, job, stamp, consumerVars>>

ProducerStep ==
  \/ \E n \in 1..Capacity : PushTagged(n)
  \/ PushPlain \/ MuteSpans
  \/ Sync("sync", "gate") \/ Sync("plain", "plainGate") \/ Sync("mute", "mutePublish")
  \/ TaggedGate \/ TaggedCredit \/ TaggedPublish \/ PushOne \/ PlainPush \/ MutePublish
  \/ Finish \/ NewGeneration

-----------------------------------------------------------------------------
(* Consumer.                                                               *)

\* What the next cached output draws on, in the burst's own count of samples.
LowIndex  == (2 * played - HalfDelay) \div 2
HighIndex == (2 * played - HalfDelay + 1) \div 2

\* Mutant of CachePosition: the converter delay is left out.
PositionWithoutDelay ==
  IF base = None THEN None
  ELSE [generation |-> base.generation, low |-> played + base.offset,
        high |-> played + base.offset]
CachePosition ==
  IF base = None \/ LowIndex + base.offset < 0 THEN None
  ELSE [generation |-> base.generation, low |-> LowIndex + base.offset,
        high |-> HighIndex + base.offset]
TrueSources ==
  IF anchor = None THEN {}
  ELSE {<<anchor.generation, i + anchor.offset>> : i \in LowIndex..HighIndex}
Tagged(sources) == {x \in sources : x[2] >= anchor.first}

\* A record moves into the history.
Delivered(pass, record) ==
  LET inserted == Insert(pass.entries, record)
  IN  [entries |-> inserted.entries, ok |-> pass.ok /\ inserted.ok]

\* Freeze a pending boundary, then move the mail into the history.
RenderBegin ==
  /\ cstep = "idle"
  /\ end' = IF finish = "pending" /\ end = NoEnd THEN taken + Len(queue) ELSE end
  /\ LET pass == FoldLeft(Delivered, [entries |-> history, ok |-> TRUE], mail)
     IN  history' = pass.entries /\ fault' = (fault \/ ~pass.ok)
  /\ mail' = <<>>
  /\ due' = wanted
  /\ cstep' = IF fault' THEN "idle"
              ELSE IF end' = 0 \/ remaining # Lookahead THEN "tail" ELSE "refill"
  /\ UNCHANGED <<queue, moved, finish, producerVars, base, taken, played, converted, anchor,
                 line, remaining, wanted, carried, verdict>>

\* The source position of the burst's first sample, as this stamp has it.
BaseOf(sample, index) ==
  IF sample.stamp = None THEN None
  ELSE [generation |-> sample.stamp.generation, offset |-> sample.stamp.source - index]

\* Where a render call goes on when its refill fails: a finite burst is over,
\* otherwise one output is missing, unless the mapping broke.
Failed(broken) ==
  IF end # NoEnd THEN "completeFailed" ELSE IF broken THEN "idle" ELSE "starved"

\* A refill takes what is there, up to a quantum with what a failed conversion
\* left over.  The first stamp of a burst fixes its base, and every later one
\* has to agree with it.
Take ==
  LET wanting == Quantum - (taken - converted)
      n       == IF Len(queue) < wanting THEN Len(queue) ELSE wanting
      stamped == SelectInSeq(SubSeq(queue, 1, n), LAMBDA x : x.stamp # None)
      fixed   == IF base # None \/ stamped = 0 THEN base
                 ELSE BaseOf(queue[stamped], taken + stamped - 1)
      broken  == \E i \in 1..n : BaseOf(queue[i], taken + i - 1) \notin {None, fixed}
      known   == SelectInSeq(SubSeq(queue, 1, n), LAMBDA x : x.true # None)
      true    == queue[known].true
  IN  /\ queue' = SubSeq(queue, n + 1, Len(queue))
      /\ taken' = taken + n
      /\ base' = fixed
      /\ anchor' = IF anchor # None \/ known = 0 THEN anchor
                   ELSE [generation |-> true.generation, first |-> true.source,
                         offset |-> true.source - (taken + known - 1)]
      /\ fault' = broken
      /\ \E converts \in BOOLEAN :
           /\ broken => ~converts
           /\ converted' = IF converts THEN taken' ELSE converted
           /\ cstep' = IF converts THEN "play" ELSE Failed(broken)

\* Zeros follow the last sample of a finite burst.
Pad ==
  /\ UNCHANGED <<queue, fault, base, taken, anchor>>
  /\ \/ end # NoEnd /\ converted' = converted + Quantum /\ cstep' = "play"
     \/ converted' = converted /\ cstep' = Failed(FALSE)

Pads == converted > taken
Refill ==
  /\ cstep = "refill"
  /\ \/ played < converted
        /\ cstep' = "play" /\ UNCHANGED <<queue, fault, base, taken, converted, anchor>>
     \/ played = converted /\ (queue # <<>> \/ taken > converted) /\ ~Pads /\ Take
     \/ played = converted /\ taken <= converted /\ (queue = <<>> \/ Pads) /\ Pad
  /\ UNCHANGED <<mail, moved, finish, producerVars, history, played, end, line, remaining,
                 wanted, carried, due, verdict>>

\* An output passes the delay line; what leaves it is muted and played.
Emit(entry) ==
  LET leaving == IF Lookahead = 0 THEN entry ELSE Head(line)
      silent  == leaving.position # None /\ Muted(history, leaving.position)
  IN  /\ line' = IF Lookahead = 0 THEN line ELSE Append(Tail(line), entry)
      /\ verdict' = [missed    |-> verdict.missed \/ (leaving.tagged \cap due # {} /\ ~silent),
                      leaked    |-> verdict.leaked
                                      \/ (leaving.tagged \cap carried # {} /\ ~silent),
                      swallowed |-> verdict.swallowed
                                      \/ (/\ silent /\ leaving.sources # {}
                                          /\ leaving.sources \cap wanted = {})]
      /\ due' = {}
      /\ history' = IF leaving.position = None THEN history
                    ELSE Retire(history, leaving.position)

Play ==
  /\ cstep = "play"
  /\ \/ /\ end # NoEnd /\ 2 * played - HalfDelay >= 2 * end
        /\ cstep' = "tail" /\ UNCHANGED <<played, history, line, due, verdict>>
     \/ /\ end = NoEnd \/ 2 * played - HalfDelay < 2 * end
        /\ Emit([position |-> CachePosition, sources |-> TrueSources,
                 tagged |-> Tagged(TrueSources)])
        /\ played' = played + 1 /\ cstep' = "idle"
  /\ UNCHANGED <<queue, mail, moved, finish, producerVars, fault, base, taken, converted,
                 end, anchor, remaining, wanted, carried>>

Starved ==
  /\ cstep = "starved"
  /\ Emit(Nowhere)
  /\ cstep' = "idle"
  /\ UNCHANGED <<queue, mail, moved, finish, producerVars, fault, cacheVars, remaining,
                 wanted, carried>>

PlayTail ==
  /\ cstep = "tail"
  /\ \/ /\ remaining > 0
        /\ remaining' = remaining - 1
        /\ Emit(Nowhere) /\ cstep' = "idle"
     \/ /\ remaining = 0
        /\ cstep' = "complete" /\ UNCHANGED <<history, line, remaining, due, verdict>>
  /\ UNCHANGED <<queue, mail, moved, finish, producerVars, fault, cacheVars, wanted, carried>>

StateReset ==
  /\ history' = <<>> /\ fault' = FALSE /\ base' = None /\ taken' = 0 /\ played' = 0
  /\ converted' = 0 /\ end' = NoEnd /\ anchor' = None /\ line' = Idle
  /\ remaining' = Lookahead
  /\ moved' = TRUE

Complete ==
  /\ cstep \in {"complete", "completeFailed"}
  /\ StateReset
  /\ cstep' = IF cstep = "complete" THEN "ack" ELSE "retire"
  /\ UNCHANGED <<queue, mail, finish, producerVars, wanted, carried, due, verdict>>

\* A failed burst drops its unread samples and records.
RetireBurst ==
  /\ cstep = "retire"
  /\ queue' = <<>> /\ mail' = <<>>
  /\ cstep' = "ack"
  /\ UNCHANGED <<moved, finish, producerVars, history, fault, cacheVars, line, remaining,
                 wanted, carried, due, verdict>>

Ack ==
  /\ cstep = "ack"
  /\ finish' = "settled"
  /\ cstep' = "idle"
  /\ UNCHANGED <<queue, mail, moved, producerVars, history, fault, cacheVars, line,
                 remaining, wanted, carried, due, verdict>>

\* consumer_reset, with the producer at rest as its contract asks.  Only it
\* lets the caller number a generation anew.
ConsumerReset ==
  /\ cstep = "idle" /\ pstep = "idle"
  /\ queue' = <<>> /\ mail' = <<>>
  /\ StateReset
  /\ finish' = IF finish = "pending" THEN "settled" ELSE finish
  /\ \/ UNCHANGED <<position, wanted, carried>>
     \/ position' = FirstSource /\ wanted' = {} /\ carried' = {}
  /\ UNCHANGED <<pstep, job, stamp, generation, cstep, due, verdict>>

ConsumerStep ==
  \/ RenderBegin \/ Refill \/ Play \/ Starved \/ PlayTail
  \/ Complete \/ RetireBurst \/ Ack \/ ConsumerReset

Next == ProducerStep \/ ConsumerStep

Spec == Init /\ [][Next]_vars

-----------------------------------------------------------------------------
(* Properties.                                                             *)

\* An output is silent if it draws on a tagged sample that was mailed as muted
\* before the render call began, however late the interval came.
DueIsMuted == ~verdict.missed

\* A sample whose own push carried its interval is never heard, even if the
\* push raced the render call that took it, provided that converter delay and
\* lookahead sum to one sample at least.
CarriedIsMuted == ~verdict.leaked

\* Muting silences nothing else: a silent output draws on a wanted sample.
OnlyWantedIsMuted == ~verdict.swallowed

\* A caller that keeps to the documented order never breaks the mapping from
\* outputs to source samples, which would silence everything up to a reset.
NoMuteFault == ~fault
=============================================================================
