--------------------------- MODULE MuteIntervals ---------------------------
(***************************************************************************)
(* The interval arithmetic of source muting (src/mute.rs): the consumer's  *)
(* union of half-open intervals, kept as a sorted sequence, and the looks  *)
(* it takes at it.  Intervals name a generation and absolute positions of  *)
(* source samples; a position names the source samples one output draws on *)
(* (low and high differ by one at a fractional boundary).                  *)
(***************************************************************************)
EXTENDS Integers, Sequences, SequencesExt

CONSTANT HistoryCapacity  \* entries the history has room for

ASSUME HistoryCapacityAssumption == HistoryCapacity \in Nat \ {0}

\* The source samples an interval covers.
Points(interval) == {<<interval.generation, p>> : p \in interval.start..(interval.end - 1)}

\* Mutant of Touches: neighbours that meet without overlapping stay apart.
TouchesOverlap(a, b) ==
  a.generation = b.generation /\ a.end > b.start /\ a.start < b.end
\* Mutant of Touches: the generation is not compared.
TouchesAnyGeneration(a, b) == a.end >= b.start /\ a.start <= b.end
Touches(a, b) == a.generation = b.generation /\ a.end >= b.start /\ a.start <= b.end

Merge(a, b) ==
  [a EXCEPT !.start = IF b.start < @ THEN b.start ELSE @,
            !.end   = IF b.end > @ THEN b.end ELSE @]

\* One entry of the pass through the history: it grows the new interval and
\* leaves, or stays where it is.
Absorb(pass, entry) ==
  IF Touches(entry, pass.interval)
  THEN [pass EXCEPT !.interval = Merge(@, entry)]
  ELSE [pass EXCEPT !.kept = Append(@, entry)]

Before(a, b) ==
  \/ a.generation < b.generation
  \/ a.generation = b.generation /\ a.start < b.start

Insert(history, interval) ==
  LET pass == FoldLeft(Absorb, [interval |-> interval, kept |-> <<>>], history)
      place == SelectLastInSeq(pass.kept, LAMBDA entry : Before(entry, pass.interval))
  IN  IF Len(pass.kept) = HistoryCapacity
      THEN [ok |-> FALSE, entries |-> pass.kept]
      ELSE [ok |-> TRUE, entries |-> InsertAt(pass.kept, place + 1, pass.interval)]

\* Mutant of Muted: only the lower source sample is looked up.
MutedLowOnly(history, position) ==
  LET last == SelectLastInSeq(history, LAMBDA entry :
                ~Before([generation |-> position.generation, start |-> position.low], entry))
  IN  /\ last # 0
      /\ history[last].generation = position.generation
      /\ history[last].end > position.low
\* The last entry that starts at or in front of the position decides.
Muted(history, position) ==
  LET last == SelectLastInSeq(history, LAMBDA entry :
                ~Before([generation |-> position.generation, start |-> position.high], entry))
  IN  /\ last # 0
      /\ history[last].generation = position.generation
      /\ history[last].end > position.low

\* Mutant of Retire: one entry a call.
RetireOne(history, position) ==
  IF history # <<>> /\ ~( /\ Head(history).generation = position.generation
                          /\ Head(history).end > position.low )
  THEN Tail(history) ELSE history
\* Entries leave from the front until one that the position can still meet.
Retire(history, position) ==
  LET first == SelectInSeq(history, LAMBDA entry :
                 entry.generation = position.generation /\ entry.end > position.low)
  IN  IF first = 0 THEN <<>> ELSE SubSeq(history, first, Len(history))
=============================================================================
