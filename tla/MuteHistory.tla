---------------------------- MODULE MuteHistory ----------------------------
(***************************************************************************)
(* The consumer's mute history while a burst plays (src/mute.rs, History,  *)
(* as src/ring.rs drives it): intervals arrive late, overlapping and of    *)
(* stale generations, positions play in order, a reset starts over.        *)
(***************************************************************************)
EXTENDS MuteIntervals

CONSTANTS
  Generations,  \* generations a producer tags with
  Horizon       \* bound: source positions are 0..Horizon - 1

ASSUME HistoryAssumption == Generations \subseteq Nat /\ Horizon \in Nat

VARIABLES
  history,      \* ConsumerState::mute_history
  fault,        \* ConsumerState::mute_fault
  generation,   \* generation of the burst that plays
  floor,        \* lowest source position the last output drew on
  wanted        \* history variable: every sample delivered as muted

vars == <<history, fault, generation, floor, wanted>>

Interval == [generation : Generations, start : 0..(Horizon - 1), end : 1..Horizon]

Init ==
  /\ history = <<>> /\ fault = FALSE
  /\ generation \in Generations /\ floor = 0 /\ wanted = {}

\* A render call moves records from the mailbox into the history first.
Deliver(interval) ==
  LET inserted == Insert(history, interval)
  IN  /\ interval.start < interval.end
      /\ history' = inserted.entries
      /\ fault' = (fault \/ ~inserted.ok)
      /\ wanted' = wanted \cup Points(interval)
      /\ UNCHANGED <<generation, floor>>

\* A fault silences the output before it gets here.
Play(low, high) ==
  /\ ~fault /\ low >= floor
  /\ history' = Retire(history, [generation |-> generation, low |-> low, high |-> high])
  /\ floor' = low
  /\ UNCHANGED <<fault, generation, wanted>>

Reset ==
  /\ history' = <<>> /\ fault' = FALSE /\ floor' = 0 /\ wanted' = {}
  /\ generation' \in Generations

Next ==
  \/ \E interval \in Interval : Deliver(interval)
  \/ \E low \in 0..(Horizon - 1) : Play(low, low) \/ Play(low, low + 1)
  \/ Reset

Spec == Init /\ [][Next]_vars

-----------------------------------------------------------------------------
(* Properties.                                                             *)

\* The entries stay sorted, not empty, and apart within a generation.  The
\* single pass of insert and the two binary searches depend on it.
Canonical ==
  /\ \A i \in DOMAIN history : history[i] \in Interval /\ history[i].start < history[i].end
  /\ \A i \in 1..(Len(history) - 1) :
       \/ history[i].generation < history[i + 1].generation
       \/ /\ history[i].generation = history[i + 1].generation
          /\ history[i].end < history[i + 1].start

\* Whatever arrived in whatever order, a position still to play is muted
\* exactly if one of the source samples it draws on was asked to be muted:
\* merging, late insertion and retirement neither leak nor swallow a sample.
MutedExact ==
  ~fault => \A low \in floor..(Horizon - 1) : \A high \in {low, low + 1} :
    Muted(history, [generation |-> generation, low |-> low, high |-> high])
      <=> \E p \in low..high : <<generation, p>> \in wanted

\* When playback moves on, nothing of its generation that it has left behind
\* keeps a place in the bounded history.
PrunedBehind ==
  [][floor' # floor =>
       \A i \in DOMAIN history' :
         history'[i].generation = generation' => history'[i].end > floor']_vars
=============================================================================
