-------------------------------- MODULE Plc --------------------------------
(***************************************************************************)
(* Packet-loss concealment (src/plc.rs): a delay line of a few samples of  *)
(* lookahead, and the oscillator that repeats frozen history while input   *)
(* is missing.  Sample values are left out.  A history slot only records   *)
(* where its value comes from, and a buffer only whether it still holds    *)
(* what a reset should have made unreachable.                              *)
(***************************************************************************)
EXTENDS Integers

CONSTANTS
  Rate,       \* output_rate_hz
  LostLimit   \* bound: where the counter of lost samples saturates (usize::MAX)

ASSUME RateAssumption == Rate \in Nat \ {0}

CeilDiv(n, d) == (n + d - 1) \div d

\* Mutants of Delay and History: lookahead rounded down, history one period short.
DelayFloor   == (Rate * 15) \div 4000
HistoryShort == CeilDiv(Rate * 15, 1000) * 2

Delay    == CeilDiv(Rate * 15, 4000)   \* 3.75 ms of lookahead
MinPitch == CeilDiv(Rate * 5, 1000)
MaxPitch == CeilDiv(Rate * 15, 1000)
History  == MaxPitch * 3 + Delay
Analysis == CeilDiv(Rate * 20, 1000)
TenMs    == CeilDiv(Rate * 10, 1000)
FourMs   == CeilDiv(Rate * 4, 1000)

ASSUME LostLimitAssumption == LostLimit \in Nat /\ LostLimit > TenMs * 2

VARIABLES
  history,     \* origin of each history slot
  real,        \* real flags of the samples in the delay line
  next, delayed,
  wave,        \* the oscillator and its recovery
  out,         \* origin and flag of the sample played last
  inside       \* history variable: every access so far stayed in its buffer

vars == <<history, real, next, delayed, wave, out, inside>>

\* A slot is zero, received or synthesised, until it is played; it is stale
\* if it outlived a reset, and rewritten if it changes after it was played.
Origin == {"zero", "real", "synth", "played", "stale", "rewritten"}
Slot   == 0..(History - 1)
Wave   == [pitch : 0..MaxPitch, cycle : 0..(MaxPitch * 3), phase : 0..(MaxPitch * 3),
           lost : 0..LostLimit, overlapLeft : 0..Delay,
           recoveryLeft : 0..TenMs, recoveryLength : 0..TenMs,
           frozenStale : BOOLEAN, overlapStale : BOOLEAN]

Init ==
  /\ history = [i \in Slot |-> "zero"] /\ real = [i \in 0..(Delay - 1) |-> FALSE]
  /\ next = 0 /\ delayed = 0
  /\ wave = [pitch |-> 0, cycle |-> 0, phase |-> 0, lost |-> 0, overlapLeft |-> 0,
             recoveryLeft |-> 0, recoveryLength |-> 0,
             frozenStale |-> FALSE, overlapStale |-> FALSE]
  /\ out = [origin |-> "zero", real |-> FALSE]
  /\ inside = TRUE

-----------------------------------------------------------------------------
(* The oscillator.                                                         *)

Quarter(w) == w.pitch \div 4

\* smooth_cycle_tail joins the tail to the quarter in front of one cycle.
TailInside(w) == w.cycle + Quarter(w) <= History
\* One continued sample, blended with the overlap while there is one.
ContinuationInside(w) == w.cycle <= History /\ w.phase < w.cycle
SubstitutionInside(w) ==
  ContinuationInside(w) /\ w.overlapLeft <= Quarter(w) /\ w.overlapLeft <= Delay

SoundsStale(w) == w.frozenStale \/ (w.overlapLeft # 0 /\ w.overlapStale)

\* Mutant of Substitution: the phase runs past the cycle.
SubstitutionUnwrapped(w) ==
  [w EXCEPT !.phase = @ + 1, !.overlapLeft = IF @ # 0 THEN @ - 1 ELSE @]
Substitution(w) ==
  [w EXCEPT !.phase = (@ + 1) % w.cycle,
            !.overlapLeft = IF @ # 0 THEN @ - 1 ELSE @]

\* The frozen copy is as stale as the history it is taken from.
Freeze(w, pitch) ==
  [w EXCEPT !.pitch = pitch, !.cycle = pitch, !.phase = 0, !.overlapLeft = 0,
            !.frozenStale = \E i \in Slot : history[i] = "stale"]
FreezeInside(w) ==
  /\ Analysis + MaxPitch <= History
  /\ Quarter(w) <= Delay
  /\ TailInside(w)

\* Whole periods are taken off the phase while it exceeds one.
Expand(w) ==
  [w EXCEPT !.phase = IF @ > w.pitch THEN ((@ - 1) % w.pitch) + 1 ELSE @,
            !.cycle = @ + w.pitch, !.overlapLeft = Quarter(w),
            !.overlapStale = w.frozenStale]
ExpandInside(w) ==
  ContinuationInside(w) /\ Quarter(w) <= Delay /\ TailInside(Expand(w))

\* Mutant of Expands: one sample early.
ExpandsEarly(w) == w.lost + 1 \in {TenMs, TenMs * 2}
Expands(w) == w.lost \in {TenMs, TenMs * 2}

\* recover decides the length of the blend when the loss ends.
RecoveryLength(w) ==
  LET length == Quarter(w) + (CeilDiv(w.lost, TenMs) - 1) * FourMs
  IN  IF length < TenMs THEN length ELSE TenMs

Returning(w) ==
  IF w.lost = 0 THEN w
  ELSE [w EXCEPT !.recoveryLength = RecoveryLength(w), !.recoveryLeft = RecoveryLength(w),
                 !.lost = 0]

-----------------------------------------------------------------------------
(* The calls.                                                              *)

\* Play the slot that is Delay samples old and put a new one in front.
Exchange(slots, origin, flag) ==
  LET oldest == (next + History - Delay) % History
  IN  /\ out' = [origin |-> slots[oldest], real |-> real[delayed]]
      /\ history' = [slots EXCEPT ![oldest] = "played", ![next] = origin]
      /\ real' = [real EXCEPT ![delayed] = flag]
      /\ next' = (next + 1) % History
      /\ delayed' = (delayed + 1) % Delay

\* begin_loss also blends the last quarter period in the delay line.
Rewrite(quarter) ==
  [i \in Slot |->
     IF /\ i \in {(next + History - quarter + k) % History : k \in 0..(quarter - 1)}
        /\ history[i] = "played"
     THEN "rewritten" ELSE history[i]]

\* process(None): detect_pitch may find any lag it searches.
ConcealFirst ==
  /\ wave.lost = 0
  /\ \E pitch \in MinPitch..MaxPitch :
       LET frozen == Freeze([wave EXCEPT !.recoveryLeft = 0], pitch)
       IN  /\ wave' = [Substitution(frozen) EXCEPT !.lost = 1]
           /\ inside' = (inside /\ FreezeInside(frozen) /\ SubstitutionInside(frozen))
           /\ Exchange(Rewrite(Quarter(frozen)),
                       IF SoundsStale(frozen) THEN "stale" ELSE "synth", FALSE)

ConcealOn ==
  /\ wave.lost # 0
  /\ LET expands == Expands(wave)
         widened == IF expands THEN Expand(wave) ELSE wave
     IN  /\ wave' = [Substitution(widened) EXCEPT
                       !.recoveryLeft = 0,
                       !.lost = IF @ < LostLimit THEN @ + 1 ELSE @]
         /\ inside' = (inside /\ (expands => ExpandInside(wave)) /\ SubstitutionInside(widened))
         /\ Exchange(history, IF SoundsStale(widened) THEN "stale" ELSE "synth", FALSE)

\* process(Some): real PCM, blended out of the substituted wave after a loss.
Receive ==
  LET returning == Returning(wave)
  IN  \/ /\ returning.recoveryLeft = 0
         /\ wave' = returning /\ inside' = inside
         /\ Exchange(history, "real", TRUE)
      \/ /\ returning.recoveryLeft # 0
         /\ wave' = [Substitution(returning) EXCEPT !.recoveryLeft = @ - 1]
         /\ inside' = (inside /\ SubstitutionInside(returning))
         /\ Exchange(history, IF SoundsStale(returning) THEN "stale" ELSE "real", TRUE)

DrainSample == Exchange(history, "zero", FALSE) /\ UNCHANGED <<wave, inside>>

\* Mutant of Reset: the delay line is not cleared.
ResetKeepsLine ==
  /\ history' = [i \in Slot |-> "stale"] /\ real' = [i \in 0..(Delay - 1) |-> FALSE]
  /\ next' = 0 /\ delayed' = 0
  /\ wave' = [wave EXCEPT !.lost = 0, !.recoveryLeft = 0,
                          !.frozenStale = TRUE, !.overlapStale = TRUE]
  /\ out' = [origin |-> "zero", real |-> FALSE] /\ inside' = inside
\* Mutant of Reset: a recovery goes on behind the reset.
ResetKeepsRecovery ==
  /\ history' = [i \in Slot |-> "zero"] /\ real' = [i \in 0..(Delay - 1) |-> FALSE]
  /\ next' = 0 /\ delayed' = 0
  /\ wave' = [wave EXCEPT !.lost = 0, !.frozenStale = TRUE, !.overlapStale = TRUE]
  /\ out' = [origin |-> "zero", real |-> FALSE] /\ inside' = inside
\* Frozen history and overlap stay behind, for the next loss to replace.
Reset ==
  /\ history' = [i \in Slot |-> "zero"] /\ real' = [i \in 0..(Delay - 1) |-> FALSE]
  /\ next' = 0 /\ delayed' = 0
  /\ wave' = [wave EXCEPT !.lost = 0, !.recoveryLeft = 0,
                          !.frozenStale = TRUE, !.overlapStale = TRUE]
  /\ out' = [origin |-> "zero", real |-> FALSE] /\ inside' = inside

Next == ConcealFirst \/ ConcealOn \/ Receive \/ DrainSample \/ Reset

Spec == Init /\ [][Next]_vars

-----------------------------------------------------------------------------
(* Properties.                                                             *)

TypeOK ==
  /\ history \in [Slot -> Origin] /\ real \in [0..(Delay - 1) -> BOOLEAN]
  /\ next \in Slot /\ delayed \in 0..(Delay - 1)
  /\ wave \in Wave /\ out \in [origin : Origin, real : BOOLEAN] /\ inside \in BOOLEAN

\* No sequence of losses, recoveries and resets takes an access outside the
\* buffers, whose sizes are rounded separately from the output rate.
IndexSafe == inside

\* Every history slot is played once, Delay calls after it was written, with
\* the flag written beside it; nothing that a reset left behind is heard.
PlayedInStep ==
  /\ out.origin \in {"zero", "real", "synth"}
  /\ out.real <=> out.origin = "real"

\* The retrospective blend at the start of a loss stays in the lookahead: it
\* never changes a sample that was played already.
LookaheadOnly == \A i \in Slot : history[i] # "rewritten"

\* A loss repeats one period for 10 ms, two up to 20 ms, then three.
PeriodsInStep ==
  wave.lost # 0 =>
    wave.cycle = wave.pitch * (IF wave.lost <= TenMs THEN 1
                               ELSE IF wave.lost <= TenMs * 2 THEN 2 ELSE 3)
=============================================================================
