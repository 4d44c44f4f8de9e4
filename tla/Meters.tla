-------------------------------- MODULE Meters --------------------------------
(***************************************************************************)
(* What the renderer measures: the occupancy average and the correction of *)
(* the conversion ratio it steers (refill_output in src/ring.rs), and the  *)
(* average of consecutive missing outputs (record_shortfall).              *)
(*                                                                         *)
(* One action is one output.  An output from the cache measures nothing;   *)
(* one that refills it measures the occupancy first.  The ratio is a float *)
(* and its filter moves by a 512th: here the correction goes anywhere      *)
(* between where it is and where it is steered to, standing still included.*)
(* It is counted from the nominal ratio in units of a thousandth of it     *)
(* divided by Target * Milli, and a larger correction is a larger ratio.   *)
(***************************************************************************)
EXTENDS Integers

CONSTANTS
  Milli,          \* 1000: the average counts thousandths of a sample
  Weight,         \* 128: share of the difference one measurement moves it by
  Target,         \* occupancy the ratio is steered to
  MaxLevel,       \* bound: largest occupancy, workspace and adapter included
  Below, Above,   \* room between nominal and the limits of the adapter
  Micro,          \* 1000000: the shortfall average counts millionths
  Window,         \* ten seconds of outputs
  RunMax          \* stands for u64::MAX, where the run saturates

ASSUME MeterAssumption ==
  /\ Milli \in Nat \ {0} /\ Weight \in Nat \ {0} /\ Target \in Nat /\ MaxLevel \in Nat \ {0}
  /\ Below \in Nat /\ Above \in Nat
  /\ Micro \in Nat \ {0} /\ Window \in Nat \ {0} /\ RunMax \in Nat \ {0}

VARIABLES
  average,        \* occupancy_milli, 0 while nothing is measured
  correction,     \* of ratio, from nominal
  steered,        \* ratio is set
  finite,         \* a finite burst ends: its tail is not measured
  consecutive, shortfall,
  \* History variables: extremes and last of the occupancies since the reset.
  low, high, level

steering == <<average, correction, steered>>
measured == <<low, high, level>>
losses   == <<consecutive, shortfall>>
vars == <<steering, finite, losses, measured>>

Levels == 0..MaxLevel
Lesser(a, b)  == IF a < b THEN a ELSE b
Greater(a, b) == IF a > b THEN a ELSE b
Clamp(x, a, b) == Lesser(Greater(x, a), b)
\* Integer division rounds towards zero.
Toward0(a, b) == IF a >= 0 THEN a \div b ELSE -((-a) \div b)

Init ==
  /\ average = 0 /\ correction = 0 /\ steered = FALSE /\ finite = FALSE
  /\ consecutive = 0 /\ shortfall = 0
  /\ low = 0 /\ high = 0 /\ level = 0

-----------------------------------------------------------------------------
(* Steering.                                                               *)

\* Mutant of Step: the average moves half as fast, and halts twice as far out.
StepHalf(occupancy) ==
  IF average = 0 THEN occupancy ELSE average + Toward0(occupancy - average, 2 * Weight)
Step(occupancy) ==
  IF average = 0 THEN occupancy ELSE average + Toward0(occupancy - average, Weight)

\* More in stock than the target asks for fewer outputs from each sample.
Desired(a) ==
  Clamp(IF Target = 0 THEN 0 ELSE -Clamp(a - Target * Milli, -Target * Milli, Target * Milli),
        -Below, Above)

Between(a, b) == Lesser(a, b)..Greater(a, b)

Steer(occupancy) ==
  /\ average' = Step(occupancy)
  /\ steered' = TRUE
  /\ IF steered THEN correction' \in Between(correction, Desired(average')) ELSE correction' = 0

\* Mutant of Measures: the emptying tail of a burst is measured too.
MeasuresTail(samples) == samples # 0
Measures(samples) == samples # 0 /\ ~finite

Measure(samples) ==
  LET occupancy == samples * Milli
  IN  \/ /\ Measures(samples)
         /\ Steer(occupancy)
         /\ IF finite THEN UNCHANGED measured
            ELSE /\ low' = IF level = 0 THEN occupancy ELSE Lesser(low, occupancy)
                 /\ high' = Greater(high, occupancy)
                 /\ level' = samples
      \/ /\ ~Measures(samples)
         /\ steered' = TRUE /\ UNCHANGED <<average, correction, measured>>

-----------------------------------------------------------------------------
(* Losses.                                                                 *)

\* Mutant of Precision: the average counts whole samples.
PrecisionOfSamples == 1
Precision == Micro

\* Mutant of Moved: the average is rounded to the nearest step.
MovedRounded(run) == (2 * (shortfall * Window + run * Precision - shortfall) + Window) \div (2 * Window)
\* The float sum is cut off, not rounded.
Moved(run) == (shortfall * Window + run * Precision - shortfall) \div Window

\* record_shortfall.
Record(missing) ==
  /\ consecutive' = IF missing THEN Lesser(consecutive + 1, RunMax) ELSE 0
  /\ shortfall' = Moved(consecutive')

\* An output from the cache, which an earlier refill has filled, one that needs
\* a refill, or one whose refill fails or starves before it measures.
RenderCached(missing) ==
  /\ steered
  /\ Record(missing)
  /\ UNCHANGED <<steering, finite, measured>>
RenderRefilled(samples, missing) ==
  /\ Measure(samples)
  /\ Record(missing)
  /\ UNCHANGED finite
RenderFailed ==
  /\ ~finite
  /\ Record(TRUE)
  /\ UNCHANGED <<steering, finite, measured>>

BurstEnds ==
  /\ ~finite
  /\ finite' = TRUE
  /\ UNCHANGED <<steering, losses, measured>>

\* Mutant of StateReset: the next burst starts at the last one's ratio.
ResetKeepsRatio ==
  /\ average' = 0 /\ finite' = FALSE /\ UNCHANGED <<correction, steered>>
  /\ low' = 0 /\ high' = 0 /\ level' = 0
StateReset ==
  /\ average' = 0 /\ finite' = FALSE /\ correction' = 0 /\ steered' = FALSE
  /\ low' = 0 /\ high' = 0 /\ level' = 0

Complete == finite /\ StateReset /\ Record(FALSE)
ConsumerReset == StateReset /\ UNCHANGED losses

Render ==
  \/ \E missing \in BOOLEAN : RenderCached(missing)
  \/ \E samples \in Levels, missing \in BOOLEAN : RenderRefilled(samples, missing)
  \/ RenderFailed \/ Complete

Next == Render \/ BurstEnds \/ ConsumerReset

\* A stream that goes on: the host keeps rendering a ring that is not quiet or
\* unprimed, whose silence counts nothing; so outputs go on, an occupancy that
\* stays is measured again and again, and a finish is settled (PendingSettles).
Fairness ==
  /\ WF_vars(Render)
  /\ \A samples \in Levels :
       WF_vars(level = samples /\ ~finite /\ \E missing \in BOOLEAN : RenderRefilled(samples, missing))
  /\ WF_vars(Complete)

Spec == Init /\ [][Next]_vars /\ Fairness

-----------------------------------------------------------------------------
(* Properties.                                                             *)

\* The average lies among the occupancies of the open part of this burst: no
\* rounding, no earlier burst and no emptying tail carries it outside.
AverageInHull == IF level = 0 THEN average = 0 ELSE low <= average /\ average <= high

\* The ratio leaves nominal only for cause: as long as no occupancy of the burst
\* was below target no output is stretched, and none is shortened while none was above.
CorrectionForCause ==
  /\ correction > 0 => low < Target * Milli
  /\ correction < 0 => high > Target * Milli

\* A loss shows in the average at once.  Window <= Micro is an output rate of at
\* most 100 kHz; above that one missing output is rounded to nothing.
ShortfallVisible == consecutive > 0 => shortfall > 0

\* If the occupancy stays the average comes to rest within a step's resolution of it.
Near(samples) ==
  /\ average - samples * Milli < Weight
  /\ samples * Milli - average < Weight
AverageSettles == \A samples \in Levels \ {0} : <>[](level = samples) => <>[]Near(samples)

\* When losses cease and the stream goes on the average returns to zero, however
\* long the run was.
ShortfallForgotten == <>[](consecutive = 0) => <>[](shortfall = 0)
=============================================================================
