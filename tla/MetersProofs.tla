---------------------------- MODULE MetersProofs ----------------------------
(***************************************************************************)
(* Theorems about what the renderer measures, for every weight, unit,      *)
(* target, adapter limit and window, and for every history of occupancies. *)
(***************************************************************************)
EXTENDS Meters, TLAPS

-----------------------------------------------------------------------------
(* Arithmetic.                                                             *)

\* A quotient lies between nothing and its dividend.
LEMMA QuotientBounds ==
  ASSUME NEW a \in Nat, NEW b \in Nat \ {0}
  PROVE  a \div b \in 0..a
OBVIOUS

\* A dividend as large as the divisor leaves a quotient.
LEMMA QuotientPositive ==
  ASSUME NEW a \in Nat, NEW b \in Nat \ {0}, b <= a
  PROVE  a \div b >= 1
OBVIOUS

\* A whole multiple is at least what is multiplied.
LEMMA MultipleBound ==
  ASSUME NEW a \in Nat, NEW b \in Nat \ {0}
  PROVE  a * b \in Nat /\ a * b >= a
<1>1. PICK c \in Nat : b = c + 1
  <2> WITNESS b - 1 \in Nat
  <2> QED OBVIOUS
<1>2. a * c \in Nat
  OBVIOUS
<1>3. a * b = a * c + a
  BY <1>1
<1> QED BY <1>2, <1>3

\* One measurement moves the average towards the occupancy and not past it.
LEMMA StepBetween ==
  ASSUME NEW occupancy \in Nat, average \in Nat, average # 0
  PROVE  Step(occupancy) \in Between(average, occupancy)
<1> USE MeterAssumption
<1>1. CASE occupancy >= average
  <2>1. (occupancy - average) \div Weight \in 0..(occupancy - average)
    BY <1>1, QuotientBounds
  <2> QED BY <1>1, <2>1 DEF Step, Toward0, Between, Lesser, Greater
<1>2. CASE occupancy < average
  <2>1. (-(occupancy - average)) \div Weight \in 0..(average - occupancy)
    <3>1. -(occupancy - average) = average - occupancy
      OBVIOUS
    <3> QED BY <1>2, <3>1, QuotientBounds
  <2> QED BY <1>2, <2>1 DEF Step, Toward0, Between, Lesser, Greater
<1> QED BY <1>1, <1>2

-----------------------------------------------------------------------------
(* The occupancy average and the correction.                               *)

Goal == Target * Milli

LEMMA GoalNat == Goal \in Nat
BY MeterAssumption DEF Goal

SteeringInv ==
  /\ average \in Nat /\ low \in Nat /\ high \in Nat /\ level \in Nat
  /\ correction \in Int
  /\ level = 0 => average = 0 /\ low = 0 /\ high = 0 /\ correction = 0
  /\ level # 0 => 0 < low /\ low <= average /\ average <= high
  /\ correction > 0 => low < Goal
  /\ correction < 0 => high > Goal

\* The ratio is steered to more outputs only below the target, and to fewer above.
LEMMA DesiredForCause ==
  ASSUME NEW a \in Nat
  PROVE  /\ Desired(a) \in Int
         /\ Desired(a) > 0 => a < Goal
         /\ Desired(a) < 0 => a > Goal
<1>1. Goal \in Nat
  BY GoalNat
<1>2. -Target * Milli = -Goal
  BY MeterAssumption DEF Goal
<1> QED BY <1>1, <1>2, MeterAssumption DEF Desired, Clamp, Lesser, Greater, Goal

\* A measurement keeps the average and the correction explained.
LEMMA SteerStep ==
  ASSUME SteeringInv, NEW samples \in Levels, ~finite, samples # 0, Measure(samples)
  PROVE  SteeringInv'
<1> DEFINE occupancy == samples * Milli
<1>1. samples \in Nat
  BY MeterAssumption DEF Levels
<1>2. occupancy \in Nat /\ occupancy > 0
  BY <1>1, MultipleBound, MeterAssumption
<1>3. /\ Steer(occupancy)
      /\ low' = IF level = 0 THEN occupancy ELSE Lesser(low, occupancy)
      /\ high' = Greater(high, occupancy)
      /\ level' = samples
  BY DEF Measure, Measures
<1> HIDE DEF occupancy
<1>4. /\ average' \in Nat /\ low' \in Nat /\ high' \in Nat
      /\ 0 < low' /\ low' <= average' /\ average' <= high'
  <2>1. CASE level = 0
    BY <2>1, <1>2, <1>3 DEF SteeringInv, Steer, Step, Greater
  <2>2. CASE level # 0
    <3>1. average \in Nat /\ average # 0
      BY <2>2 DEF SteeringInv
    <3>2. Step(occupancy) \in Between(average, occupancy)
      BY <3>1, <1>2, StepBetween
    <3>3. average' = Step(occupancy)
      BY <1>3 DEF Steer
    <3> QED BY <2>2, <3>1, <3>2, <3>3, <1>2, <1>3 DEF SteeringInv, Between, Lesser, Greater
  <2> QED BY <2>1, <2>2
<1>5. level # 0 => low' <= low /\ high' >= high
  BY <1>2, <1>3 DEF SteeringInv, Lesser, Greater
<1>6. /\ Desired(average') \in Int
      /\ Desired(average') > 0 => average' < Goal
      /\ Desired(average') < 0 => average' > Goal
  BY <1>4, DesiredForCause
<1>7. \/ correction' = 0
      \/ correction' \in Between(correction, Desired(average'))
  BY <1>3 DEF Steer
<1>8. Goal \in Nat
  BY GoalNat
<1>9. /\ correction' \in Int
      /\ correction' > 0 => low' < Goal
      /\ correction' < 0 => high' > Goal
  <2>1. CASE correction' = 0
    BY <2>1
  <2>2. CASE correction' \in Between(correction, Desired(average'))
    <3>1. /\ correction' \in Int
          /\ correction' > 0 => correction > 0 \/ Desired(average') > 0
          /\ correction' < 0 => correction < 0 \/ Desired(average') < 0
      BY <2>2, <1>6 DEF SteeringInv, Between, Lesser, Greater
    <3>2. correction # 0 => level # 0
      BY DEF SteeringInv
    <3> QED BY <3>1, <3>2, <1>4, <1>5, <1>6, <1>8 DEF SteeringInv
  <2> QED BY <1>7, <2>1, <2>2
<1>10. level' # 0 /\ level' \in Nat
  BY <1>1, <1>3 DEF SteeringInv
<1> QED BY <1>4, <1>9, <1>10 DEF SteeringInv

LEMMA SteeringStep ==
  ASSUME SteeringInv, [Next]_vars
  PROVE  SteeringInv'
<1>1. CASE \E missing \in BOOLEAN : RenderCached(missing)
  BY <1>1 DEF RenderCached, SteeringInv, steering, measured
<1>2. ASSUME NEW samples \in Levels, NEW missing \in BOOLEAN, RenderRefilled(samples, missing)
      PROVE  SteeringInv'
  <2>1. Measure(samples)
    BY <1>2 DEF RenderRefilled
  <2>2. CASE Measures(samples)
    BY <2>1, <2>2, SteerStep DEF Measures
  <2>3. CASE ~Measures(samples)
    BY <2>1, <2>3 DEF Measure, SteeringInv, measured
  <2> QED BY <2>2, <2>3
<1>3. CASE RenderFailed \/ BurstEnds
  BY <1>3 DEF RenderFailed, BurstEnds, SteeringInv, steering, measured
<1>4. CASE Complete \/ ConsumerReset
  <2>1. average' = 0 /\ low' = 0 /\ high' = 0 /\ level' = 0 /\ correction' = 0
    BY <1>4 DEF Complete, ConsumerReset, StateReset
  <2> QED BY <2>1, GoalNat DEF SteeringInv
<1>5. CASE UNCHANGED vars
  BY <1>5 DEF vars, SteeringInv, steering, measured
<1> QED BY <1>1, <1>2, <1>3, <1>4, <1>5 DEF Next, Render

\* What the averages and the correction may be, in every reachable state.
THEOREM SteeringInvariance == Spec => []SteeringInv
<1>1. Init => SteeringInv
  BY GoalNat DEF Init, SteeringInv
<1>2. SteeringInv /\ [Next]_vars => SteeringInv'
  BY SteeringStep
<1> QED BY <1>1, <1>2, PTL DEF Spec

\* No rounding, no earlier burst and no emptying tail carries the average out of
\* the occupancies measured (refill_output), whatever the weight.
THEOREM AverageInHullHolds == Spec => []AverageInHull
<1>1. SteeringInv => AverageInHull
  BY DEF SteeringInv, AverageInHull
<1> QED BY <1>1, SteeringInvariance, PTL

\* The ratio is above or below nominal only if some occupancy of the burst was
\* below or above the target, whatever the target and the adapter's limits.
THEOREM CorrectionForCauseHolds == Spec => []CorrectionForCause
<1>1. SteeringInv => CorrectionForCause
  BY DEF SteeringInv, CorrectionForCause, Goal
<1> QED BY <1>1, SteeringInvariance, PTL

-----------------------------------------------------------------------------
(* The shortfall average.                                                  *)

LossInv ==
  /\ shortfall \in Nat /\ consecutive \in Nat
  /\ Window <= Micro /\ consecutive > 0 => shortfall > 0

\* record_shortfall keeps a natural average, and a loss of one in it.
LEMMA RecordStep ==
  ASSUME LossInv, NEW missing \in BOOLEAN, Record(missing)
  PROVE  LossInv'
<1> DEFINE run == consecutive'
           sum == shortfall * Window + run * Precision - shortfall
<1>1. run \in Nat
  BY MeterAssumption DEF LossInv, Record, Lesser
<1>2. shortfall \in Nat /\ shortfall * Window \in Nat /\ shortfall * Window >= shortfall
  BY MultipleBound, MeterAssumption DEF LossInv
<1>3. run * Micro \in Nat
  BY <1>1, MultipleBound, MeterAssumption
<1>4. sum \in Nat /\ sum >= run * Micro
  BY <1>2, <1>3 DEF Precision
<1>5. shortfall' = sum \div Window
  BY DEF Record, Moved
<1>6. shortfall' \in Nat
  <2> HIDE DEF sum
  <2> QED BY <1>4, <1>5, QuotientBounds, MeterAssumption
<1>7. ASSUME Window <= Micro, run > 0
      PROVE  shortfall' > 0
  <2> HIDE DEF sum, run
  <2>0. run \in Nat \ {0} /\ Micro \in Nat
    BY <1>1, <1>7, MeterAssumption
  <2>1. Micro * run \in Nat /\ Micro * run >= Micro
    BY <2>0, MultipleBound
  <2>2. Micro * run = run * Micro
    BY <2>0
  <2>3. Window <= sum
    BY <1>3, <1>4, <1>7, <2>1, <2>2, MeterAssumption
  <2>4. sum \div Window >= 1
    BY <1>4, <2>3, QuotientPositive, MeterAssumption
  <2> QED BY <1>5, <1>6, <2>4
<1> QED BY <1>1, <1>6, <1>7 DEF LossInv

LEMMA LossStep ==
  ASSUME LossInv, [Next]_vars
  PROVE  LossInv'
<1>1. CASE \E missing \in BOOLEAN : RenderCached(missing)
  BY <1>1, RecordStep DEF RenderCached
<1>2. CASE \E samples \in Levels, missing \in BOOLEAN : RenderRefilled(samples, missing)
  BY <1>2, RecordStep DEF RenderRefilled
<1>3. CASE RenderFailed
  BY <1>3, RecordStep DEF RenderFailed
<1>4. CASE Complete
  BY <1>4, RecordStep DEF Complete
<1>5. CASE BurstEnds \/ ConsumerReset \/ UNCHANGED vars
  BY <1>5 DEF BurstEnds, ConsumerReset, vars, losses, LossInv
<1> QED BY <1>1, <1>2, <1>3, <1>4, <1>5 DEF Next, Render

\* At every output rate up to 100 kHz (Window <= Micro) a loss shows in the
\* average of record_shortfall as long as the run of losses lasts.
THEOREM ShortfallVisibleHolds ==
  ASSUME Window <= Micro
  PROVE  Spec => []ShortfallVisible
<1>1. Init => LossInv
  BY DEF Init, LossInv
<1>2. LossInv /\ [Next]_vars => LossInv'
  BY LossStep
<1>3. LossInv => ShortfallVisible
  BY DEF LossInv, ShortfallVisible
<1> QED BY <1>1, <1>2, <1>3, PTL DEF Spec
=============================================================================
