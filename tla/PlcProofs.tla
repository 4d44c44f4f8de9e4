------------------------------ MODULE PlcProofs ------------------------------
(***************************************************************************)
(* Theorems about Plc, for every output rate: the buffers, whose sizes are *)
(* rounded one by one from the rate, hold every access of every sequence   *)
(* of losses, recoveries and resets.                                       *)
(***************************************************************************)
EXTENDS Plc, TLAPS

-----------------------------------------------------------------------------
(* The sizes, as far as their rounding matters.                            *)

LEMMA Sizes ==
  /\ Delay \in Nat /\ MinPitch \in Nat /\ MaxPitch \in Nat /\ History \in Nat
  /\ TenMs \in Nat /\ FourMs \in Nat /\ Analysis \in Nat /\ LostLimit \in Nat
  /\ Delay >= 1 /\ MinPitch >= 1 /\ MinPitch <= MaxPitch /\ TenMs >= 1
  /\ History = MaxPitch * 3 + Delay /\ LostLimit > TenMs * 2
<1>1. Rate \in Nat /\ Rate >= 1
  BY RateAssumption
<1>2. Delay \in Nat /\ Delay >= 1
  BY <1>1 DEF Delay, CeilDiv
<1>3. /\ MinPitch \in Nat /\ MinPitch >= 1 /\ MaxPitch \in Nat
      /\ MinPitch <= MaxPitch
  BY <1>1 DEF MinPitch, MaxPitch, CeilDiv
<1>4. TenMs \in Nat /\ TenMs >= 1 /\ FourMs \in Nat /\ Analysis \in Nat
  BY <1>1 DEF TenMs, FourMs, Analysis, CeilDiv
<1>5. History = MaxPitch * 3 + Delay /\ History \in Nat
  BY <1>2, <1>3 DEF History
<1> QED BY <1>2, <1>3, <1>4, <1>5, LostLimitAssumption

\* A quarter of a period fits the lookahead, and what is analysed the history.
LEMMA Roundings ==
  /\ MaxPitch <= 4 * Delay
  /\ Analysis <= 2 * MaxPitch
<1>1. Rate \in Nat /\ Rate >= 1
  BY RateAssumption
<1>2. MaxPitch <= 4 * Delay
  BY <1>1 DEF MaxPitch, Delay, CeilDiv
<1>3. Analysis <= 2 * MaxPitch
  BY <1>1 DEF MaxPitch, Analysis, CeilDiv
<1> QED BY <1>2, <1>3

LEMMA QuarterFits ==
  ASSUME NEW pitch \in 0..MaxPitch
  PROVE  pitch \div 4 \in 0..Delay
BY Sizes, Roundings

-----------------------------------------------------------------------------
(* Arithmetic of a ring.                                                   *)

LEMMA Remainder ==
  ASSUME NEW x \in Nat, NEW n \in Nat, n >= 1
  PROVE  x % n \in 0..(n - 1)
OBVIOUS

LEMMA Wrap ==
  ASSUME NEW n \in Nat, NEW x \in 0..(n - 1)
  PROVE  x % n = x /\ (x + n) % n = x
<1>1. x % n = x
  OBVIOUS
<1>2. (x + n) % n = x
  OBVIOUS
<1> QED BY <1>1, <1>2

\* The place k steps behind place i in a ring of n.
LEMMA BackIs ==
  ASSUME NEW n \in Nat, NEW i \in 0..(n - 1), NEW k \in 0..n
  PROVE  (i + n - k) % n = IF k <= i THEN i - k ELSE i + n - k
<1>1. CASE k <= i
  <2>1. i - k \in 0..(n - 1) /\ i + n - k = (i - k) + n
    BY <1>1
  <2>2. ((i - k) + n) % n = i - k
    BY <2>1, Wrap
  <2> QED BY <1>1, <2>1, <2>2
<1>2. CASE ~(k <= i)
  <2>1. i + n - k \in 0..(n - 1)
    BY <1>2
  <2>2. (i + n - k) % n = i + n - k
    BY <2>1, Wrap
  <2> QED BY <1>2, <2>2
<1> QED BY <1>1, <1>2

LEMMA ForwardIs ==
  ASSUME NEW n \in Nat, NEW i \in 0..(n - 1)
  PROVE  (i + 1) % n = IF i + 1 = n THEN 0 ELSE i + 1
<1>1. CASE i + 1 = n
  <2>1. 0 \in 0..(n - 1) /\ i + 1 = 0 + n
    BY <1>1
  <2>2. (0 + n) % n = 0
    BY <2>1, Wrap
  <2> QED BY <1>1, <2>1, <2>2
<1>2. CASE i + 1 # n
  <2>1. i + 1 \in 0..(n - 1)
    BY <1>2
  <2> QED BY <1>2, <2>1, Wrap
<1> QED BY <1>1, <1>2

\* One place behind the next one is the present one, and a step back from the
\* present place is two steps back from the next.
LEMMA BackFromNext ==
  ASSUME NEW n \in Nat, NEW i \in 0..(n - 1), NEW j \in Int, j = (i + 1) % n
  PROVE  /\ j \in 0..(n - 1)
         /\ (j + n - 1) % n = i
         /\ \A k \in 1..(n - 1) : (j + n - (k + 1)) % n = (i + n - k) % n
<1>1. j = IF i + 1 = n THEN 0 ELSE i + 1
  BY ForwardIs
<1>2. j \in 0..(n - 1)
  BY <1>1
<1>3. (j + n - 1) % n = i
  <2>1. (j + n - 1) % n = IF 1 <= j THEN j - 1 ELSE j + n - 1
    BY <1>2, BackIs
  <2> QED BY <1>1, <2>1
<1>4. ASSUME NEW k \in 1..(n - 1)
      PROVE  (j + n - (k + 1)) % n = (i + n - k) % n
  <2>1. (j + n - (k + 1)) % n = IF k + 1 <= j THEN j - (k + 1) ELSE j + n - (k + 1)
    BY <1>2, BackIs
  <2>2. (i + n - k) % n = IF k <= i THEN i - k ELSE i + n - k
    BY BackIs
  <2> QED BY <1>1, <2>1, <2>2
<1> QED BY <1>2, <1>3, <1>4

\* Different steps back lead to different places, none of them to the start.
LEMMA BackDiffers ==
  ASSUME NEW n \in Nat, NEW i \in 0..(n - 1), NEW k \in 1..(n - 1), NEW l \in 1..(n - 1)
  PROVE  /\ (i + n - k) % n \in 0..(n - 1) /\ (i + n - k) % n # i
         /\ k # l => (i + n - k) % n # (i + n - l) % n
<1>1. (i + n - k) % n = IF k <= i THEN i - k ELSE i + n - k
  BY BackIs
<1>2. (i + n - l) % n = IF l <= i THEN i - l ELSE i + n - l
  BY BackIs
<1> QED BY <1>1, <1>2

-----------------------------------------------------------------------------
(* The delay line.  The youngest Delay samples wait to be played, each in  *)
(* the slot that many calls back and with its flag beside it; no slot ever *)
(* holds what a reset left behind.                                         *)

Waiting == {"zero", "real", "synth"}
Line(k) == history[(next + History - k) % History]
Flag(k) == real[(delayed + Delay - k) % Delay]

LineTypes ==
  /\ history \in [Slot -> Origin] /\ real \in [0..(Delay - 1) -> BOOLEAN]
  /\ next \in Slot /\ delayed \in 0..(Delay - 1)
  /\ out \in [origin : Origin, real : BOOLEAN]

LineInv ==
  /\ LineTypes
  /\ \A k \in 1..Delay : Line(k) \in Waiting /\ (Flag(k) <=> Line(k) = "real")
  /\ \A i \in Slot : history[i] \notin {"stale", "rewritten"}
  /\ PlayedInStep

\* One sample goes out and one comes in.
LEMMA ExchangeLine ==
  ASSUME LineInv, NEW origin \in Waiting, NEW flag \in BOOLEAN, flag <=> origin = "real",
         Exchange(history, origin, flag)
  PROVE  LineInv'
<1> DEFINE H == History
           D == Delay
           oldest == (next + H - D) % H
<1>0. /\ H \in Nat /\ D \in Nat /\ D >= 1 /\ D < H
      /\ next \in 0..(H - 1) /\ delayed \in 0..(D - 1)
      /\ history \in [0..(H - 1) -> Origin] /\ real \in [0..(D - 1) -> BOOLEAN]
  BY Sizes DEF LineInv, LineTypes, Slot
<1>1. /\ out' = [origin |-> history[oldest], real |-> real[delayed]]
      /\ history' = [history EXCEPT ![oldest] = "played", ![next] = origin]
      /\ real' = [real EXCEPT ![delayed] = flag]
      /\ next' = (next + 1) % H
      /\ delayed' = (delayed + 1) % D
  BY DEF Exchange
<1>2. /\ \A k \in 1..D : history[(next + H - k) % H] \in Waiting
      /\ \A k \in 1..D : real[(delayed + D - k) % D] <=> history[(next + H - k) % H] = "real"
      /\ \A i \in 0..(H - 1) : history[i] \notin {"stale", "rewritten"}
  BY DEF LineInv, Line, Flag, Slot
<1>3. "played" \in Origin /\ origin \in Origin /\ origin \notin {"stale", "rewritten"}
  BY DEF Origin, Waiting
<1>4. Slot = 0..(H - 1) /\ Waiting = {"zero", "real", "synth"}
  BY DEF Slot, Waiting
<1> HIDE DEF H, D
<1>5. oldest \in 0..(H - 1) /\ oldest # next
  BY <1>0, BackDiffers
<1>6. /\ next' \in 0..(H - 1) /\ (next' + H - 1) % H = next
      /\ \A k \in 1..(H - 1) : (next' + H - (k + 1)) % H = (next + H - k) % H
  <2>1. H \in Nat /\ next \in 0..(H - 1) /\ next' = (next + 1) % H
    BY <1>0, <1>1
  <2>2. next' \in Int
    BY <2>1, ForwardIs
  <2> QED BY <2>1, <2>2, BackFromNext
<1>7. /\ delayed' \in 0..(D - 1) /\ (delayed' + D - 1) % D = delayed
      /\ \A k \in 1..(D - 1) : (delayed' + D - (k + 1)) % D = (delayed + D - k) % D
  <2>1. D \in Nat /\ delayed \in 0..(D - 1) /\ delayed' = (delayed + 1) % D
    BY <1>0, <1>1
  <2>2. delayed' \in Int
    BY <2>1, ForwardIs
  <2> QED BY <2>1, <2>2, BackFromNext
<1>8. /\ history' \in [0..(H - 1) -> Origin] /\ real' \in [0..(D - 1) -> BOOLEAN]
      /\ history'[next] = origin /\ real'[delayed] = flag
      /\ \A i \in 0..(H - 1) : i \notin {oldest, next} => history'[i] = history[i]
      /\ history'[oldest] = "played"
      /\ \A i \in 0..(D - 1) : i # delayed => real'[i] = real[i]
  BY <1>0, <1>1, <1>3, <1>5
<1>9. /\ history[oldest] \in Waiting
      /\ real[delayed] <=> history[oldest] = "real"
  <2>1. (delayed + D - D) % D = delayed
    <3>1. (delayed + D - D) % D = IF D <= delayed THEN delayed - D ELSE delayed + D - D
      <4>1. D \in Nat /\ delayed \in 0..(D - 1) /\ D \in 0..D
        BY <1>0
      <4> QED BY <4>1, BackIs
    <3>2. ~(D <= delayed) /\ delayed + D - D = delayed
      BY <1>0
    <3> QED BY <3>1, <3>2
  <2>2. D \in 1..D
    BY <1>0
  <2> QED BY <1>2, <2>1, <2>2
<1> HIDE DEF oldest
<1>10. out' \in [origin : Origin, real : BOOLEAN] /\ PlayedInStep'
  <2>1. history[oldest] \in Origin /\ real[delayed] \in BOOLEAN
    BY <1>0, <1>5
  <2>2. out'.origin = history[oldest] /\ out'.real = real[delayed]
    BY <1>1
  <2> QED BY <1>1, <1>4, <1>9, <2>1, <2>2 DEF PlayedInStep
<1>11. \A i \in 0..(H - 1) : history'[i] \notin {"stale", "rewritten"}
  <2> SUFFICES ASSUME NEW i \in 0..(H - 1) PROVE history'[i] \notin {"stale", "rewritten"}
    OBVIOUS
  <2>1. CASE i = next
    BY <1>3, <1>8, <2>1
  <2>2. CASE i = oldest
    BY <1>8, <2>2
  <2>3. CASE i \notin {oldest, next}
    BY <1>2, <1>8, <2>3
  <2> QED BY <2>1, <2>2, <2>3
<1>12. ASSUME NEW k \in 1..D
       PROVE  /\ history'[(next' + H - k) % H] \in Waiting
              /\ real'[(delayed' + D - k) % D] <=> history'[(next' + H - k) % H] = "real"
  <2>1. CASE k = 1
    BY <1>6, <1>7, <1>8, <2>1
  <2>2. CASE k # 1
    <3> DEFINE j == k - 1
               i == (next + H - j) % H
               d == (delayed + D - j) % D
    <3>1. j \in 1..(D - 1) /\ j \in 1..(H - 1) /\ D \in 1..(H - 1) /\ j # D /\ k = j + 1
          /\ j \in 1..D
      BY <1>0, <2>2
    <3>2. (next' + H - k) % H = i /\ (delayed' + D - k) % D = d
      BY <1>6, <1>7, <3>1
    <3>3. i \in 0..(H - 1) /\ i # next /\ i # oldest
      BY <1>0, <3>1, BackDiffers DEF oldest
    <3>4. d \in 0..(D - 1) /\ d # delayed
      BY <1>0, <3>1, BackDiffers
    <3>5. history[i] \in Waiting /\ (real[d] <=> history[i] = "real")
      BY <1>2, <3>1
    <3>6. history'[i] = history[i] /\ real'[d] = real[d]
      BY <1>8, <3>3, <3>4
    <3> QED BY <3>2, <3>5, <3>6
  <2> QED BY <2>1, <2>2
<1>13. LineTypes'
  BY <1>4, <1>6, <1>7, <1>8, <1>10 DEF LineTypes, H, D
<1>14. \A k \in 1..Delay : Line(k)' \in Waiting /\ (Flag(k)' <=> Line(k)' = "real")
  BY <1>12 DEF Line, Flag, H, D
<1> QED BY <1>4, <1>10, <1>11, <1>13, <1>14 DEF LineInv, H, D

\* The blend at the start of a loss reaches back over samples that still wait.
LEMMA RewritesNothing ==
  ASSUME LineInv, NEW quarter \in 0..Delay
  PROVE  Rewrite(quarter) = history
<1>1. /\ history \in [Slot -> Origin] /\ next \in 0..(History - 1)
      /\ \A k \in 1..Delay : history[(next + History - k) % History] \in Waiting
  BY DEF LineInv, LineTypes, Line, Slot
<1>2. ASSUME NEW k \in 0..(quarter - 1)
      PROVE  history[(next + History - quarter + k) % History] # "played"
  <2>1. quarter - k \in 1..Delay /\ next + History - quarter + k = next + History - (quarter - k)
    BY <1>1, Sizes
  <2>2. history[(next + History - (quarter - k)) % History] \in Waiting
    BY <1>1, <2>1
  <2> QED BY <2>1, <2>2 DEF Waiting
<1>3. \A i \in Slot : Rewrite(quarter)[i] = history[i]
  BY <1>2 DEF Rewrite
<1>4. Rewrite(quarter) = [i \in Slot |-> Rewrite(quarter)[i]]
  BY DEF Rewrite
<1> QED BY <1>1, <1>3, <1>4

LEMMA ResetLine ==
  ASSUME Init \/ Reset
  PROVE  /\ Init => LineInv
         /\ Reset => LineInv'
<1>1. 0 \in Slot /\ 0 \in 0..(Delay - 1) /\ "zero" \in Origin /\ Slot = 0..(History - 1)
  BY Sizes DEF Slot, Origin
<1>2. /\ [i \in Slot |-> "zero"] \in [Slot -> Origin]
      /\ [i \in 0..(Delay - 1) |-> FALSE] \in [0..(Delay - 1) -> BOOLEAN]
      /\ [origin |-> "zero", real |-> FALSE] \in [origin : Origin, real : BOOLEAN]
  BY <1>1
<1>3. \A k \in 1..Delay : /\ (0 + History - k) % History \in Slot
                          /\ (0 + Delay - k) % Delay \in 0..(Delay - 1)
  <2> SUFFICES ASSUME NEW k \in 1..Delay
               PROVE  /\ (0 + History - k) % History \in Slot
                      /\ (0 + Delay - k) % Delay \in 0..(Delay - 1)
    OBVIOUS
  <2>1. 0 + History - k \in Nat /\ 0 + Delay - k \in Nat /\ History >= 1
    BY Sizes
  <2> QED BY <1>1, <2>1, Remainder, Sizes
<1>4. Init => LineInv
  <2> SUFFICES ASSUME Init PROVE LineInv
    OBVIOUS
  <2>1. /\ history = [i \in Slot |-> "zero"] /\ real = [i \in 0..(Delay - 1) |-> FALSE]
        /\ next = 0 /\ delayed = 0 /\ out = [origin |-> "zero", real |-> FALSE]
    BY DEF Init
  <2>2. \A k \in 1..Delay : Line(k) = "zero" /\ Flag(k) = FALSE
    BY <1>3, <2>1 DEF Line, Flag
  <2> QED BY <1>1, <1>2, <2>1, <2>2 DEF LineInv, LineTypes, Waiting, PlayedInStep
<1>5. Reset => LineInv'
  <2> SUFFICES ASSUME Reset PROVE LineInv'
    OBVIOUS
  <2>1. /\ history' = [i \in Slot |-> "zero"] /\ real' = [i \in 0..(Delay - 1) |-> FALSE]
        /\ next' = 0 /\ delayed' = 0 /\ out' = [origin |-> "zero", real |-> FALSE]
    BY DEF Reset
  <2>2. \A k \in 1..Delay : Line(k)' = "zero" /\ Flag(k)' = FALSE
    BY <1>3, <2>1 DEF Line, Flag
  <2> QED BY <1>1, <1>2, <2>1, <2>2 DEF LineInv, LineTypes, Waiting, PlayedInStep
<1> QED BY <1>4, <1>5

-----------------------------------------------------------------------------
(* The oscillator.  While it sounds, in a loss or in the recovery from it, *)
(* its cycle is one to three whole periods and its phase lies inside it.   *)

Sounding(w) == w.lost # 0 \/ w.recoveryLeft # 0
Shape(w) ==
  /\ w.pitch >= MinPitch
  /\ w.cycle \in {w.pitch, w.pitch * 2, w.pitch * 3}
  /\ w.phase < w.cycle
  /\ w.overlapLeft <= Quarter(w)
  /\ ~w.frozenStale /\ (w.overlapLeft # 0 => ~w.overlapStale)

WaveInv ==
  /\ wave \in Wave /\ inside = TRUE
  /\ Sounding(wave) => Shape(wave)
  /\ PeriodsInStep

LEMMA WaveFields ==
  ASSUME NEW w \in Wave
  PROVE  /\ w.pitch \in 0..MaxPitch /\ w.cycle \in 0..(MaxPitch * 3)
         /\ w.phase \in 0..(MaxPitch * 3) /\ w.lost \in 0..LostLimit
         /\ w.overlapLeft \in 0..Delay
         /\ w.recoveryLeft \in 0..TenMs /\ w.recoveryLength \in 0..TenMs
         /\ w.frozenStale \in BOOLEAN /\ w.overlapStale \in BOOLEAN
         /\ Quarter(w) \in 0..Delay
<1>1. w.pitch \in 0..MaxPitch
  BY DEF Wave
<1>2. Quarter(w) \in 0..Delay
  BY <1>1, QuarterFits DEF Quarter
<1> QED BY <1>1, <1>2 DEF Wave

\* Counters of loss and recovery do not matter for the shape.
LEMMA ShapeOf ==
  ASSUME NEW v, NEW w, Shape(w),
         v.pitch = w.pitch, v.cycle = w.cycle, v.phase = w.phase,
         v.overlapLeft = w.overlapLeft, v.frozenStale = w.frozenStale,
         v.overlapStale = w.overlapStale
  PROVE  Shape(v)
BY DEF Shape, Quarter

LEMMA ShapeInside ==
  ASSUME NEW w \in Wave, Shape(w)
  PROVE  SubstitutionInside(w) /\ ContinuationInside(w) /\ TailInside(w) /\ ~SoundsStale(w)
<1>1. /\ w.cycle \in 0..(MaxPitch * 3) /\ Quarter(w) \in 0..Delay
      /\ w.overlapLeft \in 0..Delay
  BY WaveFields
<1>2. w.cycle + Quarter(w) <= History /\ w.cycle <= History
  BY <1>1, Sizes
<1>3. w.phase < w.cycle /\ w.overlapLeft <= Quarter(w) /\ w.overlapLeft <= Delay
  BY <1>1 DEF Shape
<1>4. ~SoundsStale(w)
  BY DEF Shape, SoundsStale
<1> QED BY <1>2, <1>3, <1>4 DEF SubstitutionInside, ContinuationInside, TailInside

LEMMA SubstitutionShape ==
  ASSUME NEW w \in Wave, Shape(w)
  PROVE  /\ Substitution(w) \in Wave /\ Shape(Substitution(w))
         /\ Substitution(w).pitch = w.pitch /\ Substitution(w).cycle = w.cycle
         /\ Substitution(w).lost = w.lost
         /\ Substitution(w).recoveryLeft = w.recoveryLeft
<1> DEFINE phase == (w.phase + 1) % w.cycle
           left == IF w.overlapLeft # 0 THEN w.overlapLeft - 1 ELSE w.overlapLeft
<1>1. /\ w.cycle \in Nat /\ w.phase \in Nat /\ w.phase < w.cycle /\ w.cycle <= MaxPitch * 3
      /\ w.overlapLeft \in 0..Delay /\ w.overlapLeft <= Quarter(w) /\ Quarter(w) \in 0..Delay
  BY WaveFields, Sizes DEF Shape
<1>2. phase \in 0..(MaxPitch * 3) /\ phase < w.cycle
  <2>1. w.phase + 1 \in Nat /\ w.cycle >= 1
    BY <1>1
  <2>2. phase \in 0..(w.cycle - 1)
    BY <1>1, <2>1, Remainder
  <2> HIDE DEF phase
  <2> QED BY <1>1, <2>2, Sizes
<1>3. /\ left \in 0..Delay /\ left <= Quarter(w) /\ (left # 0 => w.overlapLeft # 0)
  BY <1>1, Sizes
<1>4. Substitution(w) = [w EXCEPT !.phase = phase, !.overlapLeft = left]
  BY DEF Substitution
<1> HIDE DEF phase, left
<1>5. /\ Substitution(w) \in Wave
      /\ Substitution(w).pitch = w.pitch /\ Substitution(w).cycle = w.cycle
      /\ Substitution(w).lost = w.lost /\ Substitution(w).recoveryLeft = w.recoveryLeft
      /\ Substitution(w).phase = phase /\ Substitution(w).overlapLeft = left
      /\ Substitution(w).frozenStale = w.frozenStale
      /\ Substitution(w).overlapStale = w.overlapStale
  BY <1>2, <1>3, <1>4 DEF Wave
<1>6. Shape(Substitution(w))
  BY <1>2, <1>3, <1>5 DEF Shape, Quarter
<1> QED BY <1>5, <1>6

LEMMA FreezeShape ==
  ASSUME NEW w \in Wave, NEW pitch \in MinPitch..MaxPitch,
         \A i \in Slot : history[i] # "stale"
  PROVE  LET frozen == Freeze(w, pitch)
         IN  /\ frozen \in Wave /\ Shape(frozen) /\ FreezeInside(frozen)
             /\ frozen.pitch = pitch /\ frozen.cycle = pitch
             /\ frozen.lost = w.lost /\ frozen.recoveryLeft = w.recoveryLeft
<1> DEFINE frozen == Freeze(w, pitch)
<1>1. frozen = [w EXCEPT !.pitch = pitch, !.cycle = pitch, !.phase = 0, !.overlapLeft = 0,
                         !.frozenStale = FALSE]
  BY DEF Freeze
<1>2. /\ pitch \in 0..MaxPitch /\ pitch \in 0..(MaxPitch * 3) /\ pitch >= MinPitch /\ pitch > 0
      /\ 0 \in 0..(MaxPitch * 3) /\ 0 \in 0..Delay
  BY Sizes
<1> HIDE DEF frozen
<1>3. /\ frozen \in Wave
      /\ frozen.pitch = pitch /\ frozen.cycle = pitch /\ frozen.phase = 0
      /\ frozen.overlapLeft = 0 /\ frozen.frozenStale = FALSE
      /\ frozen.lost = w.lost /\ frozen.recoveryLeft = w.recoveryLeft
  BY <1>1, <1>2 DEF Wave
<1>4. Quarter(frozen) \in 0..Delay
  BY <1>3, WaveFields
<1>5. Shape(frozen)
  BY <1>2, <1>3, <1>4 DEF Shape
<1>6. FreezeInside(frozen)
  <2>1. Analysis + MaxPitch <= History
    BY Sizes, Roundings
  <2>2. TailInside(frozen)
    BY <1>3, <1>5, ShapeInside
  <2> QED BY <1>4, <2>1, <2>2, Sizes DEF FreezeInside
<1> QED BY <1>3, <1>5, <1>6 DEF frozen

LEMMA ExpandShape ==
  ASSUME NEW w \in Wave, Shape(w), w.cycle \in {w.pitch, w.pitch * 2}
  PROVE  /\ Expand(w) \in Wave /\ Shape(Expand(w)) /\ ExpandInside(w)
         /\ Expand(w).pitch = w.pitch /\ Expand(w).cycle = w.cycle + w.pitch
         /\ Expand(w).lost = w.lost /\ Expand(w).recoveryLeft = w.recoveryLeft
<1> DEFINE phase == IF w.phase > w.pitch THEN ((w.phase - 1) % w.pitch) + 1 ELSE w.phase
           cycle == w.cycle + w.pitch
<1>1. /\ w.pitch \in Nat /\ w.pitch >= 1 /\ w.pitch <= MaxPitch /\ w.phase \in Nat
      /\ w.cycle \in Nat /\ Quarter(w) \in 0..Delay /\ ~w.frozenStale /\ w.frozenStale \in BOOLEAN
      /\ w.pitch >= MinPitch
  BY WaveFields, Sizes DEF Shape
<1>2. phase \in Nat /\ phase <= w.pitch
  <2>1. CASE w.phase > w.pitch
    <3>1. w.phase - 1 \in Nat
      BY <1>1, <2>1
    <3>2. (w.phase - 1) % w.pitch \in 0..(w.pitch - 1)
      BY <1>1, <3>1, Remainder
    <3>3. phase = ((w.phase - 1) % w.pitch) + 1
      BY <2>1
    <3> HIDE DEF phase
    <3> QED BY <1>1, <3>2, <3>3
  <2>2. CASE ~(w.phase > w.pitch)
    BY <1>1, <2>2
  <2> QED BY <2>1, <2>2
<1>3. Expand(w) = [w EXCEPT !.phase = phase, !.cycle = cycle, !.overlapLeft = Quarter(w),
                            !.overlapStale = w.frozenStale]
  BY DEF Expand
<1>4. cycle \in {w.pitch * 2, w.pitch * 3} /\ cycle = w.cycle + w.pitch
  BY <1>1
<1> HIDE DEF phase, cycle
<1>5. cycle \in 0..(MaxPitch * 3) /\ phase \in 0..(MaxPitch * 3) /\ phase < cycle
  BY <1>1, <1>2, <1>4, Sizes
<1>6. /\ Expand(w) \in Wave
      /\ Expand(w).pitch = w.pitch /\ Expand(w).cycle = cycle /\ Expand(w).phase = phase
      /\ Expand(w).overlapLeft = Quarter(w) /\ Expand(w).frozenStale = w.frozenStale
      /\ Expand(w).overlapStale = w.frozenStale
      /\ Expand(w).lost = w.lost /\ Expand(w).recoveryLeft = w.recoveryLeft
  BY <1>1, <1>3, <1>5 DEF Wave
<1>7. Quarter(Expand(w)) = Quarter(w)
  BY <1>6 DEF Quarter
<1>8. Shape(Expand(w))
  BY <1>1, <1>4, <1>5, <1>6, <1>7 DEF Shape
<1>9. ExpandInside(w)
  BY <1>1, <1>6, <1>8, ShapeInside DEF ExpandInside
<1> QED BY <1>4, <1>6, <1>8, <1>9

\* A recovery is at most ten milliseconds long.
LEMMA ReturningShape ==
  ASSUME NEW w \in Wave, Sounding(w) => Shape(w)
  PROVE  /\ Returning(w) \in Wave /\ Returning(w).lost = 0
         /\ Sounding(Returning(w)) => Shape(Returning(w))
<1>1. CASE w.lost = 0
  <2>1. Returning(w) = w
    BY <1>1 DEF Returning
  <2> QED BY <1>1, <2>1
<1>2. CASE w.lost # 0
  <2>1. w.lost \in Nat /\ w.lost >= 1 /\ Quarter(w) \in 0..Delay
    BY <1>2, WaveFields, Sizes
  <2>2. CeilDiv(w.lost, TenMs) \in Nat /\ CeilDiv(w.lost, TenMs) >= 1
    <3>1. \A a, b \in Nat : a >= 1 /\ b >= 1 => (a + b - 1) \div b \in Nat /\ (a + b - 1) \div b >= 1
      OBVIOUS
    <3> QED BY <2>1, <3>1, Sizes DEF CeilDiv
  <2>3. RecoveryLength(w) \in 0..TenMs
    <3> DEFINE length == Quarter(w) + (CeilDiv(w.lost, TenMs) - 1) * FourMs
    <3>1. (CeilDiv(w.lost, TenMs) - 1) * FourMs \in Nat
      <4>1. CeilDiv(w.lost, TenMs) - 1 \in Nat
        BY <2>2
      <4> QED BY <4>1, Sizes
    <3>2. length \in Nat
      BY <2>1, <3>1, Sizes
    <3>3. RecoveryLength(w) = IF length < TenMs THEN length ELSE TenMs
      BY DEF RecoveryLength
    <3> HIDE DEF length
    <3> QED BY <3>2, <3>3, Sizes
  <2> DEFINE length == RecoveryLength(w)
  <2>4. Returning(w) = [w EXCEPT !.recoveryLength = length, !.recoveryLeft = length, !.lost = 0]
    BY <1>2 DEF Returning
  <2> HIDE DEF length
  <2>5. length \in 0..TenMs
    BY <2>3 DEF length
  <2>6. /\ Returning(w) \in Wave /\ Returning(w).lost = 0
        /\ Returning(w).pitch = w.pitch /\ Returning(w).cycle = w.cycle
        /\ Returning(w).phase = w.phase /\ Returning(w).overlapLeft = w.overlapLeft
        /\ Returning(w).frozenStale = w.frozenStale
        /\ Returning(w).overlapStale = w.overlapStale
    <3>1. 0 \in 0..LostLimit
      BY Sizes
    <3> QED BY <2>4, <2>5, <3>1 DEF Wave
  <2>7. Shape(w)
    BY <1>2 DEF Sounding
  <2> QED BY <2>6, <2>7, ShapeOf
<1> QED BY <1>1, <1>2

-----------------------------------------------------------------------------
(* The calls.                                                              *)

PlcInv == LineInv /\ WaveInv

LEMMA ConcealFirstStep ==
  ASSUME PlcInv, ConcealFirst
  PROVE  PlcInv'
<1>0. /\ wave \in Wave /\ inside = TRUE /\ \A i \in Slot : history[i] # "stale"
  BY DEF PlcInv, LineInv, WaveInv
<1>1. PICK pitch \in MinPitch..MaxPitch :
        LET frozen == Freeze([wave EXCEPT !.recoveryLeft = 0], pitch)
        IN  /\ wave' = [Substitution(frozen) EXCEPT !.lost = 1]
            /\ inside' = (inside /\ FreezeInside(frozen) /\ SubstitutionInside(frozen))
            /\ Exchange(Rewrite(Quarter(frozen)),
                        IF SoundsStale(frozen) THEN "stale" ELSE "synth", FALSE)
  BY DEF ConcealFirst
<1> DEFINE quiet == [wave EXCEPT !.recoveryLeft = 0]
           frozen == Freeze(quiet, pitch)
           played == Substitution(frozen)
<1>2. quiet \in Wave
  <2>1. 0 \in 0..TenMs
    BY Sizes
  <2> QED BY <1>0, <2>1 DEF Wave
<1>3. /\ wave' = [played EXCEPT !.lost = 1]
      /\ inside' = (inside /\ FreezeInside(frozen) /\ SubstitutionInside(frozen))
      /\ Exchange(Rewrite(Quarter(frozen)),
                  IF SoundsStale(frozen) THEN "stale" ELSE "synth", FALSE)
  BY <1>1
<1> HIDE DEF quiet
<1>4. /\ frozen \in Wave /\ Shape(frozen) /\ FreezeInside(frozen)
      /\ frozen.pitch = pitch /\ frozen.cycle = pitch
  BY <1>0, <1>2, FreezeShape
<1> HIDE DEF frozen
<1>5. SubstitutionInside(frozen) /\ ~SoundsStale(frozen) /\ Quarter(frozen) \in 0..Delay
  BY <1>4, ShapeInside, WaveFields
<1>6. /\ played \in Wave /\ Shape(played) /\ played.pitch = pitch /\ played.cycle = pitch
  BY <1>4, SubstitutionShape
<1> HIDE DEF played
<1>7. /\ wave' \in Wave /\ wave'.lost = 1 /\ wave'.pitch = pitch /\ wave'.cycle = pitch
      /\ wave'.phase = played.phase /\ wave'.overlapLeft = played.overlapLeft
      /\ wave'.frozenStale = played.frozenStale /\ wave'.overlapStale = played.overlapStale
  <2>1. 1 \in 0..LostLimit
    BY Sizes
  <2> QED BY <1>3, <1>6, <2>1 DEF Wave
<1>8. Shape(wave')
  BY <1>6, <1>7, ShapeOf
<1>9. PeriodsInStep'
  <2>1. wave'.lost <= TenMs /\ pitch \in Nat
    BY <1>7, Sizes
  <2>2. pitch * 1 = pitch
    BY <2>1
  <2> QED BY <1>7, <2>1, <2>2 DEF PeriodsInStep
<1>10. inside' = TRUE
  BY <1>0, <1>3, <1>4, <1>5
<1>11. Exchange(history, "synth", FALSE)
  BY <1>3, <1>5, RewritesNothing DEF PlcInv
<1>12. LineInv'
  BY <1>11, ExchangeLine DEF PlcInv, Waiting
<1> QED BY <1>7, <1>8, <1>9, <1>10, <1>12 DEF PlcInv, WaveInv

LEMMA ConcealOnStep ==
  ASSUME PlcInv, ConcealOn
  PROVE  PlcInv'
<1>0. /\ wave \in Wave /\ inside = TRUE /\ wave.lost # 0 /\ Shape(wave) /\ PeriodsInStep
  BY DEF PlcInv, WaveInv, ConcealOn, Sounding
<1> DEFINE widened == IF Expands(wave) THEN Expand(wave) ELSE wave
           played == Substitution(widened)
           lost == IF wave.lost < LostLimit THEN wave.lost + 1 ELSE wave.lost
           periods(n) == IF n <= TenMs THEN 1 ELSE IF n <= TenMs * 2 THEN 2 ELSE 3
<1>1. /\ wave' = [played EXCEPT !.recoveryLeft = 0,
                                !.lost = IF @ < LostLimit THEN @ + 1 ELSE @]
      /\ inside' = (inside /\ (Expands(wave) => ExpandInside(wave))
                           /\ SubstitutionInside(widened))
      /\ Exchange(history, IF SoundsStale(widened) THEN "stale" ELSE "synth", FALSE)
  BY DEF ConcealOn
<1>2. /\ wave.pitch \in Nat /\ wave.lost \in 0..LostLimit
      /\ wave.cycle = wave.pitch * periods(wave.lost)
  BY <1>0, WaveFields, Sizes DEF PeriodsInStep
<1>3. /\ Expands(wave) => wave.cycle \in {wave.pitch, wave.pitch * 2}
      /\ Expands(wave) => wave.cycle + wave.pitch = wave.pitch * periods(lost)
      /\ ~Expands(wave) => wave.cycle = wave.pitch * periods(lost)
      /\ lost \in 0..LostLimit
  <2>1. CASE wave.lost = TenMs
    <3>1. periods(wave.lost) = 1 /\ periods(lost) = 2 /\ lost \in 0..LostLimit /\ Expands(wave)
      BY <2>1, Sizes DEF Expands
    <3>2. wave.pitch * 1 = wave.pitch /\ wave.pitch + wave.pitch = wave.pitch * 2
      BY <1>2
    <3> HIDE DEF periods, lost
    <3> QED BY <1>2, <3>1, <3>2
  <2>2. CASE wave.lost = TenMs * 2
    <3>1. periods(wave.lost) = 2 /\ periods(lost) = 3 /\ lost \in 0..LostLimit /\ Expands(wave)
      BY <2>2, Sizes DEF Expands
    <3>2. wave.pitch * 2 + wave.pitch = wave.pitch * 3
      BY <1>2
    <3> HIDE DEF periods, lost
    <3> QED BY <1>2, <3>1, <3>2
  <2>3. CASE wave.lost \notin {TenMs, TenMs * 2}
    <3>1. periods(lost) = periods(wave.lost) /\ lost \in 0..LostLimit /\ ~Expands(wave)
      BY <1>2, <2>3, Sizes DEF Expands
    <3> HIDE DEF periods, lost
    <3> QED BY <1>2, <3>1
  <2> QED BY <2>1, <2>2, <2>3
<1> HIDE DEF periods
<1>4. /\ widened \in Wave /\ Shape(widened)
      /\ Expands(wave) => ExpandInside(wave)
      /\ widened.pitch = wave.pitch /\ widened.cycle = wave.pitch * periods(lost)
      /\ widened.lost = wave.lost
  <2>1. CASE Expands(wave)
    <3>1. /\ Expand(wave) \in Wave /\ Shape(Expand(wave)) /\ ExpandInside(wave)
          /\ Expand(wave).pitch = wave.pitch /\ Expand(wave).cycle = wave.cycle + wave.pitch
          /\ Expand(wave).lost = wave.lost
      BY <1>0, <1>3, <2>1, ExpandShape
    <3>2. widened = Expand(wave)
      BY <2>1
    <3> HIDE DEF widened, lost
    <3> QED BY <1>3, <2>1, <3>1, <3>2
  <2>2. CASE ~Expands(wave)
    <3>1. widened = wave
      BY <2>2
    <3> HIDE DEF widened, lost
    <3> QED BY <1>0, <1>3, <2>2, <3>1
  <2> QED BY <2>1, <2>2
<1> HIDE DEF widened
<1>5. SubstitutionInside(widened) /\ ~SoundsStale(widened)
  BY <1>4, ShapeInside
<1>6. /\ played \in Wave /\ Shape(played) /\ played.pitch = wave.pitch
      /\ played.cycle = wave.pitch * periods(lost) /\ played.lost = wave.lost
  BY <1>4, SubstitutionShape
<1> HIDE DEF played
<1>7. wave' = [played EXCEPT !.recoveryLeft = 0, !.lost = lost]
  BY <1>1, <1>6
<1>8. lost \in 0..LostLimit /\ lost # 0
  BY <1>0, <1>2, <1>3, Sizes
<1> HIDE DEF lost
<1>9. /\ wave' \in Wave /\ wave'.lost = lost /\ wave'.pitch = played.pitch
      /\ wave'.cycle = played.cycle
      /\ wave'.phase = played.phase /\ wave'.overlapLeft = played.overlapLeft
      /\ wave'.frozenStale = played.frozenStale /\ wave'.overlapStale = played.overlapStale
  <2>1. 0 \in 0..TenMs
    BY Sizes
  <2> QED BY <1>6, <1>7, <1>8, <2>1 DEF Wave
<1>10. Shape(wave')
  BY <1>6, <1>9, ShapeOf
<1>11. PeriodsInStep'
  BY <1>6, <1>9 DEF PeriodsInStep, periods
<1>12. inside' = TRUE
  BY <1>0, <1>1, <1>4, <1>5
<1>13. LineInv'
  <2>1. Exchange(history, "synth", FALSE)
    BY <1>1, <1>5
  <2> QED BY <2>1, ExchangeLine DEF PlcInv, Waiting
<1> QED BY <1>9, <1>10, <1>11, <1>12, <1>13 DEF PlcInv, WaveInv

LEMMA ReceiveStep ==
  ASSUME PlcInv, Receive
  PROVE  PlcInv'
<1> DEFINE returning == Returning(wave)
<1>0. wave \in Wave /\ inside = TRUE /\ (Sounding(wave) => Shape(wave))
  BY DEF PlcInv, WaveInv
<1>1. \/ /\ returning.recoveryLeft = 0
         /\ wave' = returning /\ inside' = inside
         /\ Exchange(history, "real", TRUE)
      \/ /\ returning.recoveryLeft # 0
         /\ wave' = [Substitution(returning) EXCEPT !.recoveryLeft = @ - 1]
         /\ inside' = (inside /\ SubstitutionInside(returning))
         /\ Exchange(history, IF SoundsStale(returning) THEN "stale" ELSE "real", TRUE)
  BY DEF Receive
<1>2. /\ returning \in Wave /\ returning.lost = 0
      /\ Sounding(returning) => Shape(returning)
  BY <1>0, ReturningShape
<1> HIDE DEF returning
<1>3. Exchange(history, "real", TRUE) => LineInv'
  BY ExchangeLine DEF PlcInv, Waiting
<1>4. CASE /\ returning.recoveryLeft = 0
           /\ wave' = returning /\ inside' = inside
           /\ Exchange(history, "real", TRUE)
  <2>1. WaveInv'
    BY <1>0, <1>2, <1>4 DEF WaveInv, PeriodsInStep
  <2> QED BY <1>3, <1>4, <2>1 DEF PlcInv
<1>5. CASE /\ returning.recoveryLeft # 0
           /\ wave' = [Substitution(returning) EXCEPT !.recoveryLeft = @ - 1]
           /\ inside' = (inside /\ SubstitutionInside(returning))
           /\ Exchange(history, IF SoundsStale(returning) THEN "stale" ELSE "real", TRUE)
  <2> DEFINE played == Substitution(returning)
  <2>1. Shape(returning) /\ SubstitutionInside(returning) /\ ~SoundsStale(returning)
    BY <1>2, <1>5, ShapeInside DEF Sounding
  <2>2. /\ played \in Wave /\ Shape(played) /\ played.lost = 0
        /\ played.recoveryLeft = returning.recoveryLeft
    BY <1>2, <2>1, SubstitutionShape
  <2>3. wave' = [played EXCEPT !.recoveryLeft = played.recoveryLeft - 1]
    BY <1>5
  <2> HIDE DEF played
  <2>4. played.recoveryLeft - 1 \in 0..TenMs
    <3>1. returning.recoveryLeft \in 0..TenMs
      BY <1>2, WaveFields
    <3> QED BY <1>5, <2>2, <3>1, Sizes
  <2>5. /\ wave' \in Wave /\ wave'.lost = 0 /\ wave'.pitch = played.pitch
        /\ wave'.cycle = played.cycle
        /\ wave'.phase = played.phase /\ wave'.overlapLeft = played.overlapLeft
        /\ wave'.frozenStale = played.frozenStale /\ wave'.overlapStale = played.overlapStale
    BY <2>2, <2>3, <2>4 DEF Wave
  <2>6. Shape(wave')
    BY <2>2, <2>5, ShapeOf
  <2>7. inside' = TRUE
    BY <1>0, <1>5, <2>1
  <2>8. WaveInv'
    BY <2>5, <2>6, <2>7 DEF WaveInv, PeriodsInStep
  <2>9. LineInv'
    BY <1>3, <1>5, <2>1
  <2> QED BY <2>8, <2>9 DEF PlcInv
<1> QED BY <1>1, <1>4, <1>5

\* The delay line trails the history by the lookahead and the oscillator keeps its
\* phase, cycle and overlap within its sizes, in every reachable state.
THEOREM PlcInvariance == Spec => []PlcInv
<1>1. Init => PlcInv
  <2> SUFFICES ASSUME Init PROVE PlcInv
    OBVIOUS
  <2>1. LineInv
    BY ResetLine
  <2>2. wave = [pitch |-> 0, cycle |-> 0, phase |-> 0, lost |-> 0, overlapLeft |-> 0,
                recoveryLeft |-> 0, recoveryLength |-> 0,
                frozenStale |-> FALSE, overlapStale |-> FALSE] /\ inside = TRUE
    BY DEF Init
  <2>3. wave \in Wave
    <3>1. 0 \in 0..MaxPitch /\ 0 \in 0..(MaxPitch * 3) /\ 0 \in 0..LostLimit
          /\ 0 \in 0..Delay /\ 0 \in 0..TenMs
      BY Sizes
    <3> QED BY <2>2, <3>1 DEF Wave
  <2>4. wave.lost = 0 /\ wave.recoveryLeft = 0
    BY <2>2
  <2> QED BY <2>1, <2>2, <2>3, <2>4 DEF PlcInv, WaveInv, Sounding, PeriodsInStep
<1>2. PlcInv /\ Reset => PlcInv'
  <2> SUFFICES ASSUME PlcInv, Reset PROVE PlcInv'
    OBVIOUS
  <2>1. LineInv'
    BY ResetLine
  <2>2. /\ wave' = [wave EXCEPT !.lost = 0, !.recoveryLeft = 0,
                                !.frozenStale = TRUE, !.overlapStale = TRUE]
        /\ inside' = inside /\ wave \in Wave /\ inside = TRUE
    BY DEF Reset, PlcInv, WaveInv
  <2>3. wave' \in Wave /\ wave'.lost = 0 /\ wave'.recoveryLeft = 0
    <3>1. 0 \in 0..LostLimit /\ 0 \in 0..TenMs
      BY Sizes
    <3> QED BY <2>2, <3>1 DEF Wave
  <2> QED BY <2>1, <2>2, <2>3 DEF PlcInv, WaveInv, Sounding, PeriodsInStep
<1>3. PlcInv /\ DrainSample => PlcInv'
  <2> SUFFICES ASSUME PlcInv, DrainSample PROVE PlcInv'
    OBVIOUS
  <2>1. LineInv'
    BY ExchangeLine DEF DrainSample, PlcInv, Waiting
  <2>2. WaveInv'
    BY DEF DrainSample, PlcInv, WaveInv, PeriodsInStep
  <2> QED BY <2>1, <2>2 DEF PlcInv
<1>4. PlcInv /\ UNCHANGED vars => PlcInv'
  BY DEF vars, PlcInv, LineInv, LineTypes, Line, Flag, WaveInv, PeriodsInStep, PlayedInStep
<1>5. PlcInv /\ [Next]_vars => PlcInv'
  BY <1>2, <1>3, <1>4, ConcealFirstStep, ConcealOnStep, ReceiveStep DEF Next
<1> QED BY <1>1, <1>5, PTL DEF Spec

\* Every variable keeps its type at every output rate.
THEOREM TypeCorrect == Spec => []TypeOK
<1>1. PlcInv => TypeOK
  BY DEF PlcInv, LineInv, LineTypes, WaveInv, TypeOK
<1> QED BY <1>1, PlcInvariance, PTL

\* No sequence of losses, recoveries and resets of any length reads or writes
\* outside the buffers, although each size is rounded from the rate by itself.
THEOREM IndexSafeHolds == Spec => []IndexSafe
<1>1. PlcInv => IndexSafe
  BY DEF PlcInv, WaveInv, IndexSafe
<1> QED BY <1>1, PlcInvariance, PTL

\* Each sample is played once, the lookahead later, with the flag it came with,
\* and nothing that a reset left behind is heard.
THEOREM PlayedInStepHolds == Spec => []PlayedInStep
<1>1. PlcInv => PlayedInStep
  BY DEF PlcInv, LineInv
<1> QED BY <1>1, PlcInvariance, PTL

\* The blend at the start of a loss never changes what was played already.
THEOREM LookaheadOnlyHolds == Spec => []LookaheadOnly
<1>1. PlcInv => LookaheadOnly
  BY DEF PlcInv, LineInv, LookaheadOnly
<1> QED BY <1>1, PlcInvariance, PTL

\* A loss repeats one, two and then three periods, at 10 ms and 20 ms of it,
\* also when the counter of lost samples has saturated.
THEOREM PeriodsInStepHolds == Spec => []PeriodsInStep
<1>1. PlcInv => PeriodsInStep
  BY DEF PlcInv, WaveInv
<1> QED BY <1>1, PlcInvariance, PTL
=============================================================================
