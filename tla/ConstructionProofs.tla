-------------------------- MODULE ConstructionProofs --------------------------
(***************************************************************************)
(* Theorems about Construction, for any rings, limits and settings: what a *)
(* failing creation releases, what the out pointer tells, and that the     *)
(* settings that pass validation leave the headroom concealment needs.     *)
(***************************************************************************)
EXTENDS Construction, TLAPS

-----------------------------------------------------------------------------
(* The stores.  A running creation holds exactly what its steps have made, *)
(* next to what the rings of the host hold.                                *)

LastStep == 14
StepsDone(n) == {Steps[i] : i \in 1..(n - 1)}
Of(r, stores) == {r} \X stores
HostStores == UNION {Of(r, StoresOf(settings[r])) : r \in Owned}

ShapeInv ==
  /\ step \in 0..LastStep
  /\ Owned \subseteq Rings
  /\ \A r \in Owned : settings[r] \in Settings /\ Valid(settings[r])
  /\ step # 0 => /\ handle \in Rings \ Owned
                 /\ config \in Settings /\ Valid(config)
                 /\ out = NoRing /\ sound

HeldInv ==
  /\ step = 0 => held = HostStores
  /\ step # 0 => held = HostStores \cup Of(handle, StepsDone(step) \cap StoresOf(config))

ConstructionInv == ShapeInv /\ HeldInv /\ OutputContract

LEMMA StepNames ==
  /\ Len(Steps) = LastStep
  /\ Steps[LastStep] = "handle"
  /\ \A i \in 1..(LastStep - 1) : Steps[i] # "handle"
  /\ Stores \subseteq StepsDone(LastStep) \cup {"handle"}
<1>1. /\ Steps[1] = "validate" /\ Steps[2] = "plc" /\ Steps[3] = "storage" /\ Steps[4] = "input"
      /\ Steps[5] = "output" /\ Steps[6] = "converter" /\ Steps[7] = "reset"
      /\ Steps[8] = "output_delay" /\ Steps[9] = "input_delay" /\ Steps[10] = "gaps"
      /\ Steps[11] = "history" /\ Steps[12] = "mailbox" /\ Steps[13] = "positions"
      /\ Steps[14] = "handle" /\ Len(Steps) = 14
  BY DEF Steps
<1>2. \A i \in 1..13 : \/ i = 1 \/ i = 2 \/ i = 3 \/ i = 4 \/ i = 5 \/ i = 6 \/ i = 7 \/ i = 8
                       \/ i = 9 \/ i = 10 \/ i = 11 \/ i = 12 \/ i = 13
  OBVIOUS
<1>3. \A i \in 1..13 : Steps[i] # "handle"
  BY <1>1, <1>2
<1>4. \A i \in 1..13 : Steps[i] \in StepsDone(14)
  BY DEF StepsDone
<1>5. Stores \subseteq StepsDone(14) \cup {"handle"}
  <2>1. /\ "plc" \in StepsDone(14) /\ "storage" \in StepsDone(14) /\ "input" \in StepsDone(14)
        /\ "output" \in StepsDone(14) /\ "converter" \in StepsDone(14)
        /\ "gaps" \in StepsDone(14) /\ "history" \in StepsDone(14)
        /\ "mailbox" \in StepsDone(14) /\ "positions" \in StepsDone(14)
    BY <1>1, <1>4
  <2> QED BY <2>1 DEF Stores
<1> QED BY <1>1, <1>3, <1>5 DEF LastStep

\* One step more adds what it makes.
LEMMA StepDone ==
  ASSUME NEW n \in 1..LastStep
  PROVE  StepsDone(n + 1) = StepsDone(n) \cup {Steps[n]}
<1>1. 1..((n + 1) - 1) = 1..(n - 1) \cup {n}
  BY DEF LastStep
<1> QED BY <1>1 DEF StepsDone

\* What a creation drops is what it made.
LEMMA DropsItsOwn ==
  ASSUME ShapeInv, HeldInv, step # 0
  PROVE  held \ Dropped(handle) = HostStores
<1>1. handle \notin Owned /\ held = HostStores \cup Of(handle, StepsDone(step) \cap StoresOf(config))
  BY DEF ShapeInv, HeldInv
<1>2. \A store \in HostStores : store[1] \in Owned
  BY DEF HostStores, Of
<1>3. \A stores : \A store \in Of(handle, stores) : store[1] = handle
  BY DEF Of
<1> QED BY <1>1, <1>2, <1>3 DEF Dropped

\* Failing with the running creation, for a reason validation does not give.
LEMMA FailStep ==
  ASSUME ConstructionInv, step # 0, NEW error \in {"no_memory", "adapter_error"}, Fails(error)
  PROVE  ConstructionInv'
<1>1. /\ step' = 0 /\ result' = error /\ held' = held \ Dropped(handle)
      /\ UNCHANGED <<sound, out, settings>>
  BY DEF Fails, Returns
<1>2. out = NoRing
  BY DEF ConstructionInv, ShapeInv
<1>3. ShapeInv'
  BY <1>1 DEF ConstructionInv, ShapeInv, Owned, LastStep
<1>4. held' = HostStores'
  BY <1>1, DropsItsOwn DEF ConstructionInv, HostStores, Owned
<1>5. HeldInv'
  BY <1>1, <1>4 DEF HeldInv
<1>6. OutputContract'
  BY <1>1, <1>2 DEF OutputContract
<1> QED BY <1>3, <1>5, <1>6 DEF ConstructionInv

\* Going on to the next step with what this one made.
LEMMA GoStep ==
  ASSUME ConstructionInv, step # 0, step # LastStep, Goes,
         held' = held \cup Of(handle, {Steps[step]} \cap StoresOf(config))
  PROVE  ConstructionInv'
<1>1. step' = step + 1 /\ UNCHANGED <<config, handle, sound, out, result, settings>>
  BY DEF Goes
<1>2. step \in 1..LastStep /\ step' \in 1..LastStep /\ step' # 0
  BY <1>1 DEF ConstructionInv, ShapeInv, LastStep
<1>3. ShapeInv'
  BY <1>1, <1>2 DEF ConstructionInv, ShapeInv, Owned
<1>4. HeldInv'
  <2>1. held = HostStores \cup Of(handle, StepsDone(step) \cap StoresOf(config))
    BY DEF ConstructionInv, HeldInv
  <2>2. StepsDone(step') = StepsDone(step) \cup {Steps[step]}
    BY <1>1, <1>2, StepDone
  <2>3. \A a, b : Of(handle, a \cup b) = Of(handle, a) \cup Of(handle, b)
    BY DEF Of
  <2>4. StepsDone(step') \cap StoresOf(config)
          = (StepsDone(step) \cap StoresOf(config)) \cup ({Steps[step]} \cap StoresOf(config))
    BY <2>2
  <2>5. held' = HostStores \cup Of(handle, StepsDone(step') \cap StoresOf(config))
    BY <2>1, <2>3, <2>4
  <2>6. HostStores' = HostStores
    BY <1>1 DEF HostStores, Owned
  <2> QED BY <1>1, <1>2, <2>5, <2>6 DEF HeldInv
<1>5. OutputContract'
  BY <1>2 DEF OutputContract
<1> QED BY <1>3, <1>4, <1>5 DEF ConstructionInv

LEMMA CreateStep ==
  ASSUME ConstructionInv, NEW s \in Settings, NEW r \in Rings, Create(s, r)
  PROVE  ConstructionInv'
<1>1. step = 0 /\ r \notin Owned /\ UNCHANGED <<sound, held, settings>> /\ held = HostStores
  BY DEF Create, ConstructionInv, HeldInv
<1>2. HostStores' = HostStores /\ Owned' = Owned
  BY <1>1 DEF HostStores, Owned
<1>3. CASE step' = 0 /\ \/ out' = Untouched /\ result' = "invalid"
                        \/ out' = NoRing /\ result' = "adapter_error"
  <2>1. ShapeInv'
    BY <1>1, <1>2, <1>3 DEF ConstructionInv, ShapeInv, LastStep
  <2>2. HeldInv'
    BY <1>1, <1>2, <1>3 DEF HeldInv
  <2>3. OutputContract'
    BY <1>3 DEF OutputContract
  <2> QED BY <2>1, <2>2, <2>3 DEF ConstructionInv
<1>4. CASE /\ Valid(s) /\ sound /\ out' = NoRing
           /\ step' = 1 /\ config' = s /\ handle' = r /\ result' = "none"
  <2>1. ShapeInv'
    BY <1>1, <1>2, <1>4 DEF ConstructionInv, ShapeInv, LastStep
  <2>2. StepsDone(1) = {} /\ Of(r, {} \cap StoresOf(s)) = {}
    BY DEF StepsDone, Of
  <2>3. HeldInv'
    BY <1>1, <1>2, <1>4, <2>2 DEF HeldInv
  <2>4. OutputContract'
    BY <1>4 DEF OutputContract
  <2> QED BY <2>1, <2>3, <2>4 DEF ConstructionInv
<1> QED BY <1>3, <1>4 DEF Create, Returns, Checks

LEMMA PublishStep ==
  ASSUME ConstructionInv, Publish
  PROVE  ConstructionInv'
<1>1. step # 0 /\ step = LastStep
  <2>1. step # 0 /\ Steps[step] = "handle" /\ step \in 0..LastStep
    BY DEF Publish, At, ConstructionInv, ShapeInv
  <2>2. step \in 1..LastStep /\ (step = LastStep \/ step \in 1..(LastStep - 1))
    BY <2>1 DEF LastStep
  <2> QED BY <2>1, <2>2, StepNames
<1>2. CASE Fails("no_memory")
  BY <1>1, <1>2, FailStep
<1>3. CASE /\ held' = held \cup {<<handle, "handle">>}
           /\ out' = handle
           /\ settings' = [r \in Owned \cup {handle} |-> IF r = handle THEN config
                                                         ELSE settings[r]]
           /\ Returns("ok") /\ UNCHANGED sound
  <2>1. step' = 0 /\ result' = "ok" /\ out' = handle /\ sound' = sound
    BY <1>3 DEF Returns
  <2>2. /\ handle \in Rings /\ handle \notin Owned /\ sound
        /\ config \in Settings /\ Valid(config)
    BY <1>1 DEF ConstructionInv, ShapeInv
  <2>3. Owned' = Owned \cup {handle}
    BY <1>3 DEF Owned
  <2>4. settings'[handle] = config /\ \A r \in Owned : settings'[r] = settings[r]
    BY <1>3, <2>2
  <2>5. ShapeInv'
    BY <2>1, <2>2, <2>3, <2>4 DEF ConstructionInv, ShapeInv, LastStep
  <2>6. HostStores' = HostStores \cup Of(handle, StoresOf(config))
    BY <2>2, <2>3, <2>4 DEF HostStores
  <2>7. StoresOf(config) = (StepsDone(LastStep) \cap StoresOf(config)) \cup {"handle"}
    <3>1. StoresOf(config) \subseteq Stores /\ "handle" \in StoresOf(config)
      BY DEF StoresOf, Stores
    <3> QED BY <3>1, StepNames
  <2>8. Of(handle, StoresOf(config))
          = Of(handle, StepsDone(LastStep) \cap StoresOf(config)) \cup {<<handle, "handle">>}
    <3>1. \A a : Of(handle, a \cup {"handle"}) = Of(handle, a) \cup {<<handle, "handle">>}
      BY DEF Of
    <3> QED BY <2>7, <3>1
  <2>9. HeldInv'
    <3>1. held = HostStores \cup Of(handle, StepsDone(LastStep) \cap StoresOf(config))
      BY <1>1 DEF ConstructionInv, HeldInv
    <3> QED BY <1>3, <2>1, <2>6, <2>8, <3>1 DEF HeldInv
  <2>10. OutputContract'
    BY <2>1, <2>2, <2>3 DEF OutputContract
  <2> QED BY <2>5, <2>9, <2>10 DEF ConstructionInv
<1> QED BY <1>2, <1>3 DEF Publish

LEMMA DestroyStep ==
  ASSUME ConstructionInv, NEW r \in Rings, Destroy(r)
  PROVE  ConstructionInv'
<1>1. /\ step = 0 /\ step' = 0 /\ r \in Owned /\ out' = Untouched /\ result' = "none"
      /\ held' = held \ Dropped(r) /\ held = HostStores
      /\ settings' = [q \in Owned \ {r} |-> settings[q]]
  BY DEF Destroy, Restrict, ConstructionInv, HeldInv
<1>2. Owned' = Owned \ {r} /\ \A q \in Owned \ {r} : settings'[q] = settings[q]
  BY <1>1 DEF Owned
<1>3. ShapeInv'
  BY <1>1, <1>2 DEF ConstructionInv, ShapeInv, LastStep
<1>4. HostStores' = HostStores \ Dropped(r)
  <2>1. HostStores' = UNION {Of(q, StoresOf(settings[q])) : q \in Owned \ {r}}
    BY <1>2 DEF HostStores
  <2>2. \A q, stores : \A store \in Of(q, stores) : store[1] = q
    BY DEF Of
  <2>3. \A store \in HostStores : store \in Dropped(r) <=> store[1] = r
    BY <1>1 DEF Dropped
  <2> QED BY <2>1, <2>2, <2>3 DEF HostStores
<1>5. HeldInv'
  BY <1>1, <1>4 DEF HeldInv
<1>6. OutputContract'
  BY <1>1 DEF OutputContract
<1> QED BY <1>3, <1>5, <1>6 DEF ConstructionInv

\* A running creation holds what its steps have made, and the host's rings hold
\* all their stores, in every reachable state.
THEOREM ConstructionInvariance == Spec => []ConstructionInv
<1>1. Init => ConstructionInv
  <2> SUFFICES ASSUME Init PROVE ConstructionInv
    OBVIOUS
  <2>1. step = 0 /\ held = {} /\ result = "none" /\ settings = <<>>
    BY DEF Init
  <2>2. Owned = {}
    BY <2>1 DEF Owned
  <2> QED BY <2>1, <2>2 DEF ConstructionInv, ShapeInv, HeldInv, HostStores, OutputContract, LastStep
<1>2. ConstructionInv /\ Refuse => ConstructionInv'
  <2> SUFFICES ASSUME ConstructionInv, Refuse PROVE ConstructionInv'
    OBVIOUS
  <2>1. /\ step = 0 /\ step' = 0 /\ out' = Untouched /\ result' = "invalid"
        /\ UNCHANGED <<sound, held, settings>>
    BY DEF Refuse, Returns
  <2>2. HostStores' = HostStores /\ Owned' = Owned
    BY <2>1 DEF HostStores, Owned
  <2> QED BY <2>1, <2>2 DEF ConstructionInv, ShapeInv, HeldInv, OutputContract, LastStep
<1>3. ConstructionInv /\ Validate => ConstructionInv'
  <2> SUFFICES ASSUME ConstructionInv, Validate PROVE ConstructionInv'
    OBVIOUS
  <2>1. step # 0 /\ Steps[step] = "validate" /\ Valid(config)
    BY DEF Validate, At, ConstructionInv, ShapeInv
  <2>2. Goes /\ held' = held
    BY <2>1 DEF Validate
  <2>3. "validate" \notin StoresOf(config)
    BY DEF StoresOf, Stores
  <2>4. held' = held \cup Of(handle, {Steps[step]} \cap StoresOf(config))
    BY <2>1, <2>2, <2>3 DEF Of
  <2>5. step # LastStep
    BY <2>1, StepNames
  <2> QED BY <2>1, <2>2, <2>4, <2>5, GoStep
<1>4. ASSUME ConstructionInv, NEW what \in Stores, Allocate(what)
      PROVE  ConstructionInv'
  <2>1. step # 0 /\ Steps[step] = what /\ step # LastStep
    BY <1>4, StepNames DEF Allocate, At
  <2>2. CASE Goes /\ held' = IF what \in StoresOf(config) THEN held \cup {<<handle, what>>} ELSE held
    <3>1. held' = held \cup Of(handle, {what} \cap StoresOf(config))
      BY <2>2 DEF Of
    <3> QED BY <1>4, <2>1, <2>2, <3>1, GoStep
  <2>3. CASE Fails(IF what = "converter" THEN "adapter_error" ELSE "no_memory")
    BY <1>4, <2>1, <2>3, FailStep
  <2> QED BY <1>4, <2>2, <2>3 DEF Allocate
<1>5. ASSUME ConstructionInv, NEW what \in Queries, Query(what)
      PROVE  ConstructionInv'
  <2>1. step # 0 /\ Steps[step] = what /\ what # "handle" /\ what \notin StoresOf(config)
    BY <1>5 DEF Query, At, Queries, StoresOf, Stores
  <2>2. step # LastStep
    BY <2>1, StepNames
  <2>3. CASE Goes /\ UNCHANGED held
    <3>1. held' = held \cup Of(handle, {what} \cap StoresOf(config))
      BY <2>1, <2>3 DEF Of
    <3> QED BY <1>5, <2>1, <2>2, <2>3, <3>1, GoStep
  <2>4. CASE Fails("adapter_error")
    BY <1>5, <2>1, <2>4, FailStep
  <2> QED BY <1>5, <2>3, <2>4 DEF Query
<1>6. ConstructionInv /\ UNCHANGED vars => ConstructionInv'
  <2> SUFFICES ASSUME ConstructionInv, UNCHANGED vars PROVE ConstructionInv'
    OBVIOUS
  <2>1. UNCHANGED <<step, config, handle, sound, held, out, result, settings>>
    BY DEF vars
  <2>2. HostStores' = HostStores /\ Owned' = Owned
    BY <2>1 DEF HostStores, Owned
  <2> QED BY <2>1, <2>2 DEF ConstructionInv, ShapeInv, HeldInv, OutputContract
<1>7. ConstructionInv /\ [Next]_vars => ConstructionInv'
  BY <1>2, <1>3, <1>4, <1>5, <1>6, CreateStep, PublishStep, DestroyStep DEF Next
<1> QED BY <1>1, <1>7, PTL DEF Spec

\* Between calls exactly the stores of the host's rings are in being: whichever
\* allocation or adapter call fails, a creation releases what it made, once.
THEOREM NothingLeaksHolds == Spec => []NothingLeaks
<1>1. ConstructionInv => NothingLeaks
  BY DEF ConstructionInv, HeldInv, HostStores, Of, NothingLeaks
<1> QED BY <1>1, ConstructionInvariance, PTL

\* The out pointer tells what the result says, whatever fails.
THEOREM OutputContractHolds == Spec => []OutputContract
<1>1. ConstructionInv => OutputContract
  BY DEF ConstructionInv
<1> QED BY <1>1, ConstructionInvariance, PTL

-----------------------------------------------------------------------------
(* The headroom.  A callback of n outputs takes the source frames that n   *)
(* advances of the clock cross; from the worst phase that is what rounding *)
(* up gives, and the budget is one frame more.                             *)

LEMMA Crossed ==
  ASSUME NEW frame \in Nat, frame > 0, NEW phase \in 0..(frame - 1), NEW ticks \in Nat
  PROVE  /\ (phase + ticks) \div frame \in Int
         /\ (phase + ticks) \div frame <= (ticks + frame - 1) \div frame
<1>1. phase + ticks <= ticks + frame - 1
  OBVIOUS
<1>2. \A a, b \in Int : a <= b => a \div frame <= b \div frame
  OBVIOUS
<1>3. phase + ticks \in Int /\ ticks + frame - 1 \in Int
  OBVIOUS
<1>4. (phase + ticks) \div frame \in Int
  OBVIOUS
<1>5. (phase + ticks) \div frame <= (ticks + frame - 1) \div frame
  BY <1>1, <1>2, <1>3
<1> QED BY <1>4, <1>5

LEMMA WholeFrames ==
  ASSUME NEW frame \in Nat, frame > 0, NEW n \in Nat
  PROVE  (n * frame + frame - 1) \div frame = n
<1>1. \A r \in 0..(frame - 1) : (n * frame + r) \div frame = n
  OBVIOUS
<1>2. frame - 1 \in 0..(frame - 1) /\ n * frame + frame - 1 = n * frame + (frame - 1)
  OBVIOUS
<1> QED BY <1>1, <1>2

LEMMA BudgetSuffices ==
  ASSUME NEW s \in Settings, Valid(s), s.plc,
         NEW phase \in 0..(s.output * (Slack - 1) - 1)
  PROVE  LET frame   == s.output * (Slack - 1)
             advance == IF s.input * Slack < RatioLimit * frame THEN s.input * Slack
                        ELSE RatioLimit * frame
         IN  (phase + s.callback * advance) \div frame < s.reserve
<1> DEFINE frame == s.output * (Slack - 1)
           inputs == s.input * Slack
           n == s.callback
           advance == IF inputs < RatioLimit * frame THEN inputs ELSE RatioLimit * frame
<1>1. /\ s.input \in Nat /\ s.output \in Nat /\ s.callback \in Nat /\ s.reserve \in Nat
      /\ Slack \in Nat /\ Slack > 1 /\ RatioLimit \in Nat
  <2>1. s.input \in Rates /\ s.output \in Rates /\ s.callback \in Blocks /\ s.reserve \in Levels
    BY DEF Settings
  <2> QED BY <2>1, ConstructionAssumption
<1>2. s.output > 0
  BY <1>1 DEF Valid
<1>3. frame \in Nat /\ frame > 0 /\ inputs \in Nat /\ n \in Nat
  <2>1. Slack - 1 \in Nat /\ Slack - 1 > 0
    BY <1>1
  <2>2. \A a, b \in Nat : a > 0 /\ b > 0 => a * b \in Nat /\ a * b > 0
    OBVIOUS
  <2>3. s.input * Slack \in Nat
    BY <1>1
  <2> QED BY <1>1, <1>2, <2>1, <2>2, <2>3
<1>4. s.reserve >= Budget(s)
  BY DEF Valid
<1>5. Budget(s) = 1 + IF frame * RatioLimit < inputs THEN n * RatioLimit
                      ELSE (n * inputs + frame - 1) \div frame
  BY DEF Budget, WorstRate, CeilDiv
<1>6. phase \in 0..(frame - 1)
  OBVIOUS
<1> HIDE DEF frame, inputs, n
<1>7. RatioLimit * frame = frame * RatioLimit /\ RatioLimit * frame \in Nat
  BY <1>1, <1>3
<1>8. ASSUME NEW ticks \in Nat,
             (n * ticks + frame - 1) \div frame + 1 <= s.reserve
      PROVE  (phase + n * ticks) \div frame < s.reserve
  <2>1. n * ticks \in Nat
    BY <1>3
  <2>2. /\ (phase + n * ticks) \div frame \in Int
        /\ (phase + n * ticks) \div frame <= (n * ticks + frame - 1) \div frame
    BY <1>3, <1>6, <2>1, Crossed
  <2>3. (n * ticks + frame - 1) \div frame \in Int
    BY <1>3, <2>1
  <2> QED BY <1>1, <1>8, <2>2, <2>3
<1>9. (n * (RatioLimit * frame) + frame - 1) \div frame = n * RatioLimit
  <2>1. n * (RatioLimit * frame) = (n * RatioLimit) * frame /\ n * RatioLimit \in Nat
    BY <1>1, <1>3
  <2> QED BY <1>3, <2>1, WholeFrames
<1>10. CASE inputs < RatioLimit * frame
  <2>1. ~(frame * RatioLimit < inputs) /\ advance = inputs
    BY <1>3, <1>7, <1>10
  <2>2. (n * inputs + frame - 1) \div frame + 1 <= s.reserve
    <3>1. (n * inputs + frame - 1) \div frame \in Int
      BY <1>3
    <3> QED BY <1>1, <1>4, <1>5, <2>1, <3>1
  <2>3. (phase + n * inputs) \div frame < s.reserve
    BY <1>3, <1>8, <2>2
  <2> QED BY <2>1, <2>3 DEF frame, inputs, n
<1>11. CASE ~(inputs < RatioLimit * frame)
  <2>1. advance = RatioLimit * frame
    BY <1>11
  <2>2. n * RatioLimit + 1 <= s.reserve
    <3>1. n * RatioLimit \in Nat
      BY <1>1, <1>3
    <3>2. CASE frame * RatioLimit < inputs
      BY <1>1, <1>4, <1>5, <3>1, <3>2
    <3>3. CASE ~(frame * RatioLimit < inputs)
      <4>1. inputs = RatioLimit * frame
        BY <1>3, <1>7, <1>11, <3>3
      <4>2. Budget(s) = 1 + n * RatioLimit
        BY <1>5, <1>9, <3>3, <4>1
      <4> QED BY <1>1, <1>4, <3>1, <4>2
    <3> QED BY <3>2, <3>3
  <2>3. (phase + n * (RatioLimit * frame)) \div frame < s.reserve
    BY <1>7, <1>8, <1>9, <2>2
  <2> QED BY <2>1, <2>3 DEF frame, inputs, n
<1> QED BY <1>10, <1>11

\* With concealment a ring at its reserve outlasts the largest callback at the
\* worst correction, and one at its target takes the largest block: for every
\* rate, callback and ratio limit that pass validation.
THEOREM HeadroomSufficesHolds == Spec => []HeadroomSuffices
<1>1. ShapeInv => HeadroomSuffices
  <2> SUFFICES ASSUME ShapeInv, NEW r \in Owned, settings[r].plc
               PROVE  LET s       == settings[r]
                          frame   == s.output * (Slack - 1)
                          advance == IF s.input * Slack < RatioLimit * frame THEN s.input * Slack
                                     ELSE RatioLimit * frame
                      IN  /\ \A phase \in 0..(frame - 1) :
                               (phase + s.callback * advance) \div frame < s.reserve
                          /\ s.target + s.producer <= s.capacity
    BY DEF HeadroomSuffices
  <2>1. settings[r] \in Settings /\ Valid(settings[r])
    BY DEF ShapeInv
  <2>2. settings[r].target + settings[r].producer <= settings[r].capacity
    BY <2>1 DEF Valid
  <2> QED BY <2>1, <2>2, BudgetSuffices
<1>2. ConstructionInv => HeadroomSuffices
  BY <1>1 DEF ConstructionInv
<1> QED BY <1>2, ConstructionInvariance, PTL
=============================================================================
