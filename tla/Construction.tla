---------------------------- MODULE Construction ----------------------------
(***************************************************************************)
(* Creating and destroying rings: ring_create with its out pointer         *)
(* (src/lib.rs), the adapter's descriptor and converter                    *)
(* (src/samplerate_adapter.rs), Settings::validate and Ring::create        *)
(* (src/ring.rs).  Every allocation and every adapter call may fail.       *)
(*                                                                         *)
(* Rates enter as a ratio of small numbers, Slack stands for 1000 and      *)
(* RatioLimit for 256.  A store is a member of `held' while it is alive;   *)
(* an early return drops what the call has made.  The host destroys a ring *)
(* once and when no other call runs, as the header demands.                *)
(***************************************************************************)
EXTENDS Integers, Sequences, Functions

CONSTANTS
  Rings,             \* identities of ring handles
  NoRing,            \* the null pointer
  Untouched,         \* what the host's out pointer holds before a call
  MinimumCapacity, MaximumCapacity,
  RatioLimit,        \* MAXIMUM_RATIO, and its inverse MINIMUM_RATIO
  Slack,             \* the worst correction is one part in Slack
  MaximumBlock,      \* samples that fit an address range
  Capacities, Rates, Levels, Blocks   \* what a host may put into a config

ASSUME ConstructionAssumption ==
  /\ NoRing \notin Rings /\ Untouched \notin Rings /\ Untouched # NoRing
  /\ MinimumCapacity \in Nat /\ MaximumCapacity \in Nat
  /\ RatioLimit \in Nat \ {0} /\ Slack \in Nat /\ Slack > 1 /\ MaximumBlock \in Nat
  /\ Capacities \subseteq Nat /\ Rates \subseteq Nat
  /\ Levels \subseteq Nat /\ Blocks \subseteq Nat

VARIABLES
  step,        \* of the running ring_create, 0 if none runs
  config,      \* its settings
  handle,      \* the ring it makes
  sound,       \* the adapter's descriptor passes from_descriptor
  held,        \* stores and converters in being, as <<ring, store>>
  out, result, \* of the last call
  settings     \* of each ring the host owns

vars == <<step, config, handle, sound, held, out, result, settings>>

Settings == [capacity : Capacities, input : Rates, output : Rates, reserve : Levels,
             target : Levels, producer : Blocks, callback : Blocks, plc : BOOLEAN]
Owned    == DOMAIN settings
NoConfig == <<>>

Init ==
  /\ step = 0 /\ config = NoConfig /\ handle = NoRing /\ sound \in BOOLEAN
  /\ held = {} /\ out = Untouched /\ result = "none" /\ settings = <<>>

-----------------------------------------------------------------------------
(* Settings::validate.                                                     *)

CeilDiv(a, b) == (a + b - 1) \div b

\* Mutant of WorstRate: the renderer is taken to keep to the nominal ratio.
NominalRate(s) == [outputs |-> s.output * Slack, inputs |-> s.input * Slack]
\* Source frames to outputs when the correction drains the ring fastest.
WorstRate(s) == [outputs |-> s.output * (Slack - 1), inputs |-> s.input * Slack]

Budget(s) ==
  LET rate == WorstRate(s)
  IN  1 + IF rate.outputs * RatioLimit < rate.inputs THEN s.callback * RatioLimit
          ELSE CeilDiv(s.callback * rate.inputs, rate.outputs)

Valid(s) ==
  /\ MinimumCapacity <= s.capacity /\ s.capacity <= MaximumCapacity
  /\ s.input # 0 /\ s.output # 0
  /\ s.input <= s.output * RatioLimit /\ s.output <= s.input * RatioLimit
  /\ s.reserve <= s.capacity /\ s.target <= s.capacity
  /\ s.producer \in 1..MaximumBlock /\ s.callback \in 1..MaximumBlock
  /\ s.plc => /\ s.reserve >= Budget(s)
              /\ s.target >= s.reserve
              /\ s.target + s.producer <= s.capacity

-----------------------------------------------------------------------------
(* ring_create.                                                            *)

Stores  == {"plc", "storage", "input", "output", "converter", "gaps", "history", "mailbox",
            "positions", "handle"}
Queries == {"reset", "output_delay", "input_delay"}
Steps   == <<"validate", "plc", "storage", "input", "output", "converter", "reset",
             "output_delay", "input_delay", "gaps", "history", "mailbox", "positions", "handle">>
\* Without concealment its state is not allocated and the positions are empty.
StoresOf(s) == IF s.plc THEN Stores ELSE Stores \ {"plc", "positions"}

Returns(value) ==
  /\ result' = value
  /\ step' = 0 /\ config' = NoConfig /\ handle' = NoRing

\* Mutant of Dropped: the converter is not an owner yet when its first reset fails.
DroppedButRaw(r) == {store \in held : store[1] = r /\ ~(store[2] = "converter" /\ Steps[step] = "reset")}
\* What an early return drops.
Dropped(r) == {store \in held : store[1] = r}

Fails(error) ==
  /\ Returns(error)
  /\ held' = held \ Dropped(handle)
  /\ UNCHANGED <<sound, out, settings>>

\* A null out pointer or config, a short or foreign config, an unknown mode.
Refuse ==
  /\ step = 0
  /\ out' = Untouched /\ Returns("invalid")
  /\ UNCHANGED <<sound, held, settings>>

\* Mutant of Checks: validation is left to Ring::create.
ChecksNothing(s) == TRUE
\* checked_config.
Checks(s) == Valid(s)

Create(s, r) ==
  /\ step = 0 /\ r \notin Owned
  /\ IF ~Checks(s) THEN out' = Untouched /\ Returns("invalid")
     ELSE /\ out' = NoRing
          /\ IF ~sound THEN Returns("adapter_error")
             ELSE step' = 1 /\ config' = s /\ handle' = r /\ result' = "none"
  /\ UNCHANGED <<sound, held, settings>>

At(what) == step # 0 /\ Steps[step] = what
Goes == step' = step + 1 /\ UNCHANGED <<config, handle, sound, out, result, settings>>

Validate ==
  /\ At("validate")
  /\ IF Valid(config) THEN Goes /\ UNCHANGED held ELSE Fails("invalid")

Allocate(what) ==
  /\ At(what) /\ what # "handle"
  /\ \/ Goes /\ held' = IF what \in StoresOf(config) THEN held \cup {<<handle, what>>} ELSE held
     \/ /\ what \in StoresOf(config)
        /\ Fails(IF what = "converter" THEN "adapter_error" ELSE "no_memory")

Query(what) ==
  /\ At(what)
  /\ \/ Goes /\ UNCHANGED held
     \/ Fails("adapter_error")

\* The ring moves into its handle and the handle to the host.
Publish ==
  /\ At("handle")
  /\ \/ /\ held' = held \cup {<<handle, "handle">>}
        /\ out' = handle
        /\ settings' = [r \in Owned \cup {handle} |-> IF r = handle THEN config ELSE settings[r]]
        /\ Returns("ok") /\ UNCHANGED sound
     \/ Fails("no_memory")

Destroy(r) ==
  /\ step = 0 /\ r \in Owned
  /\ held' = held \ Dropped(r)
  /\ settings' = Restrict(settings, Owned \ {r})
  /\ out' = Untouched /\ result' = "none"
  /\ UNCHANGED <<step, config, handle, sound>>

Next ==
  \/ Refuse
  \/ \E s \in Settings, r \in Rings : Create(s, r)
  \/ Validate
  \/ \E what \in Stores : Allocate(what)
  \/ \E what \in Queries : Query(what)
  \/ Publish
  \/ \E r \in Rings : Destroy(r)

Spec == Init /\ [][Next]_vars

-----------------------------------------------------------------------------
(* Properties.                                                             *)

\* Between calls exactly the stores of the host's rings are in being, one
\* converter to each: no failure on the way leaks one or releases another's.
NothingLeaks == step = 0 => held = UNION {{r} \X StoresOf(settings[r]) : r \in Owned}

\* The out pointer is unchanged on invalid arguments, null on a failure of
\* allocation or adapter, and a whole ring otherwise.
OutputContract ==
  step = 0 =>
    /\ result = "invalid" => out = Untouched
    /\ result \in {"no_memory", "adapter_error"} => out = NoRing
    /\ result = "ok" => out \in Owned /\ sound

\* With concealment a ring filled to its reserve lasts for the largest callback
\* at the worst correction, from any phase between two frames and with a frame
\* to spare, and one filled to its target takes the largest block.  The clock
\* counts a source frame as as many ticks as the worst rate has outputs.
HeadroomSuffices ==
  \A r \in Owned :
    LET s       == settings[r]
        frame   == s.output * (Slack - 1)
        advance == IF s.input * Slack < RatioLimit * frame THEN s.input * Slack
                   ELSE RatioLimit * frame
    IN  s.plc => /\ \A phase \in 0..(frame - 1) :
                      (phase + s.callback * advance) \div frame < s.reserve
                 /\ s.target + s.producer <= s.capacity
=============================================================================
