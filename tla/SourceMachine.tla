--------------------------- MODULE SourceMachine ----------------------------
(***************************************************************************)
(* What the connected memory promises (sourceContract of                   *)
(* Machine/ReconfigurableMachine.lean).  A frame names the selected        *)
(* variable of the last production and the two inputs last presented; its  *)
(* readings are recomputed from them by interpreting addresses: there are  *)
(* no gates and no bank.                                                   *)
(***************************************************************************)
EXTENDS Fabric, Contract

CONSTANTS
  Scope, Inputs, MaxDepth, Start,
  Selected(_),    \* the variable the search of a live state discovers
  ProduceNext(_)  \* the live state the production hands on

VARIABLES live, selected, transformedInput, retainedInput, request, event, allowed

frame == <<live, selected, transformedInput, retainedInput>>
vars == <<live, selected, transformedInput, retainedInput, request, event, allowed>>

\* Frame.targets.
Target(inlet, chosen, left, right) ==
  IF inlet = "transformed" THEN ReferenceAction(Scope, chosen, left) ELSE right

\* The two sources come from the constituted role: its executed input and its
\* completed output.
CanonicalFrame(source) ==
  [live |-> ProduceNext(source),
   selected |-> Selected(source),
   transformedInput |-> Sense(Scope, source.assignment),
   retainedInput |-> Sense(Scope, ProduceNext(source).assignment)]

Init ==
  /\ LET first == CanonicalFrame(Start) IN
       /\ live = first.live
       /\ selected = first.selected
       /\ transformedInput = first.transformedInput
       /\ retainedInput = first.retainedInput
  /\ request = ToAdvance
  /\ event = Advanced
  /\ allowed = TRUE

Advance ==
  /\ live.depth < MaxDepth
  /\ request' = ToAdvance
  /\ event' = Advanced
  /\ allowed' = TRUE
  /\ LET next == CanonicalFrame(live) IN
       /\ live' = next.live
       /\ selected' = next.selected
       /\ transformedInput' = next.transformedInput
       /\ retainedInput' = next.retainedInput

Sample(inlet) ==
  /\ request' = ToSample(inlet)
  /\ event' = Sampled(Target(inlet, selected, transformedInput, retainedInput))
  /\ allowed' = TRUE
  /\ UNCHANGED frame

PulseDriven(left, right) ==
  /\ PulseFits(Scope, left, right)
  /\ transformedInput' = left
  /\ retainedInput' = right
  /\ request' = ToPulse(left, right)
  /\ event' = Driven(Target("transformed", selected, left, right),
                     Target("retained", selected, left, right))
  /\ allowed' = TRUE
  /\ UNCHANGED <<live, selected>>

PulseRefused(left, right) ==
  /\ ~ PulseFits(Scope, left, right)
  /\ request' = ToPulse(left, right)
  /\ event' = Refused
  /\ allowed' = FALSE
  /\ UNCHANGED frame

Next ==
  \/ Advance
  \/ \E inlet \in Inlets : Sample(inlet)
  \/ \E left, right \in Inputs : PulseDriven(left, right) \/ PulseRefused(left, right)

Spec == Init /\ [][Next]_vars
=============================================================================
