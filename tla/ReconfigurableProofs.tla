------------------------ MODULE ReconfigurableProofs ------------------------
(***************************************************************************)
(* The rich machine, for every scope, every starting state and every depth *)
(* bound: its memory invariants, and that it implements both the source    *)
(* contract and, under the projection, the reduced machine.                *)
(***************************************************************************)
EXTENDS ReconfigurableMachine, FabricProofs

\* A bank driven through a wiring of the scope's length by inputs that fit has
\* readings of that length, in normal form.
LEMMA DriveType ==
  ASSUME NEW wiring \in Signals, NEW left \in Signals, NEW right \in Signals,
         Len(wiring) = Len(left), Len(right) = Len(left)
  PROVE  LET driven == Drive(wiring, left, right) IN
           /\ driven.transformed \in Signals /\ driven.retained \in Signals
           /\ Len(ReadBank(driven, "transformed")) = Len(wiring)
           /\ Len(ReadBank(driven, "retained")) = Len(wiring)
           /\ NormalizeBank(driven) = driven
  <1> DEFINE driven == Drive(wiring, left, right)
  <1>1. Fire(wiring, left) \in Signals /\ Len(Fire(wiring, left)) = Len(wiring)
    BY FireLength
  <1>2. /\ ReadBank(driven, "transformed") = Fire(wiring, left)
        /\ ReadBank(driven, "retained") = right
    BY RouteReads DEF Drive
  <1>3. driven.transformed = Fire(wiring, left) /\ driven.retained = right
    BY <1>2 DEF ReadBank
  <1>4. NormalizeBank(driven) = driven
    BY RouteNormal DEF Drive
  <1> QED BY <1>1, <1>2, <1>3, <1>4

\* The memory a stage installs, from any live state with a total assignment.
LEMMA InstallFacts ==
  ASSUME NEW source, source.depth \in Nat, source.assignment \in [Var -> BOOLEAN]
  PROVE  LET next == Install(source) IN
           /\ next.live.depth = source.depth + 1
           /\ next.live.seed = Selected(source)
           /\ next.live.assignment = FlipAt(Selected(source), source.assignment)
           /\ next.live.assignment \in [Var -> BOOLEAN]
           /\ next.gates = Configure(Scope, Selected(source))
           /\ next.bank = Drive(next.gates, Sense(Scope, source.assignment),
                                Sense(Scope, next.live.assignment))
           /\ next.bank = Shared(Sense(Scope, next.live.assignment))
  <1> DEFINE flipped == FlipAt(Selected(source), source.assignment)
             wiring == Configure(Scope, Selected(source))
             before == Sense(Scope, source.assignment)
  <1>1. flipped \in [Var -> BOOLEAN]
    BY FlipAtType
  <1>2. /\ Install(source).live = ProduceNext(source)
        /\ Install(source).gates = wiring
        /\ Install(source).bank = Drive(wiring, before, Sense(Scope, flipped))
    BY DEF Install
  <1>3. /\ ProduceNext(source).depth = source.depth + 1
        /\ ProduceNext(source).seed = Selected(source)
        /\ ProduceNext(source).assignment = flipped
    BY DEF ProduceNext, NextDepth
  <1>4. Fire(wiring, before) = Sense(Scope, flipped)
    BY ConfigureExact, ScopeAssumption
  <1>5. Drive(wiring, before, Sense(Scope, flipped)) = Shared(Sense(Scope, flipped))
    BY <1>4 DEF Drive, Route
  <1> QED BY <1>1, <1>2, <1>3, <1>5

\* What a stage installs satisfies the whole inductive invariant.
LEMMA InstallInductive ==
  ASSUME NEW source, source.depth \in Nat, source.assignment \in [Var -> BOOLEAN]
  PROVE  LET next == Install(source) IN
           /\ next.live.depth \in Nat /\ next.live.depth > source.depth
           /\ next.live.assignment \in [Var -> BOOLEAN]
           /\ next.gates \in Signals
           /\ next.gates = Configure(Scope, next.live.seed)
           /\ Len(next.gates) = Len(Scope)
           /\ next.bank.transformed \in Signals /\ next.bank.retained \in Signals
           /\ Len(ReadBank(next.bank, "transformed")) = Len(Scope)
           /\ Len(ReadBank(next.bank, "retained")) = Len(Scope)
           /\ NormalizeBank(next.bank) = next.bank
  <1> DEFINE next == Install(source)
             before == Sense(Scope, source.assignment)
             after == Sense(Scope, next.live.assignment)
  <1>1. /\ next.live.depth = source.depth + 1
        /\ next.live.seed = Selected(source)
        /\ next.live.assignment \in [Var -> BOOLEAN]
        /\ next.gates = Configure(Scope, Selected(source))
        /\ next.bank = Drive(next.gates, before, after)
    BY InstallFacts
  <1>2. next.gates \in Signals /\ Len(next.gates) = Len(Scope)
    BY <1>1, ConfigureType, ScopeAssumption
  <1>3. /\ before \in Signals /\ Len(before) = Len(Scope)
        /\ after \in Signals /\ Len(after) = Len(Scope)
    BY <1>1, SenseType, ScopeAssumption
  <1> HIDE DEF next, before, after
  <1>4. /\ next.bank.transformed \in Signals /\ next.bank.retained \in Signals
        /\ Len(ReadBank(next.bank, "transformed")) = Len(Scope)
        /\ Len(ReadBank(next.bank, "retained")) = Len(Scope)
        /\ NormalizeBank(next.bank) = next.bank
    BY <1>1, <1>2, <1>3, DriveType
  <1>5. next.live.depth \in Nat /\ next.live.depth > source.depth
    BY <1>1
  <1> USE DEF next
  <1> QED BY <1>1, <1>2, <1>4, <1>5

\* The machine boots into the invariant.
LEMMA InitInductive == Init => Inductive
  <1> SUFFICES ASSUME Init PROVE Inductive
    OBVIOUS
  <1>1. Start.depth \in Nat /\ Start.assignment \in [Var -> BOOLEAN]
    BY StartAssumption
  <1>2. /\ live = Install(Start).live
        /\ gates = Install(Start).gates
        /\ bank = Install(Start).bank
        /\ allowed = TRUE
    BY DEF Init, Booted
  <1> QED
    BY <1>1, <1>2, InstallInductive
    DEF Inductive, TypeOK, Coherent, BankNormal, WiringIsCurrent, Signals

\* No request, admitted or refused, leaves the invariant.
LEMMA NextInductive == Inductive /\ [Next]_vars => Inductive'
  <1> SUFFICES ASSUME Inductive, [Next]_vars PROVE Inductive'
    OBVIOUS
  <1> USE DEF Inductive
  <1>1. CASE Advance
    <2>1. /\ live' = Install(live).live
          /\ gates' = Install(live).gates
          /\ bank' = Install(live).bank
          /\ allowed' = TRUE
      BY <1>1 DEF Advance
    <2>2. live'.depth \in Nat /\ live'.depth > Start.depth
      BY <2>1, InstallInductive, StartAssumption DEF TypeOK
    <2> QED
      BY <2>1, <2>2, InstallInductive
      DEF TypeOK, Coherent, BankNormal, WiringIsCurrent, Signals
  <1>2. ASSUME NEW inlet \in Inlets, Sample(inlet) PROVE Inductive'
    BY <1>2 DEF Sample, memory, TypeOK, Coherent, BankNormal, WiringIsCurrent
  <1>3. ASSUME NEW left \in Inputs, NEW right \in Inputs, PulseDriven(left, right)
        PROVE  Inductive'
    <2>1. /\ left \in Signals /\ right \in Signals
          /\ Len(left) = Len(Scope) /\ Len(right) = Len(Scope)
      BY <1>3, InputsAssumption DEF PulseDriven, PulseFits
    <2>2. gates \in Signals /\ Len(gates) = Len(Scope)
      BY DEF TypeOK, Coherent, Signals
    <2>3. /\ bank' = Drive(gates, left, right)
          /\ live' = live /\ gates' = gates /\ allowed' = TRUE
      BY <1>3 DEF PulseDriven
    <2>4. /\ bank'.transformed \in Signals /\ bank'.retained \in Signals
          /\ Len(ReadBank(bank', "transformed")) = Len(Scope)
          /\ Len(ReadBank(bank', "retained")) = Len(Scope)
          /\ NormalizeBank(bank') = bank'
      BY <2>1, <2>2, <2>3, DriveType
    <2>5. TypeOK'
      BY <2>3, <2>4 DEF TypeOK
    <2>6. Coherent'
      BY <2>2, <2>3, <2>4 DEF Coherent
    <2>7. BankNormal'
      BY <2>4 DEF BankNormal
    <2>8. WiringIsCurrent'
      BY <2>3 DEF WiringIsCurrent
    <2> QED BY <2>5, <2>6, <2>7, <2>8
  <1>4. ASSUME NEW left \in Inputs, NEW right \in Inputs, PulseRefused(left, right)
        PROVE  Inductive'
    BY <1>4 DEF PulseRefused, memory, TypeOK, Coherent, BankNormal, WiringIsCurrent
  <1>5. CASE UNCHANGED vars
    BY <1>5 DEF vars, TypeOK, Coherent, BankNormal, WiringIsCurrent
  <1> QED BY <1>1, <1>2, <1>3, <1>4, <1>5 DEF Next

\* Memory coherence, bank normal form and current wiring hold for ever after the
\* first installed stage (execute_coherent of MemoryInvariant.lean).
THEOREM MachineInvariant == Spec => []Inductive
  <1>1. Init => Inductive
    BY InitInductive
  <1>2. Inductive /\ [Next]_vars => Inductive'
    BY NextInductive
  <1> QED BY <1>1, <1>2, PTL DEF Spec

\* The four parts, each as a property of the specification.
COROLLARY MachineCoherent == Spec => [](TypeOK /\ Coherent /\ BankNormal /\ WiringIsCurrent)
  <1>1. Inductive => TypeOK /\ Coherent /\ BankNormal /\ WiringIsCurrent
    BY DEF Inductive
  <1> QED BY <1>1, MachineInvariant, PTL
-----------------------------------------------------------------------------
\* AdvanceConverges by itself is inductive over the invariant: a stage installs
\* a shared bank holding the readings of the assignment it produced.
THEOREM AdvanceConvergesAlways == Spec => []AdvanceConverges
  <1>1. Init => AdvanceConverges
    BY InstallFacts, StartAssumption DEF Init, Booted, AdvanceConverges
  <1>2. Inductive /\ AdvanceConverges /\ [Next]_vars => AdvanceConverges'
    <2> SUFFICES ASSUME Inductive, AdvanceConverges, [Next]_vars
                 PROVE  AdvanceConverges'
      OBVIOUS
    <2>1. CASE Advance
      <3>1. live' = Install(live).live /\ bank' = Install(live).bank
        BY <2>1 DEF Advance
      <3>2. live.depth \in Nat /\ live.assignment \in [Var -> BOOLEAN]
        BY DEF Inductive, TypeOK
      <3> QED BY <3>1, <3>2, InstallFacts DEF AdvanceConverges
    <2>2. ASSUME NEW inlet \in Inlets, Sample(inlet) PROVE AdvanceConverges'
      BY <2>2 DEF Sample, AdvanceConverges, Sampled, Advanced
    <2>3. ASSUME NEW left \in Inputs, NEW right \in Inputs,
                 PulseDriven(left, right) \/ PulseRefused(left, right)
          PROVE  AdvanceConverges'
      BY <2>3 DEF PulseDriven, PulseRefused, AdvanceConverges, Driven, Refused, Advanced
    <2>4. CASE UNCHANGED vars
      BY <2>4 DEF vars, AdvanceConverges
    <2> QED BY <2>1, <2>2, <2>3, <2>4 DEF Next
  <1> QED BY <1>1, <1>2, MachineInvariant, PTL DEF Spec
-----------------------------------------------------------------------------
\* The reduced machine is made of the same gates, banks and answers.
LEMMA ReducedOperators ==
  /\ \A bit1, bit2 : Reduced!GateFire(bit1, bit2) = GateFire(bit1, bit2)
  /\ \A one, two : Reduced!Fire(one, two) = Fire(one, two)
  /\ \A scope, chosen : Reduced!Configure(scope, chosen) = Configure(scope, chosen)
  /\ \A left, right : Reduced!Route(left, right) = Route(left, right)
  /\ \A one, left, right : Reduced!Drive(one, left, right) = Drive(one, left, right)
  /\ \A some, inlet : Reduced!ReadBank(some, inlet) = ReadBank(some, inlet)
  /\ \A left, right : Reduced!PulseFits(Scope, left, right) = PulseFits(Scope, left, right)
  /\ \A some : Reduced!Sampled(some) = Sampled(some)
  /\ \A left, right : Reduced!Driven(left, right) = Driven(left, right)
  /\ Reduced!Inlets = Inlets /\ Reduced!Advanced = Advanced /\ Reduced!Refused = Refused
  /\ Reduced!ToAdvance = ToAdvance
  /\ \A inlet : Reduced!ToSample(inlet) = ToSample(inlet)
  /\ \A left, right : Reduced!ToPulse(left, right) = ToPulse(left, right)
  <1>1. \A one, two : Reduced!GateFire(one, two) = GateFire(one, two)
    BY DEF Reduced!GateFire, GateFire
  <1>2. \A one, two : Reduced!Fire(one, two) = Fire(one, two)
    BY <1>1 DEF Reduced!Fire, Fire, Reduced!Shorter, Shorter
  <1>3. \A scope, chosen : Reduced!Configure(scope, chosen) = Configure(scope, chosen)
    BY DEF Reduced!Configure, Configure
  <1>4. \A left, right : Reduced!Route(left, right) = Route(left, right)
    BY DEF Reduced!Route, Route, Reduced!Shared, Shared, Reduced!Separate, Separate
  <1>5. \A one, left, right : Reduced!Drive(one, left, right) = Drive(one, left, right)
    BY <1>2, <1>4 DEF Reduced!Drive, Drive
  <1>6. \A some, inlet : Reduced!ReadBank(some, inlet) = ReadBank(some, inlet)
    BY DEF Reduced!ReadBank, ReadBank
  <1>7. \A left, right : Reduced!PulseFits(Scope, left, right) = PulseFits(Scope, left, right)
    BY DEF Reduced!PulseFits, PulseFits
  <1>8. /\ \A some : Reduced!Sampled(some) = Sampled(some)
        /\ \A left, right : Reduced!Driven(left, right) = Driven(left, right)
        /\ Reduced!Inlets = Inlets /\ Reduced!Advanced = Advanced
        /\ Reduced!Refused = Refused /\ Reduced!ToAdvance = ToAdvance
        /\ \A inlet : Reduced!ToSample(inlet) = ToSample(inlet)
        /\ \A left, right : Reduced!ToPulse(left, right) = ToPulse(left, right)
    BY DEF Reduced!Sampled, Sampled, Reduced!Driven, Driven, Reduced!Inlets, Inlets,
           Reduced!Advanced, Advanced, Reduced!Refused, Refused, Reduced!ToAdvance,
           ToAdvance, Reduced!ToSample, ToSample, Reduced!ToPulse, ToPulse
  <1> QED BY <1>1, <1>2, <1>3, <1>4, <1>5, <1>6, <1>7, <1>8

\* advance_project: what a stage installs projects to what the reduced machine
\* installs from the projected live state.
LEMMA InstallProjects ==
  ASSUME NEW source, source.depth \in Nat, source.assignment \in [Var -> BOOLEAN]
  PROVE  /\ ProjectLive(Install(source).live) = Reduced!Install(ProjectLive(source)).live
         /\ Install(source).gates = Reduced!Install(ProjectLive(source)).gates
         /\ NormalizeBank(Install(source).bank) = Reduced!Install(ProjectLive(source)).bank
  <1> DEFINE chosen == Selected(source)
             values == Sense(Scope, source.assignment)
             after == Sense(Scope, FlipAt(chosen, source.assignment))
  <1>1. /\ ProjectLive(source).seed = source.seed
        /\ ProjectLive(source).provenance = source.provenance
        /\ ProjectLive(source).depth = source.depth
        /\ ProjectLive(source).target = source.target
        /\ ProjectLive(source).values = values
    BY DEF ProjectLive
  <1>2. Discover(ProjectLive(source).seed, ProjectLive(source).provenance) = chosen
    BY <1>1 DEF Selected
  <1>3. Fire(Configure(Scope, chosen), values) = after
    BY ConfigureExact, ScopeAssumption
  <1>4. /\ Reduced!Install(ProjectLive(source)).live =
             [depth |-> source.depth + 1, target |-> source.target + 1, seed |-> chosen,
              provenance |-> <<chosen>> \o source.provenance, values |-> after]
        /\ Reduced!Install(ProjectLive(source)).gates = Configure(Scope, chosen)
        /\ Reduced!Install(ProjectLive(source)).bank = Route(after, after)
    BY <1>1, <1>2, <1>3, ReducedOperators DEF Reduced!Install
  <1>5. ProjectLive(Install(source).live) =
             [depth |-> source.depth + 1, target |-> source.target + 1, seed |-> chosen,
              provenance |-> <<chosen>> \o source.provenance, values |-> after]
    BY DEF Install, ProduceNext, NextDepth, NextTarget, ProjectLive
  <1>6. Install(source).gates = Configure(Scope, chosen)
    BY DEF Install
  <1>7. NormalizeBank(Install(source).bank) = Route(after, after)
    BY <1>3, RouteNormal DEF Install, Drive
  <1> QED BY <1>4, <1>5, <1>6, <1>7

\* perform_project and event_project: every request answered by the rich machine
\* is answered alike by the reduced one, from the projected memory.
THEOREM ImplementsReduced == Spec => ReducedSpec
  <1>1. Init => Reduced!Init
    <2> SUFFICES ASSUME Init PROVE Reduced!Init
      OBVIOUS
    <2>1. Start.depth \in Nat /\ Start.assignment \in [Var -> BOOLEAN]
      BY StartAssumption
    <2> QED
      BY <2>1, InstallProjects, ReducedOperators
      DEF Init, Booted, Reduced!Init, Reduced!Booted
  <1>2. Inductive /\ [Next]_vars => [Reduced!Next]_(Reduced!vars)
    <2> SUFFICES ASSUME Inductive, [Next]_vars
                 PROVE  Reduced!Next \/ UNCHANGED Reduced!vars
      BY DEF Reduced!vars
    <2>1. CASE Advance
      <3>1. live.depth \in Nat /\ live.assignment \in [Var -> BOOLEAN]
        BY DEF Inductive, TypeOK
      <3>2. /\ ProjectLive(live)' = Reduced!Install(ProjectLive(live)).live
            /\ gates' = Reduced!Install(ProjectLive(live)).gates
            /\ NormalizeBank(bank)' = Reduced!Install(ProjectLive(live)).bank
        BY <2>1, <3>1, InstallProjects DEF Advance
      <3>3. ProjectLive(live).depth < MaxDepth
        BY <2>1 DEF Advance, ProjectLive
      <3>4. Reduced!Advance
        BY <2>1, <3>2, <3>3, ReducedOperators DEF Advance, Reduced!Advance
      <3> QED BY <3>4 DEF Reduced!Next
    <2>2. ASSUME NEW inlet \in Inlets, Sample(inlet) PROVE Reduced!Next
      <3>1. Reduced!Sample(inlet)
        BY <2>2, NormalizedReads, ReducedOperators
        DEF Sample, memory, Reduced!Sample, Reduced!memory
      <3> QED BY <3>1, ReducedOperators DEF Reduced!Next
    <2>3. ASSUME NEW left \in Inputs, NEW right \in Inputs, PulseDriven(left, right)
          PROVE  Reduced!Next
      <3>1. NormalizeBank(bank)' = Drive(gates, left, right)
        BY <2>3, RouteNormal DEF PulseDriven, Drive
      <3>2. Reduced!PulseDriven(left, right)
        BY <2>3, <3>1, NormalizedReads, ReducedOperators
        DEF PulseDriven, Reduced!PulseDriven
      <3> QED BY <3>2 DEF Reduced!Next
    <2>4. ASSUME NEW left \in Inputs, NEW right \in Inputs, PulseRefused(left, right)
          PROVE  Reduced!Next
      <3>1. Reduced!PulseRefused(left, right)
        BY <2>4, ReducedOperators
        DEF PulseRefused, memory, Reduced!PulseRefused, Reduced!memory
      <3> QED BY <3>1 DEF Reduced!Next
    <2>5. CASE UNCHANGED vars
      BY <2>5 DEF vars, Reduced!vars
    <2> QED BY <2>1, <2>2, <2>3, <2>4, <2>5 DEF Next
  <1> QED BY <1>1, <1>2, MachineInvariant, PTL DEF Spec, ReducedSpec, Reduced!Spec
-----------------------------------------------------------------------------
(* The rich machine implements the source contract: pulses driven through   *)
(* the gates of an earlier stage give what interpreting its selected        *)
(* address would give, although no frame, input or address is stored.       *)

\* The contract is made of the same readings, lengths and answers.
LEMMA SourceOperators ==
  /\ \A scope, values : Source!Sense(scope, values) = Sense(scope, values)
  /\ \A scope, chosen, bits :
       Source!ReferenceAction(scope, chosen, bits) = ReferenceAction(scope, chosen, bits)
  /\ \A left, right : Source!PulseFits(Scope, left, right) = PulseFits(Scope, left, right)
  /\ \A some : Source!Sampled(some) = Sampled(some)
  /\ \A left, right : Source!Driven(left, right) = Driven(left, right)
  /\ Source!Inlets = Inlets /\ Source!Advanced = Advanced /\ Source!Refused = Refused
  /\ Source!ToAdvance = ToAdvance
  /\ \A inlet : Source!ToSample(inlet) = ToSample(inlet)
  /\ \A left, right : Source!ToPulse(left, right) = ToPulse(left, right)
  <1>1. \A scope, values : Source!Sense(scope, values) = Sense(scope, values)
    BY DEF Source!Sense, Sense
  <1>2. \A scope, chosen, bits :
          Source!ReferenceAction(scope, chosen, bits) = ReferenceAction(scope, chosen, bits)
    BY DEF Source!ReferenceAction, ReferenceAction, Source!Shorter, Shorter
  <1>3. \A left, right : Source!PulseFits(Scope, left, right) = PulseFits(Scope, left, right)
    BY DEF Source!PulseFits, PulseFits
  <1>4. /\ \A some : Source!Sampled(some) = Sampled(some)
        /\ \A left, right : Source!Driven(left, right) = Driven(left, right)
        /\ Source!Inlets = Inlets /\ Source!Advanced = Advanced /\ Source!Refused = Refused
        /\ Source!ToAdvance = ToAdvance
        /\ \A inlet : Source!ToSample(inlet) = ToSample(inlet)
        /\ \A left, right : Source!ToPulse(left, right) = ToPulse(left, right)
    BY DEF Source!Sampled, Sampled, Source!Driven, Driven, Source!Inlets, Inlets,
           Source!Advanced, Advanced, Source!Refused, Refused, Source!ToAdvance,
           ToAdvance, Source!ToSample, ToSample, Source!ToPulse, ToPulse
  <1> QED BY <1>1, <1>2, <1>3, <1>4

\* install_exact: an installed memory is the projection of the canonical frame.
LEMMA InstallIsCanonical ==
  ASSUME NEW source, source.depth \in Nat, source.assignment \in [Var -> BOOLEAN]
  PROVE  LET next == Install(source)
             frame == Source!CanonicalFrame(source)
         IN  /\ next.live = frame.live
             /\ next.live.seed = frame.selected
             /\ Fire(next.gates, ReadBank(next.bank, "transformed"))
                  = frame.transformedInput
             /\ ReadBank(next.bank, "retained") = frame.retainedInput
  <1> DEFINE next == Install(source)
             before == Sense(Scope, source.assignment)
             after == Sense(Scope, next.live.assignment)
  <1>1. /\ next.live.seed = Selected(source)
        /\ next.live.assignment \in [Var -> BOOLEAN]
        /\ next.gates = Configure(Scope, Selected(source))
        /\ next.bank = Drive(next.gates, before, after)
    BY InstallFacts
  <1>2. next.live = ProduceNext(source)
    BY DEF Install
  <1>3. next.gates \in Signals /\ Len(next.gates) = Len(Scope)
    BY <1>1, ConfigureType, ScopeAssumption
  <1>4. before \in Signals /\ Len(before) = Len(Scope)
    BY SenseType, ScopeAssumption
  <1>5. /\ Source!CanonicalFrame(source).live = ProduceNext(source)
        /\ Source!CanonicalFrame(source).selected = Selected(source)
        /\ Source!CanonicalFrame(source).transformedInput = before
        /\ Source!CanonicalFrame(source).retainedInput
             = Sense(Scope, ProduceNext(source).assignment)
    BY SourceOperators DEF Source!CanonicalFrame
  <1>6. /\ ReadBank(next.bank, "transformed") = Fire(next.gates, before)
        /\ ReadBank(next.bank, "retained") = after
    BY <1>1, RouteReads DEF Drive
  <1>7. Fire(next.gates, ReadBank(next.bank, "transformed")) = before
    BY <1>3, <1>4, <1>6, FireInvolutive
  <1> QED BY <1>1, <1>2, <1>5, <1>6, <1>7

\* In a coherent memory the reading of either inlet is the one the contract
\* computes from the remembered inputs.
LEMMA ReadingsAreTargets ==
  ASSUME Inductive, NEW inlet \in Inlets
  PROVE  Source!Target(inlet, live.seed, Fire(gates, ReadBank(bank, "transformed")),
                       ReadBank(bank, "retained")) = ReadBank(bank, inlet)
  <1> DEFINE reading == ReadBank(bank, "transformed")
             input == Fire(gates, reading)
  <1>1. /\ gates \in Signals /\ Len(gates) = Len(Scope)
        /\ reading \in Signals /\ Len(reading) = Len(Scope)
        /\ gates = Configure(Scope, live.seed)
    BY DEF Inductive, TypeOK, Coherent, WiringIsCurrent, Signals, ReadBank
  <1>2. input \in Signals /\ Len(input) = Len(Scope)
    BY <1>1, FireLength
  <1>3. Fire(gates, input) = reading
    BY <1>1, FireInvolutive
  <1>4. Fire(gates, input) = ReferenceAction(Scope, live.seed, input)
    BY <1>1, <1>2, ConfiguredActionExact, ScopeAssumption
  <1> QED BY <1>3, <1>4, SourceOperators DEF Source!Target, Inlets

\* perform_exact for a pulse: what the wiring drives is what the contract
\* computes, and the frame's new inputs are the ones presented.
LEMMA PulseIsReference ==
  ASSUME Inductive, NEW left \in Signals, NEW right \in Signals,
         PulseFits(Scope, left, right)
  PROVE  LET driven == Drive(gates, left, right) IN
           /\ Fire(gates, ReadBank(driven, "transformed")) = left
           /\ ReadBank(driven, "retained") = right
           /\ ReadBank(driven, "transformed") = Source!Target("transformed", live.seed, left, right)
           /\ ReadBank(driven, "retained") = Source!Target("retained", live.seed, left, right)
  <1> DEFINE driven == Drive(gates, left, right)
  <1>1. /\ gates \in Signals /\ Len(gates) = Len(Scope)
        /\ gates = Configure(Scope, live.seed)
        /\ Len(left) = Len(Scope)
    BY DEF Inductive, TypeOK, Coherent, WiringIsCurrent, Signals, PulseFits
  <1>2. /\ ReadBank(driven, "transformed") = Fire(gates, left)
        /\ ReadBank(driven, "retained") = right
    BY RouteReads DEF Drive
  <1>3. Fire(gates, Fire(gates, left)) = left
    BY <1>1, FireInvolutive
  <1>4. Fire(gates, left) = ReferenceAction(Scope, live.seed, left)
    BY <1>1, ConfiguredActionExact, ScopeAssumption
  <1> QED BY <1>2, <1>3, <1>4, SourceOperators DEF Source!Target

\* all_futures_exact: over every sequence of requests the connected memory
\* answers as its source contract, refusals included.
THEOREM ImplementsSource == Spec => SourceSpec
  <1>1. Init => Source!Init
    <2> SUFFICES ASSUME Init PROVE Source!Init
      OBVIOUS
    <2>1. Start.depth \in Nat /\ Start.assignment \in [Var -> BOOLEAN]
      BY StartAssumption
    <2> QED
      BY <2>1, InstallIsCanonical, SourceOperators DEF Init, Booted, Source!Init
  <1>2. Inductive /\ [Next]_vars => [Source!Next]_(Source!vars)
    <2> SUFFICES ASSUME Inductive, [Next]_vars
                 PROVE  Source!Next \/ UNCHANGED Source!vars
      BY DEF Source!vars
    <2>1. CASE Advance
      <3>1. live.depth \in Nat /\ live.assignment \in [Var -> BOOLEAN]
        BY DEF Inductive, TypeOK
      <3>2. Source!Advance
        BY <2>1, <3>1, InstallIsCanonical, SourceOperators DEF Advance, Source!Advance
      <3> QED BY <3>2 DEF Source!Next
    <2>2. ASSUME NEW inlet \in Inlets, Sample(inlet) PROVE Source!Next
      <3>1. Source!Sample(inlet)
        BY <2>2, ReadingsAreTargets, SourceOperators
        DEF Sample, memory, Source!Sample, Source!frame
      <3> QED BY <3>1, SourceOperators DEF Source!Next
    <2>3. ASSUME NEW left \in Inputs, NEW right \in Inputs, PulseDriven(left, right)
          PROVE  Source!Next
      <3>1. left \in Signals /\ right \in Signals /\ PulseFits(Scope, left, right)
        BY <2>3, InputsAssumption DEF PulseDriven
      <3>2. Source!PulseDriven(left, right)
        BY <2>3, <3>1, PulseIsReference, SourceOperators
        DEF PulseDriven, Source!PulseDriven
      <3> QED BY <3>2 DEF Source!Next
    <2>4. ASSUME NEW left \in Inputs, NEW right \in Inputs, PulseRefused(left, right)
          PROVE  Source!Next
      <3>1. Source!PulseRefused(left, right)
        BY <2>4, SourceOperators
        DEF PulseRefused, memory, Source!PulseRefused, Source!frame
      <3> QED BY <3>1 DEF Source!Next
    <2>5. CASE UNCHANGED vars
      BY <2>5 DEF vars, Source!vars
    <2> QED BY <2>1, <2>2, <2>3, <2>4, <2>5 DEF Next
  <1> QED BY <1>1, <1>2, MachineInvariant, PTL DEF Spec, SourceSpec, Source!Spec
-----------------------------------------------------------------------------
(* The search of one stage, whatever its index: of the candidates that are *)
(* left, only the split variable works.                                    *)

First(n) == <<Literal(SplitVar(n), TRUE), Literal(AnchorVar(n), TRUE)>>
Second(n) == <<Literal(SplitVar(n), FALSE), Literal(AnchorVar(n), TRUE)>>

\* What a clause of two literals holds.
LEMMA TwoContain ==
  ASSUME NEW clause, Len(clause) = 2, NEW e
  PROVE  Contains(clause, e) <=> clause[1] = e \/ clause[2] = e
  <1>1. \A i \in 1 .. 2 : i = 1 \/ i = 2
    OBVIOUS
  <1> QED BY <1>1 DEF Contains

\* Literals and decisions, equal and flipped.
LEMMA SameLiteral ==
  ASSUME NEW u, NEW w, NEW p \in BOOLEAN
  PROVE  /\ Literal(u, TRUE) = Literal(w, p) <=> u = w /\ p
         /\ Literal(u, FALSE) = Literal(w, p) <=> u = w /\ ~ p
  <1>1. CASE p = TRUE
    <2>1. Literal(u, TRUE) = Literal(w, TRUE) <=> u = w
      BY DEF Literal
    <2>2. Literal(u, FALSE) # Literal(w, TRUE)
      BY DEF Literal
    <2> QED BY <1>1, <2>1, <2>2, Zenon
  <1>2. CASE p = FALSE
    <2>1. Literal(u, FALSE) = Literal(w, FALSE) <=> u = w
      BY DEF Literal
    <2>2. Literal(u, TRUE) # Literal(w, FALSE)
      BY DEF Literal
    <2> QED BY <1>2, <2>1, <2>2, Zenon
  <1> QED BY <1>1, <1>2

LEMMA Flipped ==
  ASSUME NEW u, NEW v
  PROVE  /\ FlipLiteral(v, Literal(v, TRUE)) = Literal(v, FALSE)
         /\ FlipLiteral(v, Literal(v, FALSE)) = Literal(v, TRUE)
         /\ u # v => FlipLiteral(v, Literal(u, TRUE)) = Literal(u, TRUE)
         /\ FlipDecisions(v, <<Decision(v, FALSE)>>) = <<Decision(v, TRUE)>>
  <1>0. (~ TRUE) = FALSE /\ (~ FALSE) = TRUE
    OBVIOUS
  <1>1. FlipLiteral(v, Literal(v, TRUE)) = Literal(v, FALSE)
    <2>1. Literal(v, TRUE).var = v /\ Literal(v, TRUE).positive = TRUE
      BY DEF Literal
    <2> QED BY <2>1, Zenon DEF FlipLiteral
  <1>2. FlipLiteral(v, Literal(v, FALSE)) = Literal(v, TRUE)
    <2>1. Literal(v, FALSE).var = v /\ Literal(v, FALSE).positive = FALSE
      BY DEF Literal
    <2>2. FlipLiteral(v, Literal(v, FALSE)) = Literal(v, ~ Literal(v, FALSE).positive)
      BY <2>1 DEF FlipLiteral
    <2> QED BY <1>0, <2>1, <2>2, Zenon 
  <1>3. u # v => FlipLiteral(v, Literal(u, TRUE)) = Literal(u, TRUE)
    BY DEF FlipLiteral, Literal
  <1>4. FlipDecisions(v, <<Decision(v, FALSE)>>) = <<Decision(v, TRUE)>>
    <2> DEFINE d == <<Decision(v, FALSE)>>
    <2>1. DOMAIN d = 1 .. 1 /\ d[1] = Decision(v, FALSE)
      OBVIOUS
    <2>2. Decision(v, FALSE).var = v /\ Decision(v, ~ Decision(v, FALSE).value) = Decision(v, TRUE)
      BY DEF Decision
    <2>3. \A i \in 1 .. 1 : i = 1
      OBVIOUS
    <2> HIDE DEF d
    <2> DEFINE flip(i) == IF d[i].var = v THEN Decision(v, ~ d[i].value) ELSE d[i]
    <2>4. flip(1) = Decision(v, TRUE)
      BY <2>1, <2>2
    <2>5. FlipDecisions(v, d) = [i \in DOMAIN d |-> flip(i)]
      BY DEF FlipDecisions
    <2> HIDE DEF flip
    <2>6. /\ FlipDecisions(v, d) = [i \in 1 .. 1 |-> FlipDecisions(v, d)[i]]
          /\ FlipDecisions(v, d)[1] = flip(1)
      BY <2>1, <2>3, <2>5
    <2>7. FlipDecisions(v, d) = <<Decision(v, TRUE)>>
      BY <2>4, <2>6, Tuple1
    <2> QED BY <2>7 DEF d
  <1> QED BY <1>1, <1>2, <1>3, <1>4

\* Which literals the three clauses of a stage hold.
LEMMA StageLiterals ==
  ASSUME NEW n \in Nat, NEW v \in Nat, NEW p \in BOOLEAN
  PROVE  /\ Contains(DecoyClause(n), Literal(v, p)) <=> p /\ v \in 0 .. n
         /\ Contains(First(n), Literal(v, p)) <=> p /\ v \in {n + 2, n + 3}
         /\ Contains(Second(n), Literal(v, p)) <=> (v = n + 2 /\ ~ p) \/ (v = n + 3 /\ p)
  <1>1. DOMAIN DecoyClause(n) = 1 .. n + 1 /\ Len(DecoyClause(n)) = n + 1
    BY DEF DecoyClause
  <1>2. \A i \in 1 .. n + 1 : DecoyClause(n)[i] = Literal(n + 1 - i, TRUE)
    BY DEF DecoyClause
  <1>4. ASSUME p, v \in 0 .. n PROVE Contains(DecoyClause(n), Literal(v, p))
    <2>1. n + 1 - v \in 1 .. n + 1 /\ n + 1 - (n + 1 - v) = v
      BY <1>4
    <2>2. DecoyClause(n)[n + 1 - v] = Literal(v, TRUE)
      BY <1>2, <2>1
    <2> QED BY <1>1, <1>4, <2>1, <2>2 DEF Contains
  <1>5. ASSUME Contains(DecoyClause(n), Literal(v, p)) PROVE p /\ v \in 0 .. n
    <2>1. PICK i \in 1 .. n + 1 : DecoyClause(n)[i] = Literal(v, p)
      BY <1>1, <1>5 DEF Contains
    <2>2. Literal(n + 1 - i, TRUE) = Literal(v, p)
      BY <1>2, <2>1
    <2>3. n + 1 - i = v /\ p
      BY <2>2, SameLiteral
    <2>4. n + 1 - i \in 0 .. n
      OBVIOUS
    <2> QED BY <2>3, <2>4
  <1>6. /\ Len(First(n)) = 2 /\ First(n)[1] = Literal(n + 2, TRUE)
        /\ First(n)[2] = Literal(n + 3, TRUE)
        /\ Len(Second(n)) = 2 /\ Second(n)[1] = Literal(n + 2, FALSE)
        /\ Second(n)[2] = Literal(n + 3, TRUE)
    BY DEF First, Second, SplitVar, AnchorVar
  <1>8. Contains(First(n), Literal(v, p)) <=> p /\ v \in {n + 2, n + 3}
    <2>1. Contains(First(n), Literal(v, p)) <=>
            \/ Literal(n + 2, TRUE) = Literal(v, p)
            \/ Literal(n + 3, TRUE) = Literal(v, p)
      BY <1>6, TwoContain
    <2>2. Literal(n + 2, TRUE) = Literal(v, p) <=> n + 2 = v /\ p
      BY SameLiteral
    <2>3. Literal(n + 3, TRUE) = Literal(v, p) <=> n + 3 = v /\ p
      BY SameLiteral
    <2> QED BY <2>1, <2>2, <2>3
  <1>9. Contains(Second(n), Literal(v, p)) <=> (v = n + 2 /\ ~ p) \/ (v = n + 3 /\ p)
    <2>1. Contains(Second(n), Literal(v, p)) <=>
            \/ Literal(n + 2, FALSE) = Literal(v, p)
            \/ Literal(n + 3, TRUE) = Literal(v, p)
      BY <1>6, TwoContain
    <2>2. Literal(n + 2, FALSE) = Literal(v, p) <=> n + 2 = v /\ ~ p
      BY SameLiteral
    <2>3. Literal(n + 3, TRUE) = Literal(v, p) <=> n + 3 = v /\ p
      BY SameLiteral
    <2> QED BY <2>1, <2>2, <2>3
  <1> QED BY <1>4, <1>5, <1>8, <1>9

\* A branch of a stage's root keeps the clauses its literal does not satisfy.
LEMMA StageBranch ==
  ASSUME NEW n \in Nat, NEW v \in Nat, NEW p \in BOOLEAN
  PROVE  /\ v = n + 2 /\ p => BranchResidual(StageFormula(n), v, p) = <<DecoyClause(n), Second(n)>>
         /\ v = n + 2 /\ ~ p => BranchResidual(StageFormula(n), v, p) = <<DecoyClause(n), First(n)>>
         /\ v \in 0 .. n /\ p => BranchResidual(StageFormula(n), v, p) = <<First(n), Second(n)>>
         /\ v = n + 3 /\ p => BranchResidual(StageFormula(n), v, p) = <<DecoyClause(n)>>
         /\ (v \in 0 .. n \/ v = n + 3) /\ ~ p =>
              BranchResidual(StageFormula(n), v, p) = <<DecoyClause(n), First(n), Second(n)>>
  <1> DEFINE a == DecoyClause(n)
             b == First(n)
             c == Second(n)
             open == {clause \in ToSet(<<a, b, c>>) : ~ Contains(clause, Literal(v, p))}
             one == IF a \in open THEN <<a>> ELSE << >>
             two == IF b \in open THEN Append(one, b) ELSE one
  <1>1. BranchResidual(StageFormula(n), v, p) = Keep(<<a, b, c>>, open)
    BY DEF BranchResidual, StageFormula, First, Second
  <1>2. /\ a \in open <=> ~ Contains(a, Literal(v, p))
        /\ b \in open <=> ~ Contains(b, Literal(v, p))
        /\ c \in open <=> ~ Contains(c, Literal(v, p))
    <2>1. a \in ToSet(<<a, b, c>>) /\ b \in ToSet(<<a, b, c>>) /\ c \in ToSet(<<a, b, c>>)
      <3> HIDE DEF a, b, c
      <3>1. \A i \in 1 .. 3 : i \in DOMAIN <<a, b, c>>
        OBVIOUS
      <3>2. <<a, b, c>>[1] = a /\ <<a, b, c>>[2] = b /\ <<a, b, c>>[3] = c
        OBVIOUS
      <3> QED BY <3>1, <3>2 DEF ToSet
    <2> QED BY <2>1
  <1>3. /\ a \in open <=> ~ (p /\ v \in 0 .. n)
        /\ b \in open <=> ~ (p /\ v \in {n + 2, n + 3})
        /\ c \in open <=> ~ ((v = n + 2 /\ ~ p) \/ (v = n + 3 /\ p))
    BY <1>2, StageLiterals
  <1> HIDE DEF open
  <1>4. Keep(<<a, b, c>>, open) = IF c \in open THEN Append(two, c) ELSE two
    BY KeepOfThree
  <1> HIDE DEF a, b, c
  <1>5. /\ Append(<<a>>, b) = <<a, b>> /\ Append(<< >>, b) = <<b>> /\ Append(<<a>>, c) = <<a, c>>
        /\ Append(<<a, b>>, c) = <<a, b, c>> /\ Append(<<b>>, c) = <<b, c>>
    BY Appended
  <1>6. CASE v = n + 2 /\ p
    <2>1. a \in open /\ b \notin open /\ c \in open
      BY <1>3, <1>6
    <2> QED BY <1>1, <1>4, <1>5, <1>6, <2>1 DEF a, b, c
  <1>7. CASE v = n + 2 /\ ~ p
    <2>1. a \in open /\ b \in open /\ c \notin open
      BY <1>3, <1>7
    <2> QED BY <1>1, <1>4, <1>5, <1>7, <2>1 DEF a, b, c
  <1>8. CASE v \in 0 .. n /\ p
    <2>1. a \notin open /\ b \in open /\ c \in open
      BY <1>3, <1>8
    <2> QED BY <1>1, <1>4, <1>5, <1>8, <2>1 DEF a, b, c
  <1>9. CASE v = n + 3 /\ p
    <2>1. a \in open /\ b \notin open /\ c \notin open
      BY <1>3, <1>9
    <2> QED BY <1>1, <1>4, <1>9, <2>1 DEF a, b, c
  <1>10. CASE (v \in 0 .. n \/ v = n + 3) /\ ~ p
    <2>1. a \in open /\ b \in open /\ c \in open
      BY <1>3, <1>10
    <2> QED BY <1>1, <1>4, <1>5, <1>10, <2>1 DEF a, b, c
  <1> QED BY <1>6, <1>7, <1>8, <1>9, <1>10

\* Only the split variable separates two branches that one flip relates: the candidates
\* before it satisfy the decoy, and the anchor both of the other clauses.
LEMMA SplitAloneWorks ==
  ASSUME NEW n \in Nat, NEW v \in (0 .. n) \cup {n + 2, n + 3}
  PROVE  CandidateWorks(RootContext(StageFormula(n)), v) <=> v = n + 2
  <1> DEFINE root == RootContext(StageFormula(n))
             off == BranchResidual(StageFormula(n), v, FALSE)
             on == BranchResidual(StageFormula(n), v, TRUE)
  <1>1. v \in Nat
    OBVIOUS
  <1>2. root.formula = StageFormula(n) /\ root.decisions = << >>
    BY DEF RootContext
  <1> HIDE DEF root
  <1>3. /\ Child(root, v, FALSE).formula = off
        /\ Child(root, v, TRUE).formula = on
        /\ Child(root, v, FALSE).decisions = <<Decision(v, FALSE)>>
        /\ Child(root, v, TRUE).decisions = <<Decision(v, TRUE)>>
    <2>1. \A d : <<d>> \o << >> = <<d>>
      OBVIOUS
    <2> QED BY <1>2, <2>1 DEF Child
  <1>4. FlipDecisions(v, <<Decision(v, FALSE)>>) = <<Decision(v, TRUE)>>
    BY Flipped
  <1>5. CandidateWorks(root, v) <=> on = FlipFormula(v, off)
    <2>1. Avoids(v, root.decisions)
      BY <1>2 DEF Avoids
    <2>2. FlipRelated(v, Child(root, v, FALSE), Child(root, v, TRUE)) <=> on = FlipFormula(v, off)
      BY <1>3, <1>4 DEF FlipRelated
    <2> QED BY <2>1, <2>2 DEF CandidateWorks
  <1>6. CASE v = n + 2
    <2>1. off = <<DecoyClause(n), First(n)>> /\ on = <<DecoyClause(n), Second(n)>>
      BY <1>1, <1>6, StageBranch
    <2>3. [j \in DOMAIN DecoyClause(n) |-> FlipLiteral(v, DecoyClause(n)[j])] = DecoyClause(n)
      BY <1>6 DEF DecoyClause, FlipLiteral, Literal
    <2>4. [j \in DOMAIN First(n) |-> FlipLiteral(v, First(n)[j])] = Second(n)
      <3>1. /\ FlipLiteral(v, Literal(n + 2, TRUE)) = Literal(n + 2, FALSE)
            /\ FlipLiteral(v, Literal(n + 3, TRUE)) = Literal(n + 3, TRUE)
        <4>1. n + 3 # v /\ n + 2 = v
          BY <1>6
        <4> QED BY <4>1, Flipped
      <3>2. /\ DOMAIN First(n) = 1 .. 2 /\ First(n)[1] = Literal(n + 2, TRUE)
            /\ First(n)[2] = Literal(n + 3, TRUE)
        BY DEF First, SplitVar, AnchorVar
      <3>3. Second(n) = <<Literal(n + 2, FALSE), Literal(n + 3, TRUE)>>
        BY DEF Second, SplitVar, AnchorVar
      <3> DEFINE flip(j) == FlipLiteral(v, First(n)[j])
                 flipped == [j \in DOMAIN First(n) |-> flip(j)]
      <3> HIDE DEF flip
      <3>4. /\ flipped = [i \in 1 .. 2 |-> flipped[i]]
            /\ flipped[1] = flip(1) /\ flipped[2] = flip(2)
        BY <3>2
      <3> HIDE DEF flipped
      <3>5. flipped = <<Literal(n + 2, FALSE), Literal(n + 3, TRUE)>>
        BY <3>1, <3>2, <3>4, Tuple2 DEF flip
      <3> QED BY <3>3, <3>5 DEF flipped, flip
    <2>5. FlipFormula(v, <<DecoyClause(n), First(n)>>) = <<DecoyClause(n), Second(n)>>
      <3> DEFINE off2 == <<DecoyClause(n), First(n)>>
      <3>1. DOMAIN off2 = 1 .. 2 /\ off2[1] = DecoyClause(n) /\ off2[2] = First(n)
        OBVIOUS
      <3> HIDE DEF off2
      <3>2. /\ FlipFormula(v, off2) = [i \in 1 .. 2 |-> FlipFormula(v, off2)[i]]
            /\ FlipFormula(v, off2)[1] = DecoyClause(n)
            /\ FlipFormula(v, off2)[2] = Second(n)
        BY <2>3, <2>4, <3>1 DEF FlipFormula
      <3>3. FlipFormula(v, off2) = <<DecoyClause(n), Second(n)>>
        BY <3>2, Tuple2
      <3> QED BY <3>3 DEF off2
    <2> QED BY <1>5, <1>6, <2>1, <2>5 DEF root
  <1>7. CASE v # n + 2
    <2>1. DOMAIN FlipFormula(v, off) = DOMAIN off
      BY DEF FlipFormula
    <2>0. \A p, q, r : /\ DOMAIN <<p>> = 1 .. 1 /\ DOMAIN <<p, q>> = 1 .. 2
                       /\ DOMAIN <<p, q, r>> = 1 .. 3
      OBVIOUS
    <2>2. off = <<DecoyClause(n), First(n), Second(n)>>
      BY <1>1, <1>7, StageBranch
    <2>3. on = <<First(n), Second(n)>> \/ on = <<DecoyClause(n)>>
      BY <1>1, <1>7, StageBranch
    <2>4. DOMAIN off = 1 .. 3 /\ (DOMAIN on = 1 .. 2 \/ DOMAIN on = 1 .. 1)
      BY <2>0, <2>2, <2>3
    <2>5. 3 \in 1 .. 3 /\ 3 \notin 1 .. 2 /\ 3 \notin 1 .. 1
      OBVIOUS
    <2> QED BY <1>5, <1>7, <2>1, <2>4, <2>5 DEF root
  <1> QED BY <1>6, <1>7

\* The candidates of a stage, clause after clause.
LEMMA StageCandidates ==
  ASSUME NEW n \in Nat
  PROVE  /\ Candidates(StageFormula(n)) \in Seq(Nat)
         /\ ToSet(Candidates(StageFormula(n))) = (0 .. n) \cup {n + 2, n + 3}
  <1> DEFINE f == StageFormula(n)
             names(clause) == [j \in DOMAIN clause |-> clause[j].var]
             a == names(DecoyClause(n))
             b == names(First(n))
             c == names(Second(n))
  <1>1. DOMAIN f = 1 .. 3 /\ f[1] = DecoyClause(n) /\ f[2] = First(n) /\ f[3] = Second(n)
    <2>1. f = <<DecoyClause(n), First(n), Second(n)>>
      BY DEF StageFormula, First, Second
    <2>2. \A p, q, r : /\ DOMAIN <<p, q, r>> = 1 .. 3 /\ <<p, q, r>>[1] = p
                       /\ <<p, q, r>>[2] = q /\ <<p, q, r>>[3] = r
      OBVIOUS
    <2> HIDE DEF f
    <2> QED BY <2>1, <2>2
  <1>2. /\ a \in Seq(Nat) /\ ToSet(a) = 0 .. n
    <2>1. a = [j \in 1 .. n + 1 |-> n + 1 - j]
      BY DEF DecoyClause, Literal
    <2>2. a \in Seq(Nat) /\ DOMAIN a = 1 .. n + 1
      BY <2>1
    <2>3. ASSUME NEW v \in 0 .. n PROVE n + 1 - v \in 1 .. n + 1 /\ a[n + 1 - v] = v
      BY <2>1
    <2> HIDE DEF a
    <2>4. \A j \in 1 .. n + 1 : a[j] \in 0 .. n
      BY <2>1
    <2> QED BY <2>2, <2>3, <2>4 DEF ToSet
  <1>3. b = <<n + 2, n + 3>>
    <2>1. DOMAIN First(n) = 1 .. 2 /\ First(n)[1].var = n + 2 /\ First(n)[2].var = n + 3
      BY DEF First, Literal, SplitVar, AnchorVar
    <2>2. b = [j \in 1 .. 2 |-> b[j]] /\ b[1] = n + 2 /\ b[2] = n + 3
      BY <2>1
    <2> HIDE DEF b
    <2> QED BY <2>2, Tuple2
  <1>4. c = <<n + 2, n + 3>>
    <2>1. DOMAIN Second(n) = 1 .. 2 /\ Second(n)[1].var = n + 2 /\ Second(n)[2].var = n + 3
      BY DEF Second, Literal, SplitVar, AnchorVar
    <2>2. c = [j \in 1 .. 2 |-> c[j]] /\ c[1] = n + 2 /\ c[2] = n + 3
      BY <2>1
    <2> HIDE DEF c
    <2> QED BY <2>2, Tuple2
  <1>5. ToSet(<<n + 2, n + 3>>) = {n + 2, n + 3} /\ <<n + 2, n + 3>> \in Seq(Nat)
    <2>1. \A i \in 1 .. 2 : i = 1 \/ i = 2
      OBVIOUS
    <2> DEFINE t == <<n + 2, n + 3>>
    <2>2. DOMAIN t = 1 .. 2 /\ t[1] = n + 2 /\ t[2] = n + 3 /\ t \in Seq(Nat)
      OBVIOUS
    <2>3. 1 \in 1 .. 2 /\ 2 \in 1 .. 2
      OBVIOUS
    <2> HIDE DEF t
    <2>4. ToSet(t) = {n + 2, n + 3}
      BY <2>1, <2>2, <2>3 DEF ToSet
    <2> QED BY <2>2, <2>4 DEF t
  <1>6. Candidates(f) = FlattenSeq([i \in DOMAIN f |-> names(f[i])])
    BY DEF Candidates
  <1> DEFINE listed == [i \in DOMAIN f |-> names(f[i])]
  <1> HIDE DEF names, f
  <1>7. /\ listed = [i \in 1 .. 3 |-> listed[i]]
        /\ listed[1] = a /\ listed[2] = b /\ listed[3] = c
    BY <1>1
  <1> HIDE DEF listed, a, b, c
  <1>8. listed = <<a, b, c>>
    BY <1>7, Tuple3
  <1>9. b \in Seq(Nat) /\ c \in Seq(Nat) /\ ToSet(b) = {n + 2, n + 3} /\ ToSet(c) = {n + 2, n + 3}
    BY <1>3, <1>4, <1>5
  <1>10. /\ FlattenSeq(<<a, b, c>>) \in Seq(Nat)
         /\ ToSet(FlattenSeq(<<a, b, c>>)) = (ToSet(a) \cup ToSet(b)) \cup ToSet(c)
    <2>1. a \in Seq(Nat) /\ b \in Seq(Nat) /\ c \in Seq(Nat)
      BY <1>2, <1>9
    <2> QED BY <2>1, FlattenMembers
  <1>11. Candidates(f) = FlattenSeq(<<a, b, c>>)
    BY <1>6, <1>8 DEF listed
  <1> QED BY <1>2, <1>9, <1>10, <1>11 DEF f

\* Whatever was discovered before, a stage whose split variable is not among it
\* discovers that variable.
LEMMA DiscoversSplit ==
  ASSUME NEW n \in Nat, NEW provenance, n + 2 \notin ToSet(provenance)
  PROVE  FoundAt(n, provenance) # 0 /\ Discover(n, provenance) = n + 2
  <1> DEFINE list == Explored(n, provenance)
             all == Candidates(StageFormula(n))
             root == RootContext(StageFormula(n))
             found == {i \in 1 .. Len(list) : CandidateWorks(root, list[i])}
  <1>1. list \in Seq(Nat) /\ ToSet(list) = ToSet(all) \ ToSet(provenance)
    <2>1. all \in Seq(Nat)
      BY StageCandidates
    <2>2. list = Keep(all, ToSet(all) \ ToSet(provenance))
      BY DEF Explored, FilterByProvenance
    <2> HIDE DEF all, list
    <2>3. list \in Seq(Nat) /\ ToSet(list) = ToSet(all) \cap (ToSet(all) \ ToSet(provenance))
      BY <2>1, <2>2, KeepMembers
    <2> QED BY <2>3
  <1>2. ToSet(list) \subseteq (0 .. n) \cup {n + 2, n + 3} /\ n + 2 \in ToSet(list)
    BY <1>1, StageCandidates
  <1>3. FoundAt(n, provenance) = IF found # {} THEN Min(found) ELSE 0
    BY DEF FoundAt, SelectInSeq
  <1> HIDE DEF list
  <1>4. \A i \in 1 .. Len(list) : list[i] \in (0 .. n) \cup {n + 2, n + 3}
    BY <1>1, <1>2 DEF ToSet
  <1>5. \A i \in found : list[i] = n + 2
    BY <1>4, SplitAloneWorks
  <1>6. found # {}
    <2>1. PICK i \in 1 .. Len(list) : list[i] = n + 2
      BY <1>1, <1>2 DEF ToSet
    <2>2. CandidateWorks(root, n + 2)
      BY SplitAloneWorks
    <2> QED BY <2>1, <2>2
  <1>7. found \subseteq Nat
    BY <1>1
  <1> HIDE DEF found
  <1>8. Min(found) \in found
    <2>1. \E x \in found : \A y \in found : x <= y
      BY <1>6, <1>7, Least
    <2> QED BY <2>1 DEF Min
  <1>9. Min(found) # 0
    BY <1>8 DEF found
  <1> QED BY <1>3, <1>5, <1>6, <1>8, <1>9 DEF Discover, list
-----------------------------------------------------------------------------
(* The discoveries of a whole run, from the live state the public master   *)
(* hands over.                                                             *)

\* Whatever a formula's index, the decoy and the anchor keep it satisfied.
LEMMA AnchorsSatisfy ==
  ASSUME NEW n \in Nat, NEW assignment, assignment[0] = TRUE, assignment[n + 3] = TRUE
  PROVE  Satisfies(assignment, StageFormula(n))
  <1>1. StageFormula(n) = <<DecoyClause(n), First(n), Second(n)>>
    BY DEF StageFormula, First, Second
  <1>2. \A p, q, r : /\ DOMAIN <<p, q, r>> = 1 .. 3 /\ <<p, q, r>>[1] = p
                     /\ <<p, q, r>>[2] = q /\ <<p, q, r>>[3] = r
    OBVIOUS
  <1>3. \A i \in 1 .. 3 : i = 1 \/ i = 2 \/ i = 3
    OBVIOUS
  <1>4. \E j \in DOMAIN DecoyClause(n) :
          assignment[DecoyClause(n)[j].var] = DecoyClause(n)[j].positive
    <2>1. n + 1 \in DOMAIN DecoyClause(n) /\ DecoyClause(n)[n + 1] = Literal(0, TRUE)
      <3>1. n + 1 \in 1 .. n + 1 /\ n + 1 - (n + 1) = 0
        OBVIOUS
      <3> QED BY <3>1 DEF DecoyClause
    <2>2. Literal(0, TRUE).var = 0 /\ Literal(0, TRUE).positive = TRUE
      BY DEF Literal
    <2> QED BY <2>1, <2>2
  <1>5. Literal(n + 3, TRUE).var = n + 3 /\ Literal(n + 3, TRUE).positive = TRUE
    BY DEF Literal
  <1>6. \E j \in DOMAIN First(n) : assignment[First(n)[j].var] = First(n)[j].positive
    <2>1. 2 \in DOMAIN First(n) /\ First(n)[2] = Literal(n + 3, TRUE)
      BY DEF First, AnchorVar
    <2> QED BY <1>5, <2>1
  <1>7. \E j \in DOMAIN Second(n) : assignment[Second(n)[j].var] = Second(n)[j].positive
    <2>1. 2 \in DOMAIN Second(n) /\ Second(n)[2] = Literal(n + 3, TRUE)
      BY DEF Second, AnchorVar
    <2> QED BY <1>5, <2>1
  <1>8. /\ DOMAIN StageFormula(n) = 1 .. 3 /\ StageFormula(n)[1] = DecoyClause(n)
        /\ StageFormula(n)[2] = First(n) /\ StageFormula(n)[3] = Second(n)
    BY <1>1, <1>2
  <1> QED BY <1>3, <1>4, <1>6, <1>7, <1>8 DEF Satisfies

\* What a sound live state finds next.
LEMMA SoundSelects ==
  ASSUME FromMaster, NEW source, LiveSound(source), source.depth <= MaxDepth
  PROVE  /\ FoundAt(source.seed, source.provenance) # 0
         /\ Selected(source) = source.seed + 2
         /\ Selected(source) = StageSelectedVar(source.depth + 1)
         /\ Selected(source) = 2 * (source.target + 1)
         /\ Selected(source) \in Var /\ Selected(source) + 1 \in Var
         /\ source.seed \in Nat /\ source.target \in Nat /\ source.target > 0
         /\ Selected(source) + 1 <= StageSelectedVar(MaxDepth + 1) + 1
         /\ StageSelectedVar(MaxDepth + 1) + 1 \in Nat
  <1>1. /\ source.depth \in Nat /\ source.target = source.depth + 4
        /\ source.seed = 2 * source.target
    BY DEF LiveSound, OperationalIndex
  <1>2. source.seed + 2 \notin ToSet(source.provenance)
    <2>1. \A i \in DOMAIN source.decisions : source.decisions[i].var <= source.seed
      BY <1>1 DEF LiveSound
    <2>2. source.provenance = [i \in DOMAIN source.decisions |-> source.decisions[i].var]
      BY DEF LiveSound
    <2>3. \A i \in DOMAIN source.provenance : source.provenance[i] # source.seed + 2
      BY <1>1, <2>1, <2>2
    <2> QED BY <2>3 DEF ToSet
  <1>3. /\ FoundAt(source.seed, source.provenance) # 0
        /\ Selected(source) = source.seed + 2
    BY <1>1, <1>2, DiscoversSplit DEF Selected
  <1>4. StageSelectedVar(source.depth + 1) = source.seed + 2
    BY <1>1 DEF StageSelectedVar, SplitVar, SearchIndex, OperationalIndex
  <1>5. source.seed + 3 \in 0 .. StageSelectedVar(MaxDepth + 1) + 1
    BY <1>1 DEF FromMaster, StageSelectedVar, SplitVar, SearchIndex, OperationalIndex
  <1>6. StageSelectedVar(MaxDepth + 1) + 1 \in Nat
    BY DEF FromMaster, StageSelectedVar, SplitVar, SearchIndex, OperationalIndex
  <1>7. source.seed + 2 \in Var /\ source.seed + 3 \in Var
    BY <1>1, <1>5, <1>6 DEF FromMaster
  <1>8. /\ source.seed \in Nat /\ source.target \in Nat /\ source.target > 0
        /\ source.seed + 2 = 2 * (source.target + 1) /\ (source.seed + 2) + 1 = source.seed + 3
    BY <1>1
  <1> QED BY <1>3, <1>4, <1>5, <1>6, <1>7, <1>8

LEMMA SoundFacts ==
  ASSUME FromMaster, NEW source, LiveSound(source), source.depth <= MaxDepth
  PROVE  /\ source.assignment[Selected(source)] = FALSE
         /\ Avoids(Selected(source), source.decisions)
         /\ \A i \in DOMAIN source.provenance :
              Satisfies(source.assignment, StageFormula(source.provenance[i] - 2))
         /\ Satisfies(source.assignment, StageFormula(source.seed))
  <1>1. /\ source.depth \in Nat /\ source.target \in Nat /\ source.seed = 2 * source.target
        /\ source.target > 0
        /\ Selected(source) = 2 * (source.target + 1) /\ Selected(source) \in Var
        /\ Selected(source) + 1 \in Var
    BY SoundSelects DEF LiveSound
  <1>2. source.assignment[Selected(source)] = FALSE
    <2>1. source.target + 1 \in Nat /\ source.target + 1 > source.target
      BY <1>1
    <2> QED BY <1>1, <2>1 DEF LiveSound
  <1>3. ASSUME NEW i \in DOMAIN source.decisions
        PROVE  \E k \in 1 .. source.target : source.decisions[i].var = 2 * k
    BY DEF LiveSound
  <1>4. Avoids(Selected(source), source.decisions)
    BY <1>1, <1>3 DEF Avoids
  <1>5. ASSUME NEW k \in Nat, k <= source.target
        PROVE  Satisfies(source.assignment, StageFormula(2 * k))
    <2>1. 2 * k + 3 = 2 * (k + 1) + 1 /\ k + 1 \in Nat /\ 2 * k \in Nat
      OBVIOUS
    <2>2. 2 * k + 3 \in Var
      <3>1. Selected(source) + 1 <= StageSelectedVar(MaxDepth + 1) + 1
        BY SoundSelects
      <3>2. StageSelectedVar(MaxDepth + 1) + 1 \in Nat
        BY SoundSelects
      <3>3. 2 * k + 3 \in 0 .. StageSelectedVar(MaxDepth + 1) + 1
        BY <1>1, <1>5, <3>1, <3>2
      <3> QED BY <3>3 DEF FromMaster
    <2>3. source.assignment[2 * k + 3] = TRUE /\ source.assignment[0] = TRUE
      BY <2>1, <2>2 DEF LiveSound
    <2> QED BY <2>1, <2>3, AnchorsSatisfy
  <1>6. Satisfies(source.assignment, StageFormula(source.seed))
    BY <1>1, <1>5
  <1>7. ASSUME NEW i \in DOMAIN source.provenance
        PROVE  Satisfies(source.assignment, StageFormula(source.provenance[i] - 2))
    <2>1. i \in DOMAIN source.decisions /\ source.provenance[i] = source.decisions[i].var
      BY DEF LiveSound
    <2>2. PICK k \in 1 .. source.target : source.decisions[i].var = 2 * k
      BY <1>3, <2>1
    <2>3. k - 1 \in Nat /\ k - 1 <= source.target /\ source.provenance[i] - 2 = 2 * (k - 1)
      BY <1>1, <2>1, <2>2
    <2> QED BY <1>5, <2>3
  <1> QED BY <1>2, <1>4, <1>6, <1>7

\* A production keeps the live state sound.
LEMMA ProductionSound ==
  ASSUME FromMaster, NEW source, LiveSound(source), source.depth <= MaxDepth
  PROVE  LiveSound(ProduceNext(source)) /\ ProduceNext(source).depth = source.depth + 1
  <1> DEFINE selected == Selected(source)
             output == FlipAt(selected, source.assignment)
             decided == ReadDecision(source, output)
             next == ProduceNext(source)
             D == [var : Nat, value : BOOLEAN]
  <1>1. /\ source.depth \in Nat /\ source.target \in Nat /\ source.target > 0
        /\ source.target = source.depth + 4 /\ source.seed = 2 * source.target
        /\ selected = 2 * (source.target + 1) /\ selected \in Var
        /\ selected = StageSelectedVar(source.depth + 1)
        /\ selected <= StageSelectedVar(MaxDepth + 1) + 1
        /\ StageSelectedVar(MaxDepth + 1) + 1 \in Nat
    <2>1. /\ source.depth \in Nat /\ source.target = source.depth + 4
          /\ source.seed = 2 * source.target
      BY DEF LiveSound, OperationalIndex
    <2>2. /\ source.target \in Nat /\ source.target > 0 /\ selected = 2 * (source.target + 1)
          /\ selected \in Var /\ selected = StageSelectedVar(source.depth + 1)
          /\ selected + 1 <= StageSelectedVar(MaxDepth + 1) + 1
          /\ StageSelectedVar(MaxDepth + 1) + 1 \in Nat
      BY SoundSelects
    <2> QED BY <2>1, <2>2
  <1>2. /\ next.depth = source.depth + 1 /\ next.target = source.target + 1
        /\ next.seed = selected /\ next.assignment = output
        /\ next.decisions = <<decided>> \o source.decisions
        /\ next.provenance = <<selected>> \o source.provenance
    BY DEF ProduceNext, NextDepth, NextTarget
  <1>3. /\ output \in [Var -> BOOLEAN]
        /\ output[selected] = ~ source.assignment[selected]
        /\ \A v \in Var : v # selected => output[v] = source.assignment[v]
    BY <1>1 DEF FlipAt, LiveSound
  <1>4. decided = Decision(selected, output[selected])
    BY <1>1 DEF ReadDecision
  <1>5. decided \in D /\ decided.var = selected /\ decided.value = output[selected]
    <2>1. selected \in Nat /\ output[selected] \in BOOLEAN
      BY <1>1, <1>3
    <2> QED BY <1>4, <2>1 DEF Decision
  <1>6. source.decisions \in Seq(D)
    BY DEF LiveSound
  <1> HIDE DEF next, decided, output, selected, D
  <1>7. /\ next.decisions \in Seq(D) /\ Len(source.decisions) \in Nat
        /\ DOMAIN source.decisions = 1 .. Len(source.decisions)
        /\ DOMAIN next.decisions = 1 .. Len(source.decisions) + 1
        /\ next.decisions[1] = decided
        /\ \A i \in 2 .. Len(source.decisions) + 1 : next.decisions[i] = source.decisions[i - 1]
    BY <1>2, <1>5, <1>6, Prepended
  <1>8. \A i \in DOMAIN next.decisions :
          i = 1 \/ (i \in 2 .. Len(source.decisions) + 1 /\ i - 1 \in DOMAIN source.decisions)
    BY <1>7
  <1>9. ASSUME NEW i \in DOMAIN source.decisions
        PROVE  \E k \in 1 .. source.target : source.decisions[i].var = 2 * k
    BY DEF LiveSound
  <1>10. next.provenance = [i \in DOMAIN next.decisions |-> next.decisions[i].var]
    <2>1. source.provenance = [i \in DOMAIN source.decisions |-> source.decisions[i].var]
      BY DEF LiveSound
    <2>2. source.provenance \in Seq(Nat) /\ Len(source.provenance) = Len(source.decisions)
      <3>1. \A i \in DOMAIN source.decisions : source.decisions[i].var \in Nat
        <4>1. \A i \in DOMAIN source.decisions : source.decisions[i] \in D
          BY <1>6
        <4> QED BY <4>1 DEF D
      <3> QED BY <1>7, <2>1, <3>1
    <2>3. selected \in Nat
      BY <1>1
    <2>4. /\ next.provenance \in Seq(Nat) 
          /\ DOMAIN next.provenance = 1 .. Len(source.decisions) + 1
          /\ next.provenance[1] = selected
          /\ \A i \in 2 .. Len(source.decisions) + 1 :
               next.provenance[i] = source.provenance[i - 1]
      BY <1>2, <2>2, <2>3, Prepended
    <2>5. \A i \in DOMAIN next.decisions : next.provenance[i] = next.decisions[i].var
      <3> SUFFICES ASSUME NEW i \in DOMAIN next.decisions
                   PROVE  next.provenance[i] = next.decisions[i].var
        OBVIOUS
      <3>1. CASE i = 1
        BY <1>5, <1>7, <2>4, <3>1
      <3>2. CASE i \in 2 .. Len(source.decisions) + 1 /\ i - 1 \in DOMAIN source.decisions
        <4>1. next.provenance[i] = source.provenance[i - 1]
          BY <2>4, <3>2
        <4>2. source.provenance[i - 1] = source.decisions[i - 1].var
          BY <2>1, <3>2
        <4>3. next.decisions[i] = source.decisions[i - 1]
          BY <1>7, <3>2
        <4> QED BY <4>1, <4>2, <4>3
      <3> QED BY <1>8, <3>1, <3>2
    <2>6. \A list \in Seq(Nat) : list = [i \in DOMAIN list |-> list[i]]
      OBVIOUS
    <2>7. next.provenance = [i \in DOMAIN next.provenance |-> next.provenance[i]]
      BY <2>4, <2>6
    <2> QED BY <1>7, <2>4, <2>5, <2>7
  <1>11. \A i \in DOMAIN next.decisions : \E k \in 1 .. next.target : next.decisions[i].var = 2 * k
    <2> SUFFICES ASSUME NEW i \in DOMAIN next.decisions
                 PROVE  \E k \in 1 .. next.target : next.decisions[i].var = 2 * k
      OBVIOUS
    <2>1. CASE i = 1
      <3>1. \A n \in Nat : n + 1 \in 1 .. n + 1
        OBVIOUS
      <3>2. source.target + 1 \in 1 .. next.target
        BY <1>1, <1>2, <3>1
      <3> QED BY <1>1, <1>5, <1>7, <2>1, <3>2
    <2>2. CASE i \in 2 .. Len(source.decisions) + 1 /\ i - 1 \in DOMAIN source.decisions
      <3>1. PICK k \in 1 .. source.target : source.decisions[i - 1].var = 2 * k
        BY <1>9, <2>2
      <3>2. k \in 1 .. next.target
        BY <1>1, <1>2
      <3> QED BY <1>7, <2>2, <3>1, <3>2
    <2> QED BY <1>8, <2>1, <2>2
  <1>12. 0 \in Var
    BY DEF FromMaster, StageSelectedVar, SplitVar, SearchIndex, OperationalIndex
  <1>13. next.assignment[0] = TRUE
    <2>1. selected # 0
      BY <1>1
    <2>2. source.assignment[0] = TRUE
      BY DEF LiveSound
    <2> QED BY <1>2, <1>3, <1>12, <2>1, <2>2
  <1>14. ASSUME NEW k \in Nat, 2 * k + 1 \in Var PROVE next.assignment[2 * k + 1] = TRUE
    <2>1. 2 * k + 1 # selected
      BY <1>1
    <2>2. source.assignment[2 * k + 1] = TRUE
      BY <1>14 DEF LiveSound
    <2> QED BY <1>2, <1>3, <1>14, <2>1, <2>2
  <1>15. ASSUME NEW k \in Nat, k > next.target, 2 * k \in Var PROVE next.assignment[2 * k] = FALSE
    <2>1. k > source.target + 1
      BY <1>2, <1>15
    <2>2. 2 * k # selected /\ k > source.target
      BY <1>1, <2>1
    <2>3. source.assignment[2 * k] = FALSE
      BY <1>15, <2>2 DEF LiveSound
    <2> QED BY <1>2, <1>3, <1>15, <2>2, <2>3
  <1>16. Realizes(next.assignment, next.decisions)
    <2> SUFFICES ASSUME NEW i \in DOMAIN next.decisions
                 PROVE  next.assignment[next.decisions[i].var] = next.decisions[i].value
      BY DEF Realizes
    <2>1. CASE i = 1
      BY <1>2, <1>5, <1>7, <2>1
    <2>2. CASE i \in 2 .. Len(source.decisions) + 1 /\ i - 1 \in DOMAIN source.decisions
      <3>1. PICK k \in 1 .. source.target : source.decisions[i - 1].var = 2 * k
        BY <1>9, <2>2
      <3>2. 2 * k # selected /\ 2 * k \in Nat /\ 2 * k <= selected
        BY <1>1
      <3>3. 2 * k \in Var
        <4>1. 2 * k \in 0 .. StageSelectedVar(MaxDepth + 1) + 1
          BY <1>1, <3>2
        <4> QED BY <4>1 DEF FromMaster
      <3>4. source.assignment[2 * k] = source.decisions[i - 1].value
        BY <2>2, <3>1 DEF LiveSound, Realizes
      <3> QED BY <1>2, <1>3, <1>7, <2>2, <3>1, <3>2, <3>3, <3>4
    <2> QED BY <1>8, <2>1, <2>2
  <1>17. /\ next.depth \in Nat /\ next.assignment \in [Var -> BOOLEAN]
         /\ next.target = OperationalIndex(next.depth + 1)
         /\ next.seed = 2 * next.target
    <2>1. next.target = (source.depth + 4) + 1 /\ next.depth = source.depth + 1
      BY <1>1, <1>2
    <2>2. OperationalIndex(next.depth + 1) = next.target
      BY <1>1, <2>1 DEF OperationalIndex
    <2>3. next.seed = 2 * next.target
      BY <1>1, <1>2
    <2>4. next.depth \in Nat
      <3>1. source.depth \in Nat
        BY <1>1
      <3> QED BY <2>1, <3>1
    <2>5. next.assignment \in [Var -> BOOLEAN]
      BY <1>2, <1>3
    <2> QED BY <2>2, <2>3, <2>4, <2>5
  <1>18. LiveSound(next)
    BY <1>7, <1>10, <1>11, <1>13, <1>14, <1>15, <1>16, <1>17 DEF LiveSound, D
  <1> QED BY <1>2, <1>18 DEF next

\* What the public master starts from is sound.
LEMMA OriginSound ==
  ASSUME FromMaster, NEW input \in Nat
  PROVE  LiveSound(OriginLive(input, Var)) /\ OriginLive(input, Var).depth = input
  <1> DEFINE origin == OriginLive(input, Var)
  <1>1. /\ origin.depth = input /\ origin.assignment = InitialAssignment(Var)
        /\ origin.target = OperationalIndex(input + 1) /\ origin.seed = SearchIndex(input + 1)
        /\ origin.decisions = << >> /\ origin.provenance = << >>
    BY DEF OriginLive
  <1> HIDE DEF origin
  <1>2. origin.assignment \in [Var -> BOOLEAN]
    BY <1>1 DEF InitialAssignment
  <1>3. origin.seed = 2 * origin.target
    BY <1>1 DEF SearchIndex
  <1>4. origin.decisions \in Seq([var : Nat, value : BOOLEAN]) /\ DOMAIN origin.decisions = {}
    BY <1>1
  <1>5. origin.provenance = [i \in DOMAIN origin.decisions |-> origin.decisions[i].var]
    BY <1>1, <1>4
  <1>6. origin.assignment[0] = TRUE
    <2>1. 0 \in Var
      BY DEF FromMaster, StageSelectedVar, SplitVar, SearchIndex, OperationalIndex
    <2> QED BY <1>1, <2>1 DEF InitialAssignment
  <1>7. ASSUME NEW k \in Nat, 2 * k + 1 \in Var PROVE origin.assignment[2 * k + 1] = TRUE
    <2>1. (2 * k + 1) % 2 = 1
      OBVIOUS
    <2> QED BY <1>1, <1>7, <2>1 DEF InitialAssignment
  <1>8. ASSUME NEW k \in Nat, k > origin.target, 2 * k \in Var
        PROVE  origin.assignment[2 * k] = FALSE
    <2>1. (2 * k) % 2 = 0
      OBVIOUS
    <2>2. 2 * k # 0
      BY <1>1, <1>8 DEF OperationalIndex
    <2>3. origin.assignment[2 * k] = (2 * k = 0 \/ (2 * k) % 2 = 1)
      BY <1>1, <1>8 DEF InitialAssignment
    <2>4. ~ (2 * k = 0 \/ (2 * k) % 2 = 1)
      BY <2>1, <2>2
    <2> QED BY <2>3, <2>4, Zenon
  <1>9. origin.depth \in Nat /\ origin.target = OperationalIndex(origin.depth + 1)
    BY <1>1
  <1>10. /\ \A i \in DOMAIN origin.decisions :
              \E k \in 1 .. origin.target : origin.decisions[i].var = 2 * k
         /\ Realizes(origin.assignment, origin.decisions)
    BY <1>4 DEF Realizes
  <1>11. LiveSound(origin)
    BY <1>2, <1>3, <1>4, <1>5, <1>6, <1>7, <1>8, <1>9, <1>10 DEF LiveSound
  <1> QED BY <1>1, <1>11 DEF origin

\* The public master's stages, counted up: the function PublicLive is read off.
Stages(after, input) ==
  /\ after[0] = OriginLive(input, Var)
  /\ \A n \in Nat : after[n + 1] = ProduceNext(after[n])

LEMMA PublicUnfolds ==
  ASSUME NEW input \in Nat
  PROVE  \E after : Stages(after, input) /\ PublicLive(input, Var) = after[input + 1]
  <1> DEFINE origin == OriginLive(input, Var)
             Body(f) == [n \in Nat |-> IF n = 0 THEN origin ELSE ProduceNext(f[n - 1])]
             UpTo(f, k) == /\ f[0] = origin
                           /\ \A n \in 1 .. k : f[n] = ProduceNext(f[n - 1])
             Has(k) == \E f : UpTo(f, k)
             S == {k \in Nat : Has(k)}
  <1>1. PublicLive(input, Var) = (CHOOSE f : f = Body(f))[input + 1]
    BY DEF PublicLive
  <1> HIDE DEF origin
  <1>2. 0 \in S
    <2> DEFINE f == [n \in {0} |-> origin]
    <2>1. UpTo(f, 0)
      OBVIOUS
    <2> QED BY <2>1
  <1>3. ASSUME NEW k \in Nat, k \in S PROVE k + 1 \in S
    <2>1. PICK f : UpTo(f, k)
      BY <1>3
    <2> DEFINE last == ProduceNext(f[k])
               g == [n \in 0 .. k + 1 |-> IF n = k + 1 THEN last ELSE f[n]]
    <2>2. g[0] = origin /\ g[k + 1] = last /\ \A n \in 0 .. k : g[n] = f[n]
      BY <2>1
    <2>3. last = ProduceNext(f[k])
      OBVIOUS
    <2> HIDE DEF g, last
    <2>4. ASSUME NEW n \in 1 .. k + 1 PROVE g[n] = ProduceNext(g[n - 1])
      <3>1. CASE n = k + 1
        <4>1. n - 1 = k /\ g[k] = f[k]
          BY <2>2, <3>1
        <4> QED BY <2>2, <2>3, <3>1, <4>1
      <3>2. CASE n \in 1 .. k
        <4>1. f[n] = ProduceNext(f[n - 1])
          BY <2>1, <3>2
        <4>2. n - 1 \in 0 .. k /\ n \in 0 .. k
          BY <3>2
        <4>3. g[n] = f[n] /\ g[n - 1] = f[n - 1]
          BY <2>2, <4>2
        <4> QED BY <4>1, <4>3
      <3> QED BY <3>1, <3>2
    <2>5. UpTo(g, k + 1)
      BY <2>2, <2>4
    <2> QED BY <2>5
  <1> HIDE DEF S
  <1>4. Nat \subseteq S
    BY <1>2, <1>3, BySet
  <1> DEFINE chosen == [k \in Nat |-> CHOOSE f : UpTo(f, k)]
             after == [k \in Nat |-> chosen[k][k]]
  <1>5. \A k \in Nat : UpTo(chosen[k], k)
    BY <1>4 DEF S
  <1>6. ASSUME NEW j \in Nat, NEW k \in Nat, j <= k
        PROVE  \A n \in 0 .. j : chosen[j][n] = chosen[k][n]
    <2> DEFINE A == {n \in Nat : n <= j => chosen[j][n] = chosen[k][n]}
    <2> HIDE DEF chosen
    <2>1. 0 \in A
      BY <1>5
    <2>2. ASSUME NEW n \in Nat, n \in A PROVE n + 1 \in A
      <3> SUFFICES ASSUME n + 1 <= j PROVE chosen[j][n + 1] = chosen[k][n + 1]
        OBVIOUS
      <3>1. n + 1 \in 1 .. j /\ n + 1 \in 1 .. k /\ (n + 1) - 1 = n
        BY <1>6
      <3>2. chosen[j][n] = chosen[k][n]
        BY <2>2
      <3>3. /\ chosen[j][n + 1] = ProduceNext(chosen[j][n])
            /\ chosen[k][n + 1] = ProduceNext(chosen[k][n])
        BY <1>5, <3>1
      <3> QED BY <3>2, <3>3
    <2> HIDE DEF A
    <2>3. Nat \subseteq A
      BY <2>1, <2>2, BySet
    <2> QED BY <2>3 DEF A
  <1>7. \A k \in Nat : after[k] = chosen[k][k]
    OBVIOUS
  <1>8. DOMAIN after = Nat /\ after = [k \in Nat |-> after[k]]
    OBVIOUS
  <1> HIDE DEF chosen, after
  <1>9. after[0] = origin
    BY <1>5, <1>7
  <1>10. ASSUME NEW n \in Nat PROVE after[n + 1] = ProduceNext(after[n])
    <2>1. n + 1 \in 1 .. n + 1 /\ (n + 1) - 1 = n /\ n \in 0 .. n /\ n <= n + 1 /\ n + 1 \in Nat
      OBVIOUS
    <2>2. chosen[n + 1][n + 1] = ProduceNext(chosen[n + 1][n])
      BY <1>5, <2>1
    <2>3. chosen[n + 1][n] = chosen[n][n]
      BY <1>6, <2>1
    <2> QED BY <1>7, <2>1, <2>2, <2>3
  <1>11. \A f : /\ DOMAIN Body(f) = Nat /\ Body(f) = [n \in Nat |-> Body(f)[n]]
                /\ Body(f)[0] = origin
                /\ \A n \in Nat : Body(f)[n + 1] = ProduceNext(f[n])
    OBVIOUS
  <1> HIDE DEF Body
  <1>12. \A n \in Nat : after[n] = Body(after)[n]
    <2> SUFFICES ASSUME NEW n \in Nat PROVE after[n] = Body(after)[n]
      OBVIOUS
    <2>1. CASE n = 0
      BY <1>9, <1>11, <2>1
    <2>2. CASE n # 0
      <3>1. n - 1 \in Nat /\ (n - 1) + 1 = n
        BY <2>2
      <3> QED BY <1>10, <1>11, <3>1
    <2> QED BY <2>1, <2>2
  <1>13. after = Body(after)
    BY <1>8, <1>11, <1>12
  <1>14. PICK f : f = Body(f) /\ PublicLive(input, Var) = f[input + 1]
    BY <1>1, <1>13
  <1>15. f[0] = Body(f)[0] /\ \A n \in Nat : f[n + 1] = Body(f)[n + 1]
    BY <1>14
  <1>16. f[0] = origin /\ \A n \in Nat : f[n + 1] = ProduceNext(f[n])
    BY <1>11, <1>15
  <1> QED BY <1>14, <1>16 DEF Stages, origin

\* The start itself is sound.
LEMMA StartSound ==
  ASSUME FromMaster
  PROVE  LiveSound(Start)
  <1>1. PICK input \in Nat : Start = PublicLive(input, Var)
    BY DEF FromMaster
  <1>2. PICK after : Stages(after, input) /\ Start = after[input + 1]
    BY <1>1, PublicUnfolds
  <1> DEFINE S == {n \in Nat : input + n <= MaxDepth =>
                                 LiveSound(after[n]) /\ after[n].depth = input + n}
  <1>3. 0 \in S
    BY <1>2, OriginSound DEF Stages
  <1>4. ASSUME NEW n \in Nat, n \in S PROVE n + 1 \in S
    <2> SUFFICES ASSUME input + (n + 1) <= MaxDepth
                 PROVE  LiveSound(after[n + 1]) /\ after[n + 1].depth = input + (n + 1)
      OBVIOUS
    <2>0. MaxDepth \in Nat
      BY DEF FromMaster
    <2>1. LiveSound(after[n]) /\ after[n].depth = input + n
      BY <1>4, <2>0
    <2>2. after[n].depth <= MaxDepth
      BY <2>0, <2>1
    <2>3. after[n + 1] = ProduceNext(after[n])
      BY <1>2 DEF Stages
    <2>4. /\ LiveSound(ProduceNext(after[n]))
          /\ ProduceNext(after[n]).depth = after[n].depth + 1
      BY <2>1, <2>2, ProductionSound
    <2> QED BY <2>1, <2>3, <2>4
  <1> HIDE DEF S
  <1>5. Nat \subseteq S
    BY <1>3, <1>4, BySet
  <1>6. \A n \in Nat : after[n + 1].depth = after[n].depth + 1
    <2> SUFFICES ASSUME NEW n \in Nat PROVE after[n + 1].depth = after[n].depth + 1
      OBVIOUS
    <2>1. after[n + 1] = ProduceNext(after[n])
      BY <1>2 DEF Stages
    <2>2. ProduceNext(after[n]).depth = after[n].depth + 1
      BY DEF ProduceNext, NextDepth
    <2> QED BY <2>1, <2>2
  <1>7. \A n \in Nat : after[n].depth = input + n
    <2> DEFINE D == {n \in Nat : after[n].depth = input + n}
    <2>1. 0 \in D
      BY <1>2 DEF Stages, OriginLive
    <2>2. ASSUME NEW n \in Nat, n \in D PROVE n + 1 \in D
      BY <1>6, <2>2
    <2> HIDE DEF D
    <2>3. Nat \subseteq D
      BY <2>1, <2>2, BySet
    <2> QED BY <2>3 DEF D
  <1>8. input + (input + 1) <= MaxDepth /\ input + 1 \in Nat
    BY <1>2, <1>7 DEF FromMaster
  <1>9. LiveSound(after[input + 1])
    BY <1>5, <1>8 DEF S
  <1> QED BY <1>2, <1>9

\* Along every behaviour the live state stays sound, and within the bound.
THEOREM DiscoverySound ==
  ASSUME FromMaster
  PROVE  Spec => []DiscoveryInductive
  <1>1. Init => DiscoveryInductive
    <2> SUFFICES ASSUME Init PROVE DiscoveryInductive
      OBVIOUS
    <2>1. live = ProduceNext(Start)
      BY DEF Init, Booted, Install
    <2>2. LiveSound(Start) /\ Start.depth < MaxDepth /\ MaxDepth \in Nat /\ Start.depth \in Nat
      BY StartSound DEF FromMaster, LiveSound
    <2>3. Start.depth <= MaxDepth /\ Start.depth + 1 <= MaxDepth
      BY <2>2
    <2> QED BY <2>1, <2>2, <2>3, ProductionSound DEF DiscoveryInductive
  <1>2. DiscoveryInductive /\ [Next]_vars => DiscoveryInductive'
    <2> SUFFICES ASSUME DiscoveryInductive, [Next]_vars PROVE DiscoveryInductive'
      OBVIOUS
    <2>1. CASE Advance
      <3>1. live' = ProduceNext(live) /\ live.depth < MaxDepth
        BY <2>1 DEF Advance, Install
      <3>2. live.depth \in Nat /\ MaxDepth \in Nat
        BY DEF DiscoveryInductive, LiveSound, FromMaster
      <3>3. live.depth <= MaxDepth /\ live.depth + 1 <= MaxDepth
        BY <3>1, <3>2
      <3> QED BY <3>1, <3>3, ProductionSound DEF DiscoveryInductive
    <2>2. ASSUME NEW inlet \in Inlets, Sample(inlet) PROVE DiscoveryInductive'
      BY <2>2 DEF Sample, memory, DiscoveryInductive
    <2>3. ASSUME NEW left \in Inputs, NEW right \in Inputs,
                 PulseDriven(left, right) \/ PulseRefused(left, right)
          PROVE  DiscoveryInductive'
      BY <2>3 DEF PulseDriven, PulseRefused, memory, DiscoveryInductive
    <2>4. CASE UNCHANGED vars
      BY <2>4 DEF vars, DiscoveryInductive
    <2> QED BY <2>1, <2>2, <2>3, <2>4 DEF Next
  <1> QED BY <1>1, <1>2, PTL DEF Spec

\* The two paths to a stage's index agree for ever.
THEOREM SeedAlwaysFollows ==
  ASSUME FromMaster
  PROVE  Spec => []SeedFollowsGeneration
  <1>1. DiscoveryInductive => SeedFollowsGeneration
    BY DEF DiscoveryInductive, LiveSound, SeedFollowsGeneration
  <1> QED BY <1>1, DiscoverySound, PTL

\* Every stage discovers the variable it is constituted to split on, which no
\* executed stage decided.
THEOREM SelectionAlwaysFresh ==
  ASSUME FromMaster
  PROVE  Spec => []NextSelectionFresh
  <1>1. DiscoveryInductive => NextSelectionFresh
    BY SoundSelects, SoundFacts DEF DiscoveryInductive, LiveSound, NextSelectionFresh
  <1> QED BY <1>1, DiscoverySound, PTL

\* The carried assignment realises every decision and satisfies every stage's root.
THEOREM AssignmentAlwaysAccepted ==
  ASSUME FromMaster
  PROVE  Spec => []AssignmentAccepted
  <1>1. DiscoveryInductive => AssignmentAccepted
    BY SoundFacts DEF DiscoveryInductive, LiveSound, AssignmentAccepted
  <1> QED BY <1>1, DiscoverySound, PTL
=============================================================================
