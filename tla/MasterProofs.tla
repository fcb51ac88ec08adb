---------------------------- MODULE MasterProofs ----------------------------
(***************************************************************************)
(* The master memory for every search, every circuit and every received    *)
(* frontier: what the core keeps coherent, what a routed packet may be     *)
(* trusted for, and that admission and answer agree.  Then with the        *)
(* frontier search the code composes it with: what is retained, what the   *)
(* circuit transports and that no stage changes whether the problem has a  *)
(* solution.                                                               *)
(***************************************************************************)
EXTENDS MasterMachine, FabricProofs

CoreInvariant == MasterType /\ CoherentOnceConfigured

\* The core is made of the same gates and banks as the master's own module.
LEMMA CoreOperators ==
  /\ \A one, two : Core!Fire(one, two) = Fire(one, two)
  /\ \A scope, chosen : Core!Configure(scope, chosen) = Configure(scope, chosen)
  /\ \A left, right : Core!Route(left, right) = Route(left, right)
  /\ \A one, left, right : Core!Drive(one, left, right) = Drive(one, left, right)
  /\ \A some : Core!NormalizeBank(some) = NormalizeBank(some)
  /\ \A bits : Core!Shared(bits) = Shared(bits)
  /\ \A left, right : Core!PulseFits(Scope, left, right) = PulseFits(Scope, left, right)
  /\ \A some : Core!Sampled(some) = Sampled(some)
  /\ \A left, right : Core!Driven(left, right) = Driven(left, right)
  /\ Core!Advanced = Advanced /\ Core!Refused = Refused /\ Core!Started = Started
  <1>1. \A one, two : Core!Fire(one, two) = Fire(one, two)
    BY DEF Core!Fire, Fire, Core!Shorter, Shorter, Core!GateFire, GateFire
  <1>2. \A scope, chosen : Core!Configure(scope, chosen) = Configure(scope, chosen)
    BY DEF Core!Configure, Configure
  <1>3. /\ \A left, right : Core!Route(left, right) = Route(left, right)
        /\ \A bits : Core!Shared(bits) = Shared(bits)
    BY DEF Core!Route, Route, Core!Shared, Shared, Core!Separate, Separate
  <1>4. \A one, left, right : Core!Drive(one, left, right) = Drive(one, left, right)
    BY <1>1, <1>3 DEF Core!Drive, Drive
  <1>5. \A some : Core!NormalizeBank(some) = NormalizeBank(some)
    BY <1>3 DEF Core!NormalizeBank, NormalizeBank, Core!ReadBank, ReadBank
  <1>6. \A left, right : Core!PulseFits(Scope, left, right) = PulseFits(Scope, left, right)
    BY DEF Core!PulseFits, PulseFits
  <1>7. /\ \A some : Core!Sampled(some) = Sampled(some)
        /\ \A left, right : Core!Driven(left, right) = Driven(left, right)
        /\ Core!Advanced = Advanced /\ Core!Refused = Refused /\ Core!Started = Started
    BY DEF Core!Sampled, Sampled, Core!Driven, Driven, Core!Advanced, Advanced,
           Core!Refused, Refused, Core!Started, Started
  <1> QED BY <1>1, <1>2, <1>3, <1>4, <1>5, <1>6, <1>7

\* The memory received from the public master, before any stage.
LEMMA ReceivedCore == Core!Received => CoreInvariant
  <1> SUFFICES ASSUME Core!Received PROVE CoreInvariant
    OBVIOUS
  <1>1. live = Start /\ gates = << >> /\ bank = NormalizeBank(Shared(Start.values))
    BY CoreOperators DEF Core!Received
  <1>2. /\ bank.transformed = Start.values /\ bank.retained = Start.values
    BY <1>1 DEF NormalizeBank, Route, ReadBank, Shared, Separate
  <1> QED
    BY <1>1, <1>2, MasterStartAssumption
    DEF CoreInvariant, MasterType, CoherentOnceConfigured, Configured, Signals

\* A stage configures a wiring of the scope's length and stores readings of it.
LEMMA AdvanceCore == CoreInvariant /\ Core!Advance => CoreInvariant'
  <1> SUFFICES ASSUME CoreInvariant, Core!Advance PROVE CoreInvariant'
    OBVIOUS
  <1> DEFINE chosen == Discovered(live.seed, live.provenance)
             wiring == Configure(Scope, chosen)
             output == Fire(wiring, live.values)
  <1>1. live.values \in Signals /\ Len(live.values) = Len(Scope)
    BY DEF CoreInvariant, MasterType
  <1>2. wiring \in Signals /\ Len(wiring) = Len(Scope)
    BY ConfigureType, MasterScopeAssumption
  <1>3. output \in Signals /\ Len(output) = Len(Scope)
    BY <1>1, <1>2, FireLength
  <1>4. live'.values = output /\ gates' = wiring /\ bank' = Route(output, output)
    BY CoreOperators DEF Core!Advance, Core!Install
  <1>5. bank'.transformed = output /\ bank'.retained = output
    BY <1>4 DEF Route, Shared, Separate
  <1> QED
    BY <1>2, <1>3, <1>4, <1>5
    DEF CoreInvariant, MasterType, CoherentOnceConfigured, Configured

\* A pulse keeps the engine and the wiring; before the first stage it empties the
\* transformed inlet and nothing else.
LEMMA PulseCore ==
  ASSUME CoreInvariant, NEW left \in Inputs, NEW right \in Inputs,
         Core!PulseDriven(left, right)
  PROVE  CoreInvariant'
  <1>1. /\ left \in Signals /\ right \in Signals
        /\ Len(left) = Len(Scope) /\ Len(right) = Len(Scope)
    BY MasterInputsAssumption, CoreOperators DEF Core!PulseDriven, PulseFits
  <1>2. live' = live /\ gates' = gates /\ bank' = Drive(gates, left, right)
    BY CoreOperators DEF Core!PulseDriven
  <1>3. bank'.transformed = Fire(gates, left) /\ bank'.retained = right
    BY <1>2 DEF Drive, Route, Shared, Separate
  <1>4. gates \in Signals /\ (Configured => Len(gates) = Len(Scope))
    BY DEF CoreInvariant, MasterType
  <1>5. Fire(gates, left) \in Signals
    BY <1>1, <1>4, FireSignals
  <1>6. Configured => Len(Fire(gates, left)) = Len(Scope)
    BY <1>1, <1>4, FireLength
  <1> QED
    BY <1>1, <1>2, <1>3, <1>4, <1>5, <1>6
    DEF CoreInvariant, MasterType, CoherentOnceConfigured, Configured

\* Whatever is routed, sampled, pulsed or refused in between, a master that has
\* executed one stage of its own stays coherent (the invariant of
\* MemoryInvariant.lean, for memories that were received rather than booted).
THEOREM MasterCoherent == Spec => [](MasterType /\ CoherentOnceConfigured)
  <1>1. Init => CoreInvariant
    BY ReceivedCore DEF Init
  <1>2. CoreInvariant /\ [Next]_vars => CoreInvariant'
    <2> SUFFICES ASSUME CoreInvariant, [Next]_vars PROVE CoreInvariant'
      OBVIOUS
    <2>1. CASE Advance
      BY <2>1, AdvanceCore DEF Advance
    <2>2. CASE CoreRequest
      <3>1. ASSUME NEW left \in Inputs, NEW right \in Inputs, Core!PulseDriven(left, right)
            PROVE  CoreInvariant'
        BY <3>1, PulseCore
      <3>2. ASSUME UNCHANGED <<live, gates, bank>> PROVE CoreInvariant'
        BY <3>2 DEF CoreInvariant, MasterType, CoherentOnceConfigured, Configured
      <3> QED
        BY <2>2, <3>1, <3>2 DEF CoreRequest, Core!Sample, Core!PulseRefused, Core!memory
    <2>3. CASE RoutingRequest \/ UNCHANGED vars
      BY <2>3 DEF RoutingRequest, vars, CoreInvariant, MasterType,
                  CoherentOnceConfigured, Configured
    <2> QED BY <2>1, <2>2, <2>3 DEF Next
  <1>3. CoreInvariant => MasterType /\ CoherentOnceConfigured
    BY DEF CoreInvariant
  <1> QED BY <1>1, <1>2, <1>3, PTL DEF Spec
-----------------------------------------------------------------------------
\* Refusals are answers of their own.
LEMMA AnswersDiffer ==
  LET refusals == {Refused, RoutingRefused}
  IN  /\ Started \notin refusals /\ Advanced \notin refusals
      /\ \A bits : Sampled(bits) \notin refusals
      /\ \A left, right : Driven(left, right) \notin refusals
      /\ \A slot, bits : Routed(slot, bits) \notin refusals
      /\ \A value : SampledProblem(value) \notin refusals
  <1>1. Refused.kind = "refused" /\ RoutingRefused.kind = "routingRefused"
    BY DEF Refused, RoutingRefused
  <1>2. /\ Started.kind = "started" /\ Advanced.kind = "advanced"
        /\ \A bits : Sampled(bits).kind = "sampled"
        /\ \A left, right : Driven(left, right).kind = "driven"
        /\ \A slot, bits : Routed(slot, bits).kind = "routed"
        /\ \A value : SampledProblem(value).kind = "sampledProblem"
    BY DEF Started, Advanced, Sampled, Driven, Routed, SampledProblem
  <1> QED BY <1>1, <1>2

\* Admission is decided apart from execution and never disagrees with it, although
\* the circuit checks the slot a second time.
THEOREM MasterAdmission == Spec => []AdmissionExact
  <1>1. Init => AdmissionExact
    BY CoreOperators, AnswersDiffer DEF Init, Core!Received, AdmissionExact
  <1>2. AdmissionExact /\ [Next]_vars => AdmissionExact'
    <2> SUFFICES ASSUME AdmissionExact, [Next]_vars PROVE AdmissionExact'
      OBVIOUS
    <2>1. CASE Advance
      BY <2>1, CoreOperators, AnswersDiffer DEF Advance, Core!Advance, AdmissionExact
    <2>2. CASE CoreRequest
      <3>1. ASSUME NEW inlet \in Inlets, Core!Sample(inlet) PROVE AdmissionExact'
        BY <3>1, CoreOperators, AnswersDiffer DEF Core!Sample, AdmissionExact
      <3>2. ASSUME NEW left, NEW right, Core!PulseDriven(left, right)
            PROVE  AdmissionExact'
        BY <3>2, CoreOperators, AnswersDiffer DEF Core!PulseDriven, AdmissionExact
      <3>3. ASSUME NEW left, NEW right, Core!PulseRefused(left, right)
            PROVE  AdmissionExact'
        BY <3>3, CoreOperators DEF Core!PulseRefused, AdmissionExact
      <3> QED BY <2>2, <3>1, <3>2, <3>3 DEF CoreRequest
    <2>3. CASE RoutingRequest
      <3>1. ASSUME NEW slot, NEW bits, PacketRouted(slot, bits) PROVE AdmissionExact'
        <4>1. event' \notin {Refused, RoutingRefused}
          BY <3>1, AnswersDiffer DEF PacketRouted
        <4>2. allowed' = TRUE
          BY <3>1 DEF PacketRouted, RouteFits
        <4> QED BY <4>1, <4>2 DEF AdmissionExact
      <3>2. ASSUME NEW slot, NEW bits, RouteRefused(slot, bits) PROVE AdmissionExact'
        <4>1. event' = RoutingRefused
          BY <3>2 DEF RouteRefused
        <4>2. allowed' = FALSE
          BY <3>2 DEF RouteRefused, RouteFits, Applies
        <4> QED BY <4>1, <4>2 DEF AdmissionExact
      <3>3. ASSUME SampleProblem PROVE AdmissionExact'
        BY <3>3, AnswersDiffer DEF SampleProblem, AdmissionExact
      <3> QED BY <2>3, <3>1, <3>2, <3>3 DEF RoutingRequest, ProblemRequest
    <2>4. CASE UNCHANGED vars
      BY <2>4 DEF vars, AdmissionExact
    <2> QED BY <2>1, <2>2, <2>3, <2>4 DEF Next
  <1> QED BY <1>1, <1>2, PTL DEF Spec

\* No routed reading survives the circuit it came out of: an advance forgets it with
\* the frontier its slot named.  Nothing is assumed of the search.
THEOREM RoutedAlwaysCurrent == Spec => []RoutedIsCurrent
  <1>1. Init => RoutedIsCurrent
    BY DEF Init, InitialProblem, RoutedIsCurrent
  <1>2. RoutedIsCurrent /\ [Next]_vars => RoutedIsCurrent'
    <2> SUFFICES ASSUME RoutedIsCurrent, [Next]_vars PROVE RoutedIsCurrent'
      OBVIOUS
    <2>1. CASE Advance
      BY <2>1 DEF Advance, InstallProblem, RoutedIsCurrent
    <2>2. ASSUME NEW slot \in Slots, NEW bits \in Inputs, PacketRouted(slot, bits)
          PROVE  RoutedIsCurrent'
      <3>1. /\ RouteFits(slot, bits)
            /\ routed' = RoutedTo(Follow(circuit, [slot |-> slot, bits |-> bits]))
            /\ UNCHANGED <<sourceWidth, circuit>>
        BY <2>2 DEF PacketRouted
      <3> QED BY <3>1 DEF RoutedIsCurrent, RouteFits
    <2>3. ASSUME UNCHANGED problem PROVE RoutedIsCurrent'
      BY <2>3 DEF problem, RoutedIsCurrent, RouteFits
    <2> QED
      BY <2>1, <2>2, <2>3
      DEF Next, CoreRequest, RoutingRequest, ProblemRequest, RouteRefused, SampleProblem,
          vars, problem
  <1> QED BY <1>1, <1>2, PTL DEF Spec
-----------------------------------------------------------------------------
\* The front of the engine stays where the search was supposed to move, and every
\* variable it discovers has a value.
EngineFront == <<live.depth, live.seed, live.provenance>>

LEMMA FrontReceived ==
  ASSUME NEW Fronts, DiscoveryStays(Fronts), Init
  PROVE  EngineFront \in Fronts
  BY DEF Init, Core!Received, EngineFront, DiscoveryStays

LEMMA FrontAdvanced ==
  ASSUME NEW Fronts, DiscoveryStays(Fronts), EngineFront \in Fronts, Advance
  PROVE  EngineFront' \in Fronts /\ live'.seed \in Variables
  <1> DEFINE chosen == Discovered(live.seed, live.provenance)
  <1>1. /\ live.depth < MaxDepth /\ live'.depth = live.depth + 1 /\ live'.seed = chosen
        /\ live'.provenance = <<chosen>> \o live.provenance
    BY DEF Advance, Core!Advance, Core!Install
  <1>2. EngineFront[1] = live.depth /\ EngineFront[2] = live.seed /\ EngineFront[3] = live.provenance
    BY DEF EngineFront
  <1>3. /\ Discovered(EngineFront[2], EngineFront[3]) \in Variables
        /\ <<EngineFront[1] + 1, Discovered(EngineFront[2], EngineFront[3]),
             <<Discovered(EngineFront[2], EngineFront[3])>> \o EngineFront[3]>> \in Fronts
    <2>1. EngineFront[1] < MaxDepth
      BY <1>1, <1>2
    <2> QED BY <2>1 DEF DiscoveryStays
  <1> QED BY <1>1, <1>2, <1>3 DEF EngineFront

LEMMA FrontKept ==
  ASSUME NEW Fronts, EngineFront \in Fronts, UNCHANGED live
  PROVE  EngineFront' \in Fronts
  BY DEF EngineFront

\* Nothing but an advance touches the engine, its wiring or the retained frontier.
LEMMA OtherSteps ==
  ASSUME [Next]_vars
  PROVE  Advance \/ UNCHANGED <<live, gates, frontier>>
  <1>1. CASE CoreRequest
    BY <1>1 DEF CoreRequest, Core!Sample, Core!PulseDriven, Core!PulseRefused, Core!memory, problem
  <1>2. CASE RoutingRequest
    BY <1>2 DEF RoutingRequest, ProblemRequest, PacketRouted, RouteRefused, SampleProblem, problem
  <1>3. CASE UNCHANGED vars
    BY <1>3 DEF vars
  <1> QED BY <1>1, <1>2, <1>3 DEF Next

\* What the search owes the memory, on a class of frontiers it stays in: a reduced
\* opening is routed by its circuit into the contexts retained with it
\* (lowerFrontier_exact with senseFrontier_slot_lt), the identity moves nothing.
SearchLands(Frontiers) ==
  /\ Sources \subseteq Frontiers
  /\ \A slot \in Slots, bits \in Inputs :
       LET packet == [slot |-> slot, bits |-> bits]
       IN  Follow(IdentityCircuit, packet) = packet
  /\ \A selected \in Variables, source \in Frontiers :
       LET production == Reduction(Scope, selected, source)
       IN  /\ production.retained \in Frontiers
           /\ \A slot \in Slots, bits \in Inputs :
                slot < Len(production.opening) /\ Len(bits) = Len(Scope) =>
                  LET output == Follow(production.configured,
                                            [slot |-> slot, bits |-> bits])
                  IN  output.slot < Len(production.retained)
                      /\ Len(output.bits) = Len(Scope)

\* The class is kept, the circuit of the moment lands in the frontier of the
\* moment, and a packet routed through it may be looked up.
THEOREM RoutedAlwaysLive ==
  ASSUME NEW Fronts, DiscoveryStays(Fronts), NEW Frontiers, SearchLands(Frontiers)
  PROVE  Spec => [](CircuitLands /\ RoutedIsLive)
  <1> DEFINE Kept == /\ EngineFront \in Fronts /\ frontier \in Frontiers
                     /\ CircuitLands /\ RoutedIsLive
  <1>1. Init => Kept
    <2> SUFFICES ASSUME Init PROVE Kept
      OBVIOUS
    <2>1. PICK source \in Sources : InitialProblem(source)
      BY DEF Init
    <2>2. /\ frontier \in Frontiers /\ sourceWidth = Len(frontier)
          /\ circuit = IdentityCircuit /\ routed = NotRouted
      BY <2>1 DEF InitialProblem, SearchLands
    <2>3. CircuitLands
      BY <2>2 DEF CircuitLands, RouteFits, SearchLands
    <2> QED BY <2>2, <2>3, FrontReceived DEF RoutedIsLive
  <1>2. Kept /\ [Next]_vars => Kept'
    <2> SUFFICES ASSUME Kept, [Next]_vars PROVE Kept'
      OBVIOUS
    <2>1. CASE Advance
      <3> DEFINE production == Reduction(Scope, live'.seed, frontier)
      <3>1. /\ frontier' = production.retained /\ sourceWidth' = Len(production.opening)
            /\ circuit' = production.configured /\ routed' = NotRouted
        BY <2>1 DEF Advance, InstallProblem
      <3>5. EngineFront' \in Fronts /\ live'.seed \in Variables
        BY <2>1, FrontAdvanced
      <3>2. frontier' \in Frontiers
        BY <3>1, <3>5 DEF SearchLands
      <3>3. CircuitLands'
        BY <3>1, <3>5 DEF CircuitLands, RouteFits, SearchLands
      <3>4. RoutedIsLive'
        BY <3>1 DEF RoutedIsLive
      <3> QED BY <3>2, <3>3, <3>4, <3>5
    <2>2. ASSUME NEW slot \in Slots, NEW bits \in Inputs, PacketRouted(slot, bits)
          PROVE  frontier' \in Frontiers /\ CircuitLands' /\ RoutedIsLive'
      <3> DEFINE output == Follow(circuit, [slot |-> slot, bits |-> bits])
      <3>1. /\ RouteFits(slot, bits) /\ routed' = RoutedTo(output)
            /\ UNCHANGED <<frontier, sourceWidth, circuit>>
        BY <2>2 DEF PacketRouted
      <3>2. output.slot < Len(frontier) /\ Len(output.bits) = Len(Scope)
        BY <3>1 DEF CircuitLands
      <3>3. CircuitLands'
        BY <3>1 DEF CircuitLands, RouteFits
      <3>4. RoutedIsLive'
        BY <3>1, <3>2 DEF RoutedIsLive, RoutedTo
      <3> QED BY <3>1, <3>3, <3>4
    <2>3. ASSUME UNCHANGED problem PROVE frontier' \in Frontiers /\ CircuitLands' /\ RoutedIsLive'
      BY <2>3 DEF problem, CircuitLands, RouteFits, RoutedIsLive
    <2>4. Advance \/ EngineFront' \in Fronts
      BY OtherSteps, FrontKept
    <2> QED
      BY <2>1, <2>2, <2>3, <2>4
      DEF Next, CoreRequest, RoutingRequest, ProblemRequest, RouteRefused, SampleProblem,
          vars, problem
  <1> QED BY <1>1, <1>2, PTL DEF Spec
-----------------------------------------------------------------------------
\* The master the code composes (MasterRuntime.lean): the reduction is the frontier
\* search, and a packet follows its circuit.  Nothing is left to suppose of either.
ComposedSearch ==
  /\ \A selected, source : Reduction(Scope, selected, source) = ProduceProblem(Scope, selected, source)
  /\ \A code, packet : Follow(code, packet) = FireCircuit(code, packet)
  /\ IdentityCircuit = Identity
  /\ Slots \subseteq Nat

Frontiers == Seq(Contexts(Variables))

\* What one production of the composed search gives.
LEMMA Produced ==
  ASSUME ComposedSearch, NEW selected \in Variables, NEW source \in Frontiers
  PROVE  LET production == Reduction(Scope, selected, source)
         IN  /\ production.opening \in Frontiers /\ production.retained \in Frontiers
             /\ Routes(Variables, Scope, selected, production.opening, production.configured,
                       production.retained)
             /\ Irreducible(selected, production.retained)
             /\ (\A context \in ToSet(source) : FreshHistory(context.decisions)) =>
                  \A context \in ToSet(production.retained) : FreshHistory(context.decisions)
             /\ Solvable(Variables, source) <=> Solvable(Variables, production.retained)
  <1>1. Reduction(Scope, selected, source) = ProduceProblem(Scope, selected, source)
    BY DEF ComposedSearch
  <1> QED BY <1>1, MasterScopeAssumption, ProductionExact DEF Frontiers

\* The composed search lands its packets: what RoutedAlwaysLive asks of a search.
LEMMA ComposedLands ==
  ASSUME ComposedSearch, FrontiersReceived
  PROVE  SearchLands(Frontiers)
  <1>1. Sources \subseteq Frontiers
    BY DEF FrontiersReceived, Frontiers
  <1>2. \A slot \in Slots, bits \in Inputs :
          /\ [slot |-> slot, bits |-> bits] \in Packets
          /\ [slot |-> slot, bits |-> bits].slot = slot /\ [slot |-> slot, bits |-> bits].bits = bits
    BY MasterInputsAssumption DEF ComposedSearch, Packets
  <1>3. ASSUME NEW slot \in Slots, NEW bits \in Inputs
        PROVE  Follow(IdentityCircuit, [slot |-> slot, bits |-> bits]) = [slot |-> slot, bits |-> bits]
    BY <1>2, CircuitEmpty DEF ComposedSearch
  <1>4. ASSUME NEW selected \in Variables, NEW source \in Frontiers
        PROVE  LET production == Reduction(Scope, selected, source)
               IN  /\ production.retained \in Frontiers
                   /\ \A slot \in Slots, bits \in Inputs :
                        slot < Len(production.opening) /\ Len(bits) = Len(Scope) =>
                          LET output == Follow(production.configured,
                                                    [slot |-> slot, bits |-> bits])
                          IN  output.slot < Len(production.retained)
                              /\ Len(output.bits) = Len(Scope)
    <2> DEFINE production == Reduction(Scope, selected, source)
    <2>1. /\ production.retained \in Frontiers
          /\ Lands(Len(Scope), production.configured, Len(production.opening),
                   Len(production.retained))
      BY Produced DEF Routes
    <2> HIDE DEF production
    <2>2. ASSUME NEW slot \in Slots, NEW bits \in Inputs,
                 slot < Len(production.opening), Len(bits) = Len(Scope)
          PROVE  LET output == Follow(production.configured, [slot |-> slot, bits |-> bits])
                 IN  output.slot < Len(production.retained) /\ Len(output.bits) = Len(Scope)
      BY <1>2, <2>1, <2>2 DEF Lands, ComposedSearch
    <2> QED BY <2>1, <2>2 DEF production
  <1> QED BY <1>1, <1>3, <1>4 DEF SearchLands

\* Every packet the master admits lands on a context of the frontier it retains, and a
\* routed packet may be looked up there, with the search the code has.
THEOREM ComposedRoutedLive ==
  ASSUME ComposedSearch, FrontiersReceived, NEW Fronts, DiscoveryStays(Fronts)
  PROVE  Spec => [](CircuitLands /\ RoutedIsLive)
  BY ComposedLands, RoutedAlwaysLive
-----------------------------------------------------------------------------
\* The frontier's own invariant: typed contexts without a variable decided twice, which
\* the variable of the last stage relates no further.
FrontierInvariant(Fronts) ==
  /\ EngineFront \in Fronts
  /\ frontier \in Frontiers
  /\ DecisionsFresh
  /\ RetainedIrreducible

LEMMA FreshContexts ==
  ASSUME NEW contexts \in Frontiers
  PROVE  (\A i \in DOMAIN contexts : FreshHistory(contexts[i].decisions))
           <=> \A context \in ToSet(contexts) : FreshHistory(context.decisions)
  BY DEF ToSet

LEMMA SolvableIsViable ==
  ASSUME NEW contexts
  PROVE  Viable(contexts) <=> Solvable(Variables, contexts)
  BY DEF Viable, Solvable, Assignments, ToSet

LEMMA FrontierReceivedInvariant ==
  ASSUME FrontiersReceived, NEW Fronts, DiscoveryStays(Fronts), Init
  PROVE  FrontierInvariant(Fronts)
  <1>1. PICK source \in Sources : frontier = source
    BY DEF Init, InitialProblem
  <1>2. frontier \in Frontiers /\ DecisionsFresh
    BY <1>1 DEF FrontiersReceived, Frontiers, DecisionsFresh
  <1>3. ~ Configured
    BY DEF Init, Core!Received, Configured
  <1> QED BY <1>2, <1>3, FrontReceived DEF FrontierInvariant, RetainedIrreducible

LEMMA FrontierAdvanced ==
  ASSUME ComposedSearch, NEW Fronts, DiscoveryStays(Fronts), FrontierInvariant(Fronts), Advance
  PROVE  /\ FrontierInvariant(Fronts)'
         /\ Solvable(Variables, frontier) <=> Solvable(Variables, frontier')
         /\ LET production == Reduction(Scope, live'.seed, frontier)
            IN  /\ circuit' = production.configured /\ sourceWidth' = Len(production.opening)
                /\ frontier' = production.retained
                /\ production.opening \in Frontiers
                /\ Routes(Variables, Scope, live'.seed, production.opening, circuit', frontier')
  <1> DEFINE selected == live'.seed
             production == Reduction(Scope, selected, frontier)
  <1>1. /\ frontier' = production.retained /\ circuit' = production.configured
        /\ sourceWidth' = Len(production.opening)
    BY DEF Advance, InstallProblem
  <1>2. EngineFront' \in Fronts /\ selected \in Variables
    BY FrontAdvanced DEF FrontierInvariant
  <1>3. frontier \in Frontiers /\ \A context \in ToSet(frontier) : FreshHistory(context.decisions)
    BY FreshContexts DEF FrontierInvariant, DecisionsFresh
  <1>4. /\ production.opening \in Frontiers /\ production.retained \in Frontiers
        /\ Routes(Variables, Scope, selected, production.opening, production.configured,
                  production.retained)
        /\ Irreducible(selected, production.retained)
        /\ \A context \in ToSet(production.retained) : FreshHistory(context.decisions)
        /\ Solvable(Variables, frontier) <=> Solvable(Variables, production.retained)
    <2> HIDE DEF selected
    <2> QED BY <1>2, <1>3, Produced
  <1> HIDE DEF production
  <1>5. DecisionsFresh'
    BY <1>1, <1>4, FreshContexts DEF DecisionsFresh
  <1>6. RetainedIrreducible'
    BY <1>1, <1>4 DEF RetainedIrreducible
  <1>7. FrontierInvariant(Fronts)'
    BY <1>1, <1>2, <1>4, <1>5, <1>6 DEF FrontierInvariant
  <1> QED BY <1>1, <1>4, <1>7 DEF production

LEMMA FrontierStays ==
  ASSUME ComposedSearch, NEW Fronts, DiscoveryStays(Fronts), FrontierInvariant(Fronts), [Next]_vars
  PROVE  FrontierInvariant(Fronts)'
  <1>1. CASE Advance
    BY <1>1, FrontierAdvanced
  <1>2. CASE UNCHANGED <<live, gates, frontier>>
    BY <1>2 DEF FrontierInvariant, EngineFront, DecisionsFresh, RetainedIrreducible, Configured
  <1> QED BY <1>1, <1>2, OtherSteps

\* What a master retains is typed, decides nothing twice and is irreducible, after
\* any sequence of stages and requests from any received frontier.
LEMMA FrontierInductive ==
  ASSUME ComposedSearch, FrontiersReceived, NEW Fronts, DiscoveryStays(Fronts)
  PROVE  Spec => []FrontierInvariant(Fronts)
  <1>1. Init => FrontierInvariant(Fronts)
    BY FrontierReceivedInvariant
  <1>2. FrontierInvariant(Fronts) /\ [Next]_vars => FrontierInvariant(Fronts)'
    BY FrontierStays
  <1> QED BY <1>1, <1>2, PTL DEF Spec

\* SearchIrreducible, in the running machine.
THEOREM RetainedAlwaysIrreducible ==
  ASSUME ComposedSearch, FrontiersReceived, NEW Fronts, DiscoveryStays(Fronts)
  PROVE  Spec => []RetainedIrreducible
  <1>1. FrontierInvariant(Fronts) => RetainedIrreducible
    BY DEF FrontierInvariant
  <1> QED BY <1>1, FrontierInductive, PTL

\* No sequence of stages decides a variable a branch has decided before.
THEOREM DecisionsAlwaysFresh ==
  ASSUME ComposedSearch, FrontiersReceived, NEW Fronts, DiscoveryStays(Fronts)
  PROVE  Spec => []DecisionsFresh
  <1>1. FrontierInvariant(Fronts) => DecisionsFresh
    BY DEF FrontierInvariant
  <1> QED BY <1>1, FrontierInductive, PTL

\* advance_preserves_SAT, for every frontier any sequence of stages reaches.
THEOREM ViabilityAlwaysPreserved ==
  ASSUME ComposedSearch, FrontiersReceived, NEW Fronts, DiscoveryStays(Fronts)
  PROVE  Spec => ViabilityPreserved
  <1>1. FrontierInvariant(Fronts) /\ [Next]_vars =>
          [frontier' # frontier => (Viable(frontier) <=> Viable(frontier'))]_vars
    <2> SUFFICES ASSUME FrontierInvariant(Fronts), [Next]_vars, frontier' # frontier
                 PROVE  Viable(frontier) <=> Viable(frontier')
      OBVIOUS
    <2>1. Advance
      BY OtherSteps
    <2>2. Solvable(Variables, frontier) <=> Solvable(Variables, frontier')
      BY <2>1, FrontierAdvanced
    <2> QED BY <2>2, SolvableIsViable
  <1> QED BY <1>1, FrontierInductive, PTL DEF Spec, ViabilityPreserved

\* route_exact and mapContinuation, for every continuation of every context any
\* advance opens: the circuit installed with the reduction delivers its readings.
THEOREM RouteAlwaysExact ==
  ASSUME ComposedSearch, FrontiersReceived, NEW Fronts, DiscoveryStays(Fronts)
  PROVE  Spec => RouteExact
  <1> DEFINE opened == Opening(live'.seed, frontier)
             Exact == Advance =>
                 /\ sourceWidth' = Len(opened)
                 /\ \A i \in DOMAIN opened, assignment \in Assignments :
                      Holds(assignment, opened[i]) =>
                        Transports(live'.seed, opened, assignment, i, circuit', frontier')
  <1>1. ASSUME FrontierInvariant(Fronts), Advance PROVE Exact
    <2>1. /\ opened \in Frontiers /\ sourceWidth' = Len(opened)
          /\ Moves(Variables, Scope, live'.seed, opened, circuit', frontier')
      BY <1>1, FrontierAdvanced DEF Opening, Routes
    <2>2. frontier' \in Frontiers
      BY <1>1, FrontierAdvanced DEF FrontierInvariant
    <2> DEFINE selected == live'.seed
    <2> HIDE DEF opened, selected
    <2>3. ASSUME NEW i \in DOMAIN opened, NEW assignment \in Assignments,
                 Holds(assignment, opened[i])
          PROVE  Transports(selected, opened, assignment, i, circuit', frontier')
      <3> DEFINE output == Follow(circuit', [slot |-> i - 1, bits |-> Sense(Scope, assignment)])
      <3>1. Delivers(Scope, selected, assignment, opened[i],
                     FireCircuit(circuit', Packet(i - 1, Sense(Scope, assignment))), frontier')
        BY <2>1, <2>3 DEF Moves, Assignments, selected
      <3>2. output = FireCircuit(circuit', Packet(i - 1, Sense(Scope, assignment)))
        BY DEF ComposedSearch, Packet
      <3> HIDE DEF output
      <3>3. PICK j \in DOMAIN frontier', carried \in {assignment, FlipAt(selected, assignment)} :
              /\ output = Packet(j - 1, Sense(Scope, carried))
              /\ Holds(carried, frontier'[j])
              /\ Accepts(assignment, opened[i]) => Accepts(carried, frontier'[j])
        BY <3>1, <3>2 DEF Delivers
      <3>4. j \in 1 .. Len(frontier') /\ Len(frontier') \in Nat /\ (j - 1) + 1 = j
            /\ j - 1 < Len(frontier')
        BY <2>2 DEF Frontiers
      <3>5. output.slot = j - 1 /\ output.bits = Sense(Scope, carried)
        BY <3>3 DEF Packet
      <3>6. output.slot < Len(frontier') /\ output.slot + 1 = j
        BY <3>4, <3>5
      <3> QED BY <3>3, <3>5, <3>6 DEF Transports, output
    <2> QED BY <2>1, <2>3 DEF selected
  <1>2. FrontierInvariant(Fronts) /\ [Next]_vars => [Exact]_vars
    BY <1>1
  <1>3. RouteExact <=> [][Exact]_vars
    BY DEF RouteExact
  <1> HIDE DEF Exact
  <1> QED BY <1>2, <1>3, FrontierInductive, PTL DEF Spec
=============================================================================
