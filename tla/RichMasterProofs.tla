-------------------------- MODULE RichMasterProofs --------------------------
(***************************************************************************)
(* The rich master implements the master, for every search, circuit,       *)
(* frontier and scope: forgetting assignment and decisions is never seen   *)
(* by a client, whatever requests of the core and of the routing come in   *)
(* between.                                                                *)
(***************************************************************************)
EXTENDS RichMaster, FabricProofs

\* All that the projection needs of the rich core: the assignment stays total on
\* the variables it was received with.  Banks and wirings are compared as they are.
AssignmentTotal ==
  /\ live.depth \in Nat /\ live.depth >= Start.depth
  /\ live.assignment \in [DOMAIN Start.assignment -> BOOLEAN]

\* The rich core is made of the gates, banks and answers of this module.
LEMMA RichOperators ==
  /\ \A one, two : Core!Fire(one, two) = Fire(one, two)
  /\ \A scope, chosen : Core!Configure(scope, chosen) = Configure(scope, chosen)
  /\ \A scope, assignment : Core!Sense(scope, assignment) = Sense(scope, assignment)
  /\ \A bits : Core!Shared(bits) = Shared(bits)
  /\ \A left, right : Core!Route(left, right) = Route(left, right)
  /\ \A one, left, right : Core!Drive(one, left, right) = Drive(one, left, right)
  /\ \A some, inlet : Core!ReadBank(some, inlet) = ReadBank(some, inlet)
  /\ \A left, right : Core!PulseFits(Scope, left, right) = PulseFits(Scope, left, right)
  <1>1. \A one, two : Core!Fire(one, two) = Fire(one, two)
    BY DEF Core!Fire, Fire, Core!Shorter, Shorter, Core!GateFire, GateFire
  <1>2. /\ \A scope, chosen : Core!Configure(scope, chosen) = Configure(scope, chosen)
        /\ \A scope, assignment : Core!Sense(scope, assignment) = Sense(scope, assignment)
    BY DEF Core!Configure, Configure, Core!Sense, Sense
  <1>3. /\ \A left, right : Core!Route(left, right) = Route(left, right)
        /\ \A bits : Core!Shared(bits) = Shared(bits)
    BY DEF Core!Route, Route, Core!Shared, Shared, Core!Separate, Separate
  <1>4. \A one, left, right : Core!Drive(one, left, right) = Drive(one, left, right)
    BY <1>1, <1>3 DEF Core!Drive, Drive
  <1>5. /\ \A some, inlet : Core!ReadBank(some, inlet) = ReadBank(some, inlet)
        /\ \A left, right : Core!PulseFits(Scope, left, right) = PulseFits(Scope, left, right)
    BY DEF Core!ReadBank, ReadBank, Core!PulseFits, PulseFits
  <1> QED BY <1>1, <1>2, <1>3, <1>4, <1>5

LEMMA ProjectedOperators ==
  /\ \A one, two : Projected!Core!Fire(one, two) = Fire(one, two)
  /\ \A scope, chosen : Projected!Core!Configure(scope, chosen) = Configure(scope, chosen)
  /\ \A bits : Projected!Core!Shared(bits) = Shared(bits)
  /\ \A left, right : Projected!Core!Route(left, right) = Route(left, right)
  /\ \A one, left, right : Projected!Core!Drive(one, left, right) = Drive(one, left, right)
  /\ \A some, inlet : Projected!Core!ReadBank(some, inlet) = ReadBank(some, inlet)
  /\ \A left, right :
       Projected!Core!PulseFits(Scope, left, right) = PulseFits(Scope, left, right)
  <1>1. \A one, two : Projected!Core!Fire(one, two) = Fire(one, two)
    BY DEF Projected!Core!Fire, Fire, Projected!Core!Shorter, Shorter,
           Projected!Core!GateFire, GateFire
  <1>2. \A scope, chosen : Projected!Core!Configure(scope, chosen) = Configure(scope, chosen)
    BY DEF Projected!Core!Configure, Configure
  <1>3. /\ \A left, right : Projected!Core!Route(left, right) = Route(left, right)
        /\ \A bits : Projected!Core!Shared(bits) = Shared(bits)
    BY DEF Projected!Core!Route, Route, Projected!Core!Shared, Shared,
           Projected!Core!Separate, Separate
  <1>4. \A one, left, right : Projected!Core!Drive(one, left, right) = Drive(one, left, right)
    BY <1>1, <1>3 DEF Projected!Core!Drive, Drive
  <1>5. /\ \A some, inlet : Projected!Core!ReadBank(some, inlet) = ReadBank(some, inlet)
        /\ \A left, right :
             Projected!Core!PulseFits(Scope, left, right) = PulseFits(Scope, left, right)
    BY DEF Projected!Core!ReadBank, ReadBank, Projected!Core!PulseFits, PulseFits
  <1> QED BY <1>1, <1>2, <1>3, <1>4, <1>5

\* Requests and answers are the same records in both.
LEMMA ProjectedAnswers ==
  /\ Projected!Core!Advanced = Core!Advanced /\ Projected!Core!Refused = Core!Refused
  /\ Projected!Core!Started = Core!Started /\ Projected!Core!NoRequest = Core!NoRequest
  /\ Projected!Core!ToAdvance = Core!ToAdvance
  /\ \A bits : Projected!Core!Sampled(bits) = Core!Sampled(bits)
  /\ \A left, right : Projected!Core!Driven(left, right) = Core!Driven(left, right)
  /\ \A inlet : Projected!Core!ToSample(inlet) = Core!ToSample(inlet)
  /\ \A left, right : Projected!Core!ToPulse(left, right) = Core!ToPulse(left, right)
  BY DEF Projected!Core!Advanced, Core!Advanced, Projected!Core!Refused, Core!Refused,
         Projected!Core!Started, Core!Started, Projected!Core!NoRequest, Core!NoRequest,
         Projected!Core!ToAdvance, Core!ToAdvance, Projected!Core!Sampled, Core!Sampled,
         Projected!Core!Driven, Core!Driven, Projected!Core!ToSample, Core!ToSample,
         Projected!Core!ToPulse, Core!ToPulse

\* One production of the rich core, as the operators of this module put it.
LEMMA RichInstall ==
  ASSUME NEW source, source.assignment \in [DOMAIN Start.assignment -> BOOLEAN]
  PROVE  LET chosen == Core!Selected(source)
             after == Sense(Scope, FlipAt(chosen, source.assignment))
         IN  /\ Core!Install(source).live.assignment = FlipAt(chosen, source.assignment)
             /\ Core!Install(source).live.depth = source.depth + 1
             /\ Core!ProjectLive(Core!Install(source).live) =
                  [depth |-> source.depth + 1, target |-> source.target + 1, seed |-> chosen,
                   provenance |-> <<chosen>> \o source.provenance, values |-> after]
             /\ Core!Install(source).gates = Configure(Scope, chosen)
             /\ Core!Install(source).bank = Route(after, after)
  <1> DEFINE chosen == Core!Selected(source)
             flipped == FlipAt(chosen, source.assignment)
             after == Sense(Scope, flipped)
  <1>1. Core!FlipAt(chosen, source.assignment) = flipped
    BY DEF Core!FlipAt, FlipAt
  <1>2. Fire(Configure(Scope, chosen), Sense(Scope, source.assignment)) = after
    BY ConfigureExact, RichScopeAssumption
  <1>3. /\ Core!Install(source).gates = Configure(Scope, chosen)
        /\ Core!Install(source).bank = Route(after, after)
    BY <1>1, <1>2, RichOperators DEF Core!Install, Drive
  <1>4. /\ Core!Install(source).live.assignment = flipped
        /\ Core!Install(source).live.depth = source.depth + 1
        /\ Core!Install(source).live.target = source.target + 1
        /\ Core!Install(source).live.seed = chosen
        /\ Core!Install(source).live.provenance = <<chosen>> \o source.provenance
    BY <1>1 DEF Core!Install, Core!ProduceNext, Core!NextDepth, Core!NextTarget
  <1>5. Core!ProjectLive(Core!Install(source).live) =
          [depth |-> source.depth + 1, target |-> source.target + 1, seed |-> chosen,
           provenance |-> <<chosen>> \o source.provenance, values |-> after]
    BY <1>4, RichOperators DEF Core!ProjectLive
  <1> QED BY <1>3, <1>4, <1>5

\* advance_project: what the rich core installs projects to what the master's core
\* installs, read off the projected live state.
LEMMA AdvanceProjects ==
  ASSUME AssignmentTotal, Core!Advance
  PROVE  /\ Projected!Core!Advance
         /\ Core!ProjectLive(live)'.seed = Core!Selected(live)
  <1> DEFINE chosen == Core!Selected(live)
             values == Sense(Scope, live.assignment)
             after == Sense(Scope, FlipAt(chosen, live.assignment))
             front == Core!ProjectLive(live)
  <1>1. live.assignment \in [DOMAIN Start.assignment -> BOOLEAN]
    BY DEF AssignmentTotal
  <1>2. /\ front.depth = live.depth /\ front.target = live.target /\ front.seed = live.seed
        /\ front.provenance = live.provenance /\ front.values = values
    BY RichOperators DEF Core!ProjectLive
  <1>3. Core!Discover(front.seed, front.provenance) = chosen
    BY <1>2 DEF Core!Selected
  <1>4. Fire(Configure(Scope, chosen), values) = after
    BY <1>1, ConfigureExact, RichScopeAssumption
  <1>5. /\ Projected!Core!Install(front).live =
             [depth |-> live.depth + 1, target |-> live.target + 1, seed |-> chosen,
              provenance |-> <<chosen>> \o live.provenance, values |-> after]
        /\ Projected!Core!Install(front).gates = Configure(Scope, chosen)
        /\ Projected!Core!Install(front).bank = Route(after, after)
    BY <1>2, <1>3, <1>4, ProjectedOperators DEF Projected!Core!Install
  <1>6. /\ Core!ProjectLive(live)' = Projected!Core!Install(front).live
        /\ gates' = Projected!Core!Install(front).gates
        /\ bank' = Route(after, after)
    BY <1>1, <1>5, RichInstall DEF Core!Advance, Core!ProjectLive
  <1>7. NormalizeBank(bank)' = Projected!Core!Install(front).bank
    BY <1>5, <1>6, RouteNormal
  <1>8. Projected!Core!Advance
    BY <1>2, <1>6, <1>7, ProjectedAnswers DEF Core!Advance, Projected!Core!Advance
  <1> QED BY <1>5, <1>6, <1>8

\* The total assignment survives every request, and a fortiori every routing.
LEMMA TotalForEver == Spec => []AssignmentTotal
  <1>1. Init => AssignmentTotal
    BY RichStartAssumption DEF Init, Core!Received, AssignmentTotal
  <1>2. AssignmentTotal /\ [Next]_vars => AssignmentTotal'
    <2> SUFFICES ASSUME AssignmentTotal, [Next]_vars PROVE AssignmentTotal'
      OBVIOUS
    <2>1. CASE Advance
      <3>1. live' = Core!Install(live).live
        BY <2>1 DEF Advance, Core!Advance
      <3>2. live'.assignment = FlipAt(Core!Selected(live), live.assignment)
            /\ live'.depth = live.depth + 1
        BY <3>1, RichInstall DEF AssignmentTotal
      <3>3. live'.assignment \in [DOMAIN Start.assignment -> BOOLEAN]
        BY <3>2, FlipAtType DEF AssignmentTotal
      <3> QED BY <3>2, <3>3, RichStartAssumption DEF AssignmentTotal
    <2>2. CASE live' = live
      BY <2>2 DEF AssignmentTotal
    <2>3. CASE CoreRequest \/ RoutingRequest \/ UNCHANGED vars
      BY <2>2, <2>3 DEF CoreRequest, RoutingRequest, vars, Core!Sample, Core!PulseDriven,
                        Core!PulseRefused, Core!memory
    <2> QED BY <2>1, <2>3 DEF Next
  <1> QED BY <1>1, <1>2, PTL DEF Spec

\* Readings of a wiring's length stay so through a drive, in normal form.
LEMMA DriveReads ==
  ASSUME NEW wiring \in Signals, NEW left \in Signals, NEW right \in Signals,
         Len(wiring) = Len(left), Len(right) = Len(left)
  PROVE  LET driven == Drive(wiring, left, right) IN
           /\ driven.transformed \in Signals /\ driven.retained \in Signals
           /\ Len(driven.transformed) = Len(wiring) /\ Len(driven.retained) = Len(wiring)
           /\ NormalizeBank(driven) = driven
  <1>1. Fire(wiring, left) \in Signals /\ Len(Fire(wiring, left)) = Len(wiring)
    BY FireLength
  <1>2. /\ Drive(wiring, left, right).transformed = Fire(wiring, left)
        /\ Drive(wiring, left, right).retained = right
    BY DEF Drive, Route, Shared, Separate
  <1>3. NormalizeBank(Drive(wiring, left, right)) = Drive(wiring, left, right)
    BY RouteNormal DEF Drive
  <1> QED BY <1>1, <1>2, <1>3

\* The core's invariant, in the operators of this module.
CoreWhole ==
  /\ live.depth \in Nat /\ live.depth > Start.depth
  /\ live.assignment \in [DOMAIN Start.assignment -> BOOLEAN]
  /\ gates \in Signals /\ allowed \in BOOLEAN
  /\ bank.transformed \in Signals /\ bank.retained \in Signals
  /\ Len(gates) = Len(Scope)
  /\ Len(bank.transformed) = Len(Scope) /\ Len(bank.retained) = Len(Scope)
  /\ NormalizeBank(bank) = bank
  /\ gates = Configure(Scope, live.seed)

RichWhole == gates # << >> => CoreWhole

LEMMA CoreWholeSuffices == CoreWhole => Core!Inductive
  <1>1. Core!NormalizeBank(bank) = NormalizeBank(bank)
    BY RichOperators DEF Core!NormalizeBank, NormalizeBank
  <1>2. Core!Signals = Signals /\ Core!Var = DOMAIN Start.assignment
    BY DEF Core!Signals, Signals, Core!Var
  <1> QED
    BY <1>1, <1>2, RichOperators
    DEF CoreWhole, Core!Inductive, Core!TypeOK, Core!Coherent, Core!BankNormal,
        Core!WiringIsCurrent, Signals, ReadBank

\* A stage installs the whole of it, whatever the memory was before.
LEMMA AdvanceWhole == AssignmentTotal /\ Core!Advance => CoreWhole'
  <1> SUFFICES ASSUME AssignmentTotal, Core!Advance PROVE CoreWhole'
    OBVIOUS
  <1> DEFINE chosen == Core!Selected(live)
             flipped == FlipAt(chosen, live.assignment)
             after == Sense(Scope, flipped)
  <1>1. /\ live'.assignment = flipped /\ live'.depth = live.depth + 1
        /\ live'.seed = chosen /\ gates' = Configure(Scope, chosen)
        /\ bank' = Route(after, after) /\ allowed' = TRUE
    BY RichInstall DEF AssignmentTotal, Core!Advance, Core!Install, Core!ProduceNext
  <1>2. flipped \in [DOMAIN Start.assignment -> BOOLEAN]
    BY FlipAtType DEF AssignmentTotal
  <1>3. after \in Signals /\ Len(after) = Len(Scope)
    BY <1>2, SenseType, RichScopeAssumption
  <1>4. Configure(Scope, chosen) \in Signals /\ Len(Configure(Scope, chosen)) = Len(Scope)
    BY ConfigureType, RichScopeAssumption
  <1>5. bank'.transformed = after /\ bank'.retained = after
    BY <1>1 DEF Route, Shared
  <1>6. NormalizeBank(bank') = bank'
    BY <1>1, RouteNormal
  <1>7. live'.depth \in Nat /\ live'.depth > Start.depth
    BY <1>1, RichStartAssumption DEF AssignmentTotal
  <1> QED BY <1>1, <1>2, <1>3, <1>4, <1>5, <1>6, <1>7 DEF CoreWhole

\* An admitted pulse keeps it, through the gates it finds.
LEMMA PulseWhole ==
  ASSUME CoreWhole, NEW left \in Inputs, NEW right \in Inputs, Core!PulseDriven(left, right)
  PROVE  CoreWhole'
  <1>1. /\ left \in Signals /\ right \in Signals
        /\ Len(left) = Len(Scope) /\ Len(right) = Len(Scope)
    BY RichInputsAssumption, RichOperators DEF Core!PulseDriven, PulseFits
  <1>2. /\ bank' = Drive(gates, left, right) /\ allowed' = TRUE
        /\ live' = live /\ gates' = gates
    BY RichOperators DEF Core!PulseDriven
  <1>3. gates \in Signals /\ Len(gates) = Len(Scope)
    BY DEF CoreWhole
  <1>4. /\ bank'.transformed \in Signals /\ bank'.retained \in Signals
        /\ Len(bank'.transformed) = Len(Scope) /\ Len(bank'.retained) = Len(Scope)
        /\ NormalizeBank(bank') = bank'
    BY <1>1, <1>2, <1>3, DriveReads
  <1> QED BY <1>2, <1>4 DEF CoreWhole

\* Whatever a received memory answered before its first stage, with no gates and a
\* shortened reading, the core meets its whole invariant from that stage on.
THEOREM RichCoherentAlways == Spec => []RichCoherent
  <1>1. Init => RichWhole
    BY DEF Init, Core!Received, RichWhole
  <1>2. AssignmentTotal /\ RichWhole /\ [Next]_vars => RichWhole'
    <2> SUFFICES ASSUME AssignmentTotal, RichWhole, [Next]_vars, gates' # << >>
                 PROVE  CoreWhole'
      BY DEF RichWhole
    <2>1. CASE Advance
      BY <2>1, AdvanceWhole DEF Advance
    <2>2. ASSUME UNCHANGED <<live, gates, bank>>, allowed' \in BOOLEAN PROVE CoreWhole'
      BY <2>2 DEF CoreWhole, RichWhole
    <2>3. ASSUME NEW left \in Inputs, NEW right \in Inputs, Core!PulseDriven(left, right)
          PROVE  CoreWhole'
      BY <2>3, PulseWhole DEF RichWhole, Core!PulseDriven
    <2>4. CASE CoreRequest
      BY <2>2, <2>3, <2>4 DEF CoreRequest, Core!Sample, Core!PulseRefused, Core!memory
    <2>5. CASE RoutingRequest
      <3>1. allowed' \in BOOLEAN
        BY <2>5 DEF RoutingRequest, ProblemRequest, PacketRouted, RouteRefused, RouteFits,
                    SampleProblem
      <3> QED BY <2>2, <2>5, <3>1 DEF RoutingRequest
    <2>6. CASE UNCHANGED vars
      BY <2>6 DEF vars, CoreWhole, RichWhole
    <2> QED BY <2>1, <2>4, <2>5, <2>6 DEF Next
  <1>3. RichWhole => RichCoherent
    BY CoreWholeSuffices DEF RichWhole, RichCoherent
  <1> QED BY <1>1, <1>2, <1>3, TotalForEver, PTL DEF Spec
-----------------------------------------------------------------------------
\* The projection leaves the problem memory and its requests alone.
LEMMA ProblemProjects ==
  /\ \A source : InitialProblem(source) => Projected!InitialProblem(source)
  /\ \A selected : InstallProblem(selected) => Projected!InstallProblem(selected)
  /\ ProblemRequest => Projected!ProblemRequest
  <1>1. \A source : InitialProblem(source) => Projected!InitialProblem(source)
    BY DEF InitialProblem, Projected!InitialProblem, NotRouted, Projected!NotRouted
  <1>2. \A selected : InstallProblem(selected) => Projected!InstallProblem(selected)
    BY DEF InstallProblem, Projected!InstallProblem, NotRouted, Projected!NotRouted
  <1>3. ASSUME NEW slot \in Slots, NEW bits \in Inputs
        PROVE  /\ PacketRouted(slot, bits) => Projected!PacketRouted(slot, bits)
               /\ RouteRefused(slot, bits) => Projected!RouteRefused(slot, bits)
    BY DEF PacketRouted, Projected!PacketRouted, RouteRefused, Projected!RouteRefused,
           RouteFits, Projected!RouteFits, Applies, Projected!Applies,
           ToRoute, Projected!ToRoute, Routed, Projected!Routed,
           RoutedTo, Projected!RoutedTo, RoutingRefused, Projected!RoutingRefused,
           problem, Projected!problem
  <1>4. SampleProblem => Projected!SampleProblem
    BY DEF SampleProblem, Projected!SampleProblem, ToSampleProblem, Projected!ToSampleProblem,
           SampledProblem, Projected!SampledProblem, problem, Projected!problem
  <1>5. ProblemRequest => Projected!ProblemRequest
    BY <1>3, <1>4 DEF ProblemRequest, Projected!ProblemRequest
  <1> QED BY <1>1, <1>2, <1>5

\* The received memory projects to the received memory.
LEMMA ReceivedProjects == Core!Received => Projected!Core!Received
  <1> SUFFICES ASSUME Core!Received PROVE Projected!Core!Received
    OBVIOUS
  <1> DEFINE values == Sense(Scope, Start.assignment)
  <1>1. /\ live = Start /\ gates = << >> /\ bank = Shared(values)
        /\ request = Core!NoRequest /\ event = Core!Started /\ allowed = TRUE
    BY RichOperators DEF Core!Received
  <1>2. Core!ProjectLive(Start).values = values
    BY RichOperators DEF Core!ProjectLive
  <1>3. Projected!Core!NormalizeBank(Shared(values)) = NormalizeBank(Shared(values))
    BY ProjectedOperators DEF Projected!Core!NormalizeBank, NormalizeBank
  <1> QED
    BY <1>1, <1>2, <1>3, ProjectedOperators, ProjectedAnswers DEF Projected!Core!Received

\* perform_project and event_project, for the requests of the core.
LEMMA CoreRequestProjects == CoreRequest => Projected!CoreRequest
  <1>1. ASSUME NEW inlet \in Inlets, Core!Sample(inlet) PROVE Projected!Core!Sample(inlet)
    BY <1>1, NormalizedReads, RichOperators, ProjectedOperators, ProjectedAnswers
    DEF Core!Sample, Core!memory, Projected!Core!Sample, Projected!Core!memory
  <1>2. ASSUME NEW left \in Inputs, NEW right \in Inputs, Core!PulseDriven(left, right)
        PROVE  Projected!Core!PulseDriven(left, right)
    <2>1. /\ bank' = Drive(gates, left, right)
          /\ event' = Core!Driven(ReadBank(bank', "transformed"), ReadBank(bank', "retained"))
      BY <1>2, RichOperators DEF Core!PulseDriven
    <2>2. NormalizeBank(bank)' = bank'
      BY <2>1, RouteNormal DEF Drive
    <2> QED
      BY <1>2, <2>1, <2>2, RichOperators, ProjectedOperators, ProjectedAnswers
      DEF Core!PulseDriven, Projected!Core!PulseDriven
  <1>3. ASSUME NEW left \in Inputs, NEW right \in Inputs, Core!PulseRefused(left, right)
        PROVE  Projected!Core!PulseRefused(left, right)
    BY <1>3, RichOperators, ProjectedOperators, ProjectedAnswers
    DEF Core!PulseRefused, Core!memory, Projected!Core!PulseRefused, Projected!Core!memory
  <1>4. Projected!Inlets = Inlets /\ (UNCHANGED problem => UNCHANGED Projected!problem)
    BY DEF Inlets, Projected!Inlets, problem, Projected!problem
  <1> QED BY <1>1, <1>2, <1>3, <1>4 DEF CoreRequest, Projected!CoreRequest

\* all_futures_exact of MasterContract.lean: whatever requests come, of the core or of
\* the routing, every answer, admission and problem memory of the rich master are those
\* of the master that dropped assignment and decisions.
THEOREM RichImplementsMaster == Spec => ProjectedSpec
  <1>1. Init => Projected!Init
    BY ReceivedProjects, ProblemProjects DEF Init, Projected!Init
  <1>2. AssignmentTotal /\ [Next]_vars => [Projected!Next]_(Projected!vars)
    <2> SUFFICES ASSUME AssignmentTotal, [Next]_vars
                 PROVE  Projected!Next \/ UNCHANGED Projected!vars
      OBVIOUS
    <2>1. CASE Advance
      <3>1. /\ Projected!Core!Advance
            /\ Core!ProjectLive(live)'.seed = Core!Selected(live)
        BY <2>1, AdvanceProjects DEF Advance
      <3>2. Projected!InstallProblem(Core!Selected(live))
        BY <2>1, ProblemProjects DEF Advance
      <3> QED BY <3>1, <3>2 DEF Projected!Advance, Projected!Next
    <2>2. CASE CoreRequest
      BY <2>2, CoreRequestProjects DEF Projected!Next
    <2>3. CASE RoutingRequest
      BY <2>3, ProblemProjects DEF RoutingRequest, Projected!RoutingRequest, Projected!Next
    <2>4. CASE UNCHANGED vars
      BY <2>4 DEF vars, Projected!vars
    <2> QED BY <2>1, <2>2, <2>3, <2>4 DEF Next
  <1> QED BY <1>1, <1>2, TotalForEver, PTL DEF Spec, ProjectedSpec, Projected!Spec
=============================================================================
