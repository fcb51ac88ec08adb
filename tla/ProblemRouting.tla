--------------------------- MODULE ProblemRouting ---------------------------
(***************************************************************************)
(* The problem half of the master memory (ProblemMemory of                 *)
(* MasterRuntime.lean, routing requests of MasterContract.lean): the       *)
(* retained SAT frontier, the circuit the last reduction configured, and   *)
(* the last packet it routed.  Search and circuit are parameters, so that  *)
(* what holds of the memory can be told from what holds of the search.     *)
(***************************************************************************)
EXTENDS Fabric, Contract

CONSTANTS
  Scope,                  \* the variables the channels query
  Inputs,                 \* the signal lists a request may carry
  Slots,                  \* the slots a routing request may name
  Reduction(_, _, _),     \* scope, selected, frontier: the reduction of an opening
  Follow(_, _),           \* circuit, packet: where the packet goes
  IdentityCircuit         \* the routing of a memory just received

VARIABLES
  frontier,     \* the retained contexts
  sourceWidth,  \* the width of the opening the circuit routes from
  circuit,      \* the configured routing program
  routed,       \* the last routed packet, or NotRouted
  request, event, allowed

problem == <<frontier, sourceWidth, circuit, routed>>

NotRouted == [slot |-> 0, bits |-> << >>, some |-> FALSE]

RoutedTo(packet) == [slot |-> packet.slot, bits |-> packet.bits, some |-> TRUE]

\* initialProblem: nothing was opened, packets pass through.
InitialProblem(source) ==
  /\ frontier = source
  /\ sourceWidth = Len(source)
  /\ circuit = IdentityCircuit
  /\ routed = NotRouted

\* Fault: a packet routed before the advance stays readable after it.
InstallKeepingPacket(selected) ==
  LET production == Reduction(Scope, selected, frontier)
  IN  /\ frontier' = production.retained
      /\ sourceWidth' = Len(production.opening)
      /\ circuit' = production.configured
      /\ routed' = routed

\* Fault: the circuit of the former reduction is kept.
InstallKeepingCircuit(selected) ==
  LET production == Reduction(Scope, selected, frontier)
  IN  /\ frontier' = production.retained
      /\ sourceWidth' = Len(production.opening)
      /\ circuit' = circuit
      /\ routed' = NotRouted

\* Fault: the opening is kept without its reduction.
InstallUnreduced(selected) ==
  LET production == Reduction(Scope, selected, frontier)
  IN  /\ frontier' = production.opening
      /\ sourceWidth' = Len(production.opening)
      /\ circuit' = production.configured
      /\ routed' = NotRouted

\* The retained frontier is the next problem, and a packet routed through the
\* former circuit is forgotten: its slot names a context of the former frontier.
InstallProblem(selected) ==
  LET production == Reduction(Scope, selected, frontier)
  IN  /\ frontier' = production.retained
      /\ sourceWidth' = Len(production.opening)
      /\ circuit' = production.configured
      /\ routed' = NotRouted

\* Fault: one slot too many.
RouteFitsInclusive(slot, bits) == slot <= sourceWidth /\ Len(bits) = Len(Scope)

RouteFits(slot, bits) == slot < sourceWidth /\ Len(bits) = Len(Scope)

\* Routing.apply checks the slot on its own, without the request's length check.
Applies(slot) == slot < sourceWidth

PacketRouted(slot, bits) ==
  /\ RouteFits(slot, bits) /\ Applies(slot)
  /\ request' = ToRoute(slot, bits)
  /\ LET output == Follow(circuit, [slot |-> slot, bits |-> bits]) IN
       /\ routed' = RoutedTo(output)
       /\ event' = Routed(output.slot, output.bits)
  /\ allowed' = RouteFits(slot, bits)
  /\ UNCHANGED <<frontier, sourceWidth, circuit>>

RouteRefused(slot, bits) ==
  /\ ~ (RouteFits(slot, bits) /\ Applies(slot))
  /\ request' = ToRoute(slot, bits)
  /\ event' = RoutingRefused
  /\ allowed' = RouteFits(slot, bits)
  /\ UNCHANGED problem

SampleProblem ==
  /\ request' = ToSampleProblem
  /\ event' = SampledProblem(routed)
  /\ allowed' = TRUE
  /\ UNCHANGED problem

\* The requests that never reach the core.
ProblemRequest ==
  \/ \E slot \in Slots, bits \in Inputs : PacketRouted(slot, bits) \/ RouteRefused(slot, bits)
  \/ SampleProblem
-----------------------------------------------------------------------------
\* A routed reading always came out of the circuit now installed, from a packet it
\* accepts: no reading outlives the circuit that made it.
RoutedIsCurrent ==
  routed # NotRouted =>
    \E slot \in Slots, bits \in Inputs :
      /\ RouteFits(slot, bits)
      /\ routed = RoutedTo(Follow(circuit, [slot |-> slot, bits |-> bits]))

\* Every packet the circuit accepts, whether sent or not, would land on a context of
\* the frontier retained with it, and keep the width of the scope.
CircuitLands ==
  \A slot \in Slots, bits \in Inputs :
    RouteFits(slot, bits) =>
      LET output == Follow(circuit, [slot |-> slot, bits |-> bits])
      IN  output.slot < Len(frontier) /\ Len(output.bits) = Len(Scope)

\* What a reader of the routed packet may do with it: look its slot up in the
\* frontier of the same memory.
RoutedIsLive ==
  routed # NotRouted => routed.slot < Len(frontier) /\ Len(routed.bits) = Len(Scope)

\* The admission announced with a request and the answer of its execution are
\* computed apart and agree (enabled_exact).
AdmissionExact == allowed <=> event \notin {Refused, RoutingRefused}
=============================================================================
