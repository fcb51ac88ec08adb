---------------------------- MODULE MasterMachine ---------------------------
(***************************************************************************)
(* The master runtime (MasterRuntime.lean, MasterContract.lean): one       *)
(* machine that receives the public master's live state and a SAT          *)
(* frontier.  An advance makes one production; the variable it discovers   *)
(* opens and reduces the frontier and configures the routing of later      *)
(* packets.  Core and problem requests interleave in any order.            *)
(***************************************************************************)
EXTENDS ProblemRouting, SatContexts

CONSTANTS
  MaxDepth,        \* bound: no stage is started at this depth
  Start,           \* the live state of the public master's cursor
  Sources,         \* the frontiers the master may receive
  Discovered(_, _),  \* the search on the front: seed, provenance
  Variables          \* those that assignments give a value

VARIABLES live, gates, bank

Core == INSTANCE ReducedMachine

vars == <<live, gates, bank, frontier, sourceWidth, circuit, routed,
          request, event, allowed>>

Init ==
  /\ Core!Received
  /\ \E source \in Sources : InitialProblem(source)

\* One production, used twice: installed in the core, and its variable selects
\* the opening.
Advance ==
  /\ Core!Advance
  /\ InstallProblem(live'.seed)

CoreRequest ==
  /\ \/ \E inlet \in Inlets : Core!Sample(inlet)
     \/ \E left, right \in Inputs :
          Core!PulseDriven(left, right) \/ Core!PulseRefused(left, right)
  /\ UNCHANGED problem

RoutingRequest ==
  /\ ProblemRequest
  /\ UNCHANGED <<live, gates, bank>>

Next == Advance \/ CoreRequest \/ RoutingRequest

Spec == Init /\ [][Next]_vars
-----------------------------------------------------------------------------
\* What the public master hands over covers the scope; nothing is assumed of the
\* search, of its circuits or of the frontiers.
ASSUME MasterScopeAssumption == Scope \in Seq(Variables)
ASSUME MasterInputsAssumption == Inputs \subseteq Signals
ASSUME MasterStartAssumption ==
  Start.values \in Signals /\ Len(Start.values) = Len(Scope)

\* The search moves from front to front within Fronts and discovers a variable there.
DiscoveryStays(Fronts) ==
  /\ <<Start.depth, Start.seed, Start.provenance>> \in Fronts
  /\ \A front \in Fronts : front[1] < MaxDepth =>
       LET selected == Discovered(front[2], front[3])
       IN  selected \in Variables /\ <<front[1] + 1, selected, <<selected>> \o front[3]>> \in Fronts

\* The frontiers a master receives: contexts that decided no variable twice.
FrontiersReceived ==
  \A source \in Sources :
    /\ source \in Seq(Contexts(Variables))
    /\ \A i \in DOMAIN source : FreshHistory(source[i].decisions)

\* A master that has executed a stage of its own.
Configured == gates # << >>

MasterType ==
  /\ live.values \in Signals /\ Len(live.values) = Len(Scope)
  /\ gates \in Signals
  /\ Configured => Len(gates) = Len(Scope)
  /\ bank.transformed \in Signals /\ bank.retained \in Signals

\* The received memory has no gates: a pulse before the first advance is admitted
\* and its transformed inlet reads nothing.  The first advance restores coherence
\* for good.  The retained inlet is never shortened.
CoherentOnceConfigured ==
  /\ Configured => Len(bank.transformed) = Len(Scope)
  /\ Len(bank.retained) = Len(Scope)

\* The continuations a context may have: an assignment of the variables.
Assignments == [Variables -> BOOLEAN]

Viable(contexts) ==
  \E i \in DOMAIN contexts, assignment \in Assignments : Accepts(assignment, contexts[i])

Opening(selected, source) == Reduction(Scope, selected, source).opening

\* route_exact and mapContinuation: for every continuation of every opened context,
\* the circuit installed with the reduction sends the readings of that
\* continuation to the retained context it was transported to: the readings are
\* those of the assignment or of its flip, which continues that context, and is
\* accepted by it when the source was accepted.
Transports(selected, opening, assignment, i, code, retained) ==
  LET output == Follow(code, [slot |-> i - 1, bits |-> Sense(Scope, assignment)])
  IN  /\ output.slot < Len(retained)
      /\ \E carried \in {assignment, FlipAt(selected, assignment)} :
           /\ output.bits = Sense(Scope, carried)
           /\ Holds(carried, retained[output.slot + 1])
           /\ Accepts(assignment, opening[i]) => Accepts(carried, retained[output.slot + 1])

RouteExact ==
  [][Advance =>
       LET opening == Opening(live'.seed, frontier) IN
         /\ sourceWidth' = Len(opening)
         /\ \A i \in DOMAIN opening, assignment \in Assignments :
              Holds(assignment, opening[i]) =>
                Transports(live'.seed, opening, assignment, i, circuit', frontier')]_vars

\* advance_preserves_SAT: opening and reducing neither lose the last solution nor
\* invent one, in any frontier reached by any sequence of stages.
ViabilityPreserved ==
  [][frontier' # frontier => (Viable(frontier) <=> Viable(frontier'))]_vars

\* The reduction leaves no two contexts its own search could still relate, in
\* either direction, under the variable of the last stage (SearchIrreducible).
RetainedIrreducible == Configured => Irreducible(live.seed, frontier)

\* No branch decides a variable twice, whatever the received history had decided.
DecisionsFresh == \A i \in DOMAIN frontier : FreshHistory(frontier[i].decisions)
=============================================================================
