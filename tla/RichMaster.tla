----------------------------- MODULE RichMaster -----------------------------
(***************************************************************************)
(* The master's specification machine (RichMemory and richPerform): the    *)
(* same problem memory beside the rich core, which keeps the assignment    *)
(* and its whole decision history.                                         *)
(***************************************************************************)
EXTENDS ProblemRouting

CONSTANTS MaxDepth, Start, Sources

VARIABLES live, gates, bank

Core == INSTANCE ReconfigurableMachine

vars == <<live, gates, bank, frontier, sourceWidth, circuit, routed,
          request, event, allowed>>

\* fromMaster.
Init ==
  /\ Core!Received
  /\ \E source \in Sources : InitialProblem(source)

\* Fault: the frontier is opened on the variable of the stage before.
AdvanceStaleSelection ==
  /\ Core!Advance
  /\ InstallProblem(live.seed)

\* richAdvance reads the variable off the stage discovery, before the core is
\* installed.
Advance ==
  /\ Core!Advance
  /\ InstallProblem(Core!Selected(live))

CoreRequest ==
  /\ \/ \E inlet \in Inlets : Core!Sample(inlet)
     \/ \E left, right \in Inputs :
          Core!PulseDriven(left, right) \/ Core!PulseRefused(left, right)
  /\ UNCHANGED problem

RoutingRequest ==
  /\ ProblemRequest
  /\ UNCHANGED <<live, gates, bank>>

Next == Advance \/ CoreRequest \/ RoutingRequest

Spec == Init /\ [][Next]_vars

\* The received live state gives every variable the scope queries a value; nothing
\* is assumed of the search or of the frontiers.
ASSUME RichScopeAssumption == Scope \in Seq(DOMAIN Start.assignment)
ASSUME RichStartAssumption ==
  /\ Start.depth \in Nat
  /\ Start.assignment \in [DOMAIN Start.assignment -> BOOLEAN]
ASSUME RichInputsAssumption == Inputs \subseteq Signals
-----------------------------------------------------------------------------
\* The rich core meets its own invariant once a stage is installed, also after
\* the pulses a received memory answered without gates.
RichCoherent == gates # << >> => Core!Inductive

\* The projection changes the core only; the problem is kept as it is.
Projected ==
  INSTANCE MasterMachine
    WITH live <- Core!ProjectLive(live), bank <- NormalizeBank(bank),
         Discovered <- Core!Discover,
         Start <- Core!ProjectLive(Start), Variables <- DOMAIN Start.assignment

\* Every request, of the core or of the routing, in any interleaving, is answered
\* by the rich master as by the master that dropped assignment and decisions
\* (all_futures_exact of MasterContract.lean).
ProjectedSpec == Projected!Spec
=============================================================================
