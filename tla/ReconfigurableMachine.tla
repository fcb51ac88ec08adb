------------------------ MODULE ReconfigurableMachine -----------------------
(***************************************************************************)
(* The rich machine (Machine/ReconfigurableMachine.lean): a live discovery *)
(* engine that carries its whole assignment and decision history, the      *)
(* wiring compiled from its last production, and a bank driven through     *)
(* that wiring.  It stands between two machines: `Source', the contract it *)
(* implements, and `Reduced', which keeps only the projection of its       *)
(* memory and must answer alike.                                           *)
(***************************************************************************)
EXTENDS Fabric, LiveContinuation, Contract

CONSTANTS Scope, Inputs, MaxDepth, Start

VARIABLES live, gates, bank, request, event, allowed

memory == <<live, gates, bank>>
vars == <<live, gates, bank, request, event, allowed>>

Var == DOMAIN Start.assignment

\* What the received live state must offer: a total assignment of the
\* variables the scope queries.  Nothing is assumed of the search.
ASSUME ScopeAssumption == Scope \in Seq(Var)
ASSUME InputsAssumption == Inputs \subseteq Signals
ASSUME StartAssumption ==
  /\ Start.depth \in Nat
  /\ Start.assignment \in [Var -> BOOLEAN]
-----------------------------------------------------------------------------
\* Fault: the wiring of the stage before stays in place.
InstallStale(source) ==
  LET wiring == Configure(Scope, source.seed)
      completed == FlipAt(Selected(source), source.assignment)
  IN  [live |-> ProduceNext(source),
       gates |-> wiring,
       bank |-> Drive(wiring, Sense(Scope, source.assignment), Sense(Scope, completed))]

\* Fault: both inlets are fed the executed input.
InstallInputTwice(source) ==
  LET wiring == Configure(Scope, Selected(source))
      input == Sense(Scope, source.assignment)
  IN  [live |-> ProduceNext(source), gates |-> wiring, bank |-> Drive(wiring, input, input)]

\* Search, compilation and routing, all before the next request.  The two
\* inlets are the input and the completed output of the executed role.
Install(source) ==
  LET selected == Selected(source)
      wiring == Configure(Scope, selected)
      completed == FlipAt(selected, source.assignment)
  IN  [live |-> ProduceNext(source),
       gates |-> wiring,
       bank |-> Drive(wiring, Sense(Scope, source.assignment), Sense(Scope, completed))]

Booted == Install(Start)

Init ==
  /\ live = Booted.live
  /\ gates = Booted.gates
  /\ bank = Booted.bank
  /\ request = ToAdvance
  /\ event = Advanced
  /\ allowed = TRUE

\* The memory handed over by the public master, before any stage of its own.
Received ==
  /\ live = Start
  /\ gates = << >>
  /\ bank = Shared(Sense(Scope, Start.assignment))
  /\ request = NoRequest
  /\ event = Started
  /\ allowed = TRUE

Advance ==
  /\ live.depth < MaxDepth
  /\ request' = ToAdvance
  /\ event' = Advanced
  /\ allowed' = TRUE
  /\ LET next == Install(live) IN
       /\ live' = next.live
       /\ gates' = next.gates
       /\ bank' = next.bank

Sample(inlet) ==
  /\ request' = ToSample(inlet)
  /\ event' = Sampled(ReadBank(bank, inlet))
  /\ allowed' = TRUE
  /\ UNCHANGED memory

\* Fault: the two lists of a pulse change places.
PulseSwapped(left, right) ==
  /\ PulseFits(Scope, left, right)
  /\ bank' = Drive(gates, right, left)
  /\ request' = ToPulse(left, right)
  /\ event' = Driven(ReadBank(bank', "transformed"), ReadBank(bank', "retained"))
  /\ allowed' = TRUE
  /\ UNCHANGED <<live, gates>>

PulseDriven(left, right) ==
  /\ PulseFits(Scope, left, right)
  /\ bank' = Drive(gates, left, right)
  /\ request' = ToPulse(left, right)
  /\ event' = Driven(ReadBank(bank', "transformed"), ReadBank(bank', "retained"))
  /\ allowed' = TRUE
  /\ UNCHANGED <<live, gates>>

PulseRefused(left, right) ==
  /\ ~ PulseFits(Scope, left, right)
  /\ request' = ToPulse(left, right)
  /\ event' = Refused
  /\ allowed' = FALSE
  /\ UNCHANGED memory

Next ==
  \/ Advance
  \/ \E inlet \in Inlets : Sample(inlet)
  \/ \E left, right \in Inputs : PulseDriven(left, right) \/ PulseRefused(left, right)

Spec == Init /\ [][Next]_vars
-----------------------------------------------------------------------------
\* The projection: the assignment survives only as the values of the scope.
ProjectLive(source) ==
  [depth |-> source.depth, target |-> source.target, seed |-> source.seed,
   provenance |-> source.provenance, values |-> Sense(Scope, source.assignment)]

Reduced ==
  INSTANCE ReducedMachine
    WITH live <- ProjectLive(live), bank <- NormalizeBank(bank),
         Discovered <- Discover,
         Start <- ProjectLive(Start)

\* The rich machine does only what the reduced machine allows: every request
\* has the same answer, the same admission and the projected successor
\* (perform_project, event_project).
ReducedSpec == Reduced!Spec

\* The contract behind the wiring.  The variable a frame selected is the seed its
\* stage handed on.  Gates are involutive, so the input a frame remembers is
\* recovered by firing the wiring once more on the reading it gave.
Source ==
  INSTANCE SourceMachine
    WITH selected <- live.seed,
         transformedInput <- Fire(gates, ReadBank(bank, "transformed")),
         retainedInput <- ReadBank(bank, "retained")

\* Configuring gates once per stage and pulsing them later answers every
\* request as interpreting the selected address anew would (perform_exact).
SourceSpec == Source!Spec
-----------------------------------------------------------------------------
TypeOK ==
  /\ live.depth \in Nat /\ live.depth > Start.depth
  /\ live.assignment \in [Var -> BOOLEAN]
  /\ gates \in Seq(BOOLEAN)
  /\ bank.transformed \in Signals /\ bank.retained \in Signals
  /\ allowed \in BOOLEAN

\* Coherent: once a stage is installed, the wiring and both readings cover the
\* whole scope, whatever pulses were driven or refused since
\* (MemoryInvariant.lean).
Coherent ==
  /\ Len(gates) = Len(Scope)
  /\ Len(ReadBank(bank, "transformed")) = Len(Scope)
  /\ Len(ReadBank(bank, "retained")) = Len(Scope)

\* A bank keeps two cells exactly when its two readings differ, so equal
\* readings are never stored as two different memories (BankNormal).
BankNormal == NormalizeBank(bank) = bank

\* The wiring in use is the one of the last stage executed, never of an earlier
\* one: pulses after an advance cannot meet stale gates.  The seed is the variable
\* that stage selected.
WiringIsCurrent == gates = Configure(Scope, live.seed)

\* The four invariants support each other: the readings stay coherent because
\* the wiring covers the scope, and they are inductive together.
Inductive == TypeOK /\ Coherent /\ BankNormal /\ WiringIsCurrent

\* An installed stage leaves its bank converged on the state the engine now
\* carries: both inlets read the transported assignment.
AdvanceConverges ==
  event = Advanced => bank = Shared(Sense(Scope, live.assignment))

\* The seed fed back by the executed search and the index generated from the
\* constituted target are computed on two paths and agree (searchSeedExact).
SeedFollowsGeneration == live.seed = 2 * live.target

\* The next discovery succeeds and selects the constituted variable of the
\* stage, which no executed stage decided before (fresh, selected_exact).
NextSelectionFresh ==
  /\ FoundAt(live.seed, live.provenance) # 0
  /\ Selected(live) = StageSelectedVar(live.depth + 1)
  /\ Avoids(Selected(live), live.decisions)
  /\ live.provenance = [i \in DOMAIN live.decisions |-> live.decisions[i].var]

\* The carried assignment realises its whole decision history, enters the next
\* stage through the false child of its root formula, and still satisfies the
\* root formula of every stage executed so far: no later flip undoes one.
AssignmentAccepted ==
  /\ Realizes(live.assignment, live.decisions)
  /\ live.assignment[Selected(live)] = FALSE
  /\ \A i \in DOMAIN live.provenance :
       Satisfies(live.assignment, StageFormula(live.provenance[i] - 2))
  /\ Satisfies(live.assignment, StageFormula(live.seed))

\* The start is a live state the public master hands over, before the bound, with an
\* assignment of every variable the stages up to the bound query.
FromMaster ==
  /\ MaxDepth \in Nat /\ Start.depth < MaxDepth
  /\ 0 .. StageSelectedVar(MaxDepth + 1) + 1 \subseteq Var
  /\ \E input \in Nat : Start = PublicLive(input, Var)

\* What the executed discoveries have left behind.  Each decided one even variable,
\* none above the seed; the odd variables, which hold the anchors, and variable 0,
\* which the decoys hold, are still true, and the even ones ahead still false.
LiveSound(source) ==
  /\ source.depth \in Nat /\ source.assignment \in [Var -> BOOLEAN]
  /\ source.target = OperationalIndex(source.depth + 1)
  /\ source.seed = 2 * source.target
  /\ source.decisions \in Seq([var : Nat, value : BOOLEAN])
  /\ source.provenance = [i \in DOMAIN source.decisions |-> source.decisions[i].var]
  /\ \A i \in DOMAIN source.decisions :
       \E k \in 1 .. source.target : source.decisions[i].var = 2 * k
  /\ source.assignment[0] = TRUE
  /\ \A k \in Nat : 2 * k + 1 \in Var => source.assignment[2 * k + 1] = TRUE
  /\ \A k \in Nat : k > source.target /\ 2 * k \in Var => source.assignment[2 * k] = FALSE
  /\ Realizes(source.assignment, source.decisions)

\* A stage is executed only below the bound.
DiscoveryInductive == LiveSound(live) /\ live.depth <= MaxDepth
=============================================================================
