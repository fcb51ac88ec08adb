--------------------------- MODULE ReducedMachine ---------------------------
(***************************************************************************)
(* The production machine (Machine/ReducedLive*.lean and                   *)
(* ConstitutiveLiveExecution.lean).  Its memory holds the search front,    *)
(* the current values of the scope, the installed gates and a bank; the    *)
(* source assignment, the decisions and every callback are gone.           *)
(***************************************************************************)
EXTENDS Fabric, Contract

CONSTANTS
  Scope,     \* the variables the channels query, in order
  Inputs,    \* the signal lists a pulse may carry
  MaxDepth,  \* bound: no stage is started at this depth
  Start,     \* the live state the machine is received with
  Discovered(_, _)  \* the search on the projected front: seed, provenance

VARIABLES
  live,      \* [depth, target, seed, provenance, values]
  gates,     \* the wiring configured by the last stage
  bank,      \* the two-inlet memory of signals
  request,   \* the last request
  event,     \* the answer to it
  allowed    \* the admission decision taken before it was performed

memory == <<live, gates, bank>>
vars == <<live, gates, bank, request, event, allowed>>

\* Fault: the next front keeps the values of the stage before.
InstallOldValues(front) ==
  LET selected == Discovered(front.seed, front.provenance)
      connections == Configure(Scope, selected)
      output == Fire(connections, front.values)
  IN  [live |-> [depth |-> front.depth + 1,
                 target |-> front.target + 1,
                 seed |-> selected,
                 provenance |-> <<selected>> \o front.provenance,
                 values |-> front.values],
       gates |-> connections,
       bank |-> Route(output, output)]

\* produceReduced: the executed code configures the connections, they move the
\* values, and both are stored with the next front before the next request.
Install(front) ==
  LET selected == Discovered(front.seed, front.provenance)
      connections == Configure(Scope, selected)
      output == Fire(connections, front.values)
  IN  [live |-> [depth |-> front.depth + 1,
                 target |-> front.target + 1,
                 seed |-> selected,
                 provenance |-> <<selected>> \o front.provenance,
                 values |-> output],
       gates |-> connections,
       bank |-> Route(output, output)]

Booted == Install(Start)

Init ==
  /\ live = Booted.live
  /\ gates = Booted.gates
  /\ bank = Booted.bank
  /\ request = ToAdvance
  /\ event = Advanced
  /\ allowed = TRUE

\* The memory handed over by the public master, before any stage of its own.
Received ==
  /\ live = Start
  /\ gates = << >>
  /\ bank = NormalizeBank(Shared(Start.values))
  /\ request = NoRequest
  /\ event = Started
  /\ allowed = TRUE

Advance ==
  /\ live.depth < MaxDepth
  /\ request' = ToAdvance
  /\ event' = Advanced
  /\ allowed' = TRUE
  /\ LET next == Install(live) IN
       /\ live' = next.live
       /\ gates' = next.gates
       /\ bank' = next.bank

Sample(inlet) ==
  /\ request' = ToSample(inlet)
  /\ event' = Sampled(ReadBank(bank, inlet))
  /\ allowed' = TRUE
  /\ UNCHANGED memory

PulseDriven(left, right) ==
  /\ PulseFits(Scope, left, right)
  /\ bank' = Drive(gates, left, right)
  /\ request' = ToPulse(left, right)
  /\ event' = Driven(ReadBank(bank', "transformed"), ReadBank(bank', "retained"))
  /\ allowed' = TRUE
  /\ UNCHANGED <<live, gates>>

PulseRefused(left, right) ==
  /\ ~ PulseFits(Scope, left, right)
  /\ request' = ToPulse(left, right)
  /\ event' = Refused
  /\ allowed' = FALSE
  /\ UNCHANGED memory

Next ==
  \/ Advance
  \/ \E inlet \in Inlets : Sample(inlet)
  \/ \E left, right \in Inputs : PulseDriven(left, right) \/ PulseRefused(left, right)

Spec == Init /\ [][Next]_vars
=============================================================================
