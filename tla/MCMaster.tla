------------------------------ MODULE MCMaster ------------------------------
(***************************************************************************)
(* The master over the concrete search: received from the public master of *)
(* input 0, with problems whose children group, stay apart, or were        *)
(* decided before.                                                         *)
(***************************************************************************)
EXTENDS MasterMachine

Search == INSTANCE FrontierSearch
Engine == INSTANCE LiveContinuation

CONSTANTS MaxSlot, Input

MCProduceProblem(scope, selected, source) == Search!ProduceProblem(scope, selected, source)
MCFireCircuit(code, packet) == Search!FireCircuit(code, packet)
MCIdentity == Search!Identity
MCDiscover(seed, provenance) == Engine!Discover(seed, provenance)

MCScope == <<14, 12>>
MCInputs == {<<FALSE, FALSE>>, <<TRUE, FALSE>>, <<TRUE>>}
MCSlots == 0 .. MaxSlot

\* The public master's live state, projected on the scope.
MCStart ==
  LET source == Engine!PublicLive(Input, 0 .. 20)
  IN  [depth |-> source.depth, target |-> source.target, seed |-> source.seed,
       provenance |-> source.provenance, values |-> Sense(MCScope, source.assignment)]

Lit(var) == Literal(var, TRUE)
Neg(var) == Literal(var, FALSE)

\* Satisfied by the received decision 1 = TRUE, so both children of 12 are bare.
Grouping == <<<<Lit(12), Lit(1), Lit(2)>>>>
\* The children of 12 flip into each other, those of 14 do not.
Symmetric == <<<<Lit(12), Lit(2)>>, <<Neg(12), Lit(2)>>, <<Lit(14), Lit(1)>>>>
\* No assignment satisfies it: the frontier must stay without a solution.
Contradiction == <<<<Lit(12)>>, <<Neg(12)>>, <<Lit(1)>>, <<Neg(1)>>>>

MCSources ==
  LET grouping == RootContext(Grouping)
      symmetric == RootContext(Symmetric)
      contradiction == RootContext(Contradiction)
  IN  {<< >>, <<Child(grouping, 1, TRUE)>>, <<Child(grouping, 1, FALSE)>>,
       <<Child(grouping, 1, FALSE), Child(grouping, 1, TRUE)>>,
       <<symmetric>>, <<Child(symmetric, 12, TRUE), Child(symmetric, 2, FALSE)>>,
       <<Child(contradiction, 1, FALSE), Child(contradiction, 1, TRUE)>>}

\* The fronts of every number of stages the bound allows.
MCFronts ==
  LET front[n \in 0 .. MaxDepth] ==
        IF n = 0 THEN <<MCStart.depth, MCStart.seed, MCStart.provenance>>
        ELSE LET selected == MCDiscover(front[n - 1][2], front[n - 1][3])
             IN  <<front[n - 1][1] + 1, selected, <<selected>> \o front[n - 1][3]>>
  IN  {front[n] : n \in 0 .. MaxDepth}

\* The instance meets what the theorems on the composed search suppose.
ASSUME MCSearchAssumption == DiscoveryStays(MCFronts) /\ FrontiersReceived
=============================================================================
