---------------------------- MODULE SatContexts -----------------------------
(***************************************************************************)
(* CNF formulas, decided branch contexts and the flip relation between     *)
(* them (ConstitutiveSearch/SAT).  Formulas and decision histories are     *)
(* sequences, because the relation search compares lists and not sets.     *)
(***************************************************************************)
EXTENDS Naturals, Sequences, SequencesExt

Literal(var, positive) == [var |-> var, positive |-> positive]

Decision(var, value) == [var |-> var, value |-> value]

FlipAt(var, assignment) ==
  [query \in DOMAIN assignment |->
     IF query = var THEN ~assignment[query] ELSE assignment[query]]

FlipLiteral(var, literal) ==
  IF literal.var = var THEN Literal(var, ~literal.positive) ELSE literal

FlipFormula(var, formula) ==
  [i \in DOMAIN formula |->
     [j \in DOMAIN formula[i] |-> FlipLiteral(var, formula[i][j])]]

FlipDecisions(var, decisions) ==
  [i \in DOMAIN decisions |->
     IF decisions[i].var = var THEN Decision(var, ~decisions[i].value)
                               ELSE decisions[i]]

Satisfies(assignment, formula) ==
  \A i \in DOMAIN formula : \E j \in DOMAIN formula[i] :
    assignment[formula[i][j].var] = formula[i][j].positive

Realizes(assignment, decisions) ==
  \A i \in DOMAIN decisions : assignment[decisions[i].var] = decisions[i].value

\* The contexts over a set of variables.
Contexts(V) ==
  [formula : Seq(Seq([var : V, positive : BOOLEAN])), decisions : Seq([var : V, value : BOOLEAN])]

\* An assignment continues a context, and is accepted by it.
Holds(assignment, context) == Realizes(assignment, context.decisions)

Accepts(assignment, context) ==
  Holds(assignment, context) /\ Satisfies(assignment, context.formula)

\* The members of a sequence that are in a set, in their order.  A recursive function
\* and not SelectSeq, which the proofs could not unfold.
Keep(s, set) ==
  LET kept[n \in 0 .. Len(s)] ==
        IF n = 0 THEN << >>
        ELSE IF s[n] \in set THEN Append(kept[n - 1], s[n]) ELSE kept[n - 1]
  IN  kept[Len(s)]

\* Fault: the falsified clauses are deleted instead of the satisfied ones.
BranchResidualOpposite(formula, var, value) ==
  Keep(formula, {clause \in ToSet(formula) : ~ Contains(clause, Literal(var, ~value))})

\* Branching deletes the clauses the new literal satisfies and keeps every
\* other clause whole: the opposite literal is not removed from them.
BranchResidual(formula, var, value) ==
  Keep(formula, {clause \in ToSet(formula) : ~ Contains(clause, Literal(var, value))})

RootContext(formula) == [formula |-> formula, decisions |-> << >>]

Child(parent, var, value) ==
  [formula |-> BranchResidual(parent.formula, var, value),
   decisions |-> <<Decision(var, value)>> \o parent.decisions]

Avoids(var, decisions) == \A i \in DOMAIN decisions : decisions[i].var # var

\* generatedStructuralFlipAtSearch.find source target, as a predicate.
FlipRelated(var, source, target) ==
  /\ target.formula = FlipFormula(var, source.formula)
  /\ target.decisions = FlipDecisions(var, source.decisions)

\* No two places of a frontier hold contexts the search could still relate.
Irreducible(var, contexts) ==
  \A i, j \in DOMAIN contexts : i # j => ~ FlipRelated(var, contexts[i], contexts[j])

\* No variable is decided twice.
FreshHistory(decisions) ==
  \A i, j \in DOMAIN decisions : i # j => decisions[i].var # decisions[j].var
=============================================================================
