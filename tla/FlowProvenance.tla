--------------------------- MODULE FlowProvenance ---------------------------
(***************************************************************************)
(* The analysis of FlowAnalysis against the runs of EmittedCode: a body is *)
(* analysed once, executed on an input, and the two are compared.  The     *)
(* checks of scripts/integrated_machine_checks.py accept a body by looking *)
(* at its symbolic paths only; they are worth what the comparison says.    *)
(***************************************************************************)
EXTENDS FlowAnalysis

CONSTANTS Bodies,   \* the bodies analysed
          InputsFor(_),       \* the inputs a body is run on
          Inspection(_, _),   \* the analysis: Inspect
          Execution(_, _)     \* what a body does on an input: Outcome

VARIABLES body, input, analysis, run
vars == <<body, input, analysis, run>>

NotYet == [err |-> "not yet"]
NotRun == [emitted |-> FALSE]

Init == /\ body \in Bodies
        /\ input \in InputsFor(body)
        /\ analysis = NotYet
        /\ run = NotRun

Analyse == /\ analysis = NotYet
           /\ analysis' = Inspection(body, TRUE)
           /\ UNCHANGED <<body, input, run>>

Start == /\ analysis # NotYet
         /\ run = NotRun
         /\ run' = Execution(body, input)
         /\ run' # run
         /\ UNCHANGED <<body, input, analysis>>

Next == Analyse \/ Start
Spec == Init /\ [][Next]_vars

Accepted == analysis.err = None
Executed == run # NotRun /\ run.emitted

\* The calls of the run that the analysis sees: those made under helpers it
\* follows.
Seen == SelectSeq(run.trace, LAMBDA c : \A h \in c.under : ShouldUnfold[h])

-----------------------------------------------------------------------------
(* What a frozen symbolic value says of a run: the value an origin names,   *)
(* if it names one, and what the known fields of a record are.              *)

Unknown == <<"unknown">>

RECURSIVE Meaning(_, _)
Meaning(origin, path) ==
  CASE origin[1] = "parameter" -> Tree(input.heap, input.args[origin[2]])
    [] origin[1] = "literal"   -> Imm(origin[2])
    [] origin[1] = "field"     ->
         LET m == Meaning(origin[2], path)
         IN IF m[1] = "obj" /\ origin[3] \in DOMAIN m[4] THEN m[4][origin[3]] ELSE Unknown
    [] origin[1] = "result"    ->
         LET k == {i \in DOMAIN path.calls : path.calls[i].result = origin}
         IN IF k = {} THEN Unknown ELSE Seen[CHOOSE i \in k : TRUE].result
    [] OTHER -> Unknown

RECURSIVE Fits(_, _, _)
Fits(frozen, tree, path) ==
  IF frozen[1] = "record"
    THEN /\ tree[1] = "obj"
         /\ frozen[2] # -1 => tree[2] = frozen[2]
         /\ frozen[3] = tree[3]
         /\ \A s \in DOMAIN frozen[5] :
              s \in DOMAIN tree[4] /\ Fits(frozen[5][s], tree[4][s], path)
  ELSE IF frozen[1] = "object"
    THEN /\ tree[1] = "obj"
         /\ frozen[3] # -1 => tree[2] = frozen[3]
         /\ frozen[4] = tree[3]
  ELSE Meaning(frozen, path) \in {Unknown, tree}

Describes(path) ==
  /\ Len(path.calls) = Len(Seen)
  /\ \A k \in DOMAIN path.calls :
       /\ path.calls[k].name = Seen[k].name
       /\ \A i \in DOMAIN path.calls[k].args :
            Fits(path.calls[k].args[i], Seen[k].args[i], path)
       /\ Fits(path.calls[k].result, Seen[k].result, path)
  /\ Fits(path.value, run.value, path)

-----------------------------------------------------------------------------
(* Every run of an accepted body is told truthfully by one of its paths:    *)
(* the same calls in the same order, each argument and the value returned   *)
(* being what the path says they are. What a check finds on all the paths   *)
(* then holds of the run.                                                   *)
RunCovered ==
  Accepted /\ Executed =>
    \E i \in DOMAIN analysis.paths : Describes(analysis.paths[i])

(* What integrated_machine_analysis.py:295 says of the arguments of a call  *)
(* ("Copy the whole tuple to preserve aliases on each branch"): the values  *)
(* of an argument with several paths do not meet, so that every run is told *)
(* by the path it takes even when the argument is itself a call.            *)
BranchesKept == RunCovered

(* A body is refused as soon as one of its runs has a helper write a cell   *)
(* the helper was given, whoever allocated it and however it was reached:   *)
(* the walk does not carry such a write back to the caller.                 *)
ForeignWritesRefused == Executed /\ run.foreign => ~Accepted
=============================================================================
