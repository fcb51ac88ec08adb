---------------------------- MODULE UnifiedCheck ----------------------------
(***************************************************************************)
(* The analysis of UnifiedAnalysis against the runs of EmittedCode.        *)
(* scripts/check-unified-codegen.py accepts a function for the two numbers *)
(* it counts (applications) or for the tags its value retains; they are    *)
(* worth what the comparison says.                                         *)
(***************************************************************************)
EXTENDS UnifiedAnalysis

CONSTANTS Questions,   \* name -> question
          Bodies,      \* for each of them, the bodies analysed
          Inputs,      \* and the inputs they are run on
          Inspection(_, _),  \* the analysis: Inspect
          Execution(_, _)    \* what a body does on an input: Outcome

VARIABLES question, body, input, analysis, run
vars == <<question, body, input, analysis, run>>

NotYet == [err |-> "not yet"]
NotRun == [emitted |-> FALSE]

Asked == Questions[question]

Init == /\ question \in DOMAIN Bodies
        /\ body \in Bodies[question]
        /\ input \in Inputs[question]
        /\ analysis = NotYet
        /\ run = NotRun

Analyse == /\ analysis = NotYet
           /\ analysis' = Inspection(body, Asked)
           /\ UNCHANGED <<question, body, input, run>>

Start == /\ analysis # NotYet
         /\ run = NotRun
         /\ run' = Execution(body, input)
         /\ run' # run
         /\ UNCHANGED <<question, body, input, analysis>>

Next == Analyse \/ Start
Spec == Init /\ [][Next]_vars

Accepted == analysis.err = None

\* Helpers that write what they are given are left out: what they write is
\* lost to a caller that still has the object, which emitted code never has.
Executed == run # NotRun /\ run.emitted /\ ~run.foreign

\* The applications of the target outside its own recursion, the calls cut
\* and the second unfolding.
Applications ==
  Len(SelectSeq(run.trace,
        LAMBDA c : /\ c.name = Asked.target
                   /\ c.under \cap ({Asked.target} \cup Asked.cut \cup Asked.unfolded) = {}))

ArchiveTag == 90
RECURSIVE HoldsArchive(_)
HoldsArchive(tree) ==
  tree[1] = "obj" /\ (tree[2] >= ArchiveTag \/ \E s \in DOMAIN tree[4] : HoldsArchive(tree[4][s]))

-----------------------------------------------------------------------------
(* The number of times a run applies the producer, directly, in a helper or *)
(* through a closure however it was passed around, is within the bounds     *)
(* reported; a body reported as [1, 1] runs it exactly once                 *)
(* (unified_codegen_analysis.py:186-366).  The bodies it is checked on hand *)
(* a helper one closure on every path; where paths differ, see FailsClosed. *)
CountSound ==
  ~Asked.capture /\ Accepted /\ Executed => Applications \in analysis.lo..analysis.hi

(* The same for bodies that call a helper with two closures to choose from: *)
(* unified_codegen_analysis.py:3-4 has it that control flow the analysis    *)
(* does not support is refused when the path is sensitive.                  *)
FailsClosed == CountSound

(* A value that contains a cell of an archive, in a field, in a list built  *)
(* by a loop or a recursion, or in the environment of a closure, is         *)
(* reported to retain it, and a field that is known to the analysis is      *)
(* reported for what it holds (check-unified-codegen.py:263-292).           *)
CaptureSound ==
  Asked.capture /\ Accepted /\ Executed =>
    /\ HoldsArchive(run.value) => "archive" \in analysis.retained
    /\ run.value[1] = "obj" =>
         \A s \in DOMAIN run.value[4] \cap DOMAIN analysis.fields :
           HoldsArchive(run.value[4][s]) => "archive" \in analysis.fields[s]

(* The same for bodies whose recursion changes the structure of an argument *)
(* and not its tags: unified_codegen_analysis.py:206-207 has it that such a *)
(* function is approximated and "checked to a fixed point".                 *)
FixedPointSound == CaptureSound
=============================================================================
