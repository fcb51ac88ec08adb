---------------------------- MODULE MCRichMaster ----------------------------
(***************************************************************************)
(* The rich master over the concrete search, for the projection.           *)
(***************************************************************************)
EXTENDS RichMaster, LiveContinuation

Search == INSTANCE FrontierSearch

CONSTANTS MaxSlot, Input

MCProduceProblem(scope, selected, source) == Search!ProduceProblem(scope, selected, source)
MCFireCircuit(code, packet) == Search!FireCircuit(code, packet)
MCIdentity == Search!Identity

MCScope == <<14, 12>>
MCInputs == {<<FALSE, FALSE>>, <<TRUE, FALSE>>, <<TRUE>>}
MCSlots == 0 .. MaxSlot
MCStart == PublicLive(Input, 0 .. StageSelectedVar(MaxDepth + 1) + 1)

\* One problem whose first children group and one whose children stay apart.
MCSources ==
  LET root == RootContext(<<<<Literal(12, TRUE), Literal(1, TRUE), Literal(2, TRUE)>>>>)
  IN  {<<Child(root, 1, TRUE)>>, <<Child(root, 1, FALSE)>>}
=============================================================================
