-------------------------- MODULE MCReconfigurable --------------------------
(***************************************************************************)
(* A small instance of the rich machine: received from the public master   *)
(* of input 0, scope of two channels, pulses a bit short and a bit long.   *)
(***************************************************************************)
EXTENDS ReconfigurableMachine

CONSTANT Input

MCVar == 0 .. StageSelectedVar(MaxDepth + 1) + 1
MCScope == <<14, 12>>
MCInputs ==
  {<<FALSE, FALSE>>, <<TRUE, FALSE>>, <<FALSE, TRUE>>, <<TRUE>>, <<TRUE, FALSE, TRUE>>}
MCStart == PublicLive(Input, MCVar)
=============================================================================
