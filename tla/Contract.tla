------------------------------ MODULE Contract ------------------------------
(***************************************************************************)
(* The requests the machines serve and the events they answer with.  A     *)
(* refused request is an event of its own and leaves the memory for the    *)
(* next request.                                                           *)
(***************************************************************************)

NoRequest == [op |-> "none"]

ToAdvance == [op |-> "advance"]

ToSample(inlet) == [op |-> "sample", inlet |-> inlet]

ToPulse(left, right) == [op |-> "pulse", left |-> left, right |-> right]

ToRoute(slot, bits) == [op |-> "route", slot |-> slot, bits |-> bits]

ToSampleProblem == [op |-> "sampleProblem"]
-----------------------------------------------------------------------------

Started == [kind |-> "started"]

Advanced == [kind |-> "advanced"]

Sampled(bits) == [kind |-> "sampled", bits |-> bits]

Driven(transformed, retained) ==
  [kind |-> "driven", transformed |-> transformed, retained |-> retained]

Refused == [kind |-> "refused"]

\* The master answers its own requests apart from those of the core.
Routed(slot, bits) == [kind |-> "routed", slot |-> slot, bits |-> bits]

SampledProblem(value) == [kind |-> "sampledProblem", value |-> value]

RoutingRefused == [kind |-> "routingRefused"]
=============================================================================
