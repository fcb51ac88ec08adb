------------------------------- MODULE Fabric -------------------------------
(***************************************************************************)
(* The bank of connected gates (Machine/Fabric.lean, CanonicalMemory.lean).*)
(* A gate is its invert bit, a signal list a sequence of Booleans, a scope *)
(* the sequence of the variables its channels query.  Everything is        *)
(* pointwise, so nothing here is recursive and the laws of the bank can be *)
(* proved for scopes and signals of any length (FabricProofs).             *)
(***************************************************************************)
EXTENDS Naturals, Sequences

Signals == Seq(BOOLEAN)

\* A zipped circuit stops at the shorter of its two lists.
Shorter(one, two) == IF Len(one) <= Len(two) THEN Len(one) ELSE Len(two)

GateFire(invert, bit) == IF invert THEN ~bit ELSE bit

Fire(gates, bits) ==
  [i \in 1 .. Shorter(gates, bits) |-> GateFire(gates[i], bits[i])]

Sense(scope, assignment) == [i \in 1 .. Len(scope) |-> assignment[scope[i]]]

Configure(scope, selected) == [i \in 1 .. Len(scope) |-> scope[i] = selected]

\* The address-interpreting specification of the same action.
ReferenceAction(scope, selected, bits) ==
  [i \in 1 .. Shorter(scope, bits) |->
     IF scope[i] = selected THEN ~bits[i] ELSE bits[i]]

Inlets == {"transformed", "retained"}

Shared(bits) == [cells |-> 1, transformed |-> bits, retained |-> bits]

Separate(left, right) == [cells |-> 2, transformed |-> left, retained |-> right]

ReadBank(bank, inlet) ==
  IF inlet = "transformed" THEN bank.transformed ELSE bank.retained

\* Sharing is decided by the values actually routed.
Route(left, right) == IF left = right THEN Shared(left) ELSE Separate(left, right)

Drive(gates, left, right) == Route(Fire(gates, left), right)

NormalizeBank(bank) ==
  Route(ReadBank(bank, "transformed"), ReadBank(bank, "retained"))

\* Fault: one of the two lists goes unchecked.
PulseFitsRight(scope, left, right) == Len(right) = Len(scope)

PulseFits(scope, left, right) ==
  /\ Len(left) = Len(scope)
  /\ Len(right) = Len(scope)
=============================================================================
