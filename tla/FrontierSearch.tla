--------------------------- MODULE FrontierSearch ---------------------------
(***************************************************************************)
(* Opening a frontier on the discovered variable, reducing it by relation  *)
(* search, and lowering the routing code the search leaves to a circuit of *)
(* instructions (VariableMasterExecution, AcceptedFrontierNormalization,   *)
(* FrontierCircuit).  The code's trees are kept flat: composing two of     *)
(* them joins their instructions, prepending a context moves every         *)
(* instruction one slot up.                                                *)
(***************************************************************************)
EXTENDS Fabric, SatContexts

Packet(slot, bits) == [slot |-> slot, bits |-> bits]

-----------------------------------------------------------------------------
(* Routing syntax.  A circuit holds no context, only the shape of the      *)
(* move: what each instruction does, from its level up.                    *)
Identity == << >>

\* Fault: two contexts that stay apart are not exchanged.
NoSwap == << >>

Swap == <<[op |-> "swap", level |-> 0]>>
AbsorbFirst(gates) == <<[op |-> "absorbFirst", level |-> 0, gates |-> gates]>>
AbsorbSecond(gates) == <<[op |-> "absorbSecond", level |-> 0, gates |-> gates]>>
PrependCode(code) == [i \in DOMAIN code |-> [code[i] EXCEPT !.level = @ + 1]]
Compose(first, second) == first \o second

\* A slot below the level is not touched; the others are counted from it.
FireInstruction(instruction, packet) ==
  LET level == instruction.level
      slot == packet.slot - level
      To(next, bits) == Packet(level + next, bits)
  IN  IF packet.slot < level THEN packet
      ELSE CASE instruction.op = "swap" ->
                  To(IF slot < 2 THEN 1 - slot ELSE slot, packet.bits)
             [] instruction.op = "absorbFirst" ->
                  IF slot = 0 THEN To(0, Fire(instruction.gates, packet.bits))
                              ELSE To(slot - 1, packet.bits)
             [] instruction.op = "absorbSecond" ->
                  CASE slot = 0 -> packet
                    [] slot = 1 -> To(0, Fire(instruction.gates, packet.bits))
                    [] slot > 1 -> To(slot - 1, packet.bits)

FireCircuit(circuit, packet) ==
  LET fired[n \in 0 .. Len(circuit)] ==
        IF n = 0 THEN packet ELSE FireInstruction(circuit[n], fired[n - 1])
  IN  fired[Len(circuit)]
-----------------------------------------------------------------------------
\* Fault: every parent is opened.
OpenAnyParent(selected, parent) ==
  <<Child(parent, selected, FALSE), Child(parent, selected, TRUE)>>

\* A parent whose history already decided the variable is kept unopened.
OpenParent(selected, parent) ==
  IF Avoids(selected, parent.decisions)
    THEN <<Child(parent, selected, FALSE), Child(parent, selected, TRUE)>>
    ELSE <<parent>>

OpenFrontier(selected, source) ==
  LET opened[n \in 0 .. Len(source)] ==
        IF n = 0 THEN << >> ELSE opened[n - 1] \o OpenParent(selected, source[n])
  IN  opened[Len(source)]

\* The last n of a sequence.
Ending(s, n) == SubSeq(s, Len(s) - n + 1, Len(s))

\* insertAcceptedIntoIrreducible, into the last n of the frontier for n = 0, 1, ...:
\* a positive relation absorbs, a failed search in both directions keeps both states
\* and goes on.  `gates' is the lowering of every relation this search can return.
Insert(selected, gates, state, rest) ==
  LET from[n \in 0 .. Len(rest)] ==
        IF n = 0 THEN [retained |-> <<state>>, code |-> Identity]
        ELSE LET current == rest[Len(rest) - n + 1]
                 forward == FlipRelated(selected, state, current)
                 backward == FlipRelated(selected, current, state)
                 deeper == from[n - 1]
             IN  CASE forward ->
                        [retained |-> Ending(rest, n), code |-> AbsorbFirst(gates)]
                   [] ~forward /\ backward ->
                        [retained |-> deeper.retained,
                         code |-> Compose(AbsorbSecond(gates), deeper.code)]
                   [] ~forward /\ ~backward ->
                        [retained |-> <<current>> \o deeper.retained,
                         code |-> Compose(Swap, PrependCode(deeper.code))]
  IN  from[Len(rest)]

\* The last n of the frontier, normalised and then joined by the one before them.
Normalize(selected, gates, source) ==
  LET from[n \in 0 .. Len(source)] ==
        IF n = 0 THEN [retained |-> << >>, code |-> Identity]
        ELSE LET below == from[n - 1]
                 inserted == Insert(selected, gates, source[Len(source) - n + 1],
                                    below.retained)
             IN  [retained |-> inserted.retained,
                  code |-> Compose(PrependCode(below.code), inserted.code)]
  IN  from[Len(source)]

\* produceProblem: the opening, its reduction and the circuit lowered from it.
ProduceProblem(scope, selected, source) ==
  LET opening == OpenFrontier(selected, source)
      reduction == Normalize(selected, Configure(scope, selected), opening)
  IN  [opening |-> opening,
       retained |-> reduction.retained,
       configured |-> reduction.code]
=============================================================================
