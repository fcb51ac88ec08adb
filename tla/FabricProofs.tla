---------------------------- MODULE FabricProofs ----------------------------
(***************************************************************************)
(* Laws of the bank of gates, of keeping the clauses of a branch, of       *)
(* circuits, of the opening of a frontier and of its reduction, for        *)
(* scopes, signals, formulas, frontiers and circuits of any length.        *)
(***************************************************************************)
EXTENDS FrontierSearch, DataLemmas

\* A zipped circuit of matching lengths answers with one bit per gate.
LEMMA FireLength ==
  ASSUME NEW gates \in Signals, NEW bits \in Signals, Len(gates) = Len(bits)
  PROVE  /\ Fire(gates, bits) \in Signals
         /\ Len(Fire(gates, bits)) = Len(gates)
         /\ Fire(gates, bits) = [i \in 1 .. Len(gates) |-> GateFire(gates[i], bits[i])]
  <1> DEFINE n == Len(gates)
             fired == [i \in 1 .. n |-> GateFire(gates[i], bits[i])]
  <1>1. n \in Nat /\ Shorter(gates, bits) = n
    BY DEF Shorter, Signals
  <1>2. Fire(gates, bits) = fired
    BY <1>1 DEF Fire
  <1>3. ASSUME NEW i \in 1 .. n PROVE GateFire(gates[i], bits[i]) \in BOOLEAN
    <2>1. gates[i] \in BOOLEAN /\ bits[i] \in BOOLEAN
      BY <1>1 DEF Signals
    <2> QED BY <2>1 DEF GateFire
  <1>4. fired \in [1 .. n -> BOOLEAN]
    BY <1>3
  <1>5. fired \in Seq(BOOLEAN) /\ Len(fired) = n
    BY <1>1, <1>4
  <1> QED BY <1>2, <1>5 DEF Signals

\* A circuit that stops at the shorter of its two lists never lengthens a signal.
LEMMA FireSignals ==
  ASSUME NEW wiring \in Signals, NEW bits \in Signals
  PROVE  Fire(wiring, bits) \in Signals
  <1> DEFINE n == Shorter(wiring, bits)
  <1>1. n \in Nat /\ n <= Len(wiring) /\ n <= Len(bits)
    BY DEF Shorter, Signals
  <1>2. \A i \in 1 .. n : wiring[i] \in BOOLEAN /\ bits[i] \in BOOLEAN
    BY <1>1 DEF Signals
  <1>3. \A i \in 1 .. n : GateFire(wiring[i], bits[i]) \in BOOLEAN
    BY <1>2 DEF GateFire
  <1>4. Fire(wiring, bits) \in [1 .. n -> BOOLEAN]
    BY <1>3 DEF Fire
  <1> QED BY <1>1, <1>4 DEF Signals

\* The readings of a scope are signals, one per channel.
LEMMA SenseType ==
  ASSUME NEW V, NEW scope \in Seq(V), NEW assignment \in [V -> BOOLEAN]
  PROVE  Sense(scope, assignment) \in Signals
         /\ Len(Sense(scope, assignment)) = Len(scope)
  <1>1. Len(scope) \in Nat
    OBVIOUS
  <1>2. Sense(scope, assignment) \in [1 .. Len(scope) -> BOOLEAN]
    BY DEF Sense
  <1> QED BY <1>1, <1>2 DEF Signals

\* A configured wiring has one gate per channel.
LEMMA ConfigureType ==
  ASSUME NEW V, NEW scope \in Seq(V), NEW selected
  PROVE  Configure(scope, selected) \in Signals
         /\ Len(Configure(scope, selected)) = Len(scope)
  <1>1. Len(scope) \in Nat
    OBVIOUS
  <1>2. Configure(scope, selected) \in [1 .. Len(scope) -> BOOLEAN]
    BY DEF Configure
  <1> QED BY <1>1, <1>2 DEF Signals

\* Flipping one variable of a total assignment leaves a total assignment.
LEMMA FlipAtType ==
  ASSUME NEW V, NEW assignment \in [V -> BOOLEAN], NEW var
  PROVE  FlipAt(var, assignment) \in [V -> BOOLEAN]
  BY DEF FlipAt

\* configure_exact: firing the configured wiring on the readings of an
\* assignment gives the readings of the flipped assignment.
THEOREM ConfigureExact ==
  ASSUME NEW V, NEW scope \in Seq(V), NEW assignment \in [V -> BOOLEAN], NEW selected
  PROVE  Fire(Configure(scope, selected), Sense(scope, assignment))
           = Sense(scope, FlipAt(selected, assignment))
  <1> DEFINE wiring == Configure(scope, selected)
             bits == Sense(scope, assignment)
  <1>1. wiring \in Signals /\ Len(wiring) = Len(scope)
    BY ConfigureType
  <1>2. bits \in Signals /\ Len(bits) = Len(scope)
    BY SenseType
  <1>3. Fire(wiring, bits) = [i \in 1 .. Len(scope) |-> GateFire(wiring[i], bits[i])]
    BY <1>1, <1>2, FireLength
  <1>4. ASSUME NEW i \in 1 .. Len(scope)
        PROVE  GateFire(wiring[i], bits[i]) = FlipAt(selected, assignment)[scope[i]]
    <2>1. scope[i] \in V
      OBVIOUS
    <2>2. wiring[i] = (scope[i] = selected) /\ bits[i] = assignment[scope[i]]
      BY DEF Configure, Sense
    <2>3. FlipAt(selected, assignment)[scope[i]] =
            IF scope[i] = selected THEN ~ assignment[scope[i]] ELSE assignment[scope[i]]
      BY <2>1 DEF FlipAt
    <2> QED BY <2>2, <2>3 DEF GateFire
  <1>5. Sense(scope, FlipAt(selected, assignment))
          = [i \in 1 .. Len(scope) |-> FlipAt(selected, assignment)[scope[i]]]
    BY DEF Sense
  <1>6. Fire(wiring, bits) = [i \in 1 .. Len(scope) |->
                                FlipAt(selected, assignment)[scope[i]]]
    BY <1>3, <1>4
  <1> QED BY <1>5, <1>6

\* configured_action_exact: the configured wiring computes the action that
\* interprets the selected address, on any bits that cover the scope.
THEOREM ConfiguredActionExact ==
  ASSUME NEW V, NEW scope \in Seq(V), NEW bits \in Signals, NEW selected,
         Len(bits) = Len(scope)
  PROVE  Fire(Configure(scope, selected), bits) = ReferenceAction(scope, selected, bits)
  <1> DEFINE wiring == Configure(scope, selected)
  <1>1. wiring \in Signals /\ Len(wiring) = Len(scope)
    BY ConfigureType
  <1>2. Fire(wiring, bits) = [i \in 1 .. Len(scope) |-> GateFire(wiring[i], bits[i])]
    BY <1>1, FireLength
  <1>3. ReferenceAction(scope, selected, bits)
          = [i \in 1 .. Len(scope) |->
               IF scope[i] = selected THEN ~ bits[i] ELSE bits[i]]
    BY DEF ReferenceAction, Shorter
  <1>4. ASSUME NEW i \in 1 .. Len(scope)
        PROVE  GateFire(wiring[i], bits[i])
                 = IF scope[i] = selected THEN ~ bits[i] ELSE bits[i]
    BY DEF GateFire, Configure
  <1>5. Fire(wiring, bits) = [i \in 1 .. Len(scope) |->
                                IF scope[i] = selected THEN ~ bits[i] ELSE bits[i]]
    BY <1>2, <1>4
  <1> QED BY <1>3, <1>5

\* fire_involutive: firing the same gates twice returns the bits.
LEMMA FireInvolutive ==
  ASSUME NEW gates \in Signals, NEW bits \in Signals, Len(gates) = Len(bits)
  PROVE  Fire(gates, Fire(gates, bits)) = bits
  <1> DEFINE once == Fire(gates, bits)
  <1>1. /\ once \in Signals /\ Len(once) = Len(gates)
        /\ once = [i \in 1 .. Len(gates) |-> GateFire(gates[i], bits[i])]
    BY FireLength
  <1>2. Fire(gates, once) = [i \in 1 .. Len(gates) |-> GateFire(gates[i], once[i])]
    BY <1>1, FireLength
  <1>3. ASSUME NEW i \in 1 .. Len(gates) PROVE GateFire(gates[i], once[i]) = bits[i]
    <2>1. gates[i] \in BOOLEAN /\ bits[i] \in BOOLEAN
      BY DEF Signals
    <2>2. once[i] = GateFire(gates[i], bits[i])
      BY <1>1
    <2> QED BY <2>1, <2>2 DEF GateFire
  <1>4. Fire(gates, once) = [i \in 1 .. Len(gates) |-> bits[i]]
    BY <1>2, <1>3
  <1>5. bits = [i \in 1 .. Len(gates) |-> bits[i]]
    BY DEF Signals
  <1> QED BY <1>4, <1>5

\* route_reads_transformed and route_reads_retained: sharing loses no reading.
LEMMA RouteReads ==
  ASSUME NEW left, NEW right
  PROVE  /\ ReadBank(Route(left, right), "transformed") = left
         /\ ReadBank(Route(left, right), "retained") = right
  BY DEF ReadBank, Route, Shared, Separate

\* normal_route: a routed bank is in normal form.
LEMMA RouteNormal ==
  ASSUME NEW left, NEW right
  PROVE  NormalizeBank(Route(left, right)) = Route(left, right)
  BY RouteReads DEF NormalizeBank

\* normalized_reads: normalising a bank changes neither reading.
LEMMA NormalizedReads ==
  ASSUME NEW bank, NEW inlet \in Inlets
  PROVE  ReadBank(NormalizeBank(bank), inlet) = ReadBank(bank, inlet)
  BY RouteReads DEF NormalizeBank, Inlets
-----------------------------------------------------------------------------
\* Keep counts up: the function it is read off exists, and is the one it names.
Keeps(kept, s, set) ==
  /\ kept[0] = << >>
  /\ \A n \in 1 .. Len(s) :
       kept[n] = IF s[n] \in set THEN Append(kept[n - 1], s[n]) ELSE kept[n - 1]

LEMMA KeepUnfolds ==
  ASSUME NEW V, NEW s \in Seq(V), NEW set
  PROVE  \E kept \in [0 .. Len(s) -> Seq(V)] :
           Keeps(kept, s, set) /\ Keep(s, set) = kept[Len(s)]
  <1> DEFINE Body(f) == [n \in 0 .. Len(s) |->
                           IF n = 0 THEN << >>
                           ELSE IF s[n] \in set THEN Append(f[n - 1], s[n]) ELSE f[n - 1]]
             step == [n \in Nat |-> [list \in Seq(V) |->
                        IF n \in 1 .. Len(s) /\ s[n] \in set THEN Append(list, s[n]) ELSE list]]
  <1>1. Len(s) \in Nat /\ << >> \in Seq(V)
    OBVIOUS
  <1>2. ASSUME NEW n \in Nat, NEW list \in Seq(V)
        PROVE  (IF n \in 1 .. Len(s) /\ s[n] \in set THEN Append(list, s[n]) ELSE list) \in Seq(V)
    OBVIOUS
  <1>3. step \in [Nat -> [Seq(V) -> Seq(V)]]
    BY <1>2
  <1>4. \A n \in 1 .. Len(s), list \in Seq(V) :
          step[n][list] = IF s[n] \in set THEN Append(list, s[n]) ELSE list
    BY <1>1
  <1>5. \A f : /\ DOMAIN Body(f) = 0 .. Len(s)
               /\ Body(f)[0] = << >>
               /\ \A n \in 1 .. Len(s) :
                    Body(f)[n] = IF s[n] \in set THEN Append(f[n - 1], s[n]) ELSE f[n - 1]
    BY <1>1
  <1>6. Keep(s, set) = (CHOOSE f : f = Body(f))[Len(s)]
    BY DEF Keep
  <1> HIDE DEF step, Body
  <1>7. PICK f \in [0 .. Len(s) -> Seq(V)] : Builds(f, Len(s), << >>, step)
    BY <1>1, <1>3, RecursionUpTo
  <1>8. f[0] = << >>
    BY <1>7 DEF Builds
  <1>9. ASSUME NEW n \in 1 .. Len(s)
        PROVE  f[n] = IF s[n] \in set THEN Append(f[n - 1], s[n]) ELSE f[n - 1]
    <2>1. f[n] = step[n][f[n - 1]]
      BY <1>7 DEF Builds
    <2>2. f[n - 1] \in Seq(V)
      BY <1>1, <1>7
    <2> QED BY <1>4, <2>1, <2>2
  <1>10. f = Body(f)
    <2>1. \A n \in 0 .. Len(s) : n = 0 \/ n \in 1 .. Len(s)
      BY <1>1
    <2>2. \A n \in 0 .. Len(s) : Body(f)[n] = f[n]
      BY <1>5, <1>8, <1>9, <2>1
    <2>3. Body(f) = [n \in DOMAIN Body(f) |-> Body(f)[n]]
      BY DEF Body
    <2>4. Body(f) = [n \in 0 .. Len(s) |-> f[n]]
      BY <1>5, <2>2, <2>3
    <2> QED BY <2>4
  <1>11. PICK kept : kept = Body(kept) /\ Keep(s, set) = kept[Len(s)]
    BY <1>6, <1>10
  <1>12. /\ kept[0] = << >>
         /\ \A n \in 1 .. Len(s) :
              kept[n] = IF s[n] \in set THEN Append(kept[n - 1], s[n]) ELSE kept[n - 1]
    BY <1>5, <1>11
  <1>13. kept = f
    <2> DEFINE S == {n \in Nat : n <= Len(s) => kept[n] = f[n]}
    <2>1. 0 \in S
      BY <1>8, <1>12
    <2>2. ASSUME NEW n \in Nat, n \in S PROVE n + 1 \in S
      <3> SUFFICES ASSUME n + 1 <= Len(s) PROVE kept[n + 1] = f[n + 1]
        OBVIOUS
      <3>1. n + 1 \in 1 .. Len(s) /\ (n + 1) - 1 = n /\ kept[n] = f[n]
        BY <1>1, <2>2
      <3>2. kept[n + 1] = IF s[n + 1] \in set THEN Append(kept[n], s[n + 1]) ELSE kept[n]
        BY <1>12, <3>1
      <3>3. f[n + 1] = IF s[n + 1] \in set THEN Append(f[n], s[n + 1]) ELSE f[n]
        BY <1>9, <3>1
      <3> QED BY <3>1, <3>2, <3>3
    <2> HIDE DEF S
    <2>3. Nat \subseteq S
      BY <2>1, <2>2, BySet
    <2>4. \A n \in 0 .. Len(s) : kept[n] = f[n]
      BY <1>1, <2>3 DEF S
    <2>5. DOMAIN kept = 0 .. Len(s) /\ kept = [n \in DOMAIN kept |-> kept[n]]
      BY <1>5, <1>11 DEF Body
    <2> QED BY <2>4, <2>5
  <1> QED BY <1>7, <1>8, <1>9, <1>11, <1>13 DEF Keeps

\* What is kept is what the sequence and the set have in common.
LEMMA KeepMembers ==
  ASSUME NEW V, NEW s \in Seq(V), NEW set
  PROVE  Keep(s, set) \in Seq(V) /\ ToSet(Keep(s, set)) = ToSet(s) \cap set
  <1>1. PICK kept \in [0 .. Len(s) -> Seq(V)] :
          Keeps(kept, s, set) /\ Keep(s, set) = kept[Len(s)]
    BY KeepUnfolds
  <1> DEFINE S == {n \in Nat : n <= Len(s) =>
                      ToSet(kept[n]) = {s[i] : i \in 1 .. n} \cap set}
  <1>2. Len(s) \in Nat
    OBVIOUS
  <1>3. 0 \in S
    BY <1>1 DEF ToSet, Keeps
  <1>4. ASSUME NEW n \in Nat, n \in S PROVE n + 1 \in S
    <2> SUFFICES ASSUME n + 1 <= Len(s)
                 PROVE  ToSet(kept[n + 1]) = {s[i] : i \in 1 .. n + 1} \cap set
      OBVIOUS
    <2>0. ToSet(kept[n]) = {s[i] : i \in 1 .. n} \cap set
      BY <1>2, <1>4
    <2> HIDE DEF S
    <2>1. /\ n + 1 \in 1 .. Len(s) /\ (n + 1) - 1 = n /\ kept[n] \in Seq(V)
          /\ s[n + 1] \in V
      BY <1>1, <1>2
    <2>2. kept[n + 1] = IF s[n + 1] \in set THEN Append(kept[n], s[n + 1]) ELSE kept[n]
      BY <1>1, <2>1 DEF Keeps
    <2>3. ToSet(Append(kept[n], s[n + 1])) = ToSet(kept[n]) \cup {s[n + 1]}
      BY <2>1, AppendMembers
    <2>4. {s[i] : i \in 1 .. n + 1} = {s[i] : i \in 1 .. n} \cup {s[n + 1]}
      BY <2>1
    <2> QED BY <2>0, <2>1, <2>2, <2>3, <2>4
  <1> HIDE DEF S
  <1>5. Nat \subseteq S
    BY <1>3, <1>4, BySet
  <1>6. ToSet(kept[Len(s)]) = {s[i] : i \in 1 .. Len(s)} \cap set
    <2>1. Len(s) \in S
      BY <1>2, <1>5
    <2> QED BY <2>1, <1>2 DEF S
  <1>7. ToSet(s) = {s[i] : i \in 1 .. Len(s)}
    BY DEF ToSet
  <1> QED BY <1>1, <1>2, <1>6, <1>7

\* Keeping among three, one by one.
LEMMA KeepOfThree ==
  ASSUME NEW a, NEW b, NEW c, NEW set
  PROVE  LET one == IF a \in set THEN <<a>> ELSE << >>
             two == IF b \in set THEN Append(one, b) ELSE one
         IN  Keep(<<a, b, c>>, set) = IF c \in set THEN Append(two, c) ELSE two
  <1> DEFINE V == {a, b, c}
             s == <<a, b, c>>
  <1>1. s \in Seq(V) /\ Len(s) = 3 /\ s[1] = a /\ s[2] = b /\ s[3] = c
    OBVIOUS
  <1> HIDE DEF s, V
  <1>2. PICK kept \in [0 .. Len(s) -> Seq(V)] :
          Keeps(kept, s, set) /\ Keep(s, set) = kept[Len(s)]
    BY <1>1, KeepUnfolds
  <1>3. kept[1] = IF a \in set THEN Append(<< >>, a) ELSE << >>
    <2>1. kept[1] = IF s[1] \in set THEN Append(kept[1 - 1], s[1]) ELSE kept[1 - 1]
      BY <1>1, <1>2 DEF Keeps
    <2>2. 1 - 1 = 0 /\ kept[0] = << >>
      BY <1>2 DEF Keeps
    <2> QED BY <1>1, <2>1, <2>2
  <1>4. kept[2] = IF b \in set THEN Append(kept[1], b) ELSE kept[1]
    BY <1>1, <1>2 DEF Keeps
  <1>5. kept[3] = IF c \in set THEN Append(kept[2], c) ELSE kept[2]
    BY <1>1, <1>2 DEF Keeps
  <1>6. Append(<< >>, a) = <<a>>
    OBVIOUS
  <1> QED BY <1>1, <1>2, <1>3, <1>4, <1>5, <1>6 DEF s
-----------------------------------------------------------------------------

\* The instructions a code is made of, and the packets it moves.
Instructions ==
  [op : {"swap"}, level : Nat] \cup
  [op : {"absorbFirst", "absorbSecond"}, level : Nat, gates : Signals]

Packets == [slot : Nat, bits : Signals]

Lift(packet) == Packet(packet.slot + 1, packet.bits)

LEMMA InstructionType ==
  ASSUME NEW instruction \in Instructions, NEW packet \in Packets
  PROVE  FireInstruction(instruction, packet) \in Packets
  <1>1. instruction.level \in Nat /\ packet.slot \in Nat /\ packet.bits \in Signals
    BY DEF Instructions, Packets
  <1>2. CASE packet.slot < instruction.level
    BY <1>2 DEF FireInstruction
  <1>3. CASE packet.slot >= instruction.level
    <2>1. \A next \in Nat, bits \in Signals : Packet(instruction.level + next, bits) \in Packets
      BY <1>1 DEF Packet, Packets
    <2>2. packet.slot - instruction.level \in Nat
      BY <1>1, <1>3
    <2>3. CASE instruction.op = "swap"
      BY <1>1, <1>3, <2>1, <2>2, <2>3 DEF FireInstruction
    <2>4. CASE instruction.op # "swap"
      <3>1. instruction.gates \in Signals /\ instruction.op \in {"absorbFirst", "absorbSecond"}
        BY <2>4 DEF Instructions
      <3>2. Fire(instruction.gates, packet.bits) \in Signals
        BY <1>1, <3>1, FireSignals
      <3> QED BY <1>1, <1>3, <2>1, <2>2, <3>1, <3>2 DEF FireInstruction
    <2> QED BY <2>3, <2>4
  <1> QED BY <1>1, <1>2, <1>3

Fires(fired, code, packet) ==
  /\ fired[0] = packet
  /\ \A n \in 1 .. Len(code) : fired[n] = FireInstruction(code[n], fired[n - 1])

\* A code fires its instructions one after the other, and in no other way.
LEMMA CircuitUnfolds ==
  ASSUME NEW code \in Seq(Instructions), NEW packet \in Packets
  PROVE  /\ \E fired \in [0 .. Len(code) -> Packets] : Fires(fired, code, packet)
         /\ \A fired : Fires(fired, code, packet) =>
              FireCircuit(code, packet) = fired[Len(code)]
  <1> DEFINE N == Len(code)
             Body(f) == [n \in 0 .. N |->
                           IF n = 0 THEN packet ELSE FireInstruction(code[n], f[n - 1])]
             step == [n \in Nat |-> [q \in Packets |->
                        IF n \in 1 .. N THEN FireInstruction(code[n], q) ELSE q]]
  <1>1. N \in Nat /\ \A n \in 1 .. N : code[n] \in Instructions
    OBVIOUS
  <1>2. step \in [Nat -> [Packets -> Packets]]
    BY <1>1, InstructionType
  <1>3. \A n \in 1 .. N : \A q \in Packets : step[n][q] = FireInstruction(code[n], q)
    BY <1>1
  <1>4. FireCircuit(code, packet) = (CHOOSE f : f = Body(f))[N]
    BY DEF FireCircuit
  <1>5. \A f : /\ DOMAIN Body(f) = 0 .. N /\ Body(f)[0] = packet
               /\ \A n \in 1 .. N : Body(f)[n] = FireInstruction(code[n], f[n - 1])
               /\ Body(f) = [n \in 0 .. N |-> Body(f)[n]]
    BY <1>1
  <1> HIDE DEF N, Body, step
  <1>6. PICK f \in [0 .. N -> Packets] : Builds(f, N, packet, step)
    BY <1>1, <1>2, RecursionUpTo
  <1>7. Fires(f, code, packet)
    <2>1. \A n \in 1 .. N : n - 1 \in 0 .. N
      BY <1>1
    <2> QED BY <1>3, <1>6, <2>1 DEF Fires, Builds, N
  <1>8. \A n \in 0 .. N : n = 0 \/ n \in 1 .. N
    BY <1>1
  <1>9. f = Body(f)
    <2>1. \A n \in 0 .. N : Body(f)[n] = f[n]
      BY <1>5, <1>7, <1>8 DEF Fires, N
    <2>2. f = [n \in 0 .. N |-> f[n]]
      BY <1>6
    <2> QED BY <1>5, <2>1, <2>2
  <1>10. PICK g : g = Body(g) /\ FireCircuit(code, packet) = g[N]
    BY <1>4, <1>9
  <1>11. Fires(g, code, packet)
    BY <1>5, <1>10 DEF Fires, N
  <1>12. ASSUME NEW h, Fires(h, code, packet) PROVE g[N] = h[N]
    <2> DEFINE S == {n \in Nat : n <= N => g[n] = h[n]}
    <2>1. 0 \in S
      BY <1>11, <1>12 DEF Fires
    <2>2. ASSUME NEW n \in Nat, n \in S PROVE n + 1 \in S
      <3> SUFFICES ASSUME n + 1 <= N PROVE g[n + 1] = h[n + 1]
        OBVIOUS
      <3>1. n + 1 \in 1 .. N /\ (n + 1) - 1 = n /\ g[n] = h[n]
        BY <1>1, <2>2
      <3> QED BY <1>11, <1>12, <3>1 DEF Fires, N
    <2> HIDE DEF S
    <2>3. Nat \subseteq S
      BY <2>1, <2>2, BySet
    <2>4. N \in S
      BY <1>1, <2>3
    <2> QED BY <1>1, <2>4 DEF S
  <1>13. \E fired \in [0 .. N -> Packets] : Fires(fired, code, packet)
    BY <1>6, <1>7
  <1> QED BY <1>10, <1>12, <1>13 DEF N

LEMMA CircuitType ==
  ASSUME NEW code \in Seq(Instructions), NEW packet \in Packets
  PROVE  FireCircuit(code, packet) \in Packets
  <1>1. PICK fired \in [0 .. Len(code) -> Packets] : Fires(fired, code, packet)
    BY CircuitUnfolds
  <1>2. Len(code) \in 0 .. Len(code)
    OBVIOUS
  <1> QED BY <1>1, <1>2, CircuitUnfolds

LEMMA CircuitEmpty ==
  ASSUME NEW packet \in Packets
  PROVE  Identity \in Seq(Instructions) /\ FireCircuit(Identity, packet) = packet
  <1>1. Identity \in Seq(Instructions) /\ Len(Identity) = 0
    BY DEF Identity
  <1>2. PICK fired \in [0 .. Len(Identity) -> Packets] : Fires(fired, Identity, packet)
    BY <1>1, CircuitUnfolds
  <1> QED BY <1>1, <1>2, CircuitUnfolds DEF Fires

LEMMA CircuitOne ==
  ASSUME NEW instruction \in Instructions, NEW packet \in Packets
  PROVE  /\ <<instruction>> \in Seq(Instructions)
         /\ FireCircuit(<<instruction>>, packet) = FireInstruction(instruction, packet)
  <1> DEFINE code == <<instruction>>
  <1>1. code \in Seq(Instructions) /\ Len(code) = 1 /\ code[1] = instruction
    OBVIOUS
  <1> HIDE DEF code
  <1>2. PICK fired \in [0 .. Len(code) -> Packets] : Fires(fired, code, packet)
    BY <1>1, CircuitUnfolds
  <1>3. fired[1] = FireInstruction(code[1], fired[1 - 1]) /\ fired[0] = packet
    BY <1>1, <1>2 DEF Fires
  <1>4. 1 - 1 = 0
    OBVIOUS
  <1>5. FireCircuit(code, packet) = FireInstruction(instruction, packet)
    BY <1>1, <1>2, <1>3, <1>4, CircuitUnfolds
  <1> QED BY <1>1, <1>5 DEF code

LEMMA CircuitCompose ==
  ASSUME NEW first \in Seq(Instructions), NEW second \in Seq(Instructions), NEW packet \in Packets
  PROVE  /\ Compose(first, second) \in Seq(Instructions)
         /\ FireCircuit(Compose(first, second), packet)
              = FireCircuit(second, FireCircuit(first, packet))
  <1> DEFINE both == Compose(first, second)
             M == Len(first)
             N == Len(second)
             middle == FireCircuit(first, packet)
  <1>1. /\ both \in Seq(Instructions) /\ Len(both) = M + N /\ M \in Nat /\ N \in Nat
        /\ \A n \in 1 .. M : both[n] = first[n]
        /\ \A n \in 1 .. N : both[M + n] = second[n]
    BY DEF Compose
  <1>2. middle \in Packets
    BY CircuitType
  <1>3. PICK f \in [0 .. M -> Packets] : Fires(f, first, packet) /\ middle = f[M]
    BY CircuitUnfolds
  <1>4. PICK g \in [0 .. N -> Packets] :
          Fires(g, second, middle) /\ FireCircuit(second, middle) = g[N]
    BY <1>2, CircuitUnfolds
  <1> HIDE DEF both, M, N, middle
  <1> DEFINE h == [n \in 0 .. M + N |-> IF n <= M THEN f[n] ELSE g[n - M]]
  <1>5. /\ \A n \in 0 .. M : h[n] = f[n]
        /\ \A n \in 0 .. N : h[M + n] = g[n]
    <2>1. \A n \in 0 .. M : h[n] = f[n]
      BY <1>1
    <2>2. ASSUME NEW n \in 0 .. N PROVE h[M + n] = g[n]
      <3>1. CASE n = 0
        <4>1. M + n = M /\ M \in 0 .. M
          BY <1>1, <3>1
        <4> QED BY <1>3, <1>4, <2>1, <3>1, <4>1 DEF Fires
      <3>2. CASE n \in 1 .. N
        <4>1. M + n \in 0 .. M + N /\ ~ (M + n <= M) /\ (M + n) - M = n
          BY <1>1, <3>2
        <4> QED BY <4>1
      <3> QED BY <1>1, <3>1, <3>2
    <2> QED BY <2>1, <2>2
  <1> HIDE DEF h
  <1>6. Fires(h, both, packet)
    <2>1. h[0] = packet
      BY <1>1, <1>3, <1>5 DEF Fires
    <2>2. ASSUME NEW n \in 1 .. M PROVE h[n] = FireInstruction(both[n], h[n - 1])
      <3>1. n \in 0 .. M /\ n - 1 \in 0 .. M
        BY <1>1
      <3> QED BY <1>1, <1>3, <1>5, <3>1 DEF Fires, M
    <2>3. ASSUME NEW k \in 1 .. N
          PROVE  h[M + k] = FireInstruction(both[M + k], h[(M + k) - 1])
      <3>1. k \in 0 .. N /\ k - 1 \in 0 .. N /\ (M + k) - 1 = M + (k - 1)
        BY <1>1
      <3>2. h[M + k] = g[k] /\ h[M + (k - 1)] = g[k - 1]
        BY <1>5, <3>1
      <3> QED BY <1>1, <1>4, <3>1, <3>2 DEF Fires, N
    <2>4. ASSUME NEW n \in 1 .. M + N PROVE n \in 1 .. M \/ \E k \in 1 .. N : n = M + k
      <3>1. CASE n <= M
        BY <1>1, <3>1
      <3>2. CASE n > M
        <4>1. n - M \in 1 .. N /\ n = M + (n - M)
          BY <1>1, <3>2
        <4> QED BY <4>1
      <3> QED BY <1>1, <3>1, <3>2
    <2>5. ASSUME NEW n \in 1 .. M + N PROVE h[n] = FireInstruction(both[n], h[n - 1])
      <3>1. CASE n \in 1 .. M
        BY <2>2, <3>1
      <3>2. CASE \E k \in 1 .. N : n = M + k
        BY <2>3, <3>2
      <3> QED BY <2>4, <3>1, <3>2
    <2> QED BY <1>1, <2>1, <2>5 DEF Fires
  <1>7. FireCircuit(both, packet) = h[Len(both)]
    BY <1>1, <1>6, CircuitUnfolds
  <1>8. h[M + N] = g[N]
    BY <1>1, <1>5
  <1> QED BY <1>1, <1>4, <1>7, <1>8 DEF both, middle

\* Prepending a context: its own packets stay, the others go as they did, one up.
LEMMA InstructionLifted ==
  ASSUME NEW instruction \in Instructions, NEW packet \in Packets
  PROVE  LET lifted == [instruction EXCEPT !.level = @ + 1] IN
         /\ lifted \in Instructions
         /\ packet.slot = 0 => FireInstruction(lifted, packet) = packet
         /\ FireInstruction(lifted, Lift(packet)) = Lift(FireInstruction(instruction, packet))
  <1> DEFINE lifted == [instruction EXCEPT !.level = @ + 1]
             level == instruction.level
             slot == packet.slot
             bits == packet.bits
  <1>1. level \in Nat /\ slot \in Nat
    BY DEF Instructions, Packets
  <1>2. /\ lifted \in Instructions /\ lifted.op = instruction.op /\ lifted.level = level + 1
        /\ instruction.op # "swap" => lifted.gates = instruction.gates
        /\ instruction.op \in {"swap", "absorbFirst", "absorbSecond"}
    BY <1>1 DEF Instructions
  <1>3. slot = 0 => FireInstruction(lifted, packet) = packet
    BY <1>1, <1>2 DEF FireInstruction
  <1>4. /\ Lift(packet) = Packet(slot + 1, bits) /\ Lift(packet).slot = slot + 1
        /\ Lift(packet).bits = bits
    BY DEF Lift, Packet
  <1>5. \A next, some : Packet(next, some).slot = next /\ Packet(next, some).bits = some
    BY DEF Packet
  <1>6. packet = Packet(slot, bits)
    BY DEF Packet, Packets
  <1> HIDE DEF lifted, level, slot, bits
  <1>7. FireInstruction(lifted, Lift(packet)) = Lift(FireInstruction(instruction, packet))
    <2>1. CASE slot < level
      BY <1>1, <1>2, <1>4, <2>1 DEF FireInstruction, level, slot
    <2>2. CASE slot >= level
      <3>1. /\ ~ (slot < level) /\ ~ (slot + 1 < level + 1)
            /\ (slot + 1) - (level + 1) = slot - level /\ slot - level \in Nat
        BY <1>1, <2>2
      <3>2. \A next \in Nat : (level + 1) + next = (level + next) + 1
        BY <1>1
      <3>3. \A next \in Nat : \A some :
              Packet((level + 1) + next, some) = Lift(Packet(level + next, some))
        BY <1>5, <3>2 DEF Lift
      <3> DEFINE k == slot - level
      <3>4. k \in Nat /\ (k >= 1 => k - 1 \in Nat) /\ (k < 2 => 1 - k \in Nat)
        BY <3>1
      <3>5. (slot + 1) - (level + 1) = k /\ k = slot - level
        BY <3>1
      <3> HIDE DEF k
      <3>6. CASE instruction.op = "swap"
        <4> DEFINE next == IF k < 2 THEN 1 - k ELSE k
        <4>1. FireInstruction(instruction, packet) = Packet(level + next, bits)
          BY <3>1, <3>5, <3>6 DEF FireInstruction, level, slot, bits
        <4>2. FireInstruction(lifted, Lift(packet)) = Packet((level + 1) + next, bits)
          BY <1>2, <1>4, <3>1, <3>5, <3>6 DEF FireInstruction
        <4>3. next \in Nat
          BY <3>4
        <4> QED BY <3>3, <4>1, <4>2, <4>3
      <3>7. CASE instruction.op = "absorbFirst"
        <4> DEFINE next == IF k = 0 THEN 0 ELSE k - 1
                   some == IF k = 0 THEN Fire(instruction.gates, bits) ELSE bits
        <4>1. FireInstruction(instruction, packet) = Packet(level + next, some)
          BY <3>1, <3>5, <3>7 DEF FireInstruction, level, slot, bits
        <4>2. FireInstruction(lifted, Lift(packet)) = Packet((level + 1) + next, some)
          BY <1>2, <1>4, <3>1, <3>5, <3>7 DEF FireInstruction
        <4>3. next \in Nat
          BY <3>4
        <4> QED BY <3>3, <4>1, <4>2, <4>3
      <3>8. CASE instruction.op = "absorbSecond"
        <4>1. CASE k = 0
          <5>1. FireInstruction(instruction, packet) = packet
            BY <3>1, <3>5, <3>8, <4>1 DEF FireInstruction, level, slot
          <5>2. FireInstruction(lifted, Lift(packet)) = Lift(packet)
            BY <1>2, <1>4, <3>1, <3>5, <3>8, <4>1 DEF FireInstruction
          <5> QED BY <5>1, <5>2
        <4>2. CASE k = 1
          <5>1. FireInstruction(instruction, packet) = Packet(level + 0, Fire(instruction.gates, bits))
            BY <3>1, <3>5, <3>8, <4>2 DEF FireInstruction, level, slot, bits
          <5>2. FireInstruction(lifted, Lift(packet))
                  = Packet((level + 1) + 0, Fire(instruction.gates, bits))
            BY <1>2, <1>4, <3>1, <3>5, <3>8, <4>2 DEF FireInstruction
          <5> QED BY <3>3, <5>1, <5>2
        <4>3. CASE k > 1
          <5>1. FireInstruction(instruction, packet) = Packet(level + (k - 1), bits)
            BY <3>1, <3>4, <3>5, <3>8, <4>3 DEF FireInstruction, level, slot, bits
          <5>2. FireInstruction(lifted, Lift(packet)) = Packet((level + 1) + (k - 1), bits)
            BY <1>2, <1>4, <3>1, <3>4, <3>5, <3>8, <4>3 DEF FireInstruction
          <5>3. k - 1 \in Nat
            BY <3>4, <4>3
          <5> QED BY <3>3, <5>1, <5>2, <5>3
        <4> QED BY <3>4, <4>1, <4>2, <4>3
      <3> QED BY <1>2, <3>6, <3>7, <3>8
    <2> QED BY <1>1, <2>1, <2>2
  <1> QED BY <1>2, <1>3, <1>7 DEF lifted, slot

LEMMA CircuitPrepend ==
  ASSUME NEW code \in Seq(Instructions), NEW packet \in Packets
  PROVE  /\ PrependCode(code) \in Seq(Instructions)
         /\ packet.slot = 0 => FireCircuit(PrependCode(code), packet) = packet
         /\ FireCircuit(PrependCode(code), Lift(packet)) = Lift(FireCircuit(code, packet))
  <1> DEFINE higher == PrependCode(code)
             N == Len(code)
  <1>1. /\ N \in Nat /\ DOMAIN code = 1 .. N
        /\ \A n \in 1 .. N : code[n] \in Instructions
    OBVIOUS
  <1>2. /\ DOMAIN higher = 1 .. N
        /\ \A n \in 1 .. N : higher[n] = [code[n] EXCEPT !.level = @ + 1]
    BY <1>1 DEF PrependCode
  <1>3. \A n \in 1 .. N : higher[n] \in Instructions
    BY <1>1, <1>2, InstructionLifted
  <1>4. higher \in Seq(Instructions) /\ Len(higher) = N
    <2>1. higher = [n \in 1 .. N |-> higher[n]]
      BY <1>1 DEF PrependCode
    <2> HIDE DEF higher
    <2>2. higher \in [1 .. N -> Instructions]
      BY <1>3, <2>1
    <2> QED BY <1>1, <2>2
  <1>5. Lift(packet) \in Packets
    BY DEF Lift, Packet, Packets
  <1> HIDE DEF higher
  <1>6. packet.slot = 0 => FireCircuit(higher, packet) = packet
    <2> SUFFICES ASSUME packet.slot = 0 PROVE FireCircuit(higher, packet) = packet
      OBVIOUS
    <2> DEFINE f == [n \in 0 .. N |-> packet]
    <2>1. \A n \in 1 .. N : n - 1 \in 0 .. N /\ n \in 0 .. N
      BY <1>1
    <2>2. Fires(f, higher, packet)
      BY <1>1, <1>2, <1>4, <2>1, InstructionLifted DEF Fires
    <2>3. f[Len(higher)] = packet
      BY <1>1, <1>4
    <2> HIDE DEF f
    <2> QED BY <1>4, <2>2, <2>3, CircuitUnfolds
  <1>7. FireCircuit(higher, Lift(packet)) = Lift(FireCircuit(code, packet))
    <2>1. PICK g \in [0 .. N -> Packets] : Fires(g, code, packet) /\ FireCircuit(code, packet) = g[N]
      BY CircuitUnfolds
    <2> DEFINE f == [n \in 0 .. N |-> Lift(g[n])]
    <2>2. \A n \in 1 .. N : n - 1 \in 0 .. N /\ n \in 0 .. N
      BY <1>1
    <2>3. \A n \in 0 .. N : f[n] = Lift(g[n])
      OBVIOUS
    <2> HIDE DEF f
    <2>4. ASSUME NEW n \in 1 .. N PROVE f[n] = FireInstruction(higher[n], f[n - 1])
      <3>1. g[n] = FireInstruction(code[n], g[n - 1]) /\ g[n - 1] \in Packets
        BY <2>1, <2>2 DEF Fires
      <3>2. FireInstruction(higher[n], Lift(g[n - 1])) = Lift(FireInstruction(code[n], g[n - 1]))
        BY <1>1, <1>2, <3>1, InstructionLifted
      <3> QED BY <2>2, <2>3, <3>1, <3>2
    <2>5. Fires(f, higher, Lift(packet))
      <3>1. 0 \in 0 .. N
        BY <1>1
      <3> QED BY <1>4, <2>1, <2>3, <2>4, <3>1 DEF Fires
    <2>6. FireCircuit(higher, Lift(packet)) = f[N]
      BY <1>4, <1>5, <2>5, CircuitUnfolds
    <2>7. N \in 0 .. N
      BY <1>1
    <2> QED BY <2>1, <2>3, <2>6, <2>7
  <1> QED BY <1>4, <1>6, <1>7 DEF higher
-----------------------------------------------------------------------------
LEMMA SequenceMember ==
  ASSUME NEW V, NEW s \in Seq(V), NEW i \in DOMAIN s
  PROVE  s[i] \in V /\ i \in 1 .. Len(s) /\ Len(s) \in Nat
  OBVIOUS

\* Flipping twice changes nothing.
LEMMA FlipAtTwice ==
  ASSUME NEW V, NEW assignment \in [V -> BOOLEAN], NEW selected
  PROVE  FlipAt(selected, FlipAt(selected, assignment)) = assignment
  <1> DEFINE once == FlipAt(selected, assignment)
             twice == FlipAt(selected, once)
  <1>1. /\ once \in [V -> BOOLEAN]
        /\ \A v \in V : once[v] = IF v = selected THEN ~ assignment[v] ELSE assignment[v]
    BY FlipAtType DEF FlipAt
  <1> HIDE DEF once
  <1>2. /\ twice \in [V -> BOOLEAN]
        /\ \A v \in V : twice[v] = IF v = selected THEN ~ once[v] ELSE once[v]
    BY <1>1, FlipAtType DEF FlipAt
  <1> HIDE DEF twice
  <1>3. ASSUME NEW v \in V PROVE twice[v] = assignment[v]
    <2>1. assignment[v] \in BOOLEAN
      OBVIOUS
    <2> QED BY <1>1, <1>2, <2>1
  <1> QED BY <1>2, <1>3 DEF twice, once

\* What the flip relation is for: the flip of a continuation of the source continues
\* the target, and is accepted by it when the source was accepted.
LEMMA FlipCarries ==
  ASSUME NEW V, NEW assignment \in [V -> BOOLEAN], NEW selected,
         NEW source \in Contexts(V), NEW target \in Contexts(V),
         FlipRelated(selected, source, target), Holds(assignment, source)
  PROVE  LET flipped == FlipAt(selected, assignment)
         IN  /\ Holds(flipped, target)
             /\ Accepts(assignment, source) => Accepts(flipped, target)
  <1> DEFINE flipped == FlipAt(selected, assignment)
  <1>1. /\ source.formula \in Seq(Seq([var : V, positive : BOOLEAN]))
        /\ source.decisions \in Seq([var : V, value : BOOLEAN])
    BY DEF Contexts
  <1>2. /\ target.formula = FlipFormula(selected, source.formula)
        /\ target.decisions = FlipDecisions(selected, source.decisions)
    BY DEF FlipRelated
  <1>3. \A v \in V : /\ assignment[v] \in BOOLEAN
                     /\ flipped[v] = IF v = selected THEN ~ assignment[v] ELSE assignment[v]
    BY DEF FlipAt
  <1> HIDE DEF flipped
  <1>4. Holds(flipped, target)
    <2> SUFFICES ASSUME NEW i \in DOMAIN target.decisions
                 PROVE  flipped[target.decisions[i].var] = target.decisions[i].value
      BY DEF Holds, Realizes
    <2> DEFINE decision == source.decisions[i]
    <2>1. /\ i \in DOMAIN source.decisions
          /\ target.decisions[i] = IF decision.var = selected
                                     THEN Decision(decision.var, ~ decision.value) ELSE decision
      BY <1>1, <1>2 DEF FlipDecisions
    <2>2. decision.var \in V /\ decision.value \in BOOLEAN
      <3>1. decision \in [var : V, value : BOOLEAN]
        BY <1>1, <2>1, SequenceMember
      <3> HIDE DEF decision
      <3> QED BY <3>1
    <2>3. assignment[decision.var] = decision.value
      BY <2>1 DEF Holds, Realizes
    <2> HIDE DEF decision
    <2>4. CASE decision.var = selected
      BY <1>3, <2>1, <2>2, <2>3, <2>4 DEF Decision
    <2>5. CASE decision.var # selected
      BY <1>3, <2>1, <2>2, <2>3, <2>5
    <2> QED BY <2>4, <2>5
  <1>5. ASSUME Satisfies(assignment, source.formula) PROVE Satisfies(flipped, target.formula)
    <2> SUFFICES ASSUME NEW i \in DOMAIN target.formula
                 PROVE  \E j \in DOMAIN target.formula[i] :
                          flipped[target.formula[i][j].var] = target.formula[i][j].positive
      BY DEF Satisfies
    <2> DEFINE clause == source.formula[i]
    <2>1. /\ i \in DOMAIN source.formula /\ clause \in Seq([var : V, positive : BOOLEAN])
          /\ DOMAIN target.formula[i] = DOMAIN clause
          /\ \A j \in DOMAIN clause : target.formula[i][j] = FlipLiteral(selected, clause[j])
      BY <1>1, <1>2 DEF FlipFormula
    <2>2. PICK j \in DOMAIN clause : assignment[clause[j].var] = clause[j].positive
      BY <1>5, <2>1 DEF Satisfies
    <2> HIDE DEF clause
    <2>3. clause[j].var \in V /\ clause[j].positive \in BOOLEAN
      <3>1. clause[j] \in [var : V, positive : BOOLEAN]
        BY <2>1, SequenceMember
      <3> QED BY <3>1
    <2>4. CASE clause[j].var = selected
      <3>1. target.formula[i][j] = Literal(clause[j].var, ~ clause[j].positive)
        BY <2>1, <2>4 DEF FlipLiteral
      <3>2. flipped[clause[j].var] = ~ clause[j].positive
        BY <1>3, <2>2, <2>3, <2>4
      <3> QED BY <2>1, <3>1, <3>2 DEF Literal
    <2>5. CASE clause[j].var # selected
      <3>1. target.formula[i][j] = clause[j]
        BY <2>1, <2>5 DEF FlipLiteral
      <3>2. flipped[clause[j].var] = clause[j].positive
        BY <1>3, <2>2, <2>3, <2>5
      <3> QED BY <2>1, <3>1, <3>2
    <2> QED BY <2>4, <2>5
  <1> QED BY <1>4, <1>5 DEF Accepts, flipped
-----------------------------------------------------------------------------
\* A packet that carried a continuation of a context has arrived: at a context `after'
\* holds, with the readings of that continuation or of its flip.
Delivers(scope, selected, assignment, context, output, after) ==
  \E j \in DOMAIN after, carried \in {assignment, FlipAt(selected, assignment)} :
    /\ output = Packet(j - 1, Sense(scope, carried))
    /\ Holds(carried, after[j])
    /\ Accepts(assignment, context) => Accepts(carried, after[j])

\* What a circuit owes two frontiers: to land every packet of the width of the scope,
\* and to deliver those that carry a continuation.
Lands(width, code, from, to) ==
  \A packet \in Packets :
    packet.slot < from /\ Len(packet.bits) = width =>
      LET output == FireCircuit(code, packet)
      IN  output.slot < to /\ Len(output.bits) = width

Moves(V, scope, selected, before, code, after) ==
  \A i \in DOMAIN before, assignment \in [V -> BOOLEAN] :
    Holds(assignment, before[i]) =>
      Delivers(scope, selected, assignment, before[i],
               FireCircuit(code, Packet(i - 1, Sense(scope, assignment))), after)

Routes(V, scope, selected, before, code, after) ==
  /\ code \in Seq(Instructions)
  /\ Lands(Len(scope), code, Len(before), Len(after))
  /\ Moves(V, scope, selected, before, code, after)

LEMMA ReadingPacket ==
  ASSUME NEW V, NEW scope \in Seq(V), NEW assignment \in [V -> BOOLEAN], NEW slot \in Nat
  PROVE  /\ Packet(slot, Sense(scope, assignment)) \in Packets
         /\ Packet(slot, Sense(scope, assignment)).slot = slot
         /\ Packet(slot, Sense(scope, assignment)).bits = Sense(scope, assignment)
  <1>1. Sense(scope, assignment) \in Signals
    BY SenseType
  <1> QED BY <1>1 DEF Packet, Packets

LEMMA RoutesIdentity ==
  ASSUME NEW V, NEW scope \in Seq(V), NEW selected, NEW before \in Seq(Contexts(V))
  PROVE  Routes(V, scope, selected, before, Identity, before)
  <1>1. Lands(Len(scope), Identity, Len(before), Len(before))
    BY CircuitEmpty DEF Lands
  <1>2. ASSUME NEW i \in DOMAIN before, NEW assignment \in [V -> BOOLEAN],
               Holds(assignment, before[i])
        PROVE  Delivers(scope, selected, assignment, before[i],
                        FireCircuit(Identity, Packet(i - 1, Sense(scope, assignment))), before)
    <2>1. i - 1 \in Nat
      OBVIOUS
    <2>2. FireCircuit(Identity, Packet(i - 1, Sense(scope, assignment)))
            = Packet(i - 1, Sense(scope, assignment))
      BY <2>1, ReadingPacket, CircuitEmpty
    <2> QED BY <1>2, <2>2 DEF Delivers
  <1>3. Identity \in Seq(Instructions)
    BY DEF Identity
  <1> QED BY <1>1, <1>2, <1>3 DEF Routes, Moves

LEMMA RoutesCompose ==
  ASSUME NEW V, NEW scope \in Seq(V), NEW selected, NEW before \in Seq(Contexts(V)),
         NEW middle \in Seq(Contexts(V)), NEW after \in Seq(Contexts(V)), NEW first, NEW second,
         Routes(V, scope, selected, before, first, middle),
         Routes(V, scope, selected, middle, second, after)
  PROVE  Routes(V, scope, selected, before, Compose(first, second), after)
  <1>1. first \in Seq(Instructions) /\ second \in Seq(Instructions)
    BY DEF Routes
  <1>2. Lands(Len(scope), Compose(first, second), Len(before), Len(after))
    <2> SUFFICES ASSUME NEW packet \in Packets, packet.slot < Len(before),
                        Len(packet.bits) = Len(scope)
                 PROVE  LET output == FireCircuit(Compose(first, second), packet)
                        IN  output.slot < Len(after) /\ Len(output.bits) = Len(scope)
      BY DEF Lands
    <2>1. FireCircuit(first, packet) \in Packets
      BY <1>1, CircuitType
    <2>2. /\ FireCircuit(first, packet).slot < Len(middle)
          /\ Len(FireCircuit(first, packet).bits) = Len(scope)
      BY DEF Routes, Lands
    <2>3. FireCircuit(Compose(first, second), packet)
            = FireCircuit(second, FireCircuit(first, packet))
      BY <1>1, CircuitCompose
    <2> QED BY <2>1, <2>2, <2>3 DEF Routes, Lands
  <1>3. ASSUME NEW i \in DOMAIN before, NEW assignment \in [V -> BOOLEAN],
               Holds(assignment, before[i])
        PROVE  Delivers(scope, selected, assignment, before[i],
                        FireCircuit(Compose(first, second), Packet(i - 1, Sense(scope, assignment))),
                        after)
    <2> DEFINE packet == Packet(i - 1, Sense(scope, assignment))
    <2>1. packet \in Packets
      <3>1. i - 1 \in Nat
        OBVIOUS
      <3> QED BY <3>1, ReadingPacket
    <2>2. FireCircuit(Compose(first, second), packet)
            = FireCircuit(second, FireCircuit(first, packet))
      BY <1>1, <2>1, CircuitCompose
    <2>3. Delivers(scope, selected, assignment, before[i], FireCircuit(first, packet), middle)
      BY <1>3 DEF Routes, Moves
    <2> HIDE DEF packet
    <2>4. PICK j \in DOMAIN middle, halfway \in {assignment, FlipAt(selected, assignment)} :
            /\ FireCircuit(first, packet) = Packet(j - 1, Sense(scope, halfway))
            /\ Holds(halfway, middle[j])
            /\ Accepts(assignment, before[i]) => Accepts(halfway, middle[j])
      BY <2>3 DEF Delivers
    <2>5. halfway \in [V -> BOOLEAN]
      BY FlipAtType
    <2>6. Delivers(scope, selected, halfway, middle[j],
                   FireCircuit(second, Packet(j - 1, Sense(scope, halfway))), after)
      BY <2>4, <2>5 DEF Routes, Moves
    <2>7. PICK k \in DOMAIN after, carried \in {halfway, FlipAt(selected, halfway)} :
            /\ FireCircuit(second, Packet(j - 1, Sense(scope, halfway)))
                 = Packet(k - 1, Sense(scope, carried))
            /\ Holds(carried, after[k])
            /\ Accepts(halfway, middle[j]) => Accepts(carried, after[k])
      BY <2>6 DEF Delivers
    <2>8. carried \in {assignment, FlipAt(selected, assignment)}
      BY FlipAtTwice
    <2>9. FireCircuit(Compose(first, second), packet) = Packet(k - 1, Sense(scope, carried))
      BY <2>2, <2>4, <2>7
    <2>10. Accepts(assignment, before[i]) => Accepts(carried, after[k])
      BY <2>4, <2>7
    <2>11. Delivers(scope, selected, assignment, before[i],
                    FireCircuit(Compose(first, second), packet), after)
      BY <2>7, <2>8, <2>9, <2>10 DEF Delivers
    <2> QED BY <2>11 DEF packet
  <1>4. Compose(first, second) \in Seq(Instructions)
    BY <1>1 DEF Compose
  <1> QED BY <1>2, <1>3, <1>4 DEF Routes, Moves

LEMMA RoutesPrepend ==
  ASSUME NEW V, NEW scope \in Seq(V), NEW selected, NEW before \in Seq(Contexts(V)),
         NEW after \in Seq(Contexts(V)), NEW context \in Contexts(V), NEW code,
         Routes(V, scope, selected, before, code, after)
  PROVE  Routes(V, scope, selected, <<context>> \o before, PrependCode(code), <<context>> \o after)
  <1> DEFINE one == <<context>> \o before
             two == <<context>> \o after
             higher == PrependCode(code)
  <1>1. code \in Seq(Instructions)
    BY DEF Routes
  <1>2. /\ one \in Seq(Contexts(V)) /\ Len(one) = Len(before) + 1 /\ one[1] = context
        /\ \A i \in 2 .. Len(before) + 1 : one[i] = before[i - 1]
        /\ two \in Seq(Contexts(V)) /\ Len(two) = Len(after) + 1 /\ two[1] = context
        /\ \A i \in 1 .. Len(after) : two[i + 1] = after[i]
        /\ Len(before) \in Nat /\ Len(after) \in Nat
    OBVIOUS
  <1>3. \A packet \in Packets :
          /\ higher \in Seq(Instructions)
          /\ packet.slot = 0 => FireCircuit(higher, packet) = packet
          /\ FireCircuit(higher, Lift(packet)) = Lift(FireCircuit(code, packet))
    BY <1>1, CircuitPrepend
  <1>4. higher \in Seq(Instructions)
    <2>1. Packet(0, << >>) \in Packets
      BY DEF Packet, Packets, Signals
    <2> QED BY <1>3, <2>1
  <1> HIDE DEF one, two, higher
  <1>5. Lands(Len(scope), higher, Len(one), Len(two))
    <2> SUFFICES ASSUME NEW packet \in Packets, packet.slot < Len(one),
                        Len(packet.bits) = Len(scope)
                 PROVE  LET output == FireCircuit(higher, packet)
                        IN  output.slot < Len(two) /\ Len(output.bits) = Len(scope)
      BY DEF Lands
    <2>1. packet.slot \in Nat
      BY DEF Packets
    <2>2. CASE packet.slot = 0
      BY <1>2, <1>3, <2>2
    <2>3. CASE packet.slot > 0
      <3> DEFINE below == Packet(packet.slot - 1, packet.bits)
                 output == FireCircuit(code, below)
      <3>1. /\ below \in Packets /\ below.slot = packet.slot - 1 /\ below.bits = packet.bits
            /\ Lift(below) = packet
        <4>1. packet.slot - 1 \in Nat /\ (packet.slot - 1) + 1 = packet.slot
          BY <2>1, <2>3
        <4>2. packet = Packet(packet.slot, packet.bits) /\ packet.bits \in Signals
          BY DEF Packet, Packets
        <4> QED BY <4>1, <4>2 DEF Lift, Packet, Packets
      <3> HIDE DEF below
      <3>2. output \in Packets
        BY <1>1, <3>1, CircuitType
      <3>3. output.slot < Len(after) /\ Len(output.bits) = Len(scope)
        BY <1>2, <2>1, <2>3, <3>1 DEF Routes, Lands
      <3>4. FireCircuit(higher, packet) = Lift(output)
        BY <1>3, <3>1
      <3> HIDE DEF output
      <3>5. output.slot \in Nat /\ Lift(output).slot = output.slot + 1 /\ Lift(output).bits = output.bits
        BY <3>2 DEF Lift, Packet, Packets
      <3> QED BY <1>2, <3>3, <3>4, <3>5
    <2> QED BY <2>1, <2>2, <2>3
  <1>6. ASSUME NEW i \in DOMAIN one, NEW assignment \in [V -> BOOLEAN],
               Holds(assignment, one[i])
        PROVE  Delivers(scope, selected, assignment, one[i],
                        FireCircuit(higher, Packet(i - 1, Sense(scope, assignment))), two)
    <2>1. i \in 1 .. Len(before) + 1 /\ i \in Nat
      BY <1>2
    <2>2. CASE i = 1
      <3>1. FireCircuit(higher, Packet(i - 1, Sense(scope, assignment)))
              = Packet(i - 1, Sense(scope, assignment))
        <4>1. i - 1 = 0 /\ i - 1 \in Nat
          BY <2>2
        <4> QED BY <1>3, <4>1, ReadingPacket
      <3>2. 1 \in DOMAIN two /\ two[1] = one[1]
        BY <1>2
      <3> QED BY <1>6, <2>2, <3>1, <3>2 DEF Delivers
    <2>3. CASE i > 1
      <3> DEFINE k == i - 1
                 below == Packet(k - 1, Sense(scope, assignment))
      <3>1. k \in DOMAIN before /\ k \in Nat /\ k - 1 \in Nat /\ one[i] = before[k] /\ (k - 1) + 1 = i - 1
        <4>1. i \in 2 .. Len(before) + 1 /\ i - 1 \in 1 .. Len(before) /\ i - 1 \in Nat
              /\ (i - 1) - 1 \in Nat /\ ((i - 1) - 1) + 1 = i - 1
          BY <1>2, <2>1, <2>3
        <4>2. DOMAIN before = 1 .. Len(before)
          OBVIOUS
        <4> QED BY <1>2, <4>1, <4>2
      <3> HIDE DEF k
      <3>2. below \in Packets /\ Lift(below) = Packet(i - 1, Sense(scope, assignment))
        <4>1. below \in Packets /\ below.slot = k - 1 /\ below.bits = Sense(scope, assignment)
          BY <3>1, ReadingPacket
        <4> HIDE DEF below
        <4> QED BY <3>1, <4>1 DEF Lift
      <3>3. Delivers(scope, selected, assignment, before[k], FireCircuit(code, below), after)
        BY <1>6, <3>1 DEF Routes, Moves
      <3> HIDE DEF below
      <3>4. PICK j \in DOMAIN after, carried \in {assignment, FlipAt(selected, assignment)} :
              /\ FireCircuit(code, below) = Packet(j - 1, Sense(scope, carried))
              /\ Holds(carried, after[j])
              /\ Accepts(assignment, before[k]) => Accepts(carried, after[j])
        BY <3>3 DEF Delivers
      <3>5. j \in 1 .. Len(after) /\ j \in Nat /\ (j - 1) + 1 = (j + 1) - 1 /\ j + 1 \in DOMAIN two
        BY <1>2
      <3>6. Lift(Packet(j - 1, Sense(scope, carried))) = Packet((j + 1) - 1, Sense(scope, carried))
        BY <3>5 DEF Lift, Packet
      <3>7. FireCircuit(higher, Packet(i - 1, Sense(scope, assignment)))
              = Packet((j + 1) - 1, Sense(scope, carried))
        BY <1>3, <3>2, <3>4, <3>6
      <3>8. two[j + 1] = after[j]
        BY <1>2, <3>5
      <3> QED BY <3>1, <3>4, <3>5, <3>7, <3>8 DEF Delivers
    <2> QED BY <2>1, <2>2, <2>3
  <1>7. Routes(V, scope, selected, one, higher, two)
    BY <1>4, <1>5, <1>6 DEF Routes, Moves
  <1> QED BY <1>7 DEF one, two, higher

\* Circuits of one instruction, of level 0.
LEMMA RoutesOne ==
  ASSUME NEW V, NEW scope \in Seq(V), NEW selected, NEW before \in Seq(Contexts(V)),
         NEW after \in Seq(Contexts(V)), NEW instruction \in Instructions,
         \A packet \in Packets :
           packet.slot < Len(before) /\ Len(packet.bits) = Len(scope) =>
             LET output == FireInstruction(instruction, packet)
             IN  output.slot < Len(after) /\ Len(output.bits) = Len(scope),
         \A i \in DOMAIN before, assignment \in [V -> BOOLEAN] :
           Holds(assignment, before[i]) =>
             Delivers(scope, selected, assignment, before[i],
                      FireInstruction(instruction, Packet(i - 1, Sense(scope, assignment))), after)
  PROVE  Routes(V, scope, selected, before, <<instruction>>, after)
  <1>1. <<instruction>> \in Seq(Instructions)
    OBVIOUS
  <1>2. Lands(Len(scope), <<instruction>>, Len(before), Len(after))
    BY CircuitOne DEF Lands
  <1>3. ASSUME NEW i \in DOMAIN before, NEW assignment \in [V -> BOOLEAN],
               Holds(assignment, before[i])
        PROVE  Delivers(scope, selected, assignment, before[i],
                        FireCircuit(<<instruction>>, Packet(i - 1, Sense(scope, assignment))), after)
    <2>1. i - 1 \in Nat
      OBVIOUS
    <2>2. FireCircuit(<<instruction>>, Packet(i - 1, Sense(scope, assignment)))
            = FireInstruction(instruction, Packet(i - 1, Sense(scope, assignment)))
      BY <2>1, ReadingPacket, CircuitOne
    <2> QED BY <1>3, <2>2
  <1> QED BY <1>1, <1>2, <1>3 DEF Routes, Moves

LEMMA FiresAtLevelZero ==
  ASSUME NEW packet \in Packets, NEW wiring \in Signals
  PROVE  LET slot == packet.slot
             bits == packet.bits
             swap == [op |-> "swap", level |-> 0]
             first == [op |-> "absorbFirst", level |-> 0, gates |-> wiring]
             second == [op |-> "absorbSecond", level |-> 0, gates |-> wiring]
         IN  /\ FireInstruction(swap, packet) = Packet(IF slot < 2 THEN 1 - slot ELSE slot, bits)
             /\ FireInstruction(first, packet)
                  = IF slot = 0 THEN Packet(0, Fire(wiring, bits)) ELSE Packet(slot - 1, bits)
             /\ FireInstruction(second, packet)
                  = IF slot = 0 THEN packet
                    ELSE IF slot = 1 THEN Packet(0, Fire(wiring, bits)) ELSE Packet(slot - 1, bits)
  <1> DEFINE slot == packet.slot
             bits == packet.bits
             swap == [op |-> "swap", level |-> 0]
             first == [op |-> "absorbFirst", level |-> 0, gates |-> wiring]
             second == [op |-> "absorbSecond", level |-> 0, gates |-> wiring]
  <1>1. /\ slot \in Nat /\ ~ (slot < 0) /\ slot - 0 = slot /\ 0 + 0 = 0
        /\ slot < 2 => 0 + (1 - slot) = 1 - slot
        /\ 0 + slot = slot /\ 0 + (slot - 1) = slot - 1
        /\ slot = 0 \/ slot = 1 \/ slot > 1
        /\ slot > 1 => slot # 0 /\ slot # 1
    BY DEF Packets
  <1>3. FireInstruction(swap, packet) = Packet(IF slot < 2 THEN 1 - slot ELSE slot, bits)
    BY <1>1 DEF FireInstruction
  <1>4. FireInstruction(first, packet)
          = IF slot = 0 THEN Packet(0, Fire(wiring, bits)) ELSE Packet(slot - 1, bits)
    BY <1>1 DEF FireInstruction
  <1>5. FireInstruction(second, packet)
          = IF slot = 0 THEN packet
            ELSE IF slot = 1 THEN Packet(0, Fire(wiring, bits)) ELSE Packet(slot - 1, bits)
    <2>1. CASE slot = 0
      BY <1>1, <2>1 DEF FireInstruction
    <2>2. CASE slot = 1
      BY <1>1, <2>2 DEF FireInstruction
    <2>3. CASE slot > 1
      BY <1>1, <2>3 DEF FireInstruction
    <2> QED BY <1>1, <2>1, <2>2, <2>3
  <1> QED BY <1>3, <1>4, <1>5

\* Two contexts that stay apart change places.
LEMMA RoutesSwap ==
  ASSUME NEW V, NEW scope \in Seq(V), NEW selected, NEW before \in Seq(Contexts(V)),
         NEW after \in Seq(Contexts(V)), Len(before) = Len(after), Len(before) >= 2,
         after[1] = before[2], after[2] = before[1],
         \A i \in 3 .. Len(before) : after[i] = before[i]
  PROVE  Routes(V, scope, selected, before, Swap, after)
  <1> DEFINE swap == [op |-> "swap", level |-> 0]
             Place(i) == IF i < 3 THEN 3 - i ELSE i
  <1>1. << >> \in Signals /\ Len(before) \in Nat /\ DOMAIN before = 1 .. Len(before)
        /\ DOMAIN after = 1 .. Len(before)
    BY DEF Signals
  <1>2. /\ swap \in Instructions
        /\ \A packet \in Packets :
             FireInstruction(swap, packet)
               = Packet(IF packet.slot < 2 THEN 1 - packet.slot ELSE packet.slot, packet.bits)
    <2>1. swap \in Instructions
      BY DEF Instructions
    <2> QED BY <1>1, <2>1, FiresAtLevelZero
  <1> HIDE DEF swap
  <1>3. ASSUME NEW packet \in Packets, packet.slot < Len(before), Len(packet.bits) = Len(scope)
        PROVE  LET output == FireInstruction(swap, packet)
               IN  output.slot < Len(after) /\ Len(output.bits) = Len(scope)
    <2>1. packet.slot \in Nat
      BY DEF Packets
    <2> QED BY <1>1, <1>2, <1>3, <2>1 DEF Packet
  <1>4. ASSUME NEW i \in DOMAIN before, NEW assignment \in [V -> BOOLEAN],
               Holds(assignment, before[i])
        PROVE  Delivers(scope, selected, assignment, before[i],
                        FireInstruction(swap, Packet(i - 1, Sense(scope, assignment))), after)
    <2>1. /\ i \in Nat /\ i - 1 \in Nat /\ Place(i) \in DOMAIN after
          /\ (IF i - 1 < 2 THEN 1 - (i - 1) ELSE i - 1) = Place(i) - 1
      BY <1>1
    <2>2. after[Place(i)] = before[i]
      <3>1. i = 1 \/ i = 2 \/ i \in 3 .. Len(before)
        BY <1>1
      <3>2. Place(1) = 2 /\ Place(2) = 1 /\ \A k \in 3 .. Len(before) : Place(k) = k
        BY <1>1
      <3> QED BY <3>1, <3>2
    <2>3. FireInstruction(swap, Packet(i - 1, Sense(scope, assignment)))
            = Packet(Place(i) - 1, Sense(scope, assignment))
      <3>1. i - 1 \in Nat
        BY <2>1
      <3> DEFINE packet == Packet(i - 1, Sense(scope, assignment))
      <3>2. packet \in Packets /\ packet.slot = i - 1 /\ packet.bits = Sense(scope, assignment)
        BY <3>1, ReadingPacket
      <3> HIDE DEF packet, Place
      <3>3. FireInstruction(swap, packet) = Packet(Place(i) - 1, Sense(scope, assignment))
        BY <1>2, <2>1, <3>2
      <3> QED BY <3>3 DEF packet
    <2> HIDE DEF Place
    <2> QED BY <1>4, <2>1, <2>2, <2>3 DEF Delivers
  <1>5. Routes(V, scope, selected, before, <<swap>>, after)
    BY <1>2, <1>3, <1>4, RoutesOne
  <1> QED BY <1>5 DEF Swap, swap

\* The first of two related contexts goes, its packets flip into the second.
LEMMA RoutesAbsorbFirst ==
  ASSUME NEW V, NEW scope \in Seq(V), NEW selected, NEW before \in Seq(Contexts(V)),
         NEW after \in Seq(Contexts(V)), Len(before) = Len(after) + 1, Len(after) >= 1,
         \A i \in 1 .. Len(after) : after[i] = before[i + 1],
         FlipRelated(selected, before[1], before[2])
  PROVE  Routes(V, scope, selected, before, AbsorbFirst(Configure(scope, selected)), after)
  <1> DEFINE wiring == Configure(scope, selected)
             first == [op |-> "absorbFirst", level |-> 0, gates |-> wiring]
  <1>1. /\ wiring \in Signals /\ Len(wiring) = Len(scope) /\ Len(after) \in Nat
        /\ DOMAIN before = 1 .. Len(after) + 1 /\ DOMAIN after = 1 .. Len(after)
    BY ConfigureType
  <1>2. /\ first \in Instructions
        /\ \A packet \in Packets :
             FireInstruction(first, packet)
               = IF packet.slot = 0 THEN Packet(0, Fire(wiring, packet.bits))
                 ELSE Packet(packet.slot - 1, packet.bits)
    <2>1. first \in Instructions
      BY <1>1 DEF Instructions
    <2> HIDE DEF wiring
    <2> QED BY <1>1, <2>1, FiresAtLevelZero
  <1>3. \A assignment \in [V -> BOOLEAN] :
          Fire(wiring, Sense(scope, assignment)) = Sense(scope, FlipAt(selected, assignment))
    BY ConfigureExact
  <1> HIDE DEF wiring, first
  <1>4. ASSUME NEW packet \in Packets, packet.slot < Len(before), Len(packet.bits) = Len(scope)
        PROVE  LET output == FireInstruction(first, packet)
               IN  output.slot < Len(after) /\ Len(output.bits) = Len(scope)
    <2>1. packet.slot \in Nat /\ packet.bits \in Signals
      BY DEF Packets
    <2>2. Len(Fire(wiring, packet.bits)) = Len(scope)
      BY <1>1, <1>4, <2>1, FireLength
    <2> QED BY <1>1, <1>2, <1>4, <2>1, <2>2 DEF Packet
  <1>5. ASSUME NEW i \in DOMAIN before, NEW assignment \in [V -> BOOLEAN],
               Holds(assignment, before[i])
        PROVE  Delivers(scope, selected, assignment, before[i],
                        FireInstruction(first, Packet(i - 1, Sense(scope, assignment))), after)
    <2>1. i \in Nat /\ i - 1 \in Nat /\ i \in 1 .. Len(after) + 1
      BY <1>1
    <2> DEFINE packet == Packet(i - 1, Sense(scope, assignment))
    <2>2. packet \in Packets /\ packet.slot = i - 1 /\ packet.bits = Sense(scope, assignment)
      <3>1. i - 1 \in Nat
        BY <2>1
      <3> QED BY <3>1, ReadingPacket
    <2> HIDE DEF packet
    <2>3. CASE i = 1
      <3>1. FireInstruction(first, packet) = Packet(0, Sense(scope, FlipAt(selected, assignment)))
        BY <1>2, <1>3, <2>2, <2>3
      <3>2. /\ 1 \in DOMAIN after /\ 1 - 1 = 0 /\ after[1] = before[2]
            /\ before[1] \in Contexts(V) /\ before[2] \in Contexts(V)
        BY <1>1
      <3>3. /\ Holds(FlipAt(selected, assignment), after[1])
            /\ Accepts(assignment, before[i]) => Accepts(FlipAt(selected, assignment), after[1])
        BY <1>5, <2>3, <3>2, FlipCarries
      <3>4. FireInstruction(first, packet) = Packet(1 - 1, Sense(scope, FlipAt(selected, assignment)))
        BY <3>1, <3>2
      <3> QED BY <3>2, <3>3, <3>4 DEF Delivers, packet
    <2>4. CASE i > 1
      <3>1. /\ i - 1 \in DOMAIN after /\ i - 1 # 0 /\ (i - 1) + 1 = i
            /\ i - 1 \in 1 .. Len(after)
        BY <1>1, <2>1, <2>4
      <3>2. FireInstruction(first, packet) = Packet((i - 1) - 1, Sense(scope, assignment))
        BY <1>2, <2>2, <3>1
      <3>3. after[i - 1] = before[i]
        BY <3>1
      <3> QED BY <1>5, <3>1, <3>2, <3>3 DEF Delivers, packet
    <2> QED BY <2>1, <2>3, <2>4
  <1>6. Routes(V, scope, selected, before, <<first>>, after)
    BY <1>2, <1>4, <1>5, RoutesOne
  <1> QED BY <1>6 DEF AbsorbFirst, first, wiring

\* The second of two related contexts goes, its packets flip into the first.
LEMMA RoutesAbsorbSecond ==
  ASSUME NEW V, NEW scope \in Seq(V), NEW selected, NEW before \in Seq(Contexts(V)),
         NEW after \in Seq(Contexts(V)), Len(before) = Len(after) + 1, Len(after) >= 1,
         after[1] = before[1], \A i \in 2 .. Len(after) : after[i] = before[i + 1],
         FlipRelated(selected, before[2], before[1])
  PROVE  Routes(V, scope, selected, before, AbsorbSecond(Configure(scope, selected)), after)
  <1> DEFINE wiring == Configure(scope, selected)
             second == [op |-> "absorbSecond", level |-> 0, gates |-> wiring]
  <1>1. /\ wiring \in Signals /\ Len(wiring) = Len(scope) /\ Len(after) \in Nat
        /\ DOMAIN before = 1 .. Len(after) + 1 /\ DOMAIN after = 1 .. Len(after)
    BY ConfigureType
  <1>2. /\ second \in Instructions
        /\ \A packet \in Packets :
             FireInstruction(second, packet)
               = IF packet.slot = 0 THEN packet
                 ELSE IF packet.slot = 1 THEN Packet(0, Fire(wiring, packet.bits))
                      ELSE Packet(packet.slot - 1, packet.bits)
    <2>1. second \in Instructions
      BY <1>1 DEF Instructions
    <2> HIDE DEF wiring
    <2> QED BY <1>1, <2>1, FiresAtLevelZero
  <1>3. \A assignment \in [V -> BOOLEAN] :
          Fire(wiring, Sense(scope, assignment)) = Sense(scope, FlipAt(selected, assignment))
    BY ConfigureExact
  <1> HIDE DEF wiring, second
  <1>4. ASSUME NEW packet \in Packets, packet.slot < Len(before), Len(packet.bits) = Len(scope)
        PROVE  LET output == FireInstruction(second, packet)
               IN  output.slot < Len(after) /\ Len(output.bits) = Len(scope)
    <2>1. packet.slot \in Nat /\ packet.bits \in Signals
      BY DEF Packets
    <2>2. Len(Fire(wiring, packet.bits)) = Len(scope)
      BY <1>1, <1>4, <2>1, FireLength
    <2> QED BY <1>1, <1>2, <1>4, <2>1, <2>2 DEF Packet
  <1>5. ASSUME NEW i \in DOMAIN before, NEW assignment \in [V -> BOOLEAN],
               Holds(assignment, before[i])
        PROVE  Delivers(scope, selected, assignment, before[i],
                        FireInstruction(second, Packet(i - 1, Sense(scope, assignment))), after)
    <2>1. i \in Nat /\ i - 1 \in Nat /\ i \in 1 .. Len(after) + 1
      BY <1>1
    <2> DEFINE packet == Packet(i - 1, Sense(scope, assignment))
    <2>2. packet \in Packets /\ packet.slot = i - 1 /\ packet.bits = Sense(scope, assignment)
      <3>1. i - 1 \in Nat
        BY <2>1
      <3>2. /\ Packet(i - 1, Sense(scope, assignment)) \in Packets
            /\ Packet(i - 1, Sense(scope, assignment)).slot = i - 1
            /\ Packet(i - 1, Sense(scope, assignment)).bits = Sense(scope, assignment)
        BY <3>1, ReadingPacket
      <3> QED BY <3>2
    <2>3. CASE i = 1
      <3>1. FireInstruction(second, packet) = Packet(1 - 1, Sense(scope, assignment))
        BY <1>2, <2>2, <2>3
      <3>2. 1 \in DOMAIN after /\ after[1] = before[i]
        BY <1>1, <2>3
      <3> QED BY <1>5, <3>1, <3>2 DEF Delivers
    <2> HIDE DEF packet
    <2>4. CASE i = 2
      <3>1. FireInstruction(second, packet) = Packet(0, Sense(scope, FlipAt(selected, assignment)))
        BY <1>2, <1>3, <2>2, <2>4
      <3>2. /\ 1 \in DOMAIN after /\ 1 - 1 = 0 /\ after[1] = before[1]
            /\ before[1] \in Contexts(V) /\ before[2] \in Contexts(V)
        BY <1>1
      <3>3. /\ Holds(FlipAt(selected, assignment), after[1])
            /\ Accepts(assignment, before[i]) => Accepts(FlipAt(selected, assignment), after[1])
        BY <1>5, <2>4, <3>2, FlipCarries
      <3>4. FireInstruction(second, packet) = Packet(1 - 1, Sense(scope, FlipAt(selected, assignment)))
        BY <3>1, <3>2
      <3> QED BY <3>2, <3>3, <3>4 DEF Delivers, packet
    <2>5. CASE i > 2
      <3>1. /\ i - 1 \in DOMAIN after /\ i - 1 # 0 /\ i - 1 # 1 /\ (i - 1) + 1 = i
            /\ i - 1 \in 2 .. Len(after)
        BY <1>1, <2>1, <2>5
      <3>2. FireInstruction(second, packet) = Packet((i - 1) - 1, Sense(scope, assignment))
        BY <1>2, <2>2, <3>1
      <3>3. after[i - 1] = before[i]
        BY <3>1
      <3> QED BY <1>5, <3>1, <3>2, <3>3 DEF Delivers, packet
    <2>6. i = 1 \/ i = 2 \/ i > 2
      BY <2>1
    <2> QED BY <2>3, <2>4, <2>5, <2>6
  <1>6. Routes(V, scope, selected, before, <<second>>, after)
    BY <1>2, <1>4, <1>5, RoutesOne
  <1> QED BY <1>6 DEF AbsorbSecond, second, wiring
-----------------------------------------------------------------------------
\* The ends of a sequence, each one member longer than the one before it.
LEMMA EndingType ==
  ASSUME NEW C, NEW s \in Seq(C), NEW n \in 0 .. Len(s)
  PROVE  /\ Ending(s, n) \in Seq(C) /\ Len(Ending(s, n)) = n
         /\ \A i \in 1 .. n : Ending(s, n)[i] = s[(Len(s) - n) + i]
  <1>1. Len(s) \in Nat /\ n \in Nat
    OBVIOUS
  <1>2. (Len(s) - n) + 1 \in Nat /\ Len(s) - ((Len(s) - n) + 1) + 1 = n
    BY <1>1
  <1>3. \A i \in 1 .. n : ((Len(s) - n) + 1) + i - 1 = (Len(s) - n) + i
                          /\ (Len(s) - n) + i \in 1 .. Len(s)
    BY <1>1
  <1>4. Ending(s, n) = [i \in 1 .. n |-> s[(Len(s) - n) + i]]
    BY <1>2, <1>3 DEF Ending
  <1>5. \A i \in 1 .. n : s[(Len(s) - n) + i] \in C
    BY <1>3
  <1> QED BY <1>1, <1>4, <1>5

LEMMA EndingSteps ==
  ASSUME NEW C, NEW s \in Seq(C)
  PROVE  /\ Ending(s, 0) = << >> /\ Ending(s, Len(s)) = s
         /\ \A n \in 1 .. Len(s) :
              Ending(s, n) = <<s[Len(s) - n + 1]>> \o Ending(s, n - 1)
  <1>1. Len(s) \in Nat /\ 0 \in 0 .. Len(s) /\ Len(s) \in 0 .. Len(s)
    OBVIOUS
  <1>2. Ending(s, 0) \in Seq(C) /\ Len(Ending(s, 0)) = 0
    BY <1>1, EndingType
  <1>3. Ending(s, Len(s)) = s
    <2>1. Ending(s, Len(s)) \in Seq(C) /\ Len(Ending(s, Len(s))) = Len(s)
          /\ \A i \in 1 .. Len(s) : Ending(s, Len(s))[i] = s[(Len(s) - Len(s)) + i]
      BY <1>1, EndingType
    <2>2. \A i \in 1 .. Len(s) : (Len(s) - Len(s)) + i = i
      BY <1>1
    <2> QED BY <2>1, <2>2, SameSequence
  <1>4. ASSUME NEW n \in 1 .. Len(s)
        PROVE  Ending(s, n) = <<s[Len(s) - n + 1]>> \o Ending(s, n - 1)
    <2> DEFINE long == Ending(s, n)
               short == Ending(s, n - 1)
               head == s[Len(s) - n + 1]
               joined == <<head>> \o short
    <2>1. n \in 0 .. Len(s) /\ n - 1 \in 0 .. Len(s) /\ n \in Nat /\ Len(s) - n + 1 \in 1 .. Len(s)
      BY <1>1
    <2>2. long \in Seq(C) /\ Len(long) = n /\ \A i \in 1 .. n : long[i] = s[(Len(s) - n) + i]
      BY <2>1, EndingType
    <2>3. short \in Seq(C) /\ Len(short) = n - 1
          /\ \A i \in 1 .. n - 1 : short[i] = s[(Len(s) - (n - 1)) + i]
      BY <2>1, EndingType
    <2>4. head \in C
      BY <2>1
    <2> HIDE DEF long, short, head
    <2>5. joined \in Seq(C) /\ Len(joined) = n /\ joined[1] = head
          /\ \A i \in 2 .. n : joined[i] = short[i - 1]
      BY <2>1, <2>3, <2>4
    <2>6. \A i \in 2 .. n : i - 1 \in 1 .. n - 1 /\ (Len(s) - (n - 1)) + (i - 1) = (Len(s) - n) + i
      BY <1>1, <2>1
    <2>7. \A i \in 1 .. n : joined[i] = long[i]
      <3>1. long[1] = head /\ \A i \in 1 .. n : i = 1 \/ i \in 2 .. n
        BY <2>1, <2>2 DEF head
      <3>2. ASSUME NEW i \in 2 .. n PROVE joined[i] = long[i]
        <4>1. joined[i] = short[i - 1] /\ i - 1 \in 1 .. n - 1 /\ i \in 1 .. n
          BY <2>1, <2>5, <2>6
        <4>2. short[i - 1] = s[(Len(s) - (n - 1)) + (i - 1)]
          BY <2>3, <4>1
        <4>3. long[i] = s[(Len(s) - n) + i]
          BY <2>2, <4>1
        <4> QED BY <2>6, <4>1, <4>2, <4>3
      <3> QED BY <2>5, <3>1, <3>2
    <2> HIDE DEF joined
    <2>8. joined = long
      BY <2>2, <2>5, <2>7, SameSequence
    <2> QED BY <2>8 DEF joined, long, short, head
  <1> QED BY <1>2, <1>3, <1>4

\* Routings found by recursion: what is kept, and the code that leads to it.
Reductions(V) == [retained : Seq(Contexts(V)), code : Seq(Instructions)]

Inserted(selected, wiring, state, rest, n, deeper) ==
  LET current == rest[Len(rest) - n + 1]
      forward == FlipRelated(selected, state, current)
      backward == FlipRelated(selected, current, state)
  IN  CASE forward ->
             [retained |-> Ending(rest, n), code |-> AbsorbFirst(wiring)]
        [] ~forward /\ backward ->
             [retained |-> deeper.retained, code |-> Compose(AbsorbSecond(wiring), deeper.code)]
        [] ~forward /\ ~backward ->
             [retained |-> <<current>> \o deeper.retained,
              code |-> Compose(Swap, PrependCode(deeper.code))]

Inserts(from, selected, wiring, state, rest) ==
  /\ from[0] = [retained |-> <<state>>, code |-> Identity]
  /\ \A n \in 1 .. Len(rest) : from[n] = Inserted(selected, wiring, state, rest, n, from[n - 1])

LEMMA InsertedType ==
  ASSUME NEW V, NEW selected, NEW wiring \in Signals, NEW state \in Contexts(V),
         NEW rest \in Seq(Contexts(V)), NEW n \in 1 .. Len(rest), NEW deeper \in Reductions(V)
  PROVE  Inserted(selected, wiring, state, rest, n, deeper) \in Reductions(V)
  <1> DEFINE current == rest[Len(rest) - n + 1]
             forward == FlipRelated(selected, state, current)
             backward == FlipRelated(selected, current, state)
  <1>1. deeper.retained \in Seq(Contexts(V)) /\ deeper.code \in Seq(Instructions)
    BY DEF Reductions
  <1>2. current \in Contexts(V)
    <2>1. Len(rest) - n + 1 \in 1 .. Len(rest)
      OBVIOUS
    <2> QED BY <2>1
  <1>3. Ending(rest, n) \in Seq(Contexts(V))
    <2>1. n \in 0 .. Len(rest)
      OBVIOUS
    <2> QED BY <2>1, EndingType
  <1>4. /\ AbsorbFirst(wiring) \in Seq(Instructions) /\ AbsorbSecond(wiring) \in Seq(Instructions)
        /\ Swap \in Seq(Instructions)
    <2>1. [op |-> "swap", level |-> 0] \in Instructions
      BY DEF Instructions
    <2>2. [op |-> "absorbFirst", level |-> 0, gates |-> wiring] \in Instructions
      BY DEF Instructions
    <2>3. [op |-> "absorbSecond", level |-> 0, gates |-> wiring] \in Instructions
      BY DEF Instructions
    <2> QED BY <2>1, <2>2, <2>3 DEF Swap, AbsorbFirst, AbsorbSecond
  <1>5. PrependCode(deeper.code) \in Seq(Instructions)
    <2>1. Packet(0, << >>) \in Packets
      BY DEF Packet, Packets, Signals
    <2> QED BY <1>1, <2>1, CircuitPrepend
  <1>6. \A one, two \in Seq(Instructions) : Compose(one, two) \in Seq(Instructions)
    BY DEF Compose
  <1>7. <<current>> \o deeper.retained \in Seq(Contexts(V))
    BY <1>1, <1>2
  <1> HIDE DEF current
  <1>8. \A some \in Seq(Contexts(V)), code \in Seq(Instructions) :
          [retained |-> some, code |-> code] \in Reductions(V)
    BY DEF Reductions
  <1>9. CASE forward
    BY <1>3, <1>4, <1>8, <1>9 DEF Inserted, current
  <1>10. CASE ~ forward /\ backward
    <2>1. Inserted(selected, wiring, state, rest, n, deeper)
            = [retained |-> deeper.retained, code |-> Compose(AbsorbSecond(wiring), deeper.code)]
      BY <1>10 DEF Inserted, current
    <2> QED BY <1>1, <1>4, <1>6, <1>8, <2>1
  <1>11. CASE ~ forward /\ ~ backward
    <2>1. Inserted(selected, wiring, state, rest, n, deeper)
            = [retained |-> <<current>> \o deeper.retained,
               code |-> Compose(Swap, PrependCode(deeper.code))]
      BY <1>11 DEF Inserted, current
    <2> QED BY <1>4, <1>5, <1>6, <1>7, <1>8, <2>1
  <1> QED BY <1>9, <1>10, <1>11

LEMMA InsertUnfolds ==
  ASSUME NEW V, NEW selected, NEW wiring \in Signals, NEW state \in Contexts(V),
         NEW rest \in Seq(Contexts(V))
  PROVE  \E from :
           /\ \A n \in 0 .. Len(rest) : from[n] \in Reductions(V)
           /\ Inserts(from, selected, wiring, state, rest)
           /\ Insert(selected, wiring, state, rest) = from[Len(rest)]
  <1> DEFINE N == Len(rest)
             base == [retained |-> <<state>>, code |-> Identity]
             Body(f) == [n \in 0 .. N |->
                           IF n = 0 THEN base
                           ELSE Inserted(selected, wiring, state, rest, n, f[n - 1])]
             step == [n \in Nat |-> [q \in Reductions(V) |->
                        IF n \in 1 .. N THEN Inserted(selected, wiring, state, rest, n, q) ELSE q]]
  <1>1. N \in Nat /\ base \in Reductions(V)
    BY DEF Reductions, Identity
  <1>2. step \in [Nat -> [Reductions(V) -> Reductions(V)]]
    BY InsertedType
  <1>3. \A n \in 1 .. N : n \in Nat /\ n - 1 \in 0 .. N /\ n \in 0 .. N /\ n # 0
    BY <1>1
  <1>4. \A n \in 1 .. N : \A q \in Reductions(V) :
          step[n][q] = Inserted(selected, wiring, state, rest, n, q)
    BY <1>3
  <1>5. Insert(selected, wiring, state, rest) = (CHOOSE f : f = Body(f))[N]
    BY DEF Insert, Inserted
  <1>6. \A f : /\ Body(f)[0] = base
               /\ \A n \in 1 .. N : Body(f)[n] = Inserted(selected, wiring, state, rest, n, f[n - 1])
               /\ Body(f) = [n \in 0 .. N |-> Body(f)[n]]
    BY <1>1, <1>3
  <1>7. \A n \in 0 .. N : n = 0 \/ n \in 1 .. N
    BY <1>1
  <1> HIDE DEF N, base, Body, step
  <1>8. PICK f \in [0 .. N -> Reductions(V)] : Builds(f, N, base, step)
    BY <1>1, <1>2, RecursionUpTo
  <1>9. f = Body(f)
    <2>1. ASSUME NEW n \in 1 .. N PROVE f[n] = Body(f)[n]
      <3>1. f[n - 1] \in Reductions(V)
        BY <1>3, <1>8
      <3>2. f[n] = step[n][f[n - 1]]
        BY <1>8 DEF Builds
      <3> QED BY <1>4, <1>6, <3>1, <3>2
    <2>2. f[0] = Body(f)[0]
      BY <1>6, <1>8 DEF Builds
    <2>3. \A n \in 0 .. N : f[n] = Body(f)[n]
      BY <1>7, <2>1, <2>2
    <2>4. f = [n \in 0 .. N |-> f[n]]
      BY <1>8
    <2> QED BY <1>6, <2>3, <2>4
  <1>10. PICK g : g = Body(g) /\ Insert(selected, wiring, state, rest) = g[N]
    BY <1>5, <1>9
  <1>11. g[0] = base /\ \A n \in 1 .. N : g[n] = Inserted(selected, wiring, state, rest, n, g[n - 1])
    BY <1>6, <1>10
  <1>12. \A n \in 0 .. N : g[n] \in Reductions(V)
    <2> DEFINE S == {n \in Nat : n <= N => g[n] \in Reductions(V)}
    <2>1. 0 \in S
      BY <1>1, <1>11
    <2>2. ASSUME NEW n \in Nat, n \in S PROVE n + 1 \in S
      <3> SUFFICES ASSUME n + 1 <= N PROVE g[n + 1] \in Reductions(V)
        OBVIOUS
      <3>1. n + 1 \in 1 .. N /\ (n + 1) - 1 = n /\ g[n] \in Reductions(V)
        BY <1>1, <2>2
      <3>2. g[n + 1] = Inserted(selected, wiring, state, rest, n + 1, g[n])
        BY <1>11, <3>1
      <3> QED BY <3>1, <3>2, InsertedType DEF N
    <2> HIDE DEF S
    <2>3. Nat \subseteq S
      BY <2>1, <2>2, BySet
    <2> QED BY <1>1, <2>3 DEF S
  <1> QED BY <1>10, <1>11, <1>12 DEF Inserts, N, base

LEMMA EndingIrreducible ==
  ASSUME NEW C, NEW s \in Seq(C), NEW selected, Irreducible(selected, s), NEW n \in 0 .. Len(s)
  PROVE  /\ Irreducible(selected, Ending(s, n))
         /\ ToSet(Ending(s, n)) \subseteq ToSet(s)
         /\ n >= 1 => \A x \in ToSet(Ending(s, n - 1)) :
                        /\ ~ FlipRelated(selected, s[Len(s) - n + 1], x)
                        /\ ~ FlipRelated(selected, x, s[Len(s) - n + 1])
  <1>1. Len(s) \in Nat /\ n \in Nat /\ DOMAIN s = 1 .. Len(s)
    OBVIOUS
  <1>2. /\ Ending(s, n) \in Seq(C) /\ Len(Ending(s, n)) = n
        /\ \A i \in 1 .. n : Ending(s, n)[i] = s[(Len(s) - n) + i]
    BY EndingType
  <1>3. DOMAIN Ending(s, n) = 1 .. n
    BY <1>1, <1>2
  <1>4. \A i \in 1 .. n : (Len(s) - n) + i \in DOMAIN s
    BY <1>1
  <1>5. Irreducible(selected, Ending(s, n))
    <2>1. \A i, j \in 1 .. n : i # j => (Len(s) - n) + i # (Len(s) - n) + j
      BY <1>1
    <2> QED BY <1>2, <1>3, <1>4, <2>1 DEF Irreducible
  <1>6. ToSet(Ending(s, n)) \subseteq ToSet(s)
    BY <1>2, <1>3, <1>4 DEF ToSet
  <1>7. ASSUME n >= 1, NEW x \in ToSet(Ending(s, n - 1))
        PROVE  /\ ~ FlipRelated(selected, s[Len(s) - n + 1], x)
               /\ ~ FlipRelated(selected, x, s[Len(s) - n + 1])
    <2>1. n - 1 \in 0 .. Len(s) /\ n - 1 \in Nat
      BY <1>1, <1>7
    <2>2. /\ Ending(s, n - 1) \in Seq(C) /\ Len(Ending(s, n - 1)) = n - 1
          /\ \A i \in 1 .. n - 1 : Ending(s, n - 1)[i] = s[(Len(s) - (n - 1)) + i]
      BY <2>1, EndingType
    <2>3. DOMAIN Ending(s, n - 1) = 1 .. n - 1
      BY <2>1, <2>2
    <2>4. PICK i \in 1 .. n - 1 : x = s[(Len(s) - (n - 1)) + i]
      BY <1>7, <2>2, <2>3 DEF ToSet
    <2>5. /\ (Len(s) - (n - 1)) + i \in DOMAIN s /\ Len(s) - n + 1 \in DOMAIN s
          /\ (Len(s) - (n - 1)) + i # Len(s) - n + 1
      BY <1>1, <1>7
    <2> QED BY <2>4, <2>5 DEF Irreducible
  <1> QED BY <1>5, <1>6, <1>7

LEMMA PrependMembers ==
  ASSUME NEW C, NEW s \in Seq(C), NEW x \in C
  PROVE  ToSet(<<x>> \o s) = {x} \cup ToSet(s)
  <1> DEFINE one == <<x>> \o s
  <1>1. /\ DOMAIN one = 1 .. Len(s) + 1 /\ one[1] = x /\ Len(s) \in Nat
        /\ \A i \in 2 .. Len(s) + 1 : one[i] = s[i - 1]
        /\ DOMAIN s = 1 .. Len(s)
    BY Prepended
  <1> HIDE DEF one
  <1>2. ASSUME NEW y \in ToSet(one) PROVE y \in {x} \cup ToSet(s)
    <2>1. PICK i \in 1 .. Len(s) + 1 : y = one[i]
      BY <1>1, <1>2 DEF ToSet
    <2>2. i = 1 \/ (i \in 2 .. Len(s) + 1 /\ i - 1 \in 1 .. Len(s))
      BY <1>1
    <2> QED BY <1>1, <2>1, <2>2 DEF ToSet
  <1>3. x \in ToSet(one)
    <2>1. 1 \in DOMAIN one
      BY <1>1
    <2> QED BY <1>1, <2>1 DEF ToSet
  <1>4. ASSUME NEW y \in ToSet(s) PROVE y \in ToSet(one)
    <2>1. PICK i \in 1 .. Len(s) : y = s[i]
      BY <1>1, <1>4 DEF ToSet
    <2>2. i + 1 \in 2 .. Len(s) + 1 /\ (i + 1) - 1 = i /\ i + 1 \in DOMAIN one
      BY <1>1
    <2>3. one[i + 1] = y
      BY <1>1, <2>1, <2>2
    <2> QED BY <2>2, <2>3 DEF ToSet
  <1> QED BY <1>2, <1>3, <1>4 DEF one

\* A context unrelated to all of an irreducible frontier may be put before it.
LEMMA PrependIrreducible ==
  ASSUME NEW C, NEW s \in Seq(C), NEW selected, NEW context \in C, Irreducible(selected, s),
         \A x \in ToSet(s) : ~ FlipRelated(selected, context, x) /\ ~ FlipRelated(selected, x, context)
  PROVE  /\ Irreducible(selected, <<context>> \o s)
         /\ ToSet(<<context>> \o s) = {context} \cup ToSet(s)
  <1> DEFINE one == <<context>> \o s
  <1>1. /\ DOMAIN one = 1 .. Len(s) + 1 /\ one[1] = context /\ Len(s) \in Nat
        /\ \A i \in 2 .. Len(s) + 1 : one[i] = s[i - 1]
    BY Prepended
  <1>2. \A i \in DOMAIN one : i = 1 \/ (i \in 2 .. Len(s) + 1 /\ i - 1 \in DOMAIN s)
    BY <1>1
  <1>3. \A i \in 2 .. Len(s) + 1 : s[i - 1] \in ToSet(s)
    <2>1. \A i \in 2 .. Len(s) + 1 : i - 1 \in DOMAIN s
      BY <1>1
    <2> QED BY <2>1 DEF ToSet
  <1>4. \A i, j \in 2 .. Len(s) + 1 : i # j => i - 1 # j - 1
    BY <1>1
  <1> HIDE DEF one
  <1>5. ASSUME NEW i \in DOMAIN one, NEW j \in DOMAIN one, i # j
        PROVE  ~ FlipRelated(selected, one[i], one[j])
    <2>1. CASE i = 1
      BY <1>1, <1>2, <1>3, <1>5, <2>1
    <2>2. CASE j = 1
      BY <1>1, <1>2, <1>3, <1>5, <2>2
    <2>3. CASE i # 1 /\ j # 1
      <3>1. /\ i \in 2 .. Len(s) + 1 /\ j \in 2 .. Len(s) + 1
            /\ i - 1 \in DOMAIN s /\ j - 1 \in DOMAIN s
        BY <1>2, <2>3
      <3>2. i - 1 # j - 1
        BY <1>4, <1>5, <3>1
      <3> QED BY <1>1, <3>1, <3>2 DEF Irreducible
    <2> QED BY <2>1, <2>2, <2>3
  <1>6. Irreducible(selected, one)
    BY <1>5 DEF Irreducible
  <1>7. ToSet(one) = {context} \cup ToSet(s)
    BY PrependMembers DEF one
  <1> QED BY <1>6, <1>7 DEF one

\* insertAcceptedIntoIrreducible: the circuit routes the new context and the frontier
\* into what is retained, nothing new is retained, and it stays irreducible.
LEMMA InsertRoutes ==
  ASSUME NEW V, NEW scope \in Seq(V), NEW selected, NEW state \in Contexts(V),
         NEW rest \in Seq(Contexts(V)), Irreducible(selected, rest)
  PROVE  LET inserted == Insert(selected, Configure(scope, selected), state, rest)
         IN  /\ inserted \in Reductions(V)
             /\ Routes(V, scope, selected, <<state>> \o rest, inserted.code, inserted.retained)
             /\ Irreducible(selected, inserted.retained)
             /\ ToSet(inserted.retained) \subseteq {state} \cup ToSet(rest)
  <1> DEFINE wiring == Configure(scope, selected)
             N == Len(rest)
  <1>1. wiring \in Signals /\ N \in Nat
    BY ConfigureType
  <1>2. PICK from :
          /\ \A n \in 0 .. N : from[n] \in Reductions(V)
          /\ Inserts(from, selected, wiring, state, rest)
          /\ Insert(selected, wiring, state, rest) = from[N]
    <2> HIDE DEF wiring
    <2> QED BY <1>1, InsertUnfolds
  <1> DEFINE Good(n) ==
               /\ Routes(V, scope, selected, <<state>> \o Ending(rest, n), from[n].code,
                         from[n].retained)
               /\ Irreducible(selected, from[n].retained)
               /\ ToSet(from[n].retained) \subseteq {state} \cup ToSet(Ending(rest, n))
             S == {n \in Nat : n <= N => Good(n)}
  <1>3. \A n \in 0 .. N : /\ from[n].retained \in Seq(Contexts(V))
                          /\ from[n].code \in Seq(Instructions)
    BY <1>2 DEF Reductions
  <1>4. 0 \in S
    <2>1. from[0].retained = <<state>> /\ from[0].code = Identity /\ Ending(rest, 0) = << >>
      BY <1>2, EndingSteps DEF Inserts
    <2>2. <<state>> \o << >> = <<state>> /\ <<state>> \in Seq(Contexts(V))
      OBVIOUS
    <2>3. Routes(V, scope, selected, <<state>>, Identity, <<state>>)
      BY <2>2, RoutesIdentity
    <2>4. Irreducible(selected, <<state>>) /\ ToSet(<<state>>) = {state}
      BY DEF Irreducible, ToSet
    <2>5. Good(0)
      BY <2>1, <2>2, <2>3, <2>4
    <2> QED BY <2>5
  <1>5. ASSUME NEW k \in Nat, k \in S PROVE k + 1 \in S
    <2> SUFFICES ASSUME k + 1 <= N PROVE Good(k + 1)
      BY <1>5
    <2> DEFINE n == k + 1
               current == rest[N - n + 1]
               forward == FlipRelated(selected, state, current)
               backward == FlipRelated(selected, current, state)
               deeper == from[k]
               short == Ending(rest, k)
               long == Ending(rest, n)
    <2>1. /\ n \in 1 .. N /\ n \in 0 .. N /\ k \in 0 .. N /\ n - 1 = k /\ n >= 1
          /\ N - n + 1 \in 1 .. N
      BY <1>1
    <2>2. Good(k)
      BY <1>1, <1>5, <2>1
    <2>3. from[n] = Inserted(selected, wiring, state, rest, n, deeper)
      BY <1>2, <2>1 DEF Inserts
    <2>4. current \in Contexts(V)
      BY <2>1
    <2>5. long = <<current>> \o short /\ long \in Seq(Contexts(V)) /\ short \in Seq(Contexts(V))
      BY <2>1, EndingSteps, EndingType
    <2>6. /\ Irreducible(selected, long)
          /\ \A x \in ToSet(short) : /\ ~ FlipRelated(selected, current, x)
                                     /\ ~ FlipRelated(selected, x, current)
      BY <2>1, EndingIrreducible
    <2>7. ToSet(long) = {current} \cup ToSet(short)
      <3> HIDE DEF current, short, long
      <3> QED BY <2>4, <2>5, PrependMembers
    <2>8. deeper.retained \in Seq(Contexts(V)) /\ deeper.code \in Seq(Instructions)
      BY <1>3, <2>1
    <2>9. /\ Routes(V, scope, selected, <<state>> \o short, deeper.code, deeper.retained)
          /\ Irreducible(selected, deeper.retained)
          /\ ToSet(deeper.retained) \subseteq {state} \cup ToSet(short)
      BY <2>2
    <2> HIDE DEF current, deeper, short, long, n, wiring, N
    <2> DEFINE both == <<state>> \o long
               one == <<state>> \o short
    <2>10. /\ both \in Seq(Contexts(V)) /\ Len(both) = Len(short) + 2 /\ Len(short) \in Nat
           /\ both[1] = state /\ both[2] = current
           /\ \A i \in 1 .. Len(short) : both[i + 2] = short[i]
           /\ one \in Seq(Contexts(V)) /\ Len(one) = Len(short) + 1 /\ one[1] = state
           /\ \A i \in 1 .. Len(short) : one[i + 1] = short[i]
      BY <2>4, <2>5
    <2>11. ASSUME forward PROVE Good(n)
      <3>1. from[n].retained = long /\ from[n].code = AbsorbFirst(wiring)
        BY <2>3, <2>11 DEF Inserted, current, long, N
      <3>2. Routes(V, scope, selected, both, AbsorbFirst(wiring), long)
        <4>1. Len(both) = Len(long) + 1 /\ Len(long) >= 1 /\ \A i \in 1 .. Len(long) : long[i] = both[i + 1]
          BY <2>4, <2>5
        <4> QED BY <2>5, <2>10, <2>11, <4>1, RoutesAbsorbFirst DEF wiring
      <3> QED BY <2>6, <3>1, <3>2 DEF long
    <2>12. ASSUME ~ forward /\ backward PROVE Good(n)
      <3>1. /\ from[n].retained = deeper.retained
            /\ from[n].code = Compose(AbsorbSecond(wiring), deeper.code)
        BY <2>3, <2>12 DEF Inserted, current, N
      <3>2. Routes(V, scope, selected, both, AbsorbSecond(wiring), one)
        <4>1. Len(both) = Len(one) + 1 /\ Len(one) >= 1 /\ one[1] = both[1]
          BY <2>10
        <4>2. ASSUME NEW i \in 2 .. Len(one) PROVE one[i] = both[i + 1]
          <5>1. i - 1 \in 1 .. Len(short) /\ (i - 1) + 1 = i /\ (i - 1) + 2 = i + 1
            BY <2>10
          <5> QED BY <2>10, <5>1
        <4>3. FlipRelated(selected, both[2], both[1])
          BY <2>10, <2>12
        <4> HIDE DEF both, one
        <4> QED BY <2>10, <4>1, <4>2, <4>3, RoutesAbsorbSecond DEF wiring
      <3>3. Routes(V, scope, selected, both, Compose(AbsorbSecond(wiring), deeper.code), deeper.retained)
        <4> HIDE DEF both
        <4> QED BY <2>8, <2>9, <2>10, <3>2, RoutesCompose
      <3> QED BY <2>7, <2>9, <3>1, <3>3 DEF long
    <2>13. ASSUME ~ forward /\ ~ backward PROVE Good(n)
      <3> DEFINE swapped == <<current>> \o one
                 kept == <<current>> \o deeper.retained
      <3>1. from[n].retained = kept /\ from[n].code = Compose(Swap, PrependCode(deeper.code))
        BY <2>3, <2>13 DEF Inserted, current, N
      <3>2. /\ swapped \in Seq(Contexts(V)) /\ Len(swapped) = Len(short) + 2
            /\ swapped[1] = current /\ swapped[2] = state
            /\ \A i \in 1 .. Len(short) : swapped[i + 2] = short[i]
            /\ kept \in Seq(Contexts(V))
        BY <2>4, <2>5, <2>8
      <3>3. Routes(V, scope, selected, both, Swap, swapped)
        <4>1. Len(both) = Len(swapped) /\ Len(both) >= 2 /\ swapped[1] = both[2] /\ swapped[2] = both[1]
          BY <2>10, <3>2
        <4>2. ASSUME NEW i \in 3 .. Len(both) PROVE swapped[i] = both[i]
          <5>1. i - 2 \in 1 .. Len(short) /\ (i - 2) + 2 = i
            BY <2>10
          <5> QED BY <2>10, <3>2, <5>1
        <4> HIDE DEF both, swapped
        <4> QED BY <2>10, <3>2, <4>1, <4>2, RoutesSwap
      <3>4. Routes(V, scope, selected, swapped, PrependCode(deeper.code), kept)
        <4> HIDE DEF one
        <4> QED BY <2>4, <2>8, <2>9, <2>10, RoutesPrepend DEF one
      <3>5. Routes(V, scope, selected, both, Compose(Swap, PrependCode(deeper.code)), kept)
        <4> HIDE DEF both, swapped, kept
        <4> QED BY <2>10, <3>2, <3>3, <3>4, RoutesCompose
      <3>6. \A x \in ToSet(deeper.retained) :
              ~ FlipRelated(selected, current, x) /\ ~ FlipRelated(selected, x, current)
        BY <2>6, <2>9, <2>13
      <3>7. Irreducible(selected, kept) /\ ToSet(kept) = {current} \cup ToSet(deeper.retained)
        BY PrependMembers, <2>4, <2>8, <2>9, <3>6, PrependIrreducible
      <3> QED BY <2>7, <2>9, <3>1, <3>5, <3>7 DEF long
    <2> HIDE DEF Good
    <2>14. Good(n)
      BY <2>11, <2>12, <2>13
    <2> QED BY <2>14 DEF n
  <1>6. Good(N)
    <2> HIDE DEF S
    <2>1. Nat \subseteq S
      BY <1>4, <1>5, BySet
    <2> QED BY <1>1, <2>1 DEF S
  <1>7. N \in 0 .. N /\ Ending(rest, N) = rest
    BY <1>1, EndingSteps
  <1>8. from[N] \in Reductions(V)
    BY <1>2, <1>7
  <1> QED BY <1>2, <1>6, <1>7, <1>8
-----------------------------------------------------------------------------
LEMMA InsertType ==
  ASSUME NEW V, NEW selected, NEW wiring \in Signals, NEW state \in Contexts(V),
         NEW rest \in Seq(Contexts(V))
  PROVE  Insert(selected, wiring, state, rest) \in Reductions(V)
  <1>1. PICK from :
          /\ \A n \in 0 .. Len(rest) : from[n] \in Reductions(V)
          /\ Inserts(from, selected, wiring, state, rest)
          /\ Insert(selected, wiring, state, rest) = from[Len(rest)]
    BY InsertUnfolds
  <1>2. Len(rest) \in 0 .. Len(rest)
    OBVIOUS
  <1> QED BY <1>1, <1>2

Normalized(selected, wiring, source, n, below) ==
  LET inserted == Insert(selected, wiring, source[Len(source) - n + 1], below.retained)
  IN  [retained |-> inserted.retained,
       code |-> Compose(PrependCode(below.code), inserted.code)]

Normalizes(from, selected, wiring, source) ==
  /\ from[0] = [retained |-> << >>, code |-> Identity]
  /\ \A n \in 1 .. Len(source) : from[n] = Normalized(selected, wiring, source, n, from[n - 1])

LEMMA NormalizedType ==
  ASSUME NEW V, NEW selected, NEW wiring \in Signals, NEW source \in Seq(Contexts(V)),
         NEW n \in 1 .. Len(source), NEW below \in Reductions(V)
  PROVE  Normalized(selected, wiring, source, n, below) \in Reductions(V)
  <1> DEFINE current == source[Len(source) - n + 1]
             inserted == Insert(selected, wiring, current, below.retained)
             both == Compose(PrependCode(below.code), inserted.code)
  <1>1. below.retained \in Seq(Contexts(V)) /\ below.code \in Seq(Instructions)
    BY DEF Reductions
  <1>2. current \in Contexts(V)
    <2>1. Len(source) - n + 1 \in 1 .. Len(source)
      OBVIOUS
    <2> QED BY <2>1
  <1> HIDE DEF current
  <1>3. inserted \in Reductions(V)
    BY <1>1, <1>2, InsertType
  <1>4. PrependCode(below.code) \in Seq(Instructions)
    <2>1. Packet(0, << >>) \in Packets
      BY DEF Packet, Packets, Signals
    <2> QED BY <1>1, <2>1, CircuitPrepend
  <1> HIDE DEF inserted
  <1>5. inserted.retained \in Seq(Contexts(V)) /\ inserted.code \in Seq(Instructions)
    BY <1>3 DEF Reductions
  <1>6. both \in Seq(Instructions)
    BY <1>4, <1>5 DEF Compose
  <1>7. Normalized(selected, wiring, source, n, below)
          = [retained |-> inserted.retained, code |-> both]
    BY DEF Normalized, inserted, current
  <1> HIDE DEF both
  <1> QED BY <1>5, <1>6, <1>7 DEF Reductions

LEMMA NormalizeUnfolds ==
  ASSUME NEW V, NEW selected, NEW wiring \in Signals, NEW source \in Seq(Contexts(V))
  PROVE  \E from :
           /\ \A n \in 0 .. Len(source) : from[n] \in Reductions(V)
           /\ Normalizes(from, selected, wiring, source)
           /\ Normalize(selected, wiring, source) = from[Len(source)]
  <1> DEFINE N == Len(source)
             base == [retained |-> << >>, code |-> Identity]
             Body(f) == [n \in 0 .. N |->
                           IF n = 0 THEN base
                           ELSE Normalized(selected, wiring, source, n, f[n - 1])]
             step == [n \in Nat |-> [q \in Reductions(V) |->
                        IF n \in 1 .. N THEN Normalized(selected, wiring, source, n, q) ELSE q]]
  <1>1. N \in Nat /\ base \in Reductions(V)
    BY DEF Reductions, Identity
  <1>2. step \in [Nat -> [Reductions(V) -> Reductions(V)]]
    BY NormalizedType
  <1>3. \A n \in 1 .. N : n \in Nat /\ n - 1 \in 0 .. N /\ n \in 0 .. N /\ n # 0
    BY <1>1
  <1>4. \A n \in 1 .. N : \A q \in Reductions(V) :
          step[n][q] = Normalized(selected, wiring, source, n, q)
    BY <1>3
  <1>5. Normalize(selected, wiring, source) = (CHOOSE f : f = Body(f))[N]
    BY DEF Normalize, Normalized
  <1>6. \A f : /\ Body(f)[0] = base
               /\ \A n \in 1 .. N : Body(f)[n] = Normalized(selected, wiring, source, n, f[n - 1])
               /\ Body(f) = [n \in 0 .. N |-> Body(f)[n]]
    BY <1>1, <1>3
  <1>7. \A n \in 0 .. N : n = 0 \/ n \in 1 .. N
    BY <1>1
  <1> HIDE DEF N, base, Body, step
  <1>8. PICK f \in [0 .. N -> Reductions(V)] : Builds(f, N, base, step)
    BY <1>1, <1>2, RecursionUpTo
  <1>9. f = Body(f)
    <2>1. ASSUME NEW n \in 1 .. N PROVE f[n] = Body(f)[n]
      <3>1. f[n - 1] \in Reductions(V)
        BY <1>3, <1>8
      <3>2. f[n] = step[n][f[n - 1]]
        BY <1>8 DEF Builds
      <3> QED BY <1>4, <1>6, <3>1, <3>2
    <2>2. f[0] = Body(f)[0]
      BY <1>6, <1>8 DEF Builds
    <2>3. \A n \in 0 .. N : f[n] = Body(f)[n]
      BY <1>7, <2>1, <2>2
    <2>4. f = [n \in 0 .. N |-> f[n]]
      BY <1>8
    <2> QED BY <1>6, <2>3, <2>4
  <1>10. PICK g : g = Body(g) /\ Normalize(selected, wiring, source) = g[N]
    BY <1>5, <1>9
  <1>11. g[0] = base /\ \A n \in 1 .. N : g[n] = Normalized(selected, wiring, source, n, g[n - 1])
    BY <1>6, <1>10
  <1>12. \A n \in 0 .. N : g[n] \in Reductions(V)
    <2> DEFINE S == {n \in Nat : n <= N => g[n] \in Reductions(V)}
    <2>1. 0 \in S
      BY <1>1, <1>11
    <2>2. ASSUME NEW n \in Nat, n \in S PROVE n + 1 \in S
      <3> SUFFICES ASSUME n + 1 <= N PROVE g[n + 1] \in Reductions(V)
        OBVIOUS
      <3>1. n + 1 \in 1 .. N /\ (n + 1) - 1 = n /\ g[n] \in Reductions(V)
        BY <1>1, <2>2
      <3>2. g[n + 1] = Normalized(selected, wiring, source, n + 1, g[n])
        BY <1>11, <3>1
      <3> QED BY <3>1, <3>2, NormalizedType DEF N
    <2> HIDE DEF S
    <2>3. Nat \subseteq S
      BY <2>1, <2>2, BySet
    <2> QED BY <1>1, <2>3 DEF S
  <1> QED BY <1>10, <1>11, <1>12 DEF Normalizes, N, base

\* The reduction of a whole opening: routed into what is retained, which is a part of
\* it and irreducible.
LEMMA NormalizeRoutes ==
  ASSUME NEW V, NEW scope \in Seq(V), NEW selected, NEW source \in Seq(Contexts(V))
  PROVE  LET reduction == Normalize(selected, Configure(scope, selected), source)
         IN  /\ reduction \in Reductions(V)
             /\ Routes(V, scope, selected, source, reduction.code, reduction.retained)
             /\ Irreducible(selected, reduction.retained)
             /\ ToSet(reduction.retained) \subseteq ToSet(source)
  <1> DEFINE wiring == Configure(scope, selected)
             N == Len(source)
  <1>1. wiring \in Signals /\ N \in Nat
    BY ConfigureType
  <1>2. PICK from :
          /\ \A n \in 0 .. N : from[n] \in Reductions(V)
          /\ Normalizes(from, selected, wiring, source)
          /\ Normalize(selected, wiring, source) = from[N]
    <2> HIDE DEF wiring
    <2> QED BY <1>1, NormalizeUnfolds
  <1> DEFINE Good(n) ==
               /\ Routes(V, scope, selected, Ending(source, n), from[n].code, from[n].retained)
               /\ Irreducible(selected, from[n].retained)
               /\ ToSet(from[n].retained) \subseteq ToSet(Ending(source, n))
             S == {n \in Nat : n <= N => Good(n)}
  <1>3. \A n \in 0 .. N : /\ from[n].retained \in Seq(Contexts(V))
                          /\ from[n].code \in Seq(Instructions)
    BY <1>2 DEF Reductions
  <1>4. 0 \in S
    <2>1. from[0].retained = << >> /\ from[0].code = Identity /\ Ending(source, 0) = << >>
      BY <1>2, EndingSteps DEF Normalizes
    <2>2. << >> \in Seq(Contexts(V))
      OBVIOUS
    <2>3. Routes(V, scope, selected, << >>, Identity, << >>)
      BY <2>2, RoutesIdentity
    <2>4. Irreducible(selected, << >>)
      BY DEF Irreducible
    <2>5. Good(0)
      BY <2>1, <2>3, <2>4
    <2> QED BY <2>5
  <1>5. ASSUME NEW k \in Nat, k \in S PROVE k + 1 \in S
    <2> SUFFICES ASSUME k + 1 <= N PROVE Good(k + 1)
      BY <1>5
    <2> DEFINE n == k + 1
               current == source[N - n + 1]
               below == from[k]
               inserted == Insert(selected, wiring, current, below.retained)
               short == Ending(source, k)
               long == Ending(source, n)
               joined == <<current>> \o below.retained
    <2>1. n \in 1 .. N /\ n \in 0 .. N /\ k \in 0 .. N /\ n - 1 = k /\ N - n + 1 \in 1 .. N
      BY <1>1
    <2>2. Good(k)
      BY <1>1, <1>5, <2>1
    <2>3. current \in Contexts(V)
      BY <2>1
    <2>4. long = <<current>> \o short /\ long \in Seq(Contexts(V)) /\ short \in Seq(Contexts(V))
      BY <2>1, EndingSteps, EndingType
    <2>5. below.retained \in Seq(Contexts(V)) /\ below.code \in Seq(Instructions)
      BY <1>3, <2>1
    <2>6. from[n] = Normalized(selected, wiring, source, n, below)
      BY <1>2, <2>1 DEF Normalizes
    <2>7. /\ from[n].retained = inserted.retained
          /\ from[n].code = Compose(PrependCode(below.code), inserted.code)
      BY <2>6 DEF Normalized
    <2>8. /\ Routes(V, scope, selected, short, below.code, below.retained)
          /\ Irreducible(selected, below.retained)
          /\ ToSet(below.retained) \subseteq ToSet(short)
      BY <2>2
    <2> HIDE DEF current, below, short, long, n, N
    <2>9. /\ inserted \in Reductions(V)
          /\ Routes(V, scope, selected, joined, inserted.code, inserted.retained)
          /\ Irreducible(selected, inserted.retained)
          /\ ToSet(inserted.retained) \subseteq {current} \cup ToSet(below.retained)
      BY <2>3, <2>5, <2>8, InsertRoutes
    <2> HIDE DEF inserted, wiring
    <2>10. Routes(V, scope, selected, <<current>> \o short, PrependCode(below.code), joined)
      BY <2>3, <2>4, <2>5, <2>8, RoutesPrepend
    <2>11. joined \in Seq(Contexts(V)) /\ inserted.retained \in Seq(Contexts(V))
      BY <2>3, <2>5, <2>9 DEF Reductions
    <2>12. ToSet(long) = {current} \cup ToSet(short)
      BY <2>3, <2>4, PrependMembers
    <2> HIDE DEF joined
    <2>13. Routes(V, scope, selected, long, Compose(PrependCode(below.code), inserted.code),
                  inserted.retained)
      BY <2>4, <2>9, <2>10, <2>11, RoutesCompose
    <2>14. Good(n)
      BY <2>7, <2>8, <2>9, <2>12, <2>13 DEF long
    <2> QED BY <2>14 DEF n
  <1>6. Good(N)
    <2> HIDE DEF S
    <2>1. Nat \subseteq S
      BY <1>4, <1>5, BySet
    <2> QED BY <1>1, <2>1 DEF S
  <1>7. N \in 0 .. N /\ Ending(source, N) = source
    BY <1>1, EndingSteps
  <1>8. from[N] \in Reductions(V)
    BY <1>2, <1>7
  <1> QED BY <1>2, <1>6, <1>7, <1>8
-----------------------------------------------------------------------------
LEMMA ChildType ==
  ASSUME NEW V, NEW selected \in V, NEW value \in BOOLEAN, NEW parent \in Contexts(V)
  PROVE  /\ Child(parent, selected, value) \in Contexts(V)
         /\ \A clause : clause \in ToSet(Child(parent, selected, value).formula)
              <=> clause \in ToSet(parent.formula) /\ ~ Contains(clause, Literal(selected, value))
         /\ Child(parent, selected, value).decisions
              = <<Decision(selected, value)>> \o parent.decisions
  <1> DEFINE set == {clause \in ToSet(parent.formula) : ~ Contains(clause, Literal(selected, value))}
             rest == Keep(parent.formula, set)
             history == <<Decision(selected, value)>> \o parent.decisions
             Clauses == Seq([var : V, positive : BOOLEAN])
             Decided == [var : V, value : BOOLEAN]
  <1>1. parent.formula \in Seq(Clauses) /\ parent.decisions \in Seq(Decided)
    BY DEF Contexts
  <1>2. Decision(selected, value) \in Decided
    BY DEF Decision
  <1>3. Child(parent, selected, value) = [formula |-> rest, decisions |-> history]
    BY DEF Child, BranchResidual
  <1> HIDE DEF Clauses, Decided, set, rest, history
  <1>4. rest \in Seq(Clauses) /\ ToSet(rest) = ToSet(parent.formula) \cap set
    BY <1>1, KeepMembers DEF rest
  <1>5. history \in Seq(Decided)
    BY <1>1, <1>2 DEF history
  <1>6. ToSet(parent.formula) \cap set = set
    BY DEF set
  <1>7. [formula |-> rest, decisions |-> history] \in Contexts(V)
    BY <1>4, <1>5 DEF Contexts, Clauses, Decided
  <1> QED BY <1>3, <1>4, <1>6, <1>7 DEF set, history

LEMMA ChildFresh ==
  ASSUME NEW V, NEW selected \in V, NEW value \in BOOLEAN, NEW parent \in Contexts(V),
         Avoids(selected, parent.decisions), FreshHistory(parent.decisions)
  PROVE  FreshHistory(Child(parent, selected, value).decisions)
  <1> DEFINE old == parent.decisions
             new == <<Decision(selected, value)>> \o old
             Decided == [var : V, value : BOOLEAN]
  <1>1. old \in Seq(Decided) /\ Decision(selected, value) \in Decided
    BY DEF Contexts, Decision
  <1>2. Decision(selected, value).var = selected
    BY DEF Decision
  <1> HIDE DEF Decided, old
  <1>3. /\ DOMAIN new = 1 .. Len(old) + 1 /\ new[1] = Decision(selected, value)
        /\ \A i \in 2 .. Len(old) + 1 : new[i] = old[i - 1]
    BY <1>1, Prepended
  <1>4. Len(old) \in Nat /\ DOMAIN old = 1 .. Len(old)
    BY <1>1
  <1> HIDE DEF new
  <1>5. ASSUME NEW j \in DOMAIN new, NEW k \in DOMAIN new, j # k
        PROVE  new[j].var # new[k].var
    <2>1. \A i \in DOMAIN new : i = 1 \/ (i \in 2 .. Len(old) + 1 /\ i - 1 \in DOMAIN old)
      BY <1>3, <1>4
    <2>2. \A i \in DOMAIN old : old[i].var # selected
      BY DEF Avoids, old
    <2>3. CASE j = 1
      <3>1. k \in 2 .. Len(old) + 1 /\ k - 1 \in DOMAIN old
        BY <1>5, <2>1, <2>3
      <3> QED BY <1>2, <1>3, <2>2, <2>3, <3>1
    <2>4. CASE k = 1
      <3>1. j \in 2 .. Len(old) + 1 /\ j - 1 \in DOMAIN old
        BY <1>5, <2>1, <2>4
      <3> QED BY <1>2, <1>3, <2>2, <2>4, <3>1
    <2>5. CASE j # 1 /\ k # 1
      <3>1. /\ j \in 2 .. Len(old) + 1 /\ j - 1 \in DOMAIN old
            /\ k \in 2 .. Len(old) + 1 /\ k - 1 \in DOMAIN old
        BY <2>1, <2>5
      <3>2. j - 1 # k - 1
        BY <1>4, <1>5, <3>1
      <3>3. new[j] = old[j - 1] /\ new[k] = old[k - 1]
        BY <1>3, <3>1
      <3> QED BY <3>1, <3>2, <3>3 DEF FreshHistory, old
    <2> QED BY <2>3, <2>4, <2>5
  <1>6. FreshHistory(new)
    BY <1>5 DEF FreshHistory
  <1>7. Child(parent, selected, value).decisions = new
    BY ChildType DEF new, old
  <1> QED BY <1>6, <1>7

\* Satisfaction, clause by clause.
SatisfiesClause(assignment, clause) ==
  \E j \in DOMAIN clause : assignment[clause[j].var] = clause[j].positive

LEMMA ByClause ==
  ASSUME NEW assignment, NEW formula
  PROVE  Satisfies(assignment, formula)
           <=> \A clause \in ToSet(formula) : SatisfiesClause(assignment, clause)
  BY DEF Satisfies, SatisfiesClause, ToSet

\* Of two children the one that agrees with the assignment is accepted exactly when
\* the parent was, and the other never is.
LEMMA ChildAccepts ==
  ASSUME NEW V, NEW assignment \in [V -> BOOLEAN], NEW selected \in V, NEW value \in BOOLEAN,
         NEW parent \in Contexts(V)
  PROVE  Accepts(assignment, Child(parent, selected, value))
           <=> assignment[selected] = value /\ Accepts(assignment, parent)
  <1> DEFINE child == Child(parent, selected, value)
             old == parent.decisions
             new == <<Decision(selected, value)>> \o old
             Decided == [var : V, value : BOOLEAN]
  <1>1. /\ old \in Seq(Decided) /\ Decision(selected, value) \in Decided
        /\ Decision(selected, value).var = selected /\ Decision(selected, value).value = value
    BY DEF Contexts, Decision
  <1>2. /\ child.decisions = new
        /\ \A clause : clause \in ToSet(child.formula)
             <=> clause \in ToSet(parent.formula) /\ ~ Contains(clause, Literal(selected, value))
    <2>1. child.decisions = new
      BY ChildType
    <2>2. \A clause : clause \in ToSet(child.formula)
            <=> clause \in ToSet(parent.formula) /\ ~ Contains(clause, Literal(selected, value))
      BY ChildType
    <2> QED BY <2>1, <2>2
  <1> HIDE DEF Decided, old, child
  <1>3. /\ DOMAIN new = 1 .. Len(old) + 1 /\ new[1] = Decision(selected, value)
        /\ \A i \in 2 .. Len(old) + 1 : new[i] = old[i - 1]
        /\ Len(old) \in Nat /\ DOMAIN old = 1 .. Len(old)
    BY <1>1, Prepended
  <1> HIDE DEF new
  <1>4. Holds(assignment, child) <=> assignment[selected] = value /\ Holds(assignment, parent)
    <2>1. ASSUME Realizes(assignment, new)
          PROVE  assignment[selected] = value /\ Realizes(assignment, old)
      <3>1. 1 \in DOMAIN new
        BY <1>3
      <3>2. ASSUME NEW i \in DOMAIN old PROVE assignment[old[i].var] = old[i].value
        <4>1. i + 1 \in DOMAIN new /\ i + 1 \in 2 .. Len(old) + 1 /\ (i + 1) - 1 = i
          BY <1>3
        <4>2. new[i + 1] = old[i]
          BY <1>3, <4>1
        <4> QED BY <2>1, <4>1, <4>2 DEF Realizes
      <3> QED BY <1>1, <1>3, <2>1, <3>1, <3>2 DEF Realizes
    <2>2. ASSUME assignment[selected] = value, Realizes(assignment, old)
          PROVE  Realizes(assignment, new)
      <3>1. ASSUME NEW i \in DOMAIN new PROVE assignment[new[i].var] = new[i].value
        <4>1. i = 1 \/ (i \in 2 .. Len(old) + 1 /\ i - 1 \in DOMAIN old)
          BY <1>3
        <4> QED BY <1>1, <1>3, <2>2, <4>1 DEF Realizes
      <3> QED BY <3>1 DEF Realizes
    <2> QED BY <1>2, <2>1, <2>2 DEF Holds, old
  <1>5. ASSUME assignment[selected] = value
        PROVE  Satisfies(assignment, child.formula) <=> Satisfies(assignment, parent.formula)
    <2>1. ASSUME NEW clause \in ToSet(parent.formula), Contains(clause, Literal(selected, value))
          PROVE  SatisfiesClause(assignment, clause)
      <3>1. PICK j \in 1 .. Len(clause) : clause[j] = Literal(selected, value)
        BY <2>1 DEF Contains
      <3>2. j \in DOMAIN clause
        <4>1. PICK i \in DOMAIN parent.formula : clause = parent.formula[i]
          BY <2>1 DEF ToSet
        <4>2. parent.formula \in Seq(Seq([var : V, positive : BOOLEAN]))
          BY DEF Contexts
        <4>3. clause \in Seq([var : V, positive : BOOLEAN])
          BY <4>1, <4>2, SequenceMember
        <4> QED BY <4>3
      <3> QED BY <1>5, <3>1, <3>2 DEF SatisfiesClause, Literal
    <2> QED BY <1>2, <2>1, ByClause
  <1> QED BY <1>4, <1>5 DEF Accepts, child

LEMMA OpenParentType ==
  ASSUME NEW V, NEW selected \in V, NEW parent \in Contexts(V)
  PROVE  /\ OpenParent(selected, parent) \in Seq(Contexts(V))
         /\ ToSet(OpenParent(selected, parent))
              = IF Avoids(selected, parent.decisions)
                  THEN {Child(parent, selected, FALSE), Child(parent, selected, TRUE)}
                  ELSE {parent}
  <1>1. Child(parent, selected, FALSE) \in Contexts(V) /\ Child(parent, selected, TRUE) \in Contexts(V)
    BY ChildType
  <1>2. \A one, two \in Contexts(V) : /\ <<one, two>> \in Seq(Contexts(V)) /\ <<one>> \in Seq(Contexts(V))
                                      /\ ToSet(<<one, two>>) = {one, two} /\ ToSet(<<one>>) = {one}
    BY DEF ToSet
  <1> QED BY <1>1, <1>2 DEF OpenParent

\* Opening decides nothing twice and keeps the solutions of every parent.
LEMMA OpenParentFresh ==
  ASSUME NEW V, NEW selected \in V, NEW parent \in Contexts(V), FreshHistory(parent.decisions),
         NEW context \in ToSet(OpenParent(selected, parent))
  PROVE  FreshHistory(context.decisions)
  <1>1. CASE Avoids(selected, parent.decisions)
    <2>1. context \in {Child(parent, selected, FALSE), Child(parent, selected, TRUE)}
      BY <1>1, OpenParentType
    <2>2. \A value \in BOOLEAN : FreshHistory(Child(parent, selected, value).decisions)
      BY <1>1, ChildFresh
    <2>3. FALSE \in BOOLEAN /\ TRUE \in BOOLEAN
      OBVIOUS
    <2> QED BY <2>1, <2>2, <2>3
  <1>2. CASE ~ Avoids(selected, parent.decisions)
    <2>1. context \in {parent}
      BY <1>2, OpenParentType
    <2> QED BY <2>1
  <1> QED BY <1>1, <1>2

LEMMA OpenParentAccepts ==
  ASSUME NEW V, NEW assignment \in [V -> BOOLEAN], NEW selected \in V, NEW parent \in Contexts(V)
  PROVE  (\E context \in ToSet(OpenParent(selected, parent)) : Accepts(assignment, context))
           <=> Accepts(assignment, parent)
  <1>1. CASE Avoids(selected, parent.decisions)
    <2>1. ToSet(OpenParent(selected, parent))
            = {Child(parent, selected, FALSE), Child(parent, selected, TRUE)}
      BY <1>1, OpenParentType
    <2>2. \A value \in BOOLEAN : Accepts(assignment, Child(parent, selected, value))
            <=> assignment[selected] = value /\ Accepts(assignment, parent)
      BY ChildAccepts
    <2>3. assignment[selected] = FALSE \/ assignment[selected] = TRUE
      OBVIOUS
    <2> QED BY <2>1, <2>2, <2>3
  <1>2. CASE ~ Avoids(selected, parent.decisions)
    <2>1. ToSet(OpenParent(selected, parent)) = {parent}
      BY <1>2, OpenParentType
    <2> QED BY <2>1
  <1> QED BY <1>1, <1>2

Opens(opened, selected, source) ==
  /\ opened[0] = << >>
  /\ \A n \in 1 .. Len(source) : opened[n] = opened[n - 1] \o OpenParent(selected, source[n])

LEMMA OpenUnfolds ==
  ASSUME NEW V, NEW selected \in V, NEW source \in Seq(Contexts(V))
  PROVE  \E opened :
           /\ \A n \in 0 .. Len(source) : opened[n] \in Seq(Contexts(V))
           /\ Opens(opened, selected, source)
           /\ OpenFrontier(selected, source) = opened[Len(source)]
  <1> DEFINE N == Len(source)
             C == Seq(Contexts(V))
             Opened(q, n) == q \o OpenParent(selected, source[n])
             Body(f) == [n \in 0 .. N |-> IF n = 0 THEN << >> ELSE Opened(f[n - 1], n)]
             step == [n \in Nat |-> [q \in C |->
                        IF n \in 1 .. N THEN Opened(q, n) ELSE q]]
  <1>1. N \in Nat /\ << >> \in C
    OBVIOUS
  <1>2. \A n \in 1 .. N : \A q \in C : Opened(q, n) \in C
    <2>1. \A n \in 1 .. N : source[n] \in Contexts(V)
      OBVIOUS
    <2>2. \A n \in 1 .. N : OpenParent(selected, source[n]) \in C
      BY <2>1, OpenParentType
    <2> QED BY <2>2
  <1>3. \A n \in 1 .. N : n \in Nat /\ n - 1 \in 0 .. N /\ n \in 0 .. N /\ n # 0
    BY <1>1
  <1>4. OpenFrontier(selected, source) = (CHOOSE f : f = Body(f))[N]
    BY DEF OpenFrontier
  <1> HIDE DEF Opened
  <1>5. \A f : /\ Body(f)[0] = << >>
               /\ \A n \in 1 .. N : Body(f)[n] = Opened(f[n - 1], n)
               /\ Body(f) = [n \in 0 .. N |-> Body(f)[n]]
    BY <1>1, <1>3
  <1>6. \A n \in 0 .. N : n = 0 \/ n \in 1 .. N
    BY <1>1
  <1> HIDE DEF N, Body, C
  <1>7. step \in [Nat -> [C -> C]]
    BY <1>2
  <1>8. \A n \in 1 .. N : \A q \in C : step[n][q] = Opened(q, n)
    BY <1>3
  <1> HIDE DEF step
  <1>9. PICK f \in [0 .. N -> C] : Builds(f, N, << >>, step)
    BY <1>1, <1>7, RecursionUpTo
  <1>10. f = Body(f)
    <2>1. ASSUME NEW n \in 1 .. N PROVE f[n] = Body(f)[n]
      <3>1. f[n - 1] \in C
        BY <1>3, <1>9
      <3>2. f[n] = step[n][f[n - 1]]
        BY <1>9 DEF Builds
      <3> QED BY <1>5, <1>8, <3>1, <3>2
    <2>2. f[0] = Body(f)[0]
      BY <1>5, <1>9 DEF Builds
    <2>3. \A n \in 0 .. N : f[n] = Body(f)[n]
      BY <1>6, <2>1, <2>2
    <2>4. f = [n \in 0 .. N |-> f[n]]
      BY <1>9
    <2> QED BY <1>5, <2>3, <2>4
  <1>11. PICK g : g = Body(g) /\ OpenFrontier(selected, source) = g[N]
    BY <1>4, <1>10
  <1>12. g[0] = << >> /\ \A n \in 1 .. N : g[n] = Opened(g[n - 1], n)
    BY <1>5, <1>11
  <1>13. \A n \in 0 .. N : g[n] \in C
    <2> DEFINE S == {n \in Nat : n <= N => g[n] \in C}
    <2>1. 0 \in S
      BY <1>1, <1>12
    <2>2. ASSUME NEW n \in Nat, n \in S PROVE n + 1 \in S
      <3> SUFFICES ASSUME n + 1 <= N PROVE g[n + 1] \in C
        OBVIOUS
      <3>1. n + 1 \in 1 .. N /\ (n + 1) - 1 = n /\ g[n] \in C
        BY <1>1, <2>2
      <3>2. g[n + 1] = Opened(g[n], n + 1)
        BY <1>12, <3>1
      <3> QED BY <1>2, <3>1, <3>2
    <2> HIDE DEF S
    <2>3. Nat \subseteq S
      BY <2>1, <2>2, BySet
    <2> QED BY <1>1, <2>3 DEF S
  <1> QED BY <1>11, <1>12, <1>13 DEF Opens, Opened, N, C

\* The opening holds what its parents open to, and nothing else.
LEMMA OpenMembers ==
  ASSUME NEW V, NEW selected \in V, NEW source \in Seq(Contexts(V))
  PROVE  /\ OpenFrontier(selected, source) \in Seq(Contexts(V))
         /\ \A context : context \in ToSet(OpenFrontier(selected, source))
              <=> \E i \in DOMAIN source : context \in ToSet(OpenParent(selected, source[i]))
  <1> DEFINE N == Len(source)
  <1>1. N \in Nat /\ DOMAIN source = 1 .. N
    OBVIOUS
  <1>2. PICK opened :
          /\ \A n \in 0 .. N : opened[n] \in Seq(Contexts(V))
          /\ Opens(opened, selected, source)
          /\ OpenFrontier(selected, source) = opened[N]
    BY OpenUnfolds
  <1> DEFINE From(n, context) == \E i \in 1 .. n : context \in ToSet(OpenParent(selected, source[i]))
             S == {n \in Nat : n <= N => \A context : context \in ToSet(opened[n]) <=> From(n, context)}
  <1>3. 0 \in S
    <2>1. opened[0] = << >> /\ ToSet(<< >>) = {}
      BY <1>2 DEF Opens, ToSet
    <2> QED BY <2>1
  <1>4. ASSUME NEW n \in Nat, n \in S PROVE n + 1 \in S
    <2> SUFFICES ASSUME n + 1 <= N, NEW context
                 PROVE  context \in ToSet(opened[n + 1]) <=> From(n + 1, context)
      BY <1>4
    <2>1. n + 1 \in 1 .. N /\ (n + 1) - 1 = n /\ n \in 0 .. N
      BY <1>1
    <2>2. context \in ToSet(opened[n]) <=> From(n, context)
      BY <1>1, <1>4, <2>1
    <2>3. opened[n + 1] = opened[n] \o OpenParent(selected, source[n + 1])
      BY <1>2, <2>1 DEF Opens
    <2>4. opened[n] \in Seq(Contexts(V)) /\ OpenParent(selected, source[n + 1]) \in Seq(Contexts(V))
      <3>1. source[n + 1] \in Contexts(V)
        BY <2>1
      <3> QED BY <1>2, <2>1, <3>1, OpenParentType
    <2>5. ToSet(opened[n + 1]) = ToSet(opened[n]) \cup ToSet(OpenParent(selected, source[n + 1]))
      BY <2>3, <2>4, ConcatMembers
    <2>6. \A i : i \in 1 .. n + 1 <=> (i \in 1 .. n \/ i = n + 1)
      BY <2>1
    <2> QED BY <2>2, <2>5, <2>6
  <1>5. \A context : context \in ToSet(opened[N]) <=> From(N, context)
    <2> HIDE DEF S
    <2>1. Nat \subseteq S
      BY <1>3, <1>4, BySet
    <2> QED BY <1>1, <2>1 DEF S
  <1>6. N \in 0 .. N
    BY <1>1
  <1> QED BY <1>1, <1>2, <1>5, <1>6

\* Some assignment of the variables is accepted by some context.
Solvable(V, contexts) ==
  \E assignment \in [V -> BOOLEAN], context \in ToSet(contexts) : Accepts(assignment, context)

\* produceProblem: the opening decides nothing twice; its reduction is a part of it, which
\* the search cannot reduce further and the circuit routes the opening into; and a
\* problem has a solution before both exactly when it has one after.
THEOREM ProductionExact ==
  ASSUME NEW V, NEW scope \in Seq(V), NEW selected \in V, NEW source \in Seq(Contexts(V))
  PROVE  LET production == ProduceProblem(scope, selected, source)
         IN  /\ production.opening = OpenFrontier(selected, source)
             /\ production.opening \in Seq(Contexts(V)) /\ production.retained \in Seq(Contexts(V))
             /\ Routes(V, scope, selected, production.opening, production.configured,
                       production.retained)
             /\ Irreducible(selected, production.retained)
             /\ (\A context \in ToSet(source) : FreshHistory(context.decisions)) =>
                  \A context \in ToSet(production.retained) : FreshHistory(context.decisions)
             /\ Solvable(V, source) <=> Solvable(V, production.retained)
  <1> DEFINE opening == OpenFrontier(selected, source)
             reduction == Normalize(selected, Configure(scope, selected), opening)
             production == ProduceProblem(scope, selected, source)
             retained == reduction.retained
             code == reduction.code
  <1>1. /\ production.opening = opening /\ production.retained = retained
        /\ production.configured = code
    BY DEF ProduceProblem
  <1>2. /\ opening \in Seq(Contexts(V))
        /\ \A context : context \in ToSet(opening)
             <=> \E i \in DOMAIN source : context \in ToSet(OpenParent(selected, source[i]))
    BY OpenMembers
  <1> HIDE DEF opening
  <1>3. /\ reduction \in Reductions(V)
        /\ Routes(V, scope, selected, opening, code, retained)
        /\ Irreducible(selected, retained)
        /\ ToSet(retained) \subseteq ToSet(opening)
    BY <1>2, NormalizeRoutes
  <1> HIDE DEF reduction
  <1>4. retained \in Seq(Contexts(V))
    BY <1>3 DEF Reductions
  <1> HIDE DEF retained, code, production
  <1>5. \A i \in DOMAIN source : source[i] \in Contexts(V) /\ source[i] \in ToSet(source)
    BY DEF ToSet
  <1>6. ASSUME \A context \in ToSet(source) : FreshHistory(context.decisions),
               NEW context \in ToSet(retained)
        PROVE  FreshHistory(context.decisions)
    <2>1. PICK i \in DOMAIN source : context \in ToSet(OpenParent(selected, source[i]))
      BY <1>2, <1>3
    <2>2. source[i] \in Contexts(V) /\ FreshHistory(source[i].decisions)
      BY <1>5, <1>6
    <2> QED BY <2>1, <2>2, OpenParentFresh
  <1>7. \A i \in DOMAIN source, assignment \in [V -> BOOLEAN] :
          (\E context \in ToSet(OpenParent(selected, source[i])) : Accepts(assignment, context))
            <=> Accepts(assignment, source[i])
    BY <1>5, OpenParentAccepts
  <1>8. Solvable(V, source) => Solvable(V, opening)
    <2> SUFFICES ASSUME NEW assignment \in [V -> BOOLEAN], NEW context \in ToSet(source),
                        Accepts(assignment, context)
                 PROVE  Solvable(V, opening)
      BY DEF Solvable
    <2>1. PICK i \in DOMAIN source : context = source[i]
      BY DEF ToSet
    <2>2. PICK opened \in ToSet(OpenParent(selected, source[i])) : Accepts(assignment, opened)
      BY <1>7, <2>1
    <2>3. opened \in ToSet(opening)
      BY <1>2
    <2> QED BY <2>2, <2>3 DEF Solvable
  <1>9. Solvable(V, opening) => Solvable(V, retained)
    <2> SUFFICES ASSUME NEW assignment \in [V -> BOOLEAN], NEW context \in ToSet(opening),
                        Accepts(assignment, context)
                 PROVE  Solvable(V, retained)
      BY DEF Solvable
    <2>1. PICK i \in DOMAIN opening : context = opening[i]
      BY DEF ToSet
    <2>2. Holds(assignment, opening[i])
      BY <2>1 DEF Accepts
    <2>3. Delivers(scope, selected, assignment, opening[i],
                   FireCircuit(code, Packet(i - 1, Sense(scope, assignment))), retained)
      BY <1>3, <2>2 DEF Routes, Moves
    <2>4. PICK j \in DOMAIN retained, carried \in {assignment, FlipAt(selected, assignment)} :
            Accepts(assignment, opening[i]) => Accepts(carried, retained[j])
      BY <2>3 DEF Delivers
    <2>5. carried \in [V -> BOOLEAN]
      BY FlipAtType
    <2>6. retained[j] \in ToSet(retained)
      BY DEF ToSet
    <2> QED BY <2>1, <2>4, <2>5, <2>6 DEF Solvable
  <1>10. Solvable(V, retained) => Solvable(V, source)
    <2> SUFFICES ASSUME NEW assignment \in [V -> BOOLEAN], NEW context \in ToSet(retained),
                        Accepts(assignment, context)
                 PROVE  Solvable(V, source)
      BY DEF Solvable
    <2>1. PICK i \in DOMAIN source : context \in ToSet(OpenParent(selected, source[i]))
      BY <1>2, <1>3
    <2>2. Accepts(assignment, source[i])
      BY <1>7, <2>1
    <2> QED BY <1>5, <2>2 DEF Solvable
  <1>11. Solvable(V, source) <=> Solvable(V, retained)
    BY <1>8, <1>9, <1>10
  <1>12. production.opening = OpenFrontier(selected, source)
    BY <1>1 DEF opening
  <1>13. /\ production.opening \in Seq(Contexts(V)) /\ production.retained \in Seq(Contexts(V))
         /\ Routes(V, scope, selected, production.opening, production.configured,
                   production.retained)
         /\ Irreducible(selected, production.retained)
    BY <1>1, <1>2, <1>3, <1>4
  <1>14. (\A context \in ToSet(source) : FreshHistory(context.decisions)) =>
           \A context \in ToSet(production.retained) : FreshHistory(context.decisions)
    BY <1>1, <1>6
  <1>15. Solvable(V, source) <=> Solvable(V, production.retained)
    BY <1>1, <1>11
  <1> QED BY <1>12, <1>13, <1>14, <1>15 DEF production
=============================================================================
