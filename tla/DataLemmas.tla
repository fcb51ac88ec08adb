----------------------------- MODULE DataLemmas ----------------------------
(***************************************************************************)
(* What the proofs need of numbers and sequences.  Induction has no        *)
(* operator parameter here: what holds for every number is the set of the  *)
(* numbers it holds for.  The functions built by recursion rest on it.     *)
(***************************************************************************)
EXTENDS Naturals, Sequences, SequencesExt, WellFoundedInduction, TLAPS

\* A set of numbers that is not empty has a least member.
LEMMA Least ==
  ASSUME NEW S \in SUBSET Nat, S # {}
  PROVE  \E n \in S : \A m \in S : n <= m
  <1>1. PICK n \in S : \A m \in S : <<m, n>> \notin OpToRel(<, Nat)
    BY NatLessThanWellFounded, WFMin, Zenon
  <1>2. \A m \in S : ~ (m < n)
    BY <1>1 DEF OpToRel
  <1> QED BY <1>2

\* A set that holds 0 and the successor of each of its numbers holds them all.
LEMMA BySet ==
  ASSUME NEW S, 0 \in S, \A n \in Nat : n \in S => n + 1 \in S
  PROVE  Nat \subseteq S
  <1> SUFFICES ASSUME Nat \ S # {} PROVE FALSE
    OBVIOUS
  <1>1. PICK n \in Nat \ S : \A m \in Nat \ S : n <= m
    BY Least
  <1>2. n # 0 /\ n - 1 \in Nat /\ n - 1 \in S
    BY <1>1
  <1> QED BY <1>1, <1>2

\* A function built by recursion, up to a number.
Builds(f, k, base, step) ==
  f[0] = base /\ \A n \in 1 .. k : f[n] = step[n][f[n - 1]]

LEMMA RecursionUpTo ==
  ASSUME NEW B, NEW base \in B, NEW step \in [Nat -> [B -> B]], NEW N \in Nat
  PROVE  \E f \in [0 .. N -> B] : Builds(f, N, base, step)
  <1> DEFINE S == {k \in Nat : \E f \in [0 .. k -> B] : Builds(f, k, base, step)}
  <1>1. 0 \in S
    <2>1. [n \in 0 .. 0 |-> base] \in [0 .. 0 -> B]
      OBVIOUS
    <2>2. Builds([n \in 0 .. 0 |-> base], 0, base, step)
      BY DEF Builds
    <2> QED BY <2>1, <2>2
  <1>2. ASSUME NEW k \in Nat, k \in S PROVE k + 1 \in S
    <2>1. PICK f \in [0 .. k -> B] : Builds(f, k, base, step)
      BY <1>2
    <2>2. step[k + 1] \in [B -> B] /\ f[k] \in B
      OBVIOUS
    <2>3. PICK last \in B : last = step[k + 1][f[k]]
      BY <2>2
    <2> DEFINE g == [n \in 0 .. k + 1 |-> IF n = k + 1 THEN last ELSE f[n]]
    <2>4. g \in [0 .. k + 1 -> B]
      OBVIOUS
    <2>5. g[0] = base /\ \A n \in 0 .. k : g[n] = f[n]
      BY <2>1 DEF Builds
    <2>6. ASSUME NEW n \in 1 .. k + 1 PROVE g[n] = step[n][g[n - 1]]
      <3>1. CASE n = k + 1
        BY <2>3, <2>5, <3>1
      <3>2. CASE n \in 1 .. k
        <4>1. f[n] = step[n][f[n - 1]]
          BY <2>1, <3>2 DEF Builds
        <4>2. n - 1 \in 0 .. k /\ n \in 0 .. k
          BY <3>2
        <4> HIDE DEF g
        <4> QED BY <2>5, <4>1, <4>2
      <3> QED BY <3>1, <3>2
    <2>7. Builds(g, k + 1, base, step)
      BY <2>5, <2>6 DEF Builds
    <2> HIDE DEF g
    <2> QED BY <2>4, <2>7
  <1> HIDE DEF S
  <1>3. Nat \subseteq S
    BY <1>1, <1>2, BySet
  <1>4. N \in S
    BY <1>3
  <1> QED BY <1>4 DEF S
-----------------------------------------------------------------------------
\* What the members of a longer sequence are.
LEMMA AppendMembers ==
  ASSUME NEW V, NEW s \in Seq(V), NEW x \in V
  PROVE  ToSet(Append(s, x)) = ToSet(s) \cup {x}
  <1>1. /\ DOMAIN Append(s, x) = 1 .. Len(s) + 1 /\ Append(s, x)[Len(s) + 1] = x
        /\ \A i \in 1 .. Len(s) : Append(s, x)[i] = s[i]
        /\ DOMAIN s = 1 .. Len(s) /\ Len(s) \in Nat
    OBVIOUS
  <1> QED BY <1>1 DEF ToSet

LEMMA ConcatMembers ==
  ASSUME NEW V, NEW s \in Seq(V), NEW t \in Seq(V)
  PROVE  s \o t \in Seq(V) /\ ToSet(s \o t) = ToSet(s) \cup ToSet(t)
  <1>1. /\ DOMAIN (s \o t) = 1 .. Len(s) + Len(t)
        /\ \A i \in 1 .. Len(s) : (s \o t)[i] = s[i]
        /\ \A i \in 1 .. Len(t) : (s \o t)[Len(s) + i] = t[i]
        /\ DOMAIN s = 1 .. Len(s) /\ Len(s) \in Nat
        /\ DOMAIN t = 1 .. Len(t) /\ Len(t) \in Nat
    OBVIOUS
  <1>2. \A i \in 1 .. Len(s) + Len(t) : i \in 1 .. Len(s) \/ i - Len(s) \in 1 .. Len(t)
    BY <1>1
  <1>3. ASSUME NEW i \in 1 .. Len(t) PROVE Len(s) + i \in DOMAIN (s \o t)
    BY <1>1
  <1>4. ASSUME NEW i \in 1 .. Len(s) + Len(t) PROVE (s \o t)[i] \in ToSet(s) \cup ToSet(t)
    <2>1. CASE i \in 1 .. Len(s)
      BY <1>1, <2>1 DEF ToSet
    <2>2. CASE i - Len(s) \in 1 .. Len(t)
      <3>1. (s \o t)[i] = t[i - Len(s)]
        BY <1>1, <2>2
      <3> QED BY <1>1, <2>2, <3>1 DEF ToSet
    <2> QED BY <1>2, <2>1, <2>2
  <1>5. ToSet(s) \subseteq ToSet(s \o t)
    BY <1>1 DEF ToSet
  <1>6. ToSet(t) \subseteq ToSet(s \o t)
    BY <1>1, <1>3 DEF ToSet
  <1>7. ToSet(s \o t) \subseteq ToSet(s) \cup ToSet(t)
    BY <1>1, <1>4 DEF ToSet
  <1> QED BY <1>5, <1>6, <1>7

\* Three sequences in one.
LEMMA FlattenMembers ==
  ASSUME NEW V, NEW a \in Seq(V), NEW b \in Seq(V), NEW c \in Seq(V)
  PROVE  /\ FlattenSeq(<<a, b, c>>) \in Seq(V)
         /\ ToSet(FlattenSeq(<<a, b, c>>)) = (ToSet(a) \cup ToSet(b)) \cup ToSet(c)
  <1> DEFINE ab == a \o b
             abc == ab \o c
  <1>1. ab \in Seq(V) /\ ToSet(ab) = ToSet(a) \cup ToSet(b)
    BY ConcatMembers
  <1> DEFINE s == <<a, b, c>>
             Body(f) == [i \in 1 .. Len(s) |-> IF i = 1 THEN s[i] ELSE f[i - 1] \o s[i]]
             flat == [i \in 1 .. 3 |-> IF i = 1 THEN a ELSE IF i = 2 THEN ab ELSE abc]
  <1>2. Len(s) = 3 /\ s[1] = a /\ s[2] = b /\ s[3] = c
    OBVIOUS
  <1>3. FlattenSeq(s) = (CHOOSE f : f = Body(f))[3]
    BY <1>2 DEF FlattenSeq
  <1> HIDE DEF s
  <1>4. \A f : /\ DOMAIN Body(f) = 1 .. 3 /\ Body(f)[1] = a
               /\ Body(f)[2] = f[1] \o b /\ Body(f)[3] = f[2] \o c
               /\ Body(f) = [i \in 1 .. 3 |-> Body(f)[i]]
    BY <1>2
  <1>5. flat[1] = a /\ flat[2] = ab /\ flat[3] = abc /\ flat = [i \in 1 .. 3 |-> flat[i]]
    OBVIOUS
  <1>6. ab = a \o b /\ abc = ab \o c
    OBVIOUS
  <1> HIDE DEF Body, flat, ab, abc
  <1>7. abc \in Seq(V) /\ ToSet(abc) = ToSet(ab) \cup ToSet(c)
    <2>1. \A u \in Seq(V) : u \o c \in Seq(V) /\ ToSet(u \o c) = ToSet(u) \cup ToSet(c)
      BY ConcatMembers
    <2> QED BY <1>1, <1>6, <2>1
  <1>8. \A i \in 1 .. 3 : Body(flat)[i] = flat[i]
    <2>1. \A i \in 1 .. 3 : i = 1 \/ i = 2 \/ i = 3
      OBVIOUS
    <2> QED BY <1>4, <1>5, <1>6, <2>1
  <1>9. flat = Body(flat)
    BY <1>4, <1>5, <1>8
  <1>10. PICK f : f = Body(f) /\ FlattenSeq(s) = f[3]
    BY <1>3, <1>9
  <1>11. f[1] = Body(f)[1] /\ f[2] = Body(f)[2] /\ f[3] = Body(f)[3]
    BY <1>10
  <1>12. f[1] = a /\ f[2] = ab /\ f[3] = abc
    BY <1>4, <1>11, <1>6
  <1> QED BY <1>1, <1>10, <1>12, <1>7 DEF s

\* Short sequences: what appending and prepending give, and which functions they are.
LEMMA SameSequence ==
  ASSUME NEW V, NEW s \in Seq(V), NEW t \in Seq(V), Len(s) = Len(t),
         \A i \in 1 .. Len(s) : s[i] = t[i]
  PROVE  s = t
  OBVIOUS

LEMMA Appended ==
  ASSUME NEW a, NEW b, NEW c
  PROVE  /\ Append(<< >>, b) = <<b>> /\ Append(<<a>>, b) = <<a, b>>
         /\ Append(<<a, b>>, c) = <<a, b, c>>
  <1> DEFINE V == {a, b, c}
  <1>1. Append(<< >>, b) = <<b>>
    OBVIOUS
  <1>2. a \in V /\ b \in V /\ c \in V
    OBVIOUS
  <1> HIDE DEF V
  <1>3. \A i \in 1 .. 3 : i = 1 \/ i = 2 \/ i = 3
    OBVIOUS
  <1>4. Append(<<a>>, b) = <<a, b>>
    <2>1. Append(<<a>>, b) \in Seq(V) /\ <<a, b>> \in Seq(V)
      BY <1>2
    <2>2. Len(Append(<<a>>, b)) = 2 /\ Len(<<a, b>>) = 2
      BY <1>2
    <2>3. Append(<<a>>, b)[1] = a /\ Append(<<a>>, b)[2] = b
      BY <1>2
    <2>4. <<a, b>>[1] = a /\ <<a, b>>[2] = b
      OBVIOUS
    <2>5. \A i \in 1 .. 2 : Append(<<a>>, b)[i] = <<a, b>>[i]
      BY <1>3, <2>3, <2>4
    <2> QED BY <2>1, <2>2, <2>5, SameSequence
  <1>5. Append(<<a, b>>, c) = <<a, b, c>>
    <2>1. Append(<<a, b>>, c) \in Seq(V) /\ <<a, b, c>> \in Seq(V)
      BY <1>2
    <2>2. Len(Append(<<a, b>>, c)) = 3 /\ Len(<<a, b, c>>) = 3
      BY <1>2
    <2>3. Append(<<a, b>>, c)[1] = a /\ Append(<<a, b>>, c)[2] = b /\ Append(<<a, b>>, c)[3] = c
      BY <1>2
    <2>4. <<a, b, c>>[1] = a /\ <<a, b, c>>[2] = b /\ <<a, b, c>>[3] = c
      OBVIOUS
    <2>5. \A i \in 1 .. 3 : Append(<<a, b>>, c)[i] = <<a, b, c>>[i]
      BY <1>3, <2>3, <2>4
    <2> QED BY <2>1, <2>2, <2>5, SameSequence
  <1> QED BY <1>1, <1>4, <1>5

LEMMA Prepended ==
  ASSUME NEW V, NEW s \in Seq(V), NEW x \in V
  PROVE  /\ <<x>> \o s \in Seq(V) /\ DOMAIN (<<x>> \o s) = 1 .. Len(s) + 1
         /\ (<<x>> \o s)[1] = x /\ \A i \in 2 .. Len(s) + 1 : (<<x>> \o s)[i] = s[i - 1]
  OBVIOUS

\* A function on the first positions is the tuple of its values.
LEMMA Tuple1 ==
  ASSUME NEW a, NEW f, f = [i \in 1 .. 1 |-> f[i]], f[1] = a
  PROVE  f = <<a>>
  OBVIOUS

LEMMA Tuple2 ==
  ASSUME NEW a, NEW b, NEW f, f = [i \in 1 .. 2 |-> f[i]], f[1] = a, f[2] = b
  PROVE  f = <<a, b>>
  <1>1. DOMAIN <<a, b>> = 1 .. 2 /\ <<a, b>> = [i \in 1 .. 2 |-> <<a, b>>[i]]
    OBVIOUS
  <1>2. \A i \in 1 .. 2 : i = 1 \/ i = 2
    OBVIOUS
  <1> QED BY <1>1, <1>2

LEMMA Tuple3 ==
  ASSUME NEW a, NEW b, NEW c, NEW f, f = [i \in 1 .. 3 |-> f[i]], f[1] = a, f[2] = b, f[3] = c
  PROVE  f = <<a, b, c>>
  <1>1. DOMAIN <<a, b, c>> = 1 .. 3 /\ <<a, b, c>> = [i \in 1 .. 3 |-> <<a, b, c>>[i]]
    OBVIOUS
  <1>2. \A i \in 1 .. 3 : i = 1 \/ i = 2 \/ i = 3
    OBVIOUS
  <1> QED BY <1>1, <1>2
=============================================================================
