--------------------------- MODULE ReferenceGraph ---------------------------
(***************************************************************************)
(* The count of static routes of scripts/check-unified-codegen.py          *)
(* (producer_routes): how many chains of references lead from an emitted C *)
(* function to the producer.  The recursion of the script is the sequence  *)
(* of frames; a call about to be made is in calling.                       *)
(***************************************************************************)
EXTENDS Integers, Sequences, SequencesExt, FiniteSets

CONSTANTS Functions,     \* the functions that have a body
          Tokens,        \* the names bodies mention
          Initializer,   \* name -> the name of its initialiser, defined or not
          Bodies,        \* the bodies: function -> sequence of names mentioned
          Start, Target,
          Limits,        \* the sets of boundaries a count may be given
          Counts         \* the numbers of routes that may be expected

Nobody == "nobody"

ASSUME GraphAssumption ==
  /\ Functions \subseteq Tokens /\ IsFiniteSet(Functions) /\ Nobody \notin Functions
  /\ Bodies \subseteq [Functions -> Seq(Tokens)]
  /\ DOMAIN Initializer = Tokens
  /\ Start \in Functions /\ Target \in Functions
  /\ Counts \subseteq Nat

VARIABLES refs, boundaries, expected, calling, frames, memo, result
counted == <<refs, boundaries, expected, calling, frames, memo, result>>

Counting == [kind |-> "counting"]
Cycle == [kind |-> "cycle"]
Found(n) == [kind |-> "found", count |-> n]

\* What a body leads to: the names it mentions that have a body themselves, and the
\* initialisers of those it mentions.
LeadsTo(n) ==
  LET mentioned == Range(refs[n])
  IN  (mentioned \cup {Initializer[t] : t \in mentioned}) \cap Functions

\* Everything a function leads to: the least set that holds it and is closed.
ReachableFrom(name) ==
  {m \in Functions : \A S \in SUBSET Functions :
     name \in S /\ (\A n \in S : LeadsTo(n) \subseteq S) => m \in S}

Reaches(name) == Target \in ReachableFrom(name)

Stack == {frames[i].name : i \in DOMAIN frames}
Top == frames[Len(frames)]

\* The result of a call that needs no frame.
Immediate(name) ==
  \/ name \in {Target} \cup boundaries \cup DOMAIN memo
  \/ ~Reaches(name)
ImmediateCount(name) ==
  IF name = Target THEN 1
  ELSE IF name \in boundaries THEN 0
  ELSE IF name \in DOMAIN memo THEN memo[name]
  ELSE 0

Remembered(name, n) ==
  [x \in DOMAIN memo \cup {name} |-> IF x = name THEN n ELSE memo[x]]

\* A result goes to the frame under the one that ends, or ends the count.
Deliver(n, under) ==
  IF under = <<>>
    THEN frames' = under /\ result' = Found(n)
    ELSE frames' = [under EXCEPT ![Len(under)].total = @ + n] /\ UNCHANGED result

Answer == /\ result = Counting
          /\ calling # Nobody
          /\ Immediate(calling)
          /\ Deliver(ImmediateCount(calling), frames)
          /\ memo' = IF calling \in {Target} \cup boundaries THEN memo
                     ELSE Remembered(calling, ImmediateCount(calling))
          /\ calling' = Nobody
          /\ UNCHANGED <<refs, boundaries, expected>>

InProgress(name) == name \in Stack

Refuse == /\ result = Counting
          /\ calling # Nobody
          /\ ~Immediate(calling)
          /\ InProgress(calling)
          /\ result' = Cycle
          /\ UNCHANGED <<refs, boundaries, expected, calling, frames, memo>>

Enter == /\ result = Counting
         /\ calling # Nobody
         /\ ~Immediate(calling)
         /\ ~InProgress(calling)
         /\ frames' = Append(frames, [name |-> calling, at |-> 1, total |-> 0])
         /\ calling' = Nobody
         /\ UNCHANGED <<refs, boundaries, expected, memo, result>>

\* What one name mentioned stands for.
Followed(token) ==
  IF token \in Functions THEN token
  ELSE IF Initializer[token] \in Functions THEN Initializer[token]
  ELSE Nobody

\* The names are left once the routes are too many.
ExhaustedEarly(f) == f.total >= expected \/ f.at > Len(refs[f.name])
Exhausted(f) == f.total > expected \/ f.at > Len(refs[f.name])

AdvanceSkipping(f) == IF Followed(refs[f.name][f.at]) = Nobody THEN f.at ELSE f.at + 1
After(f) == f.at + 1

Advance == /\ result = Counting
           /\ calling = Nobody
           /\ frames # <<>>
           /\ ~Exhausted(Top)
           /\ calling' = Followed(refs[Top.name][Top.at])
           /\ frames' = [frames EXCEPT ![Len(frames)].at = After(Top)]
           /\ UNCHANGED <<refs, boundaries, expected, memo, result>>

Leave == /\ result = Counting
         /\ calling = Nobody
         /\ frames # <<>>
         /\ Exhausted(Top)
         /\ memo' = Remembered(Top.name, Top.total)
         /\ Deliver(Top.total, Front(frames))
         /\ UNCHANGED <<refs, boundaries, expected, calling>>

CountInit == /\ refs \in Bodies
        /\ boundaries \in Limits
        /\ expected \in Counts
        /\ calling = Start
        /\ frames = <<>>
        /\ memo = [x \in {} |-> 0]
        /\ result = Counting

CountNext == Answer \/ Refuse \/ Enter \/ Advance \/ Leave
CountSpec == CountInit /\ [][CountNext]_counted /\ WF_counted(CountNext)

Accepted == result = Found(expected)

-----------------------------------------------------------------------------
(* The routes, defined without the search: a chain of mentions from a       *)
(* function to the producer, through functions that are neither the         *)
(* producer nor a boundary.                                                 *)

Inner == Functions \ ({Target} \cup boundaries)
Mentions(n, m) ==
  {i \in DOMAIN refs[n] : \/ refs[n][i] = m
                          \/ refs[n][i] \notin Functions /\ Initializer[refs[n][i]] = m}

\* The routes that start with the i-th mention, when those of each function are known.
RoutesBy(count, n, i) ==
  IF \E m \in Functions : i \in Mentions(n, m)
    THEN count[CHOOSE m \in Functions : i \in Mentions(n, m)] ELSE 0

\* Those that start with one of the first k mentions.
RoutesAlong(count, n, k) ==
  LET sum[i \in 0 .. Len(refs[n])] == IF i = 0 THEN 0 ELSE sum[i - 1] + RoutesBy(count, n, i)
  IN  sum[k]

\* The number of chains of at most k mentions, of every function.
RoutesWithin[k \in 0 .. Cardinality(Functions)] ==
  [n \in Functions |->
     IF n = Target THEN 1
     ELSE IF n \in boundaries \/ k = 0 THEN 0
     ELSE RoutesAlong(RoutesWithin[k - 1], n, Len(refs[n]))]

Routes(n) == RoutesWithin[Cardinality(Functions)][n]

Successors(n) == {m \in Inner : Mentions(n, m) # {}}

\* The functions met from some, themselves included, on the way to the producer.
WalkableFrom(names) ==
  {m \in Inner : \A S \in SUBSET Inner :
     names \subseteq S /\ (\A n \in S : Successors(n) \subseteq S) => m \in S}

Looping == \E n \in WalkableFrom({Start} \cap Inner) :
             Reaches(n) /\ n \in WalkableFrom(Successors(n))

(* The check passes exactly when no route can go round and the routes are   *)
(* as many as expected, however the references share their targets, repeat  *)
(* or go through initialisers, and although the count stops early           *)
(* (check-unified-codegen.py:95-131).                                       *)
AcceptedExactly == result # Counting => (Accepted <=> ~Looping /\ Routes(Start) = expected)

(* What is remembered of a function is its number of routes, or some number *)
(* already too large and not larger than it: a remembered count never makes *)
(* another function pass (check-unified-codegen.py:108-112, 126).           *)
MemoSound ==
  \A n \in DOMAIN memo \ boundaries :
    \/ memo[n] = Routes(n)
    \/ memo[n] > expected /\ memo[n] <= Routes(n)

(* The count ends, on cyclic references as well                             *)
(* (check-unified-codegen.py:119-125).                                      *)
CountEnds == <>(result # Counting)
=============================================================================
