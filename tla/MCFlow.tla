------------------------------- MODULE MCFlow -------------------------------
(* Bodies of up to three statements around a fixed set of helpers, straight *)
(* or with a branch, on inputs that take either side of it; the runners and *)
(* the operations of the machine, on theirs.                                *)
EXTENDS EmittedOperations, EmittedRunners

Of(f, o) == CallOf(f, <<o>>)
X(nodes) == Fn(<<"x">>, nodes)

FlowHelpers ==
  \* the producer, a checked summary
  ("make" :> X(<<Do("q", Alloc(7)), Do(None, SetOf(V("q"), 0, Prim(<<V("x")>>))),
                     Do(None, SetOf(V("q"), 1, Prim(<<V("x")>>))), Return(V("q"))>>)) @@
  \* a projection, a record, an alias: transparent
  ("first" :> X(<<Return(GetOf(V("x"), 0))>>)) @@
  ("pack" :> X(<<Do("q", Alloc(2)), Do(None, SetOf(V("q"), 0, V("x"))),
                  Do(None, SetOf(V("q"), 1, V("x"))), Return(V("q"))>>)) @@
  \* two paths, one through the producer
  ("adapt" :> X(<<If(Read("tag", V("x")), 2, 3), Return(Of("make", V("x"))),
                   Return(GetOf(V("x"), 1))>>)) @@
  \* writers of what they receive: directly, through a field, a caller, the tag
  ("write" :> X(<<Do(None, SetOf(V("x"), 1, Lit(3))), Return(V("x"))>>)) @@
  ("deep" :> Large(X(<<Do(None, SetOf(GetOf(V("x"), 0), 1, Lit(3))), Return(Lit(0))>>))) @@
  ("wrap" :> Large(X(<<Return(Of("write", V("x")))>>))) @@
  ("retag" :> X(<<Do(None, SetTag(V("x"), 3)), Return(V("x"))>>)) @@
  \* large and pure: an opaque result
  ("ident" :> Large(X(<<Return(V("x"))>>))) @@
  ("second" :> Large(X(<<Do("q", Alloc(2)), Do(None, SetOf(V("q"), 0, GetOf(V("x"), 1))),
                       Return(GetOf(V("q"), 0))>>))) @@
  \* what a constant is computed by
  ("build" :> Fn(<<>>, <<Do("q", Alloc(6)), Do(None, SetOf(V("q"), 0, Closure("make", 0))),
                         Return(V("q"))>>)) @@
  \* defined twice
  ("twice" :> X(<<Return(V("x"))>>))

\* a closure, a record that holds it, another name of the record, and a record
\* computed when the module is loaded
MCStatics ==
  ("fixed" :> StaticClosure("make")) @@
  ("held" :> StaticRecord(6, (0 :> StaticField("fixed")) @@ (1 :> Imm(12)))) @@
  ("renamed" :> StaticAlias("held")) @@
  ("computed" :> Initialised("build"))

Operands == {V("x"), V("a"), V("b")}
Sources ==    \* what a may be
  {<<"a", Of(f, V("x"))>> : f \in {"make", "ident", "adapt", "first"}}
  \cup {<<"a", GetOf(V("x"), 0)>>, <<"a", Closure("make", 0)>>}
  \cup {<<"a", Const(c)>> : c \in {"fixed", "renamed", "computed"}}
Writes ==
  {<<None, SetOf(V("p"), s, o)>> : s \in {0, 1}, o \in Operands}
  \cup {<<None, SetOf(V("x"), 0, V("a"))>>, <<None, SetTag(V("x"), 1)>>}
HelperCalls ==      \* b may be what a helper makes of p
  {<<"b", Of(f, V("p"))>> :
     f \in {"first", "pack", "write", "deep", "wrap", "retag", "second", "twice"}}
Uses ==       \* what b may be otherwise
  {<<"b", GetOf(V("a"), 0)>>, <<"b", GetOf(V("x"), 0)>>, <<"b", Of("make", V("x"))>>,
   <<"b", Of("adapt", V("a"))>>, <<"b", ApplyTo(V("a"), <<V("x")>>)>>,
   <<"b", ApplyTo(GetOf(V("a"), 0), <<V("x")>>)>>}

Step(s) == Do(s[1], s[2])
Then(s, next) == Goto(s[1], s[2], next)
Begin == Do("p", Alloc(4))
End == Return(V("p"))

Straight == {X(<<Begin, Step(s1), Step(s2), Step(s3), Return(V(r))>>) :
               s1 \in Sources, s2 \in Writes, s3 \in HelperCalls \cup Uses \cup Writes, r \in {"p", "b"}}
Aliased == {X(<<Begin, Step(s1), Step(s2), Step(s3),
                 Do(None, SetOf(V(o), 1, Lit(3))), Return(V(r))>>) :
              s1 \in Sources, s2 \in Writes, s3 \in HelperCalls, o, r \in {"p", "b"}}

Few == {<<None, SetOf(V("p"), 0, V("a"))>>, <<None, SetOf(V("p"), 1, V("x"))>>,
        <<None, SetOf(V("x"), 0, V("a"))>>, <<None, SetTag(V("x"), 1)>>,
        <<"a", Of("make", V("x"))>>, <<"a", Of("adapt", V("x"))>>, <<"b", GetOf(V("x"), 0)>>}
Branched == {X(<<Begin, Step(s1), If(Read(c, V("x")), 4, 5), Then(s2, 6), Step(s3),
                  Step(s4), End>>) :
               s1 \in {<<"a", Of("make", V("x"))>>, <<"a", GetOf(V("x"), 0)>>},
               c \in {"tag", "exclusive"}, s2, s3, s4 \in Few}
Repeated == {X(<<Begin, Step(s1), If(Read("tag", V("x")), 4, 5), Then(s2, 6), Step(s3),
                  If(Read("tag", V("x")), 7, 8), Step(s4), End>>) :
               s1 \in {<<"a", Of("make", V("x"))>>}, s2, s3, s4 \in Few}

Looping == {X(<<Begin, If(Read("tag", V("x")), 3, 6), Step(s1), Step(s2),
                 Goto("x", V(r), 2), End>>) :
              s1 \in Sources, s2 \in Writes \cup Uses, r \in {"a", "p"}}

\* a field is read twice and written below, by the body or by a helper
Reread == {X(<<Do("a", GetOf(V("x"), 0)), Do("b", GetOf(V("x"), 0)), Step(s), Return(V(r))>>) :
             s \in {<<"c", Of(f, V("a"))>> : f \in {"write", "wrap", "retag", "pack"}}
                   \cup {<<None, SetOf(V("a"), 1, V("x"))>>, <<None, SetTag(V("b"), 3)>>},
             r \in {"a", "b", "x"}}

FlowBodies == Reread \cup Straight \cup Aliased \cup Branched \cup Repeated \cup Looping

(* A call written inside a write, as the self-tests of the analysis have it *)
(* (integrated_machine_analysis.py:415): the helper has two paths here.     *)
NestedBodies == {X(<<Begin, Do(None, SetOf(V("p"), 0, Of(f, V("x")))),
                      Do(None, SetOf(V("p"), 1, o)), Return(r)>>) :
                   f \in {"make", "first", "pack", "adapt"}, o \in {V("x"), Lit(3)},
                   r \in {V("p"), GetOf(V("p"), 0), GetOf(V("p"), 1)}}

\* one argument with a nested cell; its tag is what a branch reads
InputOf(tag, given) ==
  [heap |-> <<Cell(tag, None, 0, (0 :> Ptr(2)) @@ (1 :> Imm(11))),
              Cell(5, None, 0, (0 :> Imm(12)) @@ (1 :> Imm(13)))>>,
   args |-> <<Ptr(1)>>, given |-> given]
FlowInputs == {InputOf(tag, given) : tag \in {0, 1}, given \in BOOLEAN}

-----------------------------------------------------------------------------
HelperTable == FlowHelpers @@ RunnerHelpers @@ OperationHelpers
Summaries == {"make"} \cup RunnerNames \cup (DOMAIN Arity \ {"selected"})
MCBodies == FlowBodies \cup Runners \cup Operations
MCHonest == HonestRunners \cup HonestOperations
MCInputsFor(b) == IF b.key = None THEN FlowInputs
                  ELSE IF b.key \in RunnerKeys THEN RunnerInputs ELSE OperationInputs[b.key]
NoNames == {}
OnlyEntry == {Entry}
Twice == {"twice"}
=============================================================================
