------------------------------ MODULE MCUnified -----------------------------
(* Bodies of up to three statements around a fixed set of helpers, straight *)
(* or with a branch, and bodies whose loop builds a value.                  *)
EXTENDS UnifiedCheck

X(nodes) == Fn(<<"x">>, nodes)
Of(f, o) == CallOf(f, <<o>>)
Holder(v) == <<Do("q", Alloc(2)), Do(None, SetOf(V("q"), 0, v)), Return(V("q"))>>

CountHelpers ==
  ("engine" :> X(<<If(Read("tag", V("x")), 2, 3), Return(Prim(<<V("x")>>)),
                     Do("y", Of("engine", GetOf(V("x"), 0))), Return(V("y"))>>)) @@
  ("ident" :> X(<<Return(V("x"))>>)) @@
  ("maybe" :> X(<<If(Read("tag", V("x")), 2, 3), Return(Of("engine", V("x"))), Return(V("x"))>>)) @@
  \* closures: made, held in a record, applied once, twice and by a closure
  ("make" :> X(<<Return(Closure("engine", 0))>>)) @@
  ("hold" :> X(<<Do("f", Closure("maybe", 0))>> \o Holder(V("f")))) @@
  ("apply" :> Fn(<<"f", "y">>, <<Return(ApplyTo(V("f"), <<V("y")>>))>>)) @@
  ("twice" :> Fn(<<"f", "y">>, <<Do("a", ApplyTo(V("f"), <<V("y")>>)),
                                  Return(ApplyTo(V("f"), <<V("a")>>))>>)) @@
  ("bind" :> Fn(<<"f">>, <<Do("c", Closure("apply", 1)), Do(None, SetOf(V("c"), 0, V("f"))),
                             Return(V("c"))>>)) @@
  ("under" :> X(<<Do("f", GetOf(V("x"), 0)), Return(ApplyTo(V("f"), <<Lit(0)>>))>>)) @@
  ("build" :> Fn(<<>>, <<Do("q", Alloc(2)), Do(None, SetOf(V("q"), 0, Lit(0))), Return(V("q"))>>)) @@
  \* back to the body, and out of the artifacts
  ("again" :> X(<<If(Read("tag", V("x")), 2, 3), Return(Of(Entry, GetOf(V("x"), 0))), Return(V("x"))>>)) @@
  ("extern" :> X(<<Return(V("x"))>>)) @@
  ("pick" :> X(<<If(Read("tag", V("x")), 2, 3), Return(Closure("engine", 0)),
                   Return(Closure("ident", 0))>>))

\* a closure, records that hold it, and a record computed when the module is loaded
MCStatics ==
  ("fixed" :> StaticClosure("engine")) @@
  ("held" :> StaticRecord(2, (0 :> StaticField("fixed")))) @@
  ("renamed" :> StaticAlias("held")) @@
  ("boxed" :> StaticRecord(2, (0 :> StaticField("fixed")) @@ (1 :> Imm(3)))) @@
  ("computed" :> Initialised("build"))

StaticFunctions == {<<"f", Const("fixed")>>, <<"f", GetOf(Const("renamed"), 0)>>,
                    <<"f", GetOf(Const("boxed"), 0)>>, <<"f", GetOf(Const("computed"), 0)>>}
Functions == {<<"f", Closure("engine", 0)>>, <<"f", Closure("ident", 0)>>, <<"f", Of("make", V("x"))>>,
              <<"f", Of("hold", V("x"))>>, <<"f", Lit(0)>>}
Steps ==
  {<<"y", Of(g, V("x"))>> : g \in {"engine", "maybe", "ident", "again"}}
  \cup {<<"y", CallOf(g, <<V("f"), V("x")>>)>> : g \in {"apply", "twice"}}
  \cup {<<"y", ApplyTo(V("f"), <<V("x")>>)>>, <<"y", Of("under", V("f"))>>,
        <<"f", Of("ident", V("f"))>>, <<"f", Of("extern", V("f"))>>,
        <<"f", Of("bind", V("f"))>>, <<"f", GetOf(V("f"), 0)>>}
\* as a record with the closure in it is built and taken apart
Records == {<<"r", Alloc(2)>>, <<None, SetOf(V("r"), 0, V("f"))>>, <<"y", Of("under", V("r"))>>,
            <<"f", GetOf(V("r"), 0)>>}

Step(s) == Do(s[1], s[2])
Then(s, next) == Goto(s[1], s[2], next)

CountStraight == {X(<<Step(a), Step(b), Step(c), Step(d), Return(V("y"))>>) :
                    a \in Functions, b, c \in Steps,
                    d \in {<<"y", ApplyTo(V("f"), <<V("x")>>)>>, <<"y", CallOf("twice", <<V("f"), V("y")>>)>>}}
CountRecords == {X(<<Step(a), Do("r", Alloc(2)), Do(None, SetOf(V("r"), 0, V("f"))),
                      Step(b), Step(c), Return(V("x"))>>) :
                   a \in Functions, b, c \in Records \cup Steps}
Branched(functions, steps) ==
  {X(<<Step(a), If(Read("tag", V("x")), 3, 4), Then(b, 5), Step(c), Step(d), Return(V("x"))>>) :
     a \in functions, b, c \in steps,
     d \in {<<"y", ApplyTo(V("f"), <<V("x")>>)>>, <<"y", Of("under", V("f"))>>}}
CountBodies == CountStraight \cup CountRecords \cup Branched(Functions \cup StaticFunctions, Steps)

ChainFunctions == {<<"f", Closure("again", 0)>>, <<"f", Of("make", V("x"))>>, <<"f", Of("hold", V("x"))>>,
                   <<"f", GetOf(Const("boxed"), 0)>>}
ChainSteps == {<<"y", Of(g, V("x"))>> : g \in {"engine", "maybe", "again"}}
  \cup {<<"y", CallOf(g, <<V("f"), V("x")>>)>> : g \in {"apply", "twice"}}
  \cup {<<"f", Of("ident", V("f"))>>, <<"f", Of("bind", V("f"))>>, <<"f", GetOf(V("f"), 0)>>}
ChainBodies == Branched(ChainFunctions, ChainSteps)

PickBodies == {X(<<Do("f", Of("pick", V("x"))), Step(b), Step(c), Return(V("x"))>>) :
                 b, c \in Steps}

\* The questions of the other checks: a call cut, the body's recursion unfolded
\* once, its recursion counted, and results remembered.
MCQuestions ==
  [count |-> Count("engine"), cut |-> Agent("engine", {"maybe"}, {}),
   unfolded |-> Agent("engine", {}, {Entry}), tail |-> RecursiveTail,
   chain |-> LocalChain("engine", {"make", "hold", "bind"}), retention |-> Retention]

\* x, one object; its tag is what a branch reads
CountInputs == {[heap |-> <<Cell(tag, None, 0, (0 :> Imm(11)))>>, args |-> <<Ptr(1)>>, given |-> FALSE] :
                  tag \in {0, 1}}

-----------------------------------------------------------------------------
CaptureHelpers ==
  ("reader" :> Fn(<<"a", "q">>, <<Return(V("q"))>>)) @@
  ("profile" :> X(<<Do("q", Alloc(90)), Return(V("q"))>>)) @@
  ("target" :> X(<<Do("q", Alloc(3)), Return(V("q"))>>)) @@
  ("pack" :> X(Holder(V("x")))) @@
  ("size" :> X(<<Do("n", Prim(<<Lit(1)>>)), Return(V("n"))>>)) @@
  ("watch" :> X(<<Do("f", Closure("reader", 1)), Do(None, SetOf(V("f"), 0, V("x"))), Return(V("f"))>>)) @@
  ("either" :> X(<<If(Read("tag", V("x")), 2, 3), Return(Lit(0)), Return(V("x"))>>)) @@
  \* one reader more for every cell of a list, or the list itself
  ("readers" :> Fn(<<"l", "x">>,
     <<If(Read("tag", V("l")), 2, 3), Return(Lit(0)),
       Do("t", CallOf("readers", <<GetOf(V("l"), 1), V("x")>>)),
       Do("q", Alloc(1)), Do(None, SetOf(V("q"), 0, V("x"))),
       Do(None, SetOf(V("q"), 1, V("t"))), Return(V("q"))>>)) @@
  ("late" :> Fn(<<"l", "x">>,
     <<If(Read("tag", V("l")), 2, 4), Do("o", Of("profile", V("x"))), Return(V("o")),
       Do("t", CallOf("late", <<GetOf(V("l"), 1), V("x")>>)), Return(GetOf(V("t"), 0))>>)) @@
  \* the first of a pair that is turned round for every cell of a list
  ("swap" :> Fn(<<"l", "p">>,
     <<If(Read("tag", V("l")), 2, 3), Return(GetOf(V("p"), 0)),
       Do("q", Alloc(2)), Do(None, SetOf(V("q"), 0, GetOf(V("p"), 1))),
       Do(None, SetOf(V("q"), 1, GetOf(V("p"), 0))),
       Return(CallOf("swap", <<GetOf(V("l"), 1), V("q")>>))>>)) @@
  ("extern" :> X(<<Return(V("x"))>>))

Clean == {Lit(0), Of("target", V("x"))}
Values == Clean \cup {V("x"), V("a"), GetOf(V("x"), 0), GetOf(V("a"), 0), Of("profile", Lit(0)), Of("size", V("x"))}
          \cup {Of(g, V("a")) : g \in {"pack", "watch", "either", "extern"}}
          \cup {CallOf(g, <<V("l"), V("a")>>) : g \in {"readers", "late"}}

CaptureStraight == {X(<<Do("l", l), Do("a", v), Do("a", w), Do("p", Alloc(4)), Do(None, SetOf(V("p"), 0, V("a"))),
                         Do(None, SetOf(V("p"), 1, o)), Return(r)>>) :
                      l \in {Lit(0), GetOf(V("x"), 1)}, v \in Values \ {V("a"), GetOf(V("a"), 0)}, w \in Values, o \in Clean,
                      r \in {V("p"), GetOf(V("p"), 0), GetOf(V("p"), 1)}}
\* a list is consumed and, in the loop, a value is carried along
CaptureLoops == {X(<<Do("l", V("x")), Do("p", Lit(0)), Do("a", Lit(0)), Do("b", Lit(0)),
                      If(Read("tag", V("l")), 6, 7), Return(r),
                      Do("l", GetOf(V("l"), 1)), Do(s[1], s[2]), Do(t[1], t[2]), Do(u[1], u[2]),
                      Goto("c", Alloc(1), 5)>>) :
                   s, t, u \in {<<"a", V("x")>>, <<"a", V("b")>>, <<"b", V("a")>>, <<"b", Of("pack", V("a"))>>,
                                <<"b", Of("watch", V("x"))>>, <<"p", V("c")>>, <<"c", Alloc(5)>>,
                                <<None, SetOf(V("c"), 0, V("b"))>>, <<"b", Of("size", V("x"))>>},
                   r \in {V("p"), V("a"), V("b")}}
SwapBodies == {X(<<Do("p", Alloc(4)), Do(None, SetOf(V("p"), 0, v)), Do(None, SetOf(V("p"), 1, w)),
                    Return(CallOf("swap", <<V("x"), V("p")>>))>>) : 
                    v, w \in Clean \cup {V("x"), Of("profile", Lit(0))}}
CaptureBodies == CaptureStraight \cup CaptureLoops

\* a list of one or two cells, of an archive
CaptureInputs ==
  {[heap |-> <<Cell(91, None, 0, (0 :> Ptr(2)) @@ (1 :> l)), Cell(92, None, 0, <<>>),
               Cell(93, None, 0, (0 :> Imm(2)) @@ (1 :> Imm(0)))>>,
    args |-> <<Ptr(1)>>, given |-> FALSE] : l \in {Imm(0), Ptr(3)}}
MCBoundaries == ("profile" :> "archive") @@ ("target" :> "produced")

HelperTable == CountHelpers @@ CaptureHelpers
AllBodies == [about \in DOMAIN MCQuestions |->
                CASE about = "retention" -> CaptureBodies [] about = "count" -> CountBodies
                  [] OTHER -> ChainBodies]
OnlyPick == [about \in {"count"} |-> PickBodies]
OnlySwap == [about \in {"retention"} |-> SwapBodies]
AllInputs == [about \in DOMAIN MCQuestions |->
                IF about = "retention" THEN CaptureInputs ELSE CountInputs]
NoNames == {}
Outside == {"extern"}
=============================================================================
