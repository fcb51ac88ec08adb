---------------------------- MODULE EmittedRunners ---------------------------
(* Runners built from the one of the self-tests by changing where each     *)
(* value comes from.                                                       *)
EXTENDS EmittedCode

Pair == <<Do("q", Alloc(2)), Do(None, SetOf(V("q"), 0, V("u"))), Do(None, SetOf(V("q"), 1, V("w"))),
          Return(V("q"))>>

SMQ == <<V("s"), V("m"), V("q")>>
RunnerHelpers ==
  ("read" :> Fn(<<"m">>, <<Return(Prim(<<V("m")>>))>>)) @@
  ("enabled" :> Fn(<<"s", "q">>, <<Return(Prim(<<V("q")>>))>>)) @@
  ("masterEnabled" :> Fn(<<"s", "m", "q">>, <<Return(Prim(<<V("q")>>))>>)) @@
  ("perform" :> Fn(<<"s", "m", "q">>,
     <<Do("u", Prim(<<V("m")>>)), Do("w", Prim(<<V("m")>>))>> \o Pair)) @@
  ("helper" :> Fn(<<"s", "m", "q">>, <<Return(CallOf("perform", SMQ))>>)) @@
  ("copy" :> Fn(<<"p">>, <<Do("u", GetOf(V("p"), 0)), Do("w", GetOf(V("p"), 1))>> \o Pair)) @@
  ("stamp" :> Fn(<<"p">>, <<Do(None, SetOf(V("p"), 1, Prim(<<>>))), Return(V("p"))>>))

RunnerNames == {"read", "enabled", "masterEnabled", "perform", Entry}

\* request: of the transition; pair: how it is passed on; next, rest: of the
\* recursion; event (2: of a second transition), admitted, view: what the
\* frame holds; checked: the memory a master decides admission on
Admission(c) ==
  IF c.key = "masterRun"
    THEN CallOf("masterEnabled", <<V("s"), IF c.checked = "field" THEN GetOf(V("m"), 1) ELSE V("m"),
                                   V(c.admitted)>>)
    ELSE CallOf("enabled", <<V("s"), V(c.admitted)>>)
Runner(c) ==
  For(c.key, Fn(<<"s", "m", "qs">>,
     <<Do("view", CallOf("read", <<V("m")>>)),
       If(Read("tag", V("qs")), 3, 6),
       Do("out", Alloc(0)), Do(None, SetOf(V("out"), 0, V("view"))), Return(V("out")),
       Do("q", GetOf(V("qs"), 0)), Do("rest", GetOf(V("qs"), 1)),
       Do("allowed", Admission(c)),
       Do("pair", CallOf(c.transition, <<V("s"), V("m"), V(c.request)>>)),
       Do("pair", c.pair),
       Do("next", GetOf(V("pair"), 0)),
       Do("event", IF c.event = 2 THEN GetOf(CallOf("perform", SMQ), 1)
                   ELSE GetOf(V("pair"), c.event)),
       Do("tail", CallOf(Entry, <<V("s"), V(c.next), V(c.rest)>>)),
       Do("out", Alloc(1)),
       Do(None, SetOf(V("out"), 0, V(c.view))), Do(None, SetOf(V("out"), 1, V("event"))),
       Do(None, SetOf(V("out"), 2, V("tail"))), Do(None, SetOf(V("out"), 3, V("allowed"))),
       Return(V("out"))>>))

Through == {V("pair"), CallOf("copy", <<V("pair")>>), CallOf("stamp", <<V("pair")>>)}
Choice == [transition : {"perform", "helper"}, request : {"q", "qs"}, pair : Through,
           event : {0, 1}, next : {"next", "m"}, rest : {"rest", "qs"},
           admitted : {"q", "rest"}, view : {"view", "m"}, key : {"reducedRun"}, checked : {"none"}]
Second == {[c EXCEPT !.event = 2] : c \in {d \in Choice : d.event = 1 /\ d.request = "q"}}
Masters == {[c EXCEPT !.key = "masterRun", !.checked = m] :
              c \in {d \in Choice : d.event = 1 /\ d.request = "q" /\ d.rest = "rest"},
              m \in {"field", "memory"}}
Runners == {Runner(c) : c \in Choice \cup Second \cup Masters}
HonestRunners ==
  {Runner([transition |-> t, request |-> "q", pair |-> p, event |-> 1, next |-> "next",
           rest |-> "rest", admitted |-> "q", view |-> "view", key |-> k, checked |-> "field"]) :
     t \in {"perform", "helper"}, p \in {V("pair"), CallOf("copy", <<V("pair")>>)},
     k \in {"reducedRun", "masterRun"}}

\* no request, or one
RunnerInputs ==
  {[heap |-> <<Cell(0, None, 0, (0 :> Imm(1)) @@ (1 :> Imm(2))),
               Cell(0, None, 0, (0 :> Imm(3)) @@ (1 :> Imm(4))),
               Cell(1, None, 0, (0 :> Imm(5)) @@ (1 :> Imm(0)))>>,
    args |-> <<Ptr(1), Ptr(2), qs>>, given |-> FALSE] : qs \in {Imm(0), Ptr(3)}}
=============================================================================
