----------------------------- MODULE EmittedCode ----------------------------
(***************************************************************************)
(* The C that Lean emits and what it does when it runs: the language and   *)
(* the object model that the analyses under scripts/ reason about.  The    *)
(* compiler and the runtime are not in the repository; they are modelled   *)
(* from the operations those analyses recognise.                           *)
(*                                                                         *)
(* A function is a record [params, nodes, large, key]: nodes are numbered  *)
(* from 1 and 0 is the end of the body; labels and gotos are already the   *)
(* numbers they lead to.  An expression is a record [op, args, n, fn].     *)
(* Reference counting (lean_inc, lean_dec), boxes and casts return their   *)
(* argument or nothing and are left out; a scalar field is a slot.  A      *)
(* value is an immediate or a pointer to a cell.                           *)
(***************************************************************************)
EXTENDS Integers, Sequences, SequencesExt, FiniteSets, TLC

CONSTANTS Helpers,        \* name -> function, the functions around a body
          Statics,        \* name -> object or constant of the module
          CutBackedges,   \* names whose loops are observed for one iteration
          Repeats         \* how often a statement may be met again in the others

None == "none"
Entry == "entry"

Ex(op, args, n, fn) == [op |-> op, args |-> args, n |-> n, fn |-> fn]
V(x) == Ex("var", <<>>, 0, x)
Lit(n) == Ex("lit", <<>>, n, None)
Alloc(n) == Ex("alloc", <<>>, n, None)
Closure(f, k) == Ex("closure", <<>>, k, f)
GetOf(e, s) == Ex("get", <<e>>, s, None)
SetOf(e, s, to) == Ex("set", <<e, to>>, s, None)
SetTag(e, n) == Ex("settag", <<e>>, n, None)
CallOf(f, args) == Ex("call", args, 0, f)
ApplyTo(f, args) == Ex("apply", <<f>> \o args, 0, None)
Read(what, e) == Ex("read", <<e>>, 0, what)
Prim(args) == Ex("prim", args, 0, "add")
Const(c) == Ex("const", <<>>, 0, c)
NatOf(e) == Ex("prim", <<e>>, 0, "nat")   \* lean_unsigned_to_nat

Node(kind, dst, e) == [kind |-> kind, dst |-> dst, expr |-> e, next |-> 0, yes |-> 0, no |-> 0]
Do(x, e) == Node("do", x, e)
Goto(x, e, next) == [Node("do", x, e) EXCEPT !.next = next]
If(e, yes, no) == [Node("if", None, e) EXCEPT !.yes = yes, !.no = no]
Return(e) == Node("return", None, e)

\* A body written in a row: a statement that leads nowhere leads to the next.
Fn(params, nodes) ==
  [params |-> params, large |-> FALSE, key |-> None,
   nodes |-> [i \in DOMAIN nodes |-> IF nodes[i].next = 0 THEN [nodes[i] EXCEPT !.next = i + 1]
                                     ELSE nodes[i]]]
Large(f) == [f EXCEPT !.large = TRUE]
For(key, f) == [f EXCEPT !.key = key]   \* the operation a body is checked as

\* What stands beside the functions: a closure without captures, a record of
\* names and numbers, a second name, or a constant that a function computes
\* when the module is loaded.
StaticClosure(f) == [kind |-> "closure", fn |-> f]
StaticRecord(tag, fields) == [kind |-> "record", tag |-> tag, fields |-> fields]
StaticAlias(name) == [kind |-> "alias", fn |-> name]
Initialised(f) == [kind |-> "initialised", fn |-> f]
StaticField(name) == <<"static", name>>

-----------------------------------------------------------------------------
Imm(n) == <<"imm", n>>
Ptr(k) == <<"ptr", k>>
IsPtr(v) == v[1] = "ptr"
Cell(tag, fn, fixed, fields) == [tag |-> tag, fn |-> fn, fixed |-> fixed, fields |-> fields]

\* The whole value read from a pointer: what a Lean object is, mathematically.
RECURSIVE Tree(_, _)
Tree(heap, v) ==
  IF ~IsPtr(v) THEN v
  ELSE LET c == heap[v[2]]
       IN <<"obj", c.tag, c.fn, [s \in DOMAIN c.fields |-> Tree(heap, c.fields[s])]>>

Trees(heap, vs) == [i \in DOMAIN vs |-> Tree(heap, vs[i])]

RECURSIVE ReachableCells(_, _)
ReachableCells(heap, vs) ==
  LET more == vs \cup UNION {Range(heap[v[2]].fields) : v \in {w \in vs : IsPtr(w)}}
  IN IF more = vs THEN vs ELSE ReachableCells(heap, more)

\* The variables and the fields of live cells that hold v.
References(env, heap, v) ==
  Cardinality({x \in DOMAIN env : env[x] = v})
  + Cardinality({<<c, s>> \in ReachableCells(heap, Range(env)) \X {0, 1, 2} :
                   IsPtr(c) /\ s \in DOMAIN heap[c[2]].fields /\ heap[c[2]].fields[s] = v})

\* cs: the heap; trace, the calls in order of return, each with the helpers
\* it was made under; clock, a source of new immediates; foreign, whether a helper wrote a cell
\* it was given; emitted, whether the compiler could have emitted this run:
\* every access has an object under it, and the body writes in place only a
\* cell that it alone refers to.
\* cx: the functions; the cells that existed when the frame began; whether
\* the frame is the body's; the helpers it runs under; whether the caller of the body gave its
\* arguments away; the values of the static names and the cells they take.
RECURSIVE Execute(_, _, _, _), Invoke(_, _, _, _), Run(_, _, _, _, _, _)

Allocate(cs, cell) == [cs EXCEPT !.heap = Append(@, cell)]
NotEmitted(cs) == [cs |-> [cs EXCEPT !.emitted = FALSE], v |-> Imm(0)]

Store(e, env, vs, cs, cx) ==
  LET k == vs[1][2]
      shared == (cx.body /\ References(env, cs.heap, vs[1]) > 1) \/ k \in cx.loaded
      cyclic == e.op = "set" /\ vs[1] \in ReachableCells(cs.heap, {vs[2]})
  IN IF ~IsPtr(vs[1]) \/ shared \/ cyclic THEN NotEmitted(cs)
     ELSE [cs |-> [cs EXCEPT
             !.heap[k] = IF e.op = "set" THEN [@ EXCEPT !.fields = (e.n :> vs[2]) @@ @]
                                         ELSE [@ EXCEPT !.tag = e.n],
             !.foreign = @ \/ (~cx.body /\ k <= cx.base)],
           v |-> Imm(0)]

Operate(e, env, vs, cs, cx) ==
  LET v == vs[1]
      new(cell) == [cs |-> Allocate(cs, cell), v |-> Ptr(Len(cs.heap) + 1)] IN
  CASE e.op = "lit"     -> [cs |-> cs, v |-> Imm(e.n)]
    [] e.op = "const"   -> [cs |-> cs, v |-> cx.statics[e.fn]]
    [] e.op = "alloc"   -> new(Cell(e.n, None, 0, <<>>))
    [] e.op = "closure" -> new(Cell(-1, e.fn, e.n, <<>>))
    [] e.op = "prim"    -> IF e.fn = "nat" THEN [cs |-> cs, v |-> v]
                           ELSE [cs |-> [cs EXCEPT !.clock = @ + 1], v |-> Imm(cs.clock)]
    [] e.op \in {"set", "settag"} -> Store(e, env, vs, cs, cx)
    [] e.op = "get"     -> IF IsPtr(v) /\ e.n \in DOMAIN cs.heap[v[2]].fields
                             THEN [cs |-> cs, v |-> cs.heap[v[2]].fields[e.n]]
                             ELSE NotEmitted(cs)
    [] e.op = "read"    -> [cs |-> cs,
                            v |-> IF e.fn = "exclusive"
                                    THEN Imm(IF cx.given /\ References(env, cs.heap, v) = 1 /\ v[2] \notin cx.loaded
                                           THEN 0 ELSE 1)
                                  ELSE IF IsPtr(v) THEN Imm(cs.heap[v[2]].tag) ELSE v]
    [] e.op = "call"    -> Invoke(e.fn, vs, cs, cx)
    [] e.op = "apply"   ->
         IF ~IsPtr(v) THEN [cs |-> cs, v |-> v]
         ELSE LET c == cs.heap[v[2]] IN
              IF c.fn = None \/ DOMAIN c.fields # 0..c.fixed - 1 THEN NotEmitted(cs)
              ELSE Invoke(c.fn, [i \in 1..c.fixed |-> c.fields[i - 1]] \o Tail(vs), cs, cx)

Execute(e, env, cs, cx) ==
  IF e.op = "var"
    THEN IF e.fn \in DOMAIN env THEN [cs |-> cs, v |-> env[e.fn]] ELSE NotEmitted(cs)
  ELSE LET args == FoldLeft(LAMBDA a, x :
                      LET r == Execute(x, env, a.cs, cx)
                      IN [cs |-> r.cs, vs |-> Append(a.vs, r.v)],
                      [cs |-> cs, vs |-> <<>>], e.args)
       IN IF ~args.cs.emitted THEN NotEmitted(args.cs)
          ELSE Operate(e, env, args.vs, args.cs, cx)

Invoke(name, vs, cs, cx) ==
  IF \/ name \notin DOMAIN cx.code
     \/ Len(vs) # Len(cx.code[name].params)
     \/ Cardinality({i \in DOMAIN cx.under : cx.under[i] = name}) > Repeats
    THEN NotEmitted(cs)
  ELSE LET f == cx.code[name]
           r == Run(name, 1, [x \in ToSet(f.params) |->
                                vs[CHOOSE i \in DOMAIN vs : f.params[i] = x]],
                    cs, <<>>, [cx EXCEPT !.base = Len(cs.heap), !.body = FALSE,
                                         !.under = Append(@, name)])
       IN IF ~r.cs.emitted THEN r
          ELSE [r EXCEPT !.cs.trace = Append(@, [name |-> name, under |-> ToSet(cx.under),
                                                 args |-> Trees(cs.heap, vs),
                                                 result |-> Tree(r.cs.heap, r.v)])]

\* One statement after the other. A loop observed for one iteration ends with
\* the arguments of the next.
Run(name, pc, env, cs, visited, cx) ==
  LET f == cx.code[name]
      met == Cardinality({i \in DOMAIN visited : visited[i] = pc}) IN
  IF ~cs.emitted THEN [cs |-> cs, v |-> Imm(0)]
  ELSE IF met > 0 /\ name \in CutBackedges
    THEN [cs |-> Allocate(cs, Cell(-1, None, 0,
                   [i \in 0..Len(f.params) - 1 |-> env[f.params[i + 1]]])),
          v |-> Ptr(Len(cs.heap) + 1)]
  ELSE IF pc = 0 \/ met > Repeats THEN NotEmitted(cs)
  ELSE LET node == f.nodes[pc]
           r == Execute(node.expr, env, cs, cx)
           after == Append(visited, pc)
       IN CASE node.kind = "return" -> r
            [] node.kind = "do" ->
                 Run(name, node.next, IF node.dst = None THEN env ELSE (node.dst :> r.v) @@ env,
                     r.cs, after, cx)
            [] node.kind = "if" ->
                 Run(name, IF r.v = Imm(0) THEN node.yes ELSE node.no, env, r.cs, after, cx)

\* The module as it is loaded: static objects have cells from the start,
\* constants are computed one after the other.
RECURSIVE Place(_, _)
Place(cells, name) == IF Statics[name].kind = "alias" THEN Place(cells, Statics[name].fn) ELSE Ptr(cells[name])

Load(start, cx) ==
  LET objects == SetToSeq({n \in DOMAIN Statics : Statics[n].kind \in {"closure", "record"}})
      cells == [n \in ToSet(objects) |-> Len(start.heap) + CHOOSE i \in DOMAIN objects : objects[i] = n]
      fieldOf(w) == IF w[1] = "static" THEN Place(cells, w[2]) ELSE w
      object(d) == IF d.kind = "closure" THEN Cell(-1, d.fn, 0, <<>>)
                   ELSE Cell(d.tag, None, 0, [s \in DOMAIN d.fields |-> fieldOf(d.fields[s])])
      placed == [start EXCEPT !.heap = @ \o [i \in DOMAIN objects |-> object(Statics[objects[i]])]]
      names == {n \in DOMAIN Statics : Statics[n].kind # "initialised"}
      computed == FoldLeft(LAMBDA a, n :
                             LET r == Run(Statics[n].fn, 1, <<>>, a.cs, <<>>, [cx EXCEPT !.statics = a.at])
                             IN [cs |-> r.cs, at |-> (n :> r.v) @@ a.at],
                           [cs |-> placed, at |-> [n \in names |-> Place(cells, n)]],
                           SetToSeq(DOMAIN Statics \ names))
  IN [cs |-> [computed.cs EXCEPT !.trace = <<>>],
      cx |-> [cx EXCEPT !.statics = computed.at,
                        !.loaded = Len(start.heap) + 1 .. Len(computed.cs.heap)]]

\* A run of a body on an input: the cells, the arguments among them, and
\* whether they were given away.
Outcome(body, input) ==
  LET ready == Load([heap |-> input.heap, trace |-> <<>>, clock |-> 1000,
                     foreign |-> FALSE, emitted |-> TRUE],
                    [code |-> (Entry :> body) @@ Helpers, base |-> 0, body |-> TRUE,
                     under |-> <<>>, given |-> input.given, statics |-> <<>>, loaded |-> {}])
      r == Run(Entry, 1, [x \in ToSet(body.params) |->
                            input.args[CHOOSE i \in DOMAIN body.params : body.params[i] = x]],
               ready.cs, <<>>, ready.cx)
  IN [value |-> Tree(r.cs.heap, r.v), trace |-> r.cs.trace,
      foreign |-> r.cs.foreign, emitted |-> r.cs.emitted]
=============================================================================
