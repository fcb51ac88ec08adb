---------------------------- MODULE FlowAnalysis ----------------------------
(***************************************************************************)
(* The symbolic walk of scripts/integrated_machine_analysis.py (class      *)
(* Flow) over the C that Lean emits.  A body is a graph of statements; the *)
(* walk follows every path of it with one symbolic object per C pointer    *)
(* and returns, for each path, the object returned and the calls made.     *)
(***************************************************************************)
EXTENDS SymbolicStore

CONSTANTS Unfold,               \* names always followed
          Terminals,            \* names that are checked summaries: never followed
          Ambiguous             \* names defined by several artifacts

-----------------------------------------------------------------------------
(* Symbolic objects.                                                        *)

Datum(origin) == [origin |-> origin, fields |-> <<>>, tag |-> -1, fn |-> None,
                  fixed |-> 0, borrowed |-> {}]

GetUnwritten(st, v, slot) ==   \* a write that the reads after it miss
  LET made == New(st, Datum(<<"field", st.objs[v].origin, slot>>))
  IN [st |-> made, v |-> Newest(made)]

\* A field never written has the path to it as its origin. The object that
\* stands for it is not kept: a second read makes another one.
Get(st, v, slot) ==
  LET d == st.objs[v] IN
  IF slot \in DOMAIN d.fields
    THEN [st |-> st, v |-> d.fields[slot]]
    ELSE LET made == New(st, [Datum(<<"field", d.origin, slot>>)
                                EXCEPT !.borrowed = d.borrowed])
         IN [st |-> made, v |-> Newest(made)]

\* What two objects are compared by. A written object is its fields.
RECURSIVE Frozen(_, _)
Frozen(objs, v) ==
  LET d == objs[v] IN
  IF d.fields # <<>>
    THEN <<"record", d.tag, d.fn, d.fixed,
           [s \in DOMAIN d.fields |-> Frozen(objs, d.fields[s])]>>
  ELSE IF d.fn # None \/ d.tag # -1
    THEN <<"object", d.origin, d.tag, d.fn, d.fixed>>
  ELSE d.origin

CopiedShallow(objs, vs, prefix, frames) ==   \* only the roots are lent
  [c \in {prefix \o v : v \in ReachableObjects(objs, vs)} |->
     LET v == Unprefixed(c, prefix)
     IN [objs[v] EXCEPT !.fields = [s \in DOMAIN @ |-> prefix \o @[s]],
                        !.borrowed = @ \cup (IF v \in vs THEN frames ELSE {})]]

\* The graphs of vs in objs, copied under a prefix and lent to frames.
Copied(objs, vs, prefix, frames) ==
  [c \in {prefix \o v : v \in ReachableObjects(objs, vs)} |->
     LET d == objs[Unprefixed(c, prefix)]
     IN [d EXCEPT !.fields = [s \in DOMAIN @ |-> prefix \o @[s]],
                  !.borrowed = @ \cup frames]]

-----------------------------------------------------------------------------
(* Which helpers are followed.                                              *)

Reachable(name) == ReferencesFrom(Helpers, {name})

\* Variables every assignment of which is an allocation or such a variable.
RECURSIVE FreshLocals(_, _)
FreshLocals(f, fresh) ==
  LET values(x) == {f.nodes[i].expr : i \in {j \in DOMAIN f.nodes : f.nodes[j].dst = x}}
      targets == {f.nodes[i].dst : i \in DOMAIN f.nodes} \ (ToSet(f.params) \cup {None})
      added == {x \in targets \ fresh :
                  \A e \in values(x) : \/ e.op \in {"alloc", "closure"}
                                       \/ e.op = "var" /\ e.fn \in fresh}
  IN IF added = {} THEN fresh ELSE FreshLocals(f, fresh \cup added)

WritesElsewhere(f) ==
  \E e \in Expressions(f) :
    /\ e.op \in {"set", "settag"}
    /\ ~(e.args[1].op = "var" /\ e.args[1].fn \in FreshLocals(f, {}))

TransparentProjection(f) ==   \* a record is no longer followed
  ~f.large /\ \A e \in Expressions(f) : e.op \in {"var", "lit", "get"}

Transparent(f) ==
  /\ ~f.large
  /\ \A e \in Expressions(f) :
       \/ e.op \in {"var", "lit", "const", "get", "set", "settag", "alloc"}
       \/ e.op = "read" /\ e.fn = "exclusive"

\* expand: whether a possible writer is always followed.
Following(expand) ==
  [name \in DOMAIN Helpers \cup {Entry} |->
     /\ name \notin Terminals
     /\ \/ name \in Unfold \cup {Entry}
        \/ (Unfold \cup Terminals \cup {Entry}) \cap Reachable(name) # {}
        \/ /\ expand
           /\ \E g \in Reachable(name) : WritesElsewhere(Helpers[g])
        \/ Transparent(Helpers[name])]
ShouldUnfold == Following(TRUE)
NotWriters == Following(FALSE)

-----------------------------------------------------------------------------
(* The walk. Every operator returns the error met, if any, and the outcomes *)
(* of all the paths, in order. A context holds the functions, the helpers   *)
(* that are to be followed, those being followed and their frames.          *)

Refused(why) == [err |-> why, st |-> <<>>, outs |-> <<>>]
Single(st, v, calls) == [err |-> None, st |-> st, outs |-> <<[v |-> v, calls |-> calls]>>]
Snapshot(objs, vs) == [i \in DOMAIN vs |-> Frozen(objs, vs[i])]

BorrowedWrite == "helper mutates borrowed input"
AliasWrite == "write through returned helper alias"
WriteRefusal(d, ctx) == IF d.borrowed \cap ctx.frames # {} THEN BorrowedWrite ELSE AliasWrite

RECURSIVE Evaluate(_, _, _, _), Call(_, _, _, _), Walk(_, _, _, _, _, _, _, _)

\* One more argument for every list of arguments so far. The store is one
\* for all of them.
EvaluateNext(acc, arg, env, ctx) ==
  FoldLeft(LAMBDA a, w :
             IF a.err # None THEN a
             ELSE LET r == Evaluate(arg, env, a.st, ctx) IN
                  IF r.err # None THEN Refused(r.err)
                  ELSE [a EXCEPT !.st = r.st,
                                 !.outs = @ \o [i \in DOMAIN r.outs |->
                                    [vs |-> Append(w.vs, r.outs[i].v),
                                     calls |-> w.calls \o r.outs[i].calls]]],
           [acc EXCEPT !.outs = <<>>], acc.outs)

\* What a static name stands for, made anew at each mention. The first error
\* among the fields is the record's.
RECURSIVE GlobalValue(_, _)
GlobalValue(name, st) ==
  LET static == Statics[name]
      made(s, d) == LET after == New(s, d) IN Single(after, Newest(after), <<>>)
      member(a, s) ==
        IF a.err # None THEN a
        ELSE LET w == static.fields[s]
                 r == IF w[1] = "static" THEN GlobalValue(w[2], a.st)
                      ELSE made(a.st, Datum(<<"literal", w[2]>>))
             IN IF r.err # None THEN Refused(r.err)
                ELSE [a EXCEPT !.st = r.st, !.fields = (s :> r.outs[1].v) @@ @]
  IN CASE static.kind = "closure" -> made(st, [Datum(<<"unknown">>) EXCEPT !.fn = static.fn])
       [] static.kind = "alias"   -> GlobalValue(static.fn, st)
       [] static.kind = "record"  ->
            LET all == FoldLeft(member, [err |-> None, st |-> st, fields |-> <<>>],
                                SetToSeq(DOMAIN static.fields))
            IN IF all.err # None THEN all
               ELSE made(all.st, [Datum(<<"global", name>>) EXCEPT !.tag = static.tag,
                                                                  !.fields = all.fields])
       [] static.kind = "initialised" -> Refused("static object")

Written(st, v, d) == New([st EXCEPT !.objs[v] = d], Datum(<<"erased">>))

Apply(e, vs, st, ctx) ==
  LET first == st.objs[vs[1]]
      made(d) == LET s == New(st, d) IN Single(s, Newest(s), <<>>)
      serial == st.serial + 1 IN
  CASE e.op = "lit"    -> made(Datum(<<"literal", e.n>>))
    [] e.op = "const"  -> GlobalValue(e.fn, st)
    [] e.op = "alloc"  -> made([Datum(<<"allocation", serial>>) EXCEPT !.tag = e.n])
    [] e.op = "closure" -> made([Datum(<<"unknown">>) EXCEPT !.fn = e.fn, !.fixed = e.n])
    [] e.op = "read"   -> made(Datum(<<"read", e.fn, Frozen(st.objs, vs[1])>>))
    [] e.op = "prim"   -> made(Datum(<<"primitive", serial, e.fn, Snapshot(st.objs, vs)>>))
    [] e.op = "get"    -> LET g == Get(st, vs[1], e.n) IN Single(g.st, g.v, <<>>)
    [] e.op \in {"set", "settag"} ->
         IF first.borrowed # {} THEN Refused(WriteRefusal(first, ctx))
         ELSE LET s == Written(st, vs[1],
                         IF e.op = "set"
                           THEN [first EXCEPT !.fields = (e.n :> vs[2]) @@ @]
                           ELSE [first EXCEPT !.tag = e.n])
              IN Single(s, Newest(s), <<>>)
    [] e.op = "call"   -> Call(e.fn, vs, st, ctx)
    [] e.op = "apply"  ->
         IF first.fn = None
           THEN IF first.origin[1] = "literal" THEN Single(st, vs[1], <<>>)
                ELSE Refused("unresolved applied closure")
         ELSE LET bound == FoldLeft(LAMBDA a, i :
                             LET g == Get(a.st, vs[1], i)
                             IN [st |-> g.st, vs |-> Append(a.vs, g.v)],
                             [st |-> st, vs |-> <<>>],
                             [i \in 1..first.fixed |-> i - 1])
              IN Call(first.fn, bound.vs \o Tail(vs), bound.st, ctx)

Evaluate(e, env, st, ctx) ==
  IF e.op = "var"
    THEN IF e.fn \in DOMAIN env THEN Single(st, env[e.fn], <<>>)
         ELSE Refused("expression")
  ELSE LET args == FoldLeft(LAMBDA acc, arg :
                      IF acc.err # None THEN acc ELSE EvaluateNext(acc, arg, env, ctx),
                      [err |-> None, st |-> st, outs |-> <<[vs |-> <<>>, calls |-> <<>>]>>],
                      e.args)
       IN IF args.err # None THEN Refused(args.err)
          ELSE FoldLeft(LAMBDA a, w :
                  IF a.err # None THEN a
                  ELSE LET r == Apply(e, w.vs, a.st, ctx) IN
                       IF r.err # None THEN Refused(r.err)
                       ELSE [a EXCEPT !.st = r.st,
                                      !.outs = @ \o [i \in DOMAIN r.outs |->
                                         [r.outs[i] EXCEPT !.calls = w.calls \o @]]],
                  [err |-> None, st |-> args.st, outs |-> <<>>], args.outs)

\* A call of a helper that is not followed is one opaque result. One that is
\* followed works on copies of its arguments, lent for the call.
Call(name, vs, st, ctx) ==
  IF name \in Ambiguous THEN Refused("ambiguous owner")
  ELSE IF name \notin DOMAIN ctx.code THEN Refused("missing definition")
  ELSE IF Len(vs) # Len(ctx.code[name].params) THEN Refused("arity")
  ELSE LET before == Snapshot(st.objs, vs)
           record(objs, v) == [name |-> name, args |-> before, result |-> Frozen(objs, v)] IN
  IF ~ctx.follow[name]
    THEN LET s == New(st, Datum(<<"result", st.serial + 1, name>>))
         IN Single(s, Newest(s), <<record(s.objs, Newest(s))>>)
  ELSE IF name \in ctx.stack THEN Refused("sensitive helper cycle")
  ELSE LET f == ctx.code[name]
           frame == st.serial + 1
           lent == Copied(st.objs, ToSet(vs), <<frame>>, {frame})
           r == Walk(name, 1, [x \in ToSet(f.params) |->
                                 <<frame>> \o vs[CHOOSE i \in DOMAIN vs : f.params[i] = x]],
                     [objs |-> lent, serial |-> frame], {}, <<>>, <<>>,
                     [ctx EXCEPT !.stack = @ \cup {name}, !.frames = @ \cup {frame}])
           place(i) == <<r.st.serial + i>>
       IN IF r.err # None THEN Refused(r.err)
          ELSE [err |-> None,
                st |-> [objs |-> FoldLeft(LAMBDA o, i :
                                   o @@ Copied(r.outs[i].objs, {r.outs[i].v}, place(i), {}),
                                   st.objs, [i \in DOMAIN r.outs |-> i]),
                        serial |-> r.st.serial + Len(r.outs)],
                outs |-> [i \in DOMAIN r.outs |->
                   [v |-> place(i) \o r.outs[i].v,
                    calls |-> Append(r.outs[i].calls, record(r.outs[i].objs, r.outs[i].v))]]]

\* The paths from pc, one copy of the store for each. A condition read once
\* has its answer for the rest of the path.
Walk(name, pc, env, st, visited, calls, facts, ctx) ==
  LET f == ctx.code[name]
      along(r, next(_, _)) ==     \* the paths of each outcome, the serial threaded
        FoldLeft(LAMBDA a, o :
                   IF a.err # None THEN a
                   ELSE LET w == next(o, [objs |-> r.st.objs, serial |-> a.st.serial]) IN
                        IF w.err # None THEN Refused(w.err)
                        ELSE [a EXCEPT !.st = w.st, !.outs = @ \o w.outs],
                 [err |-> None, st |-> r.st, outs |-> <<>>], r.outs)
  IN
  IF pc \in visited /\ name \in CutBackedges
    THEN LET s == New(st, [Datum(<<"loop", name>>)
                             EXCEPT !.fields = [i \in 0..Len(f.params) - 1 |-> env[f.params[i + 1]]]])
         IN [err |-> None, st |-> s,
             outs |-> <<[v |-> Newest(s), objs |-> s.objs, calls |-> calls]>>]
  ELSE IF pc = 0 \/ pc \in visited THEN Refused("path without return or cycle")
  ELSE LET node == f.nodes[pc]
           r == Evaluate(node.expr, env, st, ctx) IN
  IF r.err # None THEN Refused(r.err)
  ELSE CASE node.kind = "return" ->
         [err |-> None, st |-> r.st,
          outs |-> [i \in DOMAIN r.outs |->
                      [v |-> r.outs[i].v, objs |-> r.st.objs, calls |-> calls \o r.outs[i].calls]]]
    [] node.kind = "do" ->
         along(r, LAMBDA o, s :
           Walk(name, node.next, IF node.dst = None THEN env ELSE (node.dst :> o.v) @@ env,
                s, visited \cup {pc}, calls \o o.calls, facts, ctx))
    [] node.kind = "if" ->
         along(r, LAMBDA o, s :
           LET key == Frozen(r.st.objs, o.v)
               known == {i \in DOMAIN facts : facts[i].key = key}
               choices == IF known = {} THEN <<0, 1>>
                          ELSE <<facts[CHOOSE i \in known : TRUE].choice>>
           IN FoldLeft(LAMBDA a, c :
                IF a.err # None THEN a
                ELSE LET w == Walk(name, IF c = 0 THEN node.yes ELSE node.no, env,
                                   [s EXCEPT !.serial = a.st.serial], visited \cup {pc},
                                   calls \o o.calls, Append(facts, [key |-> key, choice |-> c]), ctx)
                     IN IF w.err # None THEN Refused(w.err)
                        ELSE [a EXCEPT !.st = w.st, !.outs = @ \o w.outs],
                [err |-> None, st |-> s, outs |-> <<>>], choices))

\* The analysis of a body whose arguments are the parameters it is given:
\* the error, or for each path the value returned and the calls, frozen.
Inspect(body, expand) ==
  LET st == FoldLeft(LAMBDA s, i : New(s, Datum(<<"parameter", i>>)),
                     [objs |-> <<>>, serial |-> 0], [i \in DOMAIN body.params |-> i])
      r == Walk(Entry, 1, [x \in ToSet(body.params) |->
                             <<CHOOSE i \in DOMAIN body.params : body.params[i] = x>>],
                st, {}, <<>>, <<>>,
                [code |-> (Entry :> body) @@ Helpers,
                 follow |-> IF expand THEN ShouldUnfold ELSE NotWriters,
                 stack |-> {}, frames |-> {}])
  IN [err |-> r.err,
      paths |-> [i \in DOMAIN r.outs |->
                   [value |-> Frozen(r.outs[i].objs, r.outs[i].v),
                    origin |-> r.outs[i].objs[r.outs[i].v].origin, calls |-> r.outs[i].calls]]]
=============================================================================
