--------------------------- MODULE UnifiedAnalysis --------------------------
(***************************************************************************)
(* The symbolic evaluation of scripts/unified_codegen_analysis.py (class   *)
(* Analysis) over the C that Lean emits.  It answers one of two questions  *)
(* of a function: between how many and how many times it applies a target, *)
(* or whether what it returns retains a value tagged archive.  Unlike      *)
(* FlowAnalysis it joins the paths of a function into one value.           *)
(*                                                                         *)
(* The checks of the agent (check-agent-codegen.py, AgentAnalysis) and of  *)
(* the variable master (check-variable-master-codegen.py, LocalAnalysis)   *)
(* ask the first question with calls cut, a recursion unfolded once, or    *)
(* results remembered by the structure of the arguments.                   *)
(***************************************************************************)
EXTENDS SymbolicStore

CONSTANTS Boundaries,  \* name -> "archive", "produced" or "live": not entered
                       \* when the question is retention
          Foreign      \* the helpers no artifact defines

ASSUME UnifiedAssumption == DOMAIN Boundaries \subseteq DOMAIN Helpers \ Foreign

\* A question: what is asked; the function asked about; the target counted; the
\* calls cut, always or when in progress already; the functions entered though
\* they lead to no target; whether results are remembered by structure; whether a
\* static record may hold a number.
Retention == [capture |-> TRUE, from |-> Entry, target |-> None, cut |-> {}, unfolded |-> {},
              kept |-> {}, shared |-> FALSE, boxed |-> FALSE]
Count(target) == [Retention EXCEPT !.capture = FALSE, !.target = target]
Agent(target, cut, unfolded) ==
  [Count(target) EXCEPT !.cut = cut, !.unfolded = unfolded, !.boxed = TRUE]
\* One node under another name, its recursion the target.
Alias == "one unfolding"
RecursiveTail == [Agent(Entry, {}, {}) EXCEPT !.from = Alias]
LocalChain(target, kept) == [Agent(target, {}, {}) EXCEPT !.kept = kept, !.shared = TRUE]

NoNumber == -1
Tagged(tags) == [tags |-> tags, fields |-> <<>>, fn |-> None, fixed |-> 0, number |-> NoNumber]
Blank == Tagged({})

\* Every tag a value can reach.
Retained(objs, v) == UNION {objs[w].tags : w \in ReachableObjects(objs, {v})}
RetainedByAny(objs, vs) == UNION {Retained(objs, vs[i]) : i \in DOMAIN vs}

\* A graph under another prefix: the deep copies of the script.
Relocated(objs, vs, prefix) ==
  [c \in {prefix \o v : v \in ReachableObjects(objs, vs)} |->
     [objs[Unprefixed(c, prefix)] EXCEPT !.fields = [s \in DOMAIN @ |-> prefix \o @[s]]]]

-----------------------------------------------------------------------------
(* A value that stands alone is a tree of the same records.                 *)

RECURSIVE Grown(_, _)
Grown(objs, v) == [objs[v] EXCEPT !.fields = [s \in DOMAIN @ |-> Grown(objs, @[s])]]

RECURSIVE Planted(_, _)
Planted(tree, id) ==
  (id :> [tree EXCEPT !.fields = [s \in DOMAIN @ |-> Append(id, s)]])
  @@ FoldLeft(LAMBDA objs, s : objs @@ Planted(tree.fields[s], Append(id, s)),
              <<>>, SetToSeq(DOMAIN tree.fields))

RECURSIVE TagsOf(_)
TagsOf(tree) == tree.tags \cup UNION {TagsOf(tree.fields[s]) : s \in DOMAIN tree.fields}

JoinFirst(trees) == trees[1]   \* one path speaks for all

\* What is known of a value that is one of several: their tags, all their
\* fields, and the function if they agree on it.
RECURSIVE Join(_)
Join(trees) ==
  IF Len(trees) = 1 THEN trees[1]
  ELSE LET fns == {trees[i].fn : i \in DOMAIN trees}
           tagged == Tagged(UNION {trees[i].tags : i \in DOMAIN trees})
           slots == UNION {DOMAIN trees[i].fields : i \in DOMAIN trees}
           of(i, s) == IF s \in DOMAIN trees[i].fields THEN trees[i].fields[s]
                       ELSE Tagged(trees[i].tags)
       IN [tagged EXCEPT
             !.fields = [s \in slots |-> Join([i \in DOMAIN trees |-> of(i, s)])],
             !.fn = IF Cardinality(fns) = 1 THEN trees[1].fn ELSE None,
             !.fixed = IF Cardinality(fns) = 1 THEN trees[1].fixed ELSE 0]

-----------------------------------------------------------------------------
(* The evaluation. cx: the question, the functions, those that lead to the  *)
(* target, and the calls in progress. A store has, besides its objects, the *)
(* results of calls so far by what their arguments retain (memo) and by     *)
(* their structure (runs), and the states a loop was met in (loops).        *)

Failed(why) == [err |-> why, st |-> <<>>, v |-> <<>>, outs |-> <<>>, lo |-> 0, hi |-> 0]
Gives(st, v, lo, hi) == [err |-> None, st |-> st, v |-> v, outs |-> <<>>, lo |-> lo, hi |-> hi]
Makes(st, d, lo, hi) == LET s == New(st, d) IN Gives(s, Newest(s), lo, hi)

ClosureRelevant(st, v, cx) ==
  \E w \in ReachableObjects(st.objs, {v}) :
    st.objs[w].fn \in DOMAIN cx.code /\ cx.relevant[st.objs[w].fn]
NeverPassed(st, vs, cx) == FALSE   \* closures are not looked into

ProducerPassed(st, vs, cx) == \E i \in DOMAIN vs : ClosureRelevant(st, vs[i], cx)

MaxLoops == 32
Rounds(cx) == IF cx.capture THEN 4 ELSE 1

\* What a static name stands for, made anew at each mention. A constant that is
\* computed has no text of its own and is never looked into.
RECURSIVE GlobalValue(_, _, _)
GlobalValue(name, st, cx) ==
  LET static == Statics[name]
      member(a, s) ==
        IF a.err # None THEN a
        ELSE LET w == static.fields[s]
                 r == IF w[1] = "static" THEN GlobalValue(w[2], a.st, cx)
                      ELSE IF cx.boxed THEN Makes(a.st, Blank, 0, 0)
                      ELSE Failed("unresolved static constructor field")
             IN IF r.err # None THEN r
                ELSE [a EXCEPT !.st = r.st, !.fields = (s :> r.v) @@ @]
  IN CASE static.kind = "closure" -> Makes(st, [Blank EXCEPT !.fn = static.fn], 0, 0)
       [] static.kind = "alias"   -> GlobalValue(static.fn, st, cx)
       [] static.kind = "initialised" -> Makes(st, Blank, 0, 0)
       [] static.kind = "record"  ->
            LET all == FoldLeft(member, [err |-> None, st |-> st, fields |-> <<>>],
                                SetToSeq(DOMAIN static.fields))
            IN IF all.err # None THEN all
               ELSE Makes(all.st, [Blank EXCEPT !.fields = all.fields], 0, 0)

RECURSIVE Evaluate(_, _, _, _), Recall(_, _, _, _), Call(_, _, _, _), Settle(_, _, _, _, _, _), Walk(_, _, _, _, _, _, _, _)

Slot(st, v, s) ==
  IF s \in DOMAIN st.objs[v].fields THEN Gives(st, st.objs[v].fields[s], 0, 0)
  ELSE Makes(st, Tagged(st.objs[v].tags), 0, 0)

\* An operation on values that are evaluated; it adds nothing to the counts
\* unless it calls.
Apply(e, vs, st, cx) ==
  LET first == st.objs[vs[1]] IN
  CASE e.op = "lit"     -> Makes(st, [Blank EXCEPT !.number = e.n], 0, 0)
    [] e.op = "const"   -> GlobalValue(e.fn, st, cx)
    [] e.op = "alloc"   -> Makes(st, Blank, 0, 0)
    [] e.op = "closure" -> Makes(st, [Blank EXCEPT !.fn = e.fn, !.fixed = e.n], 0, 0)
    [] e.op = "set"     -> Makes([st EXCEPT !.objs[vs[1]].fields = (e.n :> vs[2]) @@ @], Blank, 0, 0)
    [] e.op = "get"     -> Slot(st, vs[1], e.n)
    [] e.op \in {"prim", "read", "settag"} -> Makes(st, Tagged(RetainedByAny(st.objs, vs)), 0, 0)
    [] e.op = "call"    -> Recall(e.fn, vs, st, cx)
    [] e.op = "apply"   ->
         IF first.fn = None
           THEN IF first.number # NoNumber THEN Gives(st, vs[1], 0, 0)
                ELSE Failed("unresolved applied closure")
         ELSE LET bound == FoldLeft(LAMBDA a, i : LET g == Slot(a.st, vs[1], i)
                                                  IN [st |-> g.st, vs |-> Append(a.vs, g.v)],
                                    [st |-> st, vs |-> <<>>], [i \in 1..first.fixed |-> i - 1])
              IN Recall(first.fn, bound.vs \o Tail(vs), bound.st, cx)

Evaluate(e, env, st, cx) ==
  IF e.op = "var"
    THEN IF e.fn \in DOMAIN env THEN Gives(st, env[e.fn], 0, 0) ELSE Makes(st, Blank, 0, 0)
  ELSE LET args == FoldLeft(LAMBDA a, x :
                      IF a.err # None THEN a
                      ELSE LET r == Evaluate(x, env, a.st, cx) IN
                           IF r.err # None THEN r
                           ELSE [a EXCEPT !.st = r.st, !.outs = Append(@, r.v),
                                          !.lo = @ + r.lo, !.hi = @ + r.hi],
                      Gives(st, <<>>, 0, 0), e.args)
           r == IF args.err # None THEN args ELSE Apply(e, args.outs, args.st, cx)
       IN IF r.err # None THEN r
          ELSE Gives(r.st, r.v, args.lo + r.lo, args.hi + r.hi)

\* A structure met before has the result it had, as a copy.
Recall(name, vs, st, cx) ==
  LET key == <<name, [i \in DOMAIN vs |-> Grown(st.objs, vs[i])]>>
      place == <<st.serial + 1>> IN
  IF ~cx.shared THEN Call(name, vs, st, cx)
  ELSE IF key \in DOMAIN st.runs
    THEN LET known == st.runs[key] IN
         Gives([st EXCEPT !.objs = @ @@ Planted(known.tree, place), !.serial = @ + 1],
               place, known.lo, known.hi)
  ELSE LET r == Call(name, vs, st, cx) IN
       IF r.err # None THEN r
       ELSE [r EXCEPT !.st.runs =
               (key :> [tree |-> Grown(r.st.objs, r.v), lo |-> r.lo, hi |-> r.hi]) @@ @]

Call(name, vs, st, cx) ==
  LET signature == <<name, [i \in DOMAIN vs |-> Retained(st.objs, vs[i])]>>
      arity == IF name \in DOMAIN cx.code THEN Len(cx.code[name].params) ELSE 0
      known == IF signature \in DOMAIN st.memo THEN st.memo[signature] ELSE Blank IN
  IF cx.capture /\ name \in DOMAIN Boundaries
    THEN IF arity # Len(vs) THEN Failed("boundary arity")
         ELSE Makes(st, Tagged(IF Boundaries[name] = "archive" THEN {"archive"} ELSE {}), 0, 0)
  ELSE IF name \in cx.cut \/ (name \in cx.unfolded /\ \E frame \in cx.stack : frame[1] = name)
    THEN Makes(st, Blank, 0, 0)
  ELSE IF name = cx.target THEN Makes(st, Blank, 1, 1)
  ELSE IF name \notin DOMAIN cx.code
    THEN IF ProducerPassed(st, vs, cx) THEN Failed("unknown helper receives a producer closure")
         ELSE Makes(st, Tagged(RetainedByAny(st.objs, vs)), 0, 0)
  ELSE IF ~cx.capture /\ ~cx.relevant[name] /\ ~ProducerPassed(st, vs, cx)
    THEN Makes(st, Blank, 0, 0)
  ELSE IF signature \in cx.stack
    THEN IF ~cx.capture THEN Failed("upstream cycle")
         ELSE Gives([st EXCEPT !.objs = @ @@ Planted(known, <<st.serial + 1>>), !.serial = @ + 1],
                    <<st.serial + 1>>, 0, 0)
  ELSE IF arity # Len(vs) THEN Failed("arity")
  ELSE Settle(1, known, signature, vs, st, [cx EXCEPT !.stack = @ \cup {signature}])

Least(r) == Min({r.outs[i].lo : i \in DOMAIN r.outs})
Most(r) == Max({r.outs[i].hi : i \in DOMAIN r.outs})

Stable(previous, result) == TagsOf(result) = TagsOf(previous)

\* A round evaluates every path on fresh copies of the arguments; the rounds
\* end when the result retains what the one before it did.
Settle(round, previous, signature, vs, st, cx) ==
  LET name == signature[1]
      f == cx.code[name]
      fresh == <<st.serial + 1>>
      r == Walk(name, 1, [x \in ToSet(f.params) |->
                            fresh \o vs[CHOOSE i \in DOMAIN vs : f.params[i] = x]],
                [st EXCEPT !.objs = Relocated(@, ToSet(vs), fresh), !.serial = @ + 1, !.loops = {}],
                {}, 0, 0, cx) IN
  IF r.err # None THEN r
  ELSE IF r.outs = <<>> THEN Failed("no reachable return")
  ELSE LET result == Join([i \in DOMAIN r.outs |-> Grown(r.outs[i].objs, r.outs[i].v)])
           place == <<r.st.serial + 1>>
           kept == IF Len(r.outs) = 1   \* the only value is returned as it is
                     THEN [objs |-> Relocated(r.outs[1].objs, {r.outs[1].v}, place),
                           v |-> place \o r.outs[1].v]
                     ELSE [objs |-> Planted(result, place), v |-> place]
           settled == [objs |-> st.objs @@ kept.objs, serial |-> r.st.serial + 1,
                       memo |-> (signature :> result) @@ r.st.memo, runs |-> r.st.runs,
                       loops |-> st.loops]
       IN IF Stable(previous, result) THEN Gives(settled, kept.v, Least(r), Most(r))
          ELSE IF round = Rounds(cx) THEN Failed("capture summary did not converge")
          ELSE Settle(round + 1, result, signature, vs,
                      [settled EXCEPT !.objs = st.objs], cx)

\* The environment a loop is gone through with again: each variable keeps
\* its tags and loses its fields.
Widened(env, st) ==
  LET xs == SetToSeq(DOMAIN env)
      id(i) == <<st.serial + i>>
      old(i) == st.objs[env[xs[i]]]
      tags(i) == Retained(st.objs, env[xs[i]]) IN
  [env |-> [x \in DOMAIN env |-> id(CHOOSE i \in DOMAIN xs : xs[i] = x)],
   st |-> [st EXCEPT !.serial = @ + Len(xs),
             !.objs = [v \in {id(i) : i \in DOMAIN xs} |->
                         LET i == v[1] - st.serial
                         IN [old(i) EXCEPT !.tags = tags(i), !.fields = <<>>]]],
   summary |-> [x \in DOMAIN env |->
                  LET i == CHOOSE j \in DOMAIN xs : xs[j] = x
                  IN [old(i) EXCEPT !.tags = tags(i), !.fields = <<>>]]]

\* The values returned on every path from pc and the counts along it.
Walk(name, pc, env, st, path, lo, hi, cx) ==
  IF pc = 0 THEN Failed("path without return")
  ELSE IF pc \in path
    THEN LET w == Widened(env, st)
             met == <<pc, w.summary>> IN
         IF ~cx.capture THEN Failed("sensitive loop")
         ELSE IF met \in st.loops THEN Gives(st, <<>>, 0, 0)   \* its exits are explored
         ELSE IF Cardinality(st.loops) >= MaxLoops THEN Failed("unresolved loop summary")
         ELSE Walk(name, pc, w.env, [w.st EXCEPT !.loops = @ \cup {met}], {}, lo, hi, cx)
  ELSE LET node == cx.code[name].nodes[pc]
           r == Evaluate(node.expr, env, st, cx)
           on(next, e, s) == Walk(name, next, e, s, path \cup {pc}, lo + r.lo, hi + r.hi, cx) IN
  IF r.err # None THEN r
  ELSE CASE node.kind = "return" ->
              [r EXCEPT !.outs = <<[v |-> r.v, objs |-> r.st.objs, lo |-> lo + r.lo, hi |-> hi + r.hi]>>]
         [] node.kind = "do" ->
              on(node.next, IF node.dst = None THEN env ELSE (node.dst :> r.v) @@ env, r.st)
         [] node.kind = "if" ->
              LET yes == on(node.yes, env, r.st)
                  no == on(node.no, env, [yes.st EXCEPT !.objs = r.st.objs])
              IN IF yes.err # None THEN yes
                 ELSE IF no.err # None THEN no
                 ELSE [no EXCEPT !.outs = yes.outs \o @]

\* The analysis of a body; the arguments are archives when the question is
\* what is retained.
Inspect(body, asked) ==
  LET code == [n \in (DOMAIN Helpers \ Foreign) \cup {Entry, asked.from} |->
                 IF n \in {Entry, Alias} THEN body ELSE Helpers[n]]
      st == FoldLeft(LAMBDA s, x : New(s, Tagged(IF asked.capture THEN {"archive"} ELSE {})),
                     [objs |-> <<>>, serial |-> 0, memo |-> <<>>, runs |-> <<>>, loops |-> {}],
                     body.params)
      relevant == [n \in DOMAIN code |->
                     n \in asked.kept \/ asked.target \in ReferencesFrom(code, {n})]
      r == Recall(asked.from, [i \in DOMAIN body.params |-> <<i>>], st,
               [code |-> code, stack |-> {}, relevant |-> relevant] @@ asked)
  IN [err |-> r.err, lo |-> r.lo, hi |-> r.hi,
      retained |-> IF r.err # None THEN {} ELSE Retained(r.st.objs, r.v),
      fields |-> IF r.err # None THEN <<>>
                 ELSE LET value == r.st.objs[r.v]
                      IN [s \in DOMAIN value.fields |-> Retained(r.st.objs, value.fields[s])]]
=============================================================================
