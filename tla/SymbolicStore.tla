---------------------------- MODULE SymbolicStore ---------------------------
(***************************************************************************)
(* What the symbolic analyses of scripts/ share: stores of symbolic        *)
(* objects and the references of a function.  A store [objs, serial, ...]  *)
(* maps an identity to an object with its fields; an identity is a         *)
(* sequence of serial numbers, so that the copies of a graph are the same  *)
(* graph under one more prefix.                                            *)
(***************************************************************************)
EXTENDS EmittedCode

New(st, d) == [st EXCEPT !.objs = (<<st.serial + 1>> :> d) @@ @, !.serial = @ + 1]
Newest(st) == <<st.serial>>

RECURSIVE ReachableObjects(_, _)
ReachableObjects(objs, vs) ==
  LET more == vs \cup UNION {Range(objs[v].fields) : v \in vs}
  IN IF more = vs THEN vs ELSE ReachableObjects(objs, more)

Unprefixed(v, prefix) == SubSeq(v, Len(prefix) + 1, Len(v))

RECURSIVE Parts(_)
Parts(e) == {e} \cup UNION {Parts(e.args[i]) : i \in DOMAIN e.args}

Expressions(f) == UNION {Parts(f.nodes[i].expr) : i \in DOMAIN f.nodes}

\* The functions a static name leads to.
RECURSIVE Led(_)
Led(static) ==
  CASE static.kind \in {"closure", "initialised"} -> {static.fn}
    [] static.kind = "alias"  -> Led(Statics[static.fn])
    [] static.kind = "record" ->
         UNION {Led(Statics[w[2]]) : w \in {u \in Range(static.fields) : u[1] = "static"}}

\* The functions that names lead to, by a call, a closure or a static name.
RECURSIVE ReferencesFrom(_, _)
ReferencesFrom(code, names) ==
  LET mentioned == {e.fn : e \in {x \in UNION {Expressions(code[n]) : n \in names} :
                                    x.op \in {"call", "closure"}}}
                   \cup UNION {Led(Statics[e.fn]) : e \in {x \in UNION {Expressions(code[n]) : n \in names} :
                                                           x.op = "const"}}
      more == names \cup (mentioned \cap DOMAIN code)
  IN IF more = names THEN names ELSE ReferencesFrom(code, more)
=============================================================================
