-------------------------- MODULE EmittedOperations --------------------------
(* Bodies of the operations of the integrated machine: emitted as their    *)
(* form says, and with one thing wrong.                                    *)
EXTENDS MachineContracts

ParameterNames == <<"a", "b", "c", "d">>
Temps == <<"t1", "t2", "t3", "t4", "t5", "t6", "t7", "t8", "t9">>
Slots == <<0, 1, 2, 3, 4>>

Under(leaves, at) == \E p \in DOMAIN leaves : IsPrefix(at, p)

\* Statements that put together a record from its leaves, an expression for
\* each path; used: how many variables are taken.
RECURSIVE Build(_, _, _)
Build(leaves, at, acc) ==
  IF at \in DOMAIN leaves THEN [acc EXCEPT !.expr = leaves[at]]
  ELSE LET name == Temps[acc.used + 1]
           start == [acc EXCEPT !.nodes = Append(@, Do(name, Alloc(acc.tag))),
                                !.used = @ + 1, !.expr = V(name)]
       IN FoldLeft(LAMBDA a, s :
            IF ~Under(leaves, Append(at, s)) THEN a
            ELSE LET sub == Build(leaves, Append(at, s), a)
                 IN [sub EXCEPT !.nodes = Append(@, Do(None, SetOf(V(name), s, sub.expr))),
                                !.expr = V(name)],
            start, Slots)

Nothing(tag) == [nodes |-> <<>>, used |-> 0, expr |-> Lit(0), tag |-> tag]
Leaves(value, Leaf(_)) ==
  [p \in {v[1] : v \in value} |-> Leaf((CHOOSE v \in value : v[1] = p)[2])]

-----------------------------------------------------------------------------
(* Terms used of a parameter or of a result, over all the forms: the fields *)
(* an argument or a result must have.                                       *)
TermsOf(form) ==
  UNION {ToSet(c.args) : c \in ToSet(form.calls)} \cup {v[2] : v \in form.value}
Everywhere == UNION {TermsOf(Forms[k]) : k \in DOMAIN Forms}
FieldsOf(terms, base) ==
  LET slots == {t[3] : t \in {u \in terms : u[1] = base[1] /\ u[2] = base[2]}}
      inner == {s \in slots : \E t \in slots : s # t /\ IsPrefix(s, t)}
  IN (slots \ inner) \cup {<<>>}

Shaped(fields) == IF fields = {<<>>} THEN {<<>>} ELSE fields \ {<<>>}
Fresh(fields) == [p \in Shaped(fields) |-> Prim(<<>>)]

\* A called operation: a new record with the fields that are read from it.
Operation(name) ==
  LET made == Build(Fresh(FieldsOf(Everywhere, <<"result", name>>)), <<>>, Nothing(0))
  IN Fn(SubSeq(ParameterNames, 1, Arity[name]), Append(made.nodes, Return(made.expr)))

OperationHelpers ==
  [name \in DOMAIN Arity \ {"selected"} |-> Operation(name)] @@
  ("selected" :> Fn(<<"a">>, <<Return(GetOf(GetOf(V("a"), 0), 0))>>)) @@
  ("keep" :> Fn(<<"a">>, <<Return(V("a"))>>)) @@
  ("mark" :> Fn(<<"a">>, <<Do(None, SetOf(V("a"), 0, Lit(3))), Return(V("a"))>>)) @@
  ("brand" :> Large(Fn(<<"a">>, <<Do(None, SetOf(V("a"), 0, Lit(3))), Return(V("a"))>>)))

\* Arguments with the fields the form of an operation reads, of either tag.
FormNames(key) == IF key = "gateList" THEN {"gateList", "gateList again"} ELSE {key}
ArgumentsFor(key, tag) ==
  LET terms == UNION {TermsOf(Forms[k]) : k \in FormNames(key)}
      leaves == UNION {{<<i - 1>> \o p : p \in Shaped(FieldsOf(terms, <<"parameter", i>>))} :
                         i \in 1..Arity[key]}
      made == Build([p \in leaves |-> Prim(<<>>)], <<>>, Nothing(tag))
      r == Run(Entry, 1, <<>>, [heap |-> <<>>, trace |-> <<>>, clock |-> 100, foreign |-> FALSE,
                                emitted |-> TRUE], <<>>,
               [code |-> (Entry :> Fn(<<>>, Append(made.nodes, Return(made.expr)))), base |-> 0,
                body |-> FALSE, under |-> <<>>, given |-> FALSE, statics |-> <<>>, loaded |-> {}])
  IN [heap |-> r.cs.heap, given |-> FALSE,
      args |-> [i \in 1..Arity[key] |-> r.cs.heap[r.v[2]].fields[i - 1]]]

Checked == DOMAIN Arity \cap DOMAIN Forms
OperationInputs == [key \in Checked |->
                      {ArgumentsFor(key, tag) : tag \in {0, 1}}]

-----------------------------------------------------------------------------
(* Bodies.                                                                  *)

Selecting == {"gates", "internalOutput", "nextFront", "fromAction", "advance"}
Base(t) == IF t[1] = "parameter" THEN V(ParameterNames[t[2]])
           ELSE IF t[1] = "result" THEN V(t[2]) ELSE Lit(t[2])
Expression(key, t) ==
  LET n == Len(t[3]) IN
  IF key \in Selecting /\ n >= 2 /\ SubSeq(t[3], n - 1, n) = <<0, 0>>
    THEN CallOf("selected", <<FoldLeft(GetOf, Base(t), SubSeq(t[3], 1, n - 2))>>)
    ELSE FoldLeft(GetOf, Base(t), t[3])

\* after: what is done to the result of the call number of a form
Calls(key, form, number, after) ==
  FoldLeft(LAMBDA acc, k :
      LET c == form.calls[k] IN
      acc \o <<Do(c.name, CallOf(c.name, [i \in DOMAIN c.args |-> Expression(key, c.args[i])]))>>
          \o (IF k # number THEN <<>>
              ELSE IF after = "set" THEN <<Do(None, SetOf(V(c.name), 0, Lit(3)))>>
              ELSE <<Do(c.name, CallOf(after, <<V(c.name)>>))>>),
    <<>>, [k \in DOMAIN form.calls |-> k])

Returned(key, form) ==
  LET made == Build(Leaves(form.value, LAMBDA t : Expression(key, t)), <<>>, Nothing(0))
  IN Append(made.nodes, Return(made.expr))

\* The next arguments of a loop, then the assignments, then its beginning.
Looped(form) ==
  LET leaves == Leaves(form.value, LAMBDA t : Expression("gateList", t))
      made == FoldLeft(LAMBDA acc, j :
                LET sub == Build(leaves, <<j>>, acc.built)
                IN [built |-> [sub EXCEPT !.nodes = Append(@, Do(Temps[9 - j], sub.expr))]],
                [built |-> Nothing(0)], <<0, 1, 2, 3>>).built
  IN made.nodes \o <<Do("a", V(Temps[9])), Do("b", V(Temps[8])), Do("c", V(Temps[7])),
                     Goto("d", V(Temps[6]), 1)>>

\* What is returned when there is nothing to find.
NothingThere(key) ==
  CASE key = "discovered" -> <<Return(Lit(0))>>
    [] key = "producedSeed" -> <<Return(NatOf(Lit(0)))>>
    [] key = "indexedExecution" -> <<Do("t1", Alloc(0)), Do(None, SetOf(V("t1"), 0, Lit(0))),
                                     Return(V("t1"))>>
    [] OTHER -> <<>>

Branch(on, yes, no) == <<If(Read("tag", V(on)), 2, 2 + Len(yes))>> \o yes \o no

Body(key, form, number, after) ==
  LET straight == Calls(key, form, number, after) \o Returned(key, form)
      nothing == NothingThere(key)
  IN For(key, Fn(SubSeq(ParameterNames, 1, Arity[key]),
         IF nothing = <<>> THEN straight ELSE Branch("a", nothing, straight)))

ListBody(empty, more) ==
  For("gateList", Fn(ParameterNames,
    Branch("c", Calls("gateList", empty, 0, "none") \o Returned("gateList", empty),
                Calls("gateList", more, 0, "none") \o Looped(more))))

\* A form with one term replaced, by one that is there at that point.
Before(form, k) == {form.calls[i].name : i \in 1..k - 1}
There(form, k) == {t \in TermsOf(form) \cup {N(0), P(1, <<>>)} :
                     t[1] = "result" => t[2] \in Before(form, k)}
Swapped(form) ==
  UNION {{[form EXCEPT !.calls[k].args[i] = t] :
            i \in DOMAIN form.calls[k].args, t \in There(form, k)} : k \in DOMAIN form.calls}
  \cup {[form EXCEPT !.value = (@ \ {v}) \cup {<<v[1], t>>}] :
          v \in form.value, t \in There(form, Len(form.calls) + 1)}

\* A call made again, on the same things.
Again(form) == {[form EXCEPT !.calls = Append(@, form.calls[k])] : k \in DOMAIN form.calls}

Plain == Checked \ {"gateList"}
Varied == {<<key, k, after>> \in Plain \X (1..5) \X {"keep", "mark", "brand", "set"} :
             k <= Len(Forms[key].calls)}
Operations ==
  {Body(key, f, 0, "none") : <<key, f>> \in
     UNION {{key} \X ({Forms[key]} \cup Swapped(Forms[key]) \cup Again(Forms[key])) : key \in Plain}}
  \cup {Body(v[1], Forms[v[1]], v[2], v[3]) : v \in Varied}
  \cup {ListBody(f, Forms["gateList again"]) : f \in Swapped(Forms["gateList"])}
  \cup {ListBody(Forms["gateList"], f) :
          f \in Swapped(Forms["gateList again"]) \cup Again(Forms["gateList again"])}

HonestOperations ==
  {Body(key, Forms[key], 0, "none") : key \in Plain}
  \cup {Body(v[1], Forms[v[1]], v[2], v[3]) : v \in {w \in Varied : w[3] = "keep"}}
  \cup {ListBody(Forms["gateList"], Forms["gateList again"])}
=============================================================================
