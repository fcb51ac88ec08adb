-------------------------- MODULE MachineContracts --------------------------
(***************************************************************************)
(* The checks of scripts/integrated_machine_checks.py (class MachineChecks,*)
(* method check): for each operation of the integrated machine, what every *)
(* symbolic path of its emitted body must show of the operations it calls  *)
(* and of the value it returns.  Called operations are summaries: each is  *)
(* checked on a body of its own.                                           *)
(***************************************************************************)
EXTENDS RunnerCheck

CONSTANT Honest   \* bodies that differ from the emitted one in form only

\* The operations and their compiled arity; the last two are the compiler's.
Arity ==
  ("advance" :> 2) @@ ("produce" :> 2) @@ ("buildAction" :> 1) @@ ("fromAction" :> 3) @@
  ("install" :> 1) @@ ("discover" :> 1) @@ ("extraction" :> 1) @@ ("runExtracted" :> 2) @@
  ("filter" :> 2) @@ ("search" :> 2) @@ ("discovered" :> 1) @@ ("stored" :> 1) @@
  ("candidateEntry" :> 2) @@ ("validate" :> 1) @@ ("validateSearch" :> 3) @@
  ("execution" :> 2) @@ ("indexedExecution" :> 2) @@ ("selected" :> 1) @@ ("gates" :> 3) @@
  ("gateList" :> 4) @@ ("internalOutput" :> 1) @@ ("codeGate" :> 3) @@ ("nextFront" :> 2) @@
  ("producedSeed" :> 1) @@ ("nextGeneration" :> 1) @@ ("prepend" :> 2) @@ ("fire" :> 2) @@
  ("gateFire" :> 2) @@ ("routeBank" :> 2) @@ ("problem" :> 3) @@ ("problemNext" :> 1) @@
  ("opening" :> 2) @@ ("normalizer" :> 2) @@ ("lower" :> 3) @@ ("length" :> 1) @@ ("reverse" :> 1)

\* Where a value comes from: a parameter, the result of the only call of an
\* operation, or a literal, and the fields read from there on.
P(i, slots) == <<"parameter", i, slots>>
R(name, slots) == <<"result", name, slots>>
N(n) == <<"literal", n, <<>>>>
Ask(name, args) == [name |-> name, args |-> args]
Form(calls, value) == [calls |-> calls, value |-> value]
All(term) == {<<<<>>, term>>}
Scalar == 3     \* the one scalar of a record that has one

SearchForms ==
  ("runExtracted" :> Form(<<Ask("filter", <<P(1, <<3>>), P(2, <<1, 0>>)>>),
                            Ask("search", <<P(2, <<0>>), R("filter", <<0>>)>>)>>,
                          {<<<<3>>, R("search", <<>>)>>})) @@
  ("discover" :> Form(<<Ask("extraction", <<P(1, <<>>)>>),
                        Ask("runExtracted", <<P(1, <<>>), R("extraction", <<>>)>>)>>,
                      All(R("runExtracted", <<>>)))) @@
  ("discovered" :> Form(<<>>, {<<<<0, 0>>, P(1, <<0, 0, 0>>)>>, <<<<0, 1>>, P(1, <<0, 0, 1, 0>>)>>})) @@
  ("candidateEntry" :> Form(<<>>, {<<<<0>>, P(1, <<>>)>>, <<<<1>>, P(2, <<1, 0>>)>>,
                                   <<<<2>>, P(2, <<2, 0>>)>>, <<<<3>>, P(2, <<0>>)>>})) @@
  ("stored" :> Form(<<Ask("candidateEntry", <<P(1, <<0, 0, 0>>), P(1, <<0, 0, 1>>)>>)>>,
                    All(R("candidateEntry", <<>>)))) @@
  ("validate" :> Form(<<Ask("validateSearch", <<P(1, <<0>>), P(1, <<1>>), P(1, <<2>>)>>)>>,
                      All(R("validateSearch", <<>>)))) @@
  ("execution" :> Form(<<Ask("indexedExecution", <<P(1, <<>>), P(2, <<>>)>>)>>,
                       {<<<<0>>, R("indexedExecution", <<>>)>>,
                        <<<<1>>, R("indexedExecution", <<0, 0>>)>>, <<<<2>>, P(1, <<2>>)>>})) @@
  ("indexedExecution" :> Form(<<>>, {<<<<0, 0, 0>>, P(1, <<1>>)>>, <<<<0, 0, 1>>, P(1, <<2>>)>>,
                                     <<<<0, 0, 2>>, P(2, <<0, 0>>)>>})) @@
  ("buildAction" :> Form(<<Ask("discover", <<P(1, <<>>)>>), Ask("discovered", <<R("discover", <<3>>)>>),
                           Ask("stored", <<R("discover", <<3>>)>>),
                           Ask("validate", <<R("stored", <<>>)>>),
                           Ask("execution", <<R("stored", <<>>), R("validate", <<>>)>>)>>,
                         {<<<<0>>, R("discovered", <<0>>)>>, <<<<1>>, R("execution", <<>>)>>}))

ProductionForms ==
  ("selected" :> Form(<<>>, All(P(1, <<0, 0>>)))) @@
  ("gates" :> Form(<<Ask("gateList", <<P(2, <<0, 0>>), P(2, <<1, 1>>), P(3, <<>>), N(0)>>)>>,
                   All(R("gateList", <<>>)))) @@
  ("gateList" :> Form(<<Ask("reverse", <<P(4, <<>>)>>)>>, All(R("reverse", <<>>)))) @@
  ("gateList again" :> Form(<<Ask("codeGate", <<P(1, <<>>), P(3, <<0, 1>>), P(2, <<>>)>>)>>,
                            {<<<<0>>, P(1, <<>>)>>, <<<<1>>, P(2, <<>>)>>, <<<<2>>, P(3, <<1>>)>>,
                             <<<<3, 0>>, R("codeGate", <<>>)>>, <<<<3, 1>>, P(4, <<>>)>>})) @@
  ("internalOutput" :> Form(<<Ask("codeGate", <<P(1, <<0, 0>>), P(1, <<0, 0>>), P(1, <<1, 1>>)>>),
                              Ask("gateFire", <<R("codeGate", <<>>), N(0)>>)>>,
                            All(R("gateFire", <<>>)))) @@
  ("producedSeed" :> Form(<<>>, All(P(1, <<1, 2, 0, 1, 0, 0>>)))) @@
  ("nextFront" :> Form(<<Ask("prepend", <<P(2, <<0, 0>>), P(1, <<3>>)>>),
                         Ask("nextGeneration", <<P(1, <<1>>)>>), Ask("producedSeed", <<P(2, <<>>)>>)>>,
                       {<<<<1>>, R("nextGeneration", <<>>)>>, <<<<2>>, R("producedSeed", <<>>)>>,
                        <<<<3>>, R("prepend", <<0>>)>>})) @@
  ("fromAction" :> Form(<<Ask("gates", <<P(2, <<0>>), P(3, <<>>), P(1, <<>>)>>),
                          Ask("fire", <<R("gates", <<>>), P(2, <<1>>)>>),
                          Ask("nextFront", <<P(2, <<0>>), P(3, <<>>)>>),
                          Ask("internalOutput", <<P(3, <<>>)>>)>>,
                        {<<<<0>>, P(3, <<>>)>>, <<<<1>>, R("gates", <<>>)>>, <<<<2>>, R("fire", <<>>)>>,
                         <<<<3, 0>>, P(3, <<0, 0>>)>>, <<<<3, Scalar>>, R("internalOutput", <<>>)>>,
                         <<<<4, 0>>, R("nextFront", <<>>)>>, <<<<4, 1>>, R("fire", <<>>)>>})) @@
  ("produce" :> Form(<<Ask("buildAction", <<P(2, <<0>>)>>),
                       Ask("fromAction", <<P(1, <<>>), P(2, <<>>), R("buildAction", <<>>)>>)>>,
                     All(R("fromAction", <<>>))))

MasterForms ==
  ("install" :> Form(<<Ask("routeBank", <<P(1, <<2>>), P(1, <<2>>)>>)>>,
                     {<<<<0, 0>>, P(1, <<4>>)>>, <<<<0, 1>>, P(1, <<1>>)>>,
                      <<<<0, 2>>, R("routeBank", <<>>)>>})) @@
  ("problem" :> Form(<<Ask("opening", <<P(2, <<>>), P(3, <<>>)>>),
                       Ask("normalizer", <<P(2, <<>>), R("opening", <<0>>)>>),
                       Ask("lower", <<P(1, <<>>), P(2, <<>>), R("normalizer", <<1>>)>>)>>,
                     {<<<<0>>, R("opening", <<>>)>>, <<<<1>>, R("normalizer", <<>>)>>,
                      <<<<2>>, R("lower", <<>>)>>})) @@
  ("problemNext" :> Form(<<Ask("length", <<P(1, <<0, 0>>)>>)>>,
                         {<<<<0>>, P(1, <<1, 0>>)>>, <<<<1, 0>>, R("length", <<>>)>>,
                          <<<<1, 1>>, P(1, <<2>>)>>})) @@
  ("advance" :> Form(<<Ask("produce", <<P(1, <<>>), P(2, <<0, 0>>)>>),
                       Ask("install", <<R("produce", <<>>)>>),
                       Ask("problem", <<P(1, <<>>), R("produce", <<0, 0, 0>>), P(2, <<1, 0>>)>>),
                       Ask("problemNext", <<R("problem", <<>>)>>)>>,
                     {<<<<0>>, R("install", <<0>>)>>, <<<<1>>, R("problemNext", <<>>)>>}))

Forms == SearchForms @@ ProductionForms @@ MasterForms

-----------------------------------------------------------------------------
(* A form on a symbolic path.                                               *)

Origin(path, term) ==
  FoldLeft(At, CASE term[1] = "parameter" -> Parameter(term[2])
                 [] term[1] = "result"    -> The(path, term[2]).result
                 [] term[1] = "literal"   -> <<"literal", term[2]>>, term[3])

MeetsSomewhere(path, form) ==   \* the last call of each, however many there are
  /\ \A c \in ToSet(form.calls) : Named(path, c.name) # <<>>
  /\ \A c \in ToSet(form.calls) :
       Last(Named(path, c.name)).args = [i \in DOMAIN c.args |-> Origin(path, c.args[i])]
  /\ \A v \in form.value : FoldLeft(At, path.value, v[1]) = Origin(path, v[2])

Meets(path, form) ==
  /\ \A c \in ToSet(form.calls) : One(path, c.name)
  /\ \A c \in ToSet(form.calls) :
       The(path, c.name).args = [i \in DOMAIN c.args |-> Origin(path, c.args[i])]
  /\ \A v \in form.value : FoldLeft(At, path.value, v[1]) = Origin(path, v[2])

\* A path that may say nothing: no discovery, a failed search, the seed of an
\* empty state.
Zero == <<"literal", 0>>
Excused(key, path) ==
  \/ key = "discovered" /\ path.origin = Zero /\ path.value[1] # "record"
  \/ key = "indexedExecution" /\ At(path.value, 0) = Zero
  \/ key = "producedSeed" /\ path.origin[1] = "primitive"
                          /\ path.origin[3] = "nat" /\ path.origin[4] = <<Zero>>

\* The path of a loop that goes on answers to the form of an iteration.
FormOf(key, path) ==
  Forms[IF key = "gateList" /\ path.origin[1] = "loop" THEN "gateList again" ELSE key]

Passes(key, found) ==
  /\ found.err = None
  /\ \A i \in DOMAIN found.paths :
       Excused(key, found.paths[i]) \/ Meets(found.paths[i], FormOf(key, found.paths[i]))
  /\ key = "discovered" => \E i \in DOMAIN found.paths : ~Excused(key, found.paths[i])

ContractAccepts ==
  /\ body.key \in DOMAIN Forms
  /\ analysis # NotYet
  /\ body.key = "advance" => Passes(body.key, Inspection(body, FALSE))
  /\ Passes(body.key, analysis)

-----------------------------------------------------------------------------
(* The same form on what the body did.                                      *)

Held(term) ==
  FoldLeft(Child, CASE term[1] = "parameter" -> Argument(term[2])
                    [] term[1] = "result"    -> Ran(term[2])[1].result
                    [] term[1] = "literal"   -> Imm(term[2]), term[3])

Kept(form) ==
  /\ \A c \in ToSet(form.calls) : Len(Ran(c.name)) = 1
  /\ \A c \in ToSet(form.calls) :
       Ran(c.name)[1].args = [i \in DOMAIN c.args |-> Held(c.args[i])]
  /\ \A v \in form.value : FoldLeft(Child, run.value, v[1]) = Held(v[2])

NothingFound(key) ==
  \/ key \in {"discovered", "producedSeed"} /\ run.value = Imm(0)
  \/ key = "indexedExecution" /\ Child(run.value, 0) = Imm(0)

(* An operation whose emitted body passes the check does what the form of   *)
(* the operation says on every run: the operations it is made of are called *)
(* once each, on the very objects the form names, and the value returned is *)
(* put together from their results, unless there was nothing to find        *)
(* (integrated_machine_checks.py:51-186).                                   *)
ContractFaithful ==
  Executed /\ ContractAccepts =>
    \/ Kept(Forms[body.key])
    \/ body.key = "gateList" /\ Kept(Forms["gateList again"])
    \/ NothingFound(body.key)

(* No check refuses a body for its form: a transition shared through a      *)
(* variable, a wrapper or a fresh copy of the pair passes the runner check  *)
(* (integrated_machine_checks.py:416-419), and so does every operation      *)
(* emitted as its form says, results handed on through a projection of the  *)
(* action (:109, 124, 134, 140, 178) or an alias.                           *)
HonestAccepted ==
  body \in Honest /\ analysis # NotYet =>
    IF body.key \in RunnerKeys THEN RunnerAccepts ELSE ContractAccepts
=============================================================================
