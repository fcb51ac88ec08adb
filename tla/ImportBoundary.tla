--------------------------- MODULE ImportBoundary ---------------------------
(***************************************************************************)
(* The import boundary gate (scripts/check-import-boundaries.py): read a   *)
(* manifest row by row, read every local header, then walk the imports of  *)
(* the root breadth first until a forbidden one is met or the queue is     *)
(* empty.  The forbidden names are tested before anything else, so a name  *)
(* without a local source can be forbidden too.                            *)
(***************************************************************************)
EXTENDS Naturals, Sequences

CONSTANTS
  Names,       \* module names
  Local,       \* those with a local source
  Graphs,      \* what the headers may import: Local -> Seq(Names), or Unreadable
  Manifests,   \* the rows a manifest may hold
  Unreadable,  \* a header the reader refuses
  NoModule

ASSUME LocalAssumption == Local \subseteq Names /\ NoModule \notin Names
ASSUME GraphsAssumption ==
  \A g \in Graphs : \A m \in Local : g[m] = Unreadable \/ g[m] \in Seq(Names)

VARIABLES
  rows,       \* manifest rows still to read
  root, forbidden,
  graph,      \* the headers
  queue, paths,   \* the worklist, and the import path of every module met
  current, at,    \* the module being walked, and its next import
  verdict     \* "manifest", "headers", "walk", or how the gate ended

vars == <<rows, root, forbidden, graph, queue, paths, current, at, verdict>>
boundary == <<rows, root, forbidden, graph>>
walk == <<queue, paths, current, at>>

GateInit ==
  /\ rows \in Manifests
  /\ root = NoModule
  /\ forbidden = {}
  /\ queue = << >> /\ paths = << >>
  /\ current = NoModule /\ at = 1
  /\ verdict = "manifest"

Init == graph \in Graphs /\ GateInit
-----------------------------------------------------------------------------
ReadRow ==
  /\ verdict = "manifest"
  /\ rows # << >>
  /\ rows' = Tail(rows)
  /\ LET row == Head(rows) IN
       \/ /\ row.kind = "note"
          /\ UNCHANGED <<root, forbidden, verdict>>
       \/ /\ row.kind = "root" /\ root = NoModule
          /\ root' = row.name
          /\ UNCHANGED <<forbidden, verdict>>
       \/ /\ row.kind = "forbidden"
          /\ forbidden' = forbidden \cup {row.name}
          /\ UNCHANGED <<root, verdict>>
       \/ /\ row.kind = "root" /\ root # NoModule
          /\ verdict' = "duplicate root"
          /\ UNCHANGED <<root, forbidden>>
       \/ /\ row.kind = "malformed"
          /\ verdict' = "malformed"
          /\ UNCHANGED <<root, forbidden>>
  /\ UNCHANGED <<graph, walk>>

EndManifest ==
  /\ verdict = "manifest"
  /\ rows = << >>
  /\ verdict' = IF root = NoModule THEN "missing root" ELSE "headers"
  /\ UNCHANGED <<boundary, walk>>

\* Every local header is read before the walk, reached or not.
HeadersFailure ==
  IF \E m \in Local : graph[m] = Unreadable THEN "syntax error"
  ELSE IF root \notin Local THEN "no source" ELSE "none"

RefuseHeaders ==
  /\ verdict = "headers"
  /\ HeadersFailure # "none"
  /\ verdict' = HeadersFailure
  /\ UNCHANGED <<boundary, walk>>

StartWalk ==
  /\ verdict = "headers"
  /\ HeadersFailure = "none"
  /\ verdict' = "walk"
  /\ queue' = <<root>>
  /\ paths' = [m \in {root} |-> <<root>>]
  /\ UNCHANGED <<boundary, current, at>>

\* Fault: the last import of a module is not looked at.
WalkingShort == current # NoModule /\ at < Len(graph[current])

Walking == current # NoModule /\ at <= Len(graph[current])

\* Fault: the newest module is walked first.
VisitNewest ==
  /\ verdict = "walk"
  /\ ~ Walking
  /\ queue # << >>
  /\ current' = queue[Len(queue)]
  /\ at' = 1
  /\ queue' = SubSeq(queue, 1, Len(queue) - 1)
  /\ UNCHANGED <<boundary, paths, verdict>>

\* Fault: the walked module stays in the queue.
VisitAgain ==
  /\ verdict = "walk"
  /\ ~ Walking
  /\ queue # << >>
  /\ current' = Head(queue)
  /\ at' = 1
  /\ UNCHANGED <<boundary, queue, paths, verdict>>

Visit ==
  /\ verdict = "walk"
  /\ ~ Walking
  /\ queue # << >>
  /\ current' = Head(queue)
  /\ at' = 1
  /\ queue' = Tail(queue)
  /\ UNCHANGED <<boundary, paths, verdict>>

Dependency == graph[current][at]

MeetForbidden ==
  /\ verdict = "walk"
  /\ Walking
  /\ Dependency \in forbidden
  /\ verdict' = "forbidden"
  /\ UNCHANGED <<boundary, walk>>

\* Fault: a module is met but never walked.
MeetUnqueued ==
  /\ verdict = "walk"
  /\ Walking
  /\ Dependency \notin forbidden
  /\ Dependency \in Local /\ Dependency \notin DOMAIN paths
  /\ paths' = [m \in DOMAIN paths \cup {Dependency} |->
                 IF m = Dependency THEN Append(paths[current], Dependency) ELSE paths[m]]
  /\ at' = at + 1
  /\ UNCHANGED <<boundary, queue, current, verdict>>

\* A module is met once, on the path it is first met by.
MeetLocal ==
  /\ verdict = "walk"
  /\ Walking
  /\ Dependency \notin forbidden
  /\ Dependency \in Local /\ Dependency \notin DOMAIN paths
  /\ paths' = [m \in DOMAIN paths \cup {Dependency} |->
                 IF m = Dependency THEN Append(paths[current], Dependency) ELSE paths[m]]
  /\ queue' = Append(queue, Dependency)
  /\ at' = at + 1
  /\ UNCHANGED <<boundary, current, verdict>>

SkipImport ==
  /\ verdict = "walk"
  /\ Walking
  /\ Dependency \notin forbidden
  /\ Dependency \notin Local \/ Dependency \in DOMAIN paths
  /\ at' = at + 1
  /\ UNCHANGED <<boundary, queue, paths, current, verdict>>

Accept ==
  /\ verdict = "walk"
  /\ ~ Walking
  /\ queue = << >>
  /\ verdict' = "ok"
  /\ UNCHANGED <<boundary, walk>>

Next ==
  \/ ReadRow \/ EndManifest \/ RefuseHeaders \/ StartWalk
  \/ Visit \/ MeetForbidden \/ MeetLocal \/ SkipImport \/ Accept

\* The gate is one sequential program that nothing interrupts.
Spec == Init /\ [][Next]_vars /\ WF_vars(Next)
-----------------------------------------------------------------------------
Imports(m, d) == \E i \in DOMAIN graph[m] : graph[m][i] = d

\* The local modules the root depends on: the least set that holds the root and
\* follows local imports.
Closed(S) == root \in S /\ \A m \in S, d \in Local : Imports(m, d) => d \in S

Reachable == {m \in Local : \A S \in SUBSET Local : Closed(S) => m \in S}

Ended == verdict \notin {"manifest", "headers", "walk"}

Chain(path) ==
  /\ path[1] = root
  /\ \A i \in 1 .. Len(path) - 1 : path[i] \in Local /\ Imports(path[i], path[i + 1])

\* The walk has started; at the verdicts it ends with, it stands where it ended.
Started == verdict \in {"walk", "ok", "forbidden"}

TypeOK ==
  /\ \A m \in Local : graph[m] = Unreadable \/ graph[m] \in Seq(Names)
  /\ at \in Nat \ {0}
  /\ current \in Local \cup {NoModule}
  /\ ~ Started => current = NoModule
  /\ Started =>
       /\ root \in Local
       /\ \A m \in Local : graph[m] \in Seq(Names)
       /\ queue \in Seq(Local)
       /\ DOMAIN paths \subseteq Local

\* What has been walked left nothing behind: every import before the walk's place
\* is allowed and, when local, met.
Passed(d) == d \notin forbidden /\ (d \in Local => d \in DOMAIN paths)

Walked(m) == \A i \in DOMAIN graph[m] : (m = current => i < at) => Passed(graph[m][i])

WorklistCovers ==
  Started =>
    /\ root \in DOMAIN paths
    /\ current # NoModule => current \in DOMAIN paths
    /\ \A i \in 1 .. Len(queue) : queue[i] \in DOMAIN paths
    /\ \A m \in DOMAIN paths : Walked(m) \/ \E i \in 1 .. Len(queue) : queue[i] = m

\* Every module met is reported with a real chain of imports from the root.
PathsReal ==
  Started =>
    \A m \in DOMAIN paths :
      /\ paths[m] \in Seq(Local) /\ paths[m] # << >>
      /\ Chain(paths[m])
      /\ paths[m][Len(paths[m])] = m

Stopped ==
  /\ verdict = "ok" => ~ Walking /\ queue = << >>
  /\ verdict = "forbidden" => Walking /\ Dependency \in forbidden

\* Nothing is met that the root does not depend on.
MetReachable == Started => DOMAIN paths \subseteq Reachable

\* The queue holds the modules in the order of their distances from the root, none
\* nearer than the module being walked, and no module met lies more than one import
\* beyond it.  What is no longer queued has brought its imports that near too.
Distance(m) == Len(paths[m])

Waiting(m) == \E i \in 1 .. Len(queue) : queue[i] = m

ByDistance ==
  /\ Distance(root) = 1
  /\ current = NoModule => DOMAIN paths = {root}
  /\ \A i, j \in 1 .. Len(queue) : i <= j => Distance(queue[i]) <= Distance(queue[j])
  /\ current # NoModule =>
       /\ \A i \in 1 .. Len(queue) : Distance(current) <= Distance(queue[i])
       /\ \A m \in DOMAIN paths : Distance(m) <= Distance(current) + 1

Near(m, d) == Passed(d) /\ (d \in Local => Distance(d) <= Distance(m) + 1)

NearWalked ==
  \A m \in DOMAIN paths :
    Waiting(m) \/ \A i \in DOMAIN graph[m] : (m = current => i < at) => Near(m, graph[m][i])

BreadthFirst == Started => ByDistance /\ NearWalked

\* The loop invariant of the walk (lines 46 to 54).
Inductive == TypeOK /\ WorklistCovers /\ PathsReal /\ MetReachable /\ Stopped
-----------------------------------------------------------------------------
\* An accepted boundary is real: no module the root depends on, however
\* indirectly, imports a forbidden name.
AcceptSound ==
  verdict = "ok" => \A m \in Reachable, d \in forbidden : ~ Imports(m, d)

\* The modules counted in the report are exactly the reachable ones.
CountExact == verdict = "ok" => DOMAIN paths = Reachable

\* What an acceptance says: nothing forbidden is met, and nothing was left unmet.
AcceptExact == AcceptSound /\ CountExact

\* A refusal names a real chain of imports from the root to a forbidden name.
RefusalReal ==
  verdict = "forbidden" =>
    Dependency \in forbidden /\ Chain(Append(paths[current], Dependency))

\* Breadth first: no forbidden name is reachable by fewer imports than reported.
RefusalShortest ==
  verdict = "forbidden" =>
    \A n \in 1 .. Len(paths[current]) - 1 :
      \A path \in [1 .. n -> Local], d \in forbidden : ~ Chain(Append(path, d))

\* Every manifest and every graph is decided, cyclic ones included.
Terminates == <>Ended
=============================================================================
