------------------------- MODULE ImportGatesProofs -------------------------
(***************************************************************************)
(* The gates that walk a graph, for every graph, cyclic or not.            *)
(* The import boundary, with every manifest: an acceptance covers          *)
(* everything the root depends on, and a refusal is a real chain of        *)
(* imports with no shorter rival.  The stratification, with every          *)
(* listing: what it accepts is stratified along every chain of imports.    *)
(* The count of routes, with all bodies: it passes exactly when they are   *)
(* finite and as many as expected.  The reader that gives both gates their *)
(* graph, with all well-written files: no edge is lost or invented.        *)
(***************************************************************************)
EXTENDS SourceGates, ReferenceGraph, FiniteSetTheorems, DataLemmas

-----------------------------------------------------------------------------
(* The import boundary.                                                     *)

\* Nothing has been walked before the walk.
LEMMA InitInductive == Init => Inductive
  BY GraphsAssumption
  DEF Init, GateInit, Inductive, TypeOK, WorklistCovers, PathsReal, MetReachable, Stopped, Started

\* Reading the manifest and refusing the headers leave the walk unstarted.
LEMMA BeforeWalk ==
  ASSUME Inductive, UNCHANGED <<graph, walk>>, ~ Started, ~ Started'
  PROVE  Inductive'
  BY DEF Inductive, TypeOK, WorklistCovers, PathsReal, MetReachable, Stopped, Started, walk

\* What the root depends on is fixed by the root and the headers.
LEMMA ReachableKept ==
  ASSUME UNCHANGED <<root, graph>> PROVE Reachable' = Reachable
  BY DEF Reachable, Closed, Imports

\* The walk starts with the root met and queued.
LEMMA StartInductive == Inductive /\ StartWalk => Inductive'
  <1> SUFFICES ASSUME Inductive, StartWalk PROVE Inductive'
    OBVIOUS
  <1>1. /\ root \in Local /\ \A m \in Local : graph[m] # Unreadable
        /\ verdict' = "walk" /\ queue' = <<root>>
        /\ paths' = [m \in {root} |-> <<root>>]
        /\ UNCHANGED <<rows, root, forbidden, graph, current, at>>
    BY DEF StartWalk, HeadersFailure, boundary
  <1>2. current = NoModule
    BY DEF StartWalk, Started, Inductive, TypeOK
  <1>3. TypeOK'
    BY <1>1 DEF Inductive, TypeOK, Started
  <1>4. WorklistCovers'
    BY <1>1, <1>2 DEF WorklistCovers
  <1>5. PathsReal'
    BY <1>1 DEF PathsReal, Chain
  <1>6. MetReachable' /\ Stopped'
    BY <1>1 DEF MetReachable, Reachable, Closed, Stopped
  <1> QED BY <1>3, <1>4, <1>5, <1>6 DEF Inductive

\* The next module leaves the queue when it becomes current; the one walked before
\* it has been walked to its end.
LEMMA VisitInductive == Inductive /\ Visit => Inductive'
  <1> SUFFICES ASSUME Inductive, Visit PROVE Inductive'
    OBVIOUS
  <1>1. /\ verdict = "walk" /\ ~ Walking /\ queue # << >>
        /\ current' = Head(queue) /\ at' = 1 /\ queue' = Tail(queue)
        /\ UNCHANGED <<rows, root, forbidden, graph, paths, verdict>>
    BY DEF Visit, boundary
  <1>2. Started /\ Started'
    BY <1>1 DEF Started
  <1>3. /\ queue \in Seq(Local) /\ root \in Local
        /\ \A m \in Local : graph[m] \in Seq(Names)
        /\ DOMAIN paths \subseteq Local /\ at \in Nat
    BY <1>2 DEF Inductive, TypeOK
  <1>4. /\ Head(queue) \in Local /\ Tail(queue) \in Seq(Local)
        /\ \A i \in 2 .. Len(queue) : Tail(queue)[i - 1] = queue[i]
        /\ Len(Tail(queue)) = Len(queue) - 1 /\ Head(queue) = queue[1]
    BY <1>1, <1>3
  <1>5. TypeOK'
    BY <1>1, <1>2, <1>3, <1>4 DEF Inductive, TypeOK
  <1>6. \A m \in DOMAIN paths : Walked(m) => Walked(m)'
    <2>1. ASSUME NEW m \in DOMAIN paths, Walked(m), NEW i \in DOMAIN graph[m]
          PROVE  Passed(graph[m][i])
      <3>1. m \in Local /\ graph[m] \in Seq(Names) /\ i \in 1 .. Len(graph[m])
        BY <1>3, <2>1
      <3>2. m = current => i < at
        BY <1>1, <1>3, <3>1, LocalAssumption DEF Walking
      <3> QED BY <2>1, <3>2 DEF Walked
    <2> QED BY <1>1, <2>1 DEF Walked, Passed
  <1>7. Walked(current)'
    <2>1. DOMAIN graph[Head(queue)] = 1 .. Len(graph[Head(queue)])
      BY <1>3, <1>4
    <2>2. \A i \in DOMAIN graph[Head(queue)] : ~ (i < 1)
      BY <2>1
    <2> QED BY <1>1, <2>2 DEF Walked
  <1>8. WorklistCovers'
    <2>1. /\ root \in DOMAIN paths /\ Head(queue) \in DOMAIN paths
          /\ \A i \in 1 .. Len(queue) : queue[i] \in DOMAIN paths
      BY <1>1, <1>2, <1>3, <1>4 DEF Inductive, WorklistCovers
    <2>2. \A i \in 1 .. Len(queue)' : queue'[i] \in DOMAIN paths
      BY <1>1, <1>3, <1>4, <2>1
    <2>3. ASSUME NEW m \in DOMAIN paths
          PROVE  Walked(m)' \/ \E i \in 1 .. Len(queue)' : queue'[i] = m
      <3>1. CASE m = Head(queue)
        BY <1>1, <1>7, <3>1 DEF Walked, Passed
      <3>2. CASE Walked(m)
        BY <1>6, <3>2
      <3>3. ASSUME NEW i \in 2 .. Len(queue), queue[i] = m
            PROVE  queue'[i - 1] = m /\ i - 1 \in 1 .. Len(queue)'
        BY <1>1, <1>3, <1>4, <3>3
      <3>4. Walked(m) \/ \E i \in 1 .. Len(queue) : queue[i] = m
        BY <1>2 DEF Inductive, WorklistCovers
      <3> QED BY <1>3, <1>4, <3>1, <3>2, <3>3, <3>4
    <2> QED BY <1>1, <2>1, <2>2, <2>3 DEF WorklistCovers
  <1>9. PathsReal' /\ Stopped'
    BY <1>1, <1>2 DEF Inductive, PathsReal, Stopped, Chain, Imports
  <1>10. MetReachable'
    BY <1>1, <1>2, ReachableKept DEF Inductive, MetReachable
  <1> QED BY <1>5, <1>8, <1>9, <1>10 DEF Inductive

\* Looking at a name only moves the place in the header, or ends the walk there.
LEMMA SkipInductive == Inductive /\ SkipImport => Inductive'
  <1> SUFFICES ASSUME Inductive, SkipImport PROVE Inductive'
    OBVIOUS
  <1>1. /\ verdict = "walk" /\ Walking /\ at' = at + 1 /\ Passed(Dependency)
        /\ UNCHANGED <<rows, root, forbidden, graph, queue, paths, current, verdict>>
    BY DEF SkipImport, boundary, Passed
  <1>2. Started /\ Started' /\ at \in Nat \ {0} /\ current \in Local
        /\ \A m \in Local : graph[m] \in Seq(Names)
    BY <1>1 DEF Started, Inductive, TypeOK, Walking
  <1>3. \A m \in DOMAIN paths : Walked(m) => Walked(m)'
    <2>1. ASSUME NEW i \in DOMAIN graph[current], Walked(current), i < at + 1
          PROVE  Passed(graph[current][i])
      <3>1. i \in Nat /\ (i < at \/ i = at)
        BY <1>2, <2>1
      <3> QED BY <1>1, <2>1, <3>1 DEF Walked, Dependency
    <2> QED BY <1>1, <2>1 DEF Walked, Passed
  <1>4. TypeOK'
    BY <1>1, <1>2 DEF Inductive, TypeOK
  <1>5. WorklistCovers'
    BY <1>1, <1>2, <1>3 DEF Inductive, WorklistCovers
  <1>6. PathsReal' /\ Stopped'
    BY <1>1, <1>2 DEF Inductive, PathsReal, Stopped, Chain, Imports
  <1>7. MetReachable'
    BY <1>1, <1>2, ReachableKept DEF Inductive, MetReachable
  <1> QED BY <1>4, <1>5, <1>6, <1>7 DEF Inductive

\* Ending the walk, with a refusal or not, ends it where it is.
LEMMA EndInductive == Inductive /\ (MeetForbidden \/ Accept) => Inductive'
  <1> SUFFICES ASSUME Inductive, MeetForbidden \/ Accept PROVE Inductive'
    OBVIOUS
  <1>1. /\ verdict = "walk" /\ verdict' \in {"ok", "forbidden"}
        /\ UNCHANGED <<rows, root, forbidden, graph, queue, paths, current, at>>
    BY DEF MeetForbidden, Accept, boundary, walk
  <1>2. Started /\ Started'
    BY <1>1 DEF Started
  <1>3. TypeOK' /\ WorklistCovers' /\ PathsReal' /\ MetReachable'
    BY <1>1, <1>2, ReachableKept
    DEF Inductive, TypeOK, WorklistCovers, Walked, Passed, PathsReal, MetReachable,
        Chain, Imports
  <1>4. Stopped'
    BY <1>1 DEF MeetForbidden, Accept, Stopped, Walking, Dependency
  <1> QED BY <1>3, <1>4 DEF Inductive

\* A chain of imports continues with what its last module imports.
LEMMA ChainExtends ==
  ASSUME NEW path \in Seq(Local), path # << >>, Chain(path),
         NEW d, Imports(path[Len(path)], d)
  PROVE  Chain(Append(path, d))
  <1>1. Len(Append(path, d)) = Len(path) + 1 /\ Len(path) \in Nat \ {0}
    OBVIOUS
  <1>2. /\ Append(path, d)[Len(path) + 1] = d
        /\ \A i \in 1 .. Len(path) : Append(path, d)[i] = path[i] /\ path[i] \in Local
    OBVIOUS
  <1>3. ASSUME NEW i \in 1 .. Len(path)
        PROVE  /\ Append(path, d)[i] \in Local
               /\ Imports(Append(path, d)[i], Append(path, d)[i + 1])
    <2>1. CASE i = Len(path)
      BY <1>1, <1>2, <2>1
    <2>2. CASE i # Len(path)
      <3>1. i \in 1 .. Len(path) - 1 /\ i + 1 \in 1 .. Len(path)
        BY <1>1, <2>2
      <3> QED BY <1>2, <3>1 DEF Chain
    <2> QED BY <2>1, <2>2
  <1> QED BY <1>1, <1>2, <1>3 DEF Chain

\* A module met for the first time is queued, with a path that ends in it.
LEMMA MeetInductive == Inductive /\ MeetLocal => Inductive'
  <1> SUFFICES ASSUME Inductive, MeetLocal PROVE Inductive'
    OBVIOUS
  <1>0. PICK d : d = Dependency
    OBVIOUS
  <1>1. /\ verdict = "walk" /\ Walking /\ at' = at + 1
        /\ d \notin forbidden /\ d \in Local /\ d \notin DOMAIN paths
        /\ paths' = [m \in DOMAIN paths \cup {d} |->
                       IF m = d THEN Append(paths[current], d) ELSE paths[m]]
        /\ queue' = Append(queue, d)
        /\ UNCHANGED <<rows, root, forbidden, graph, current, verdict>>
    BY <1>0 DEF MeetLocal, boundary
  <1>2. /\ Started /\ Started' /\ at \in Nat \ {0} /\ current \in Local
        /\ \A m \in Local : graph[m] \in Seq(Names)
        /\ queue \in Seq(Local) /\ current \in DOMAIN paths
    BY <1>1 DEF Started, Inductive, TypeOK, WorklistCovers, Walking
  <1>3. DOMAIN paths' = DOMAIN paths \cup {d}
    BY <1>1
  <1>4. /\ Len(queue') = Len(queue) + 1 /\ queue'[Len(queue) + 1] = d
        /\ \A i \in 1 .. Len(queue) : queue'[i] = queue[i]
        /\ queue' \in Seq(Local) /\ Len(queue) \in Nat
    BY <1>1, <1>2
  <1>5. \A m \in DOMAIN paths : Walked(m) => Walked(m)'
    <2>1. \A n : Passed(n) => Passed(n)'
      BY <1>1, <1>3 DEF Passed
    <2>2. Passed(d)'
      BY <1>1, <1>3 DEF Passed
    <2>3. ASSUME NEW i \in DOMAIN graph[current], Walked(current), i < at + 1
          PROVE  Passed(graph[current][i])'
      <3>1. i \in Nat /\ (i < at \/ i = at)
        BY <1>2, <2>3
      <3>2. CASE i = at
        BY <1>0, <1>1, <2>2, <3>2 DEF Dependency, Passed
      <3>3. CASE i < at
        BY <1>1, <1>3, <2>3, <3>3 DEF Walked, Passed
      <3> QED BY <3>1, <3>2, <3>3
    <2> QED BY <1>1, <1>3, <2>3 DEF Walked, Passed
  <1>6. TypeOK'
    BY <1>1, <1>2, <1>3, <1>4 DEF Inductive, TypeOK
  <1>7. WorklistCovers'
    <2>1. /\ root' \in DOMAIN paths' /\ current' \in DOMAIN paths'
          /\ \A i \in 1 .. Len(queue') : queue'[i] \in DOMAIN paths'
      BY <1>1, <1>2, <1>3, <1>4 DEF Inductive, WorklistCovers
    <2>2. ASSUME NEW m \in DOMAIN paths'
          PROVE  Walked(m)' \/ \E i \in 1 .. Len(queue') : queue'[i] = m
      <3>1. CASE m = d
        BY <1>4, <3>1
      <3>2. CASE m \in DOMAIN paths
        BY <1>2, <1>4, <1>5, <3>2 DEF Inductive, WorklistCovers
      <3> QED BY <1>3, <3>1, <3>2
    <2> QED BY <1>2, <2>1, <2>2 DEF WorklistCovers
  <1>8. PathsReal'
    <2>1. /\ paths[current] \in Seq(Local) /\ paths[current] # << >>
          /\ Chain(paths[current]) /\ paths[current][Len(paths[current])] = current
      BY <1>2 DEF Inductive, PathsReal
    <2>2. Imports(current, d)
      BY <1>0, <1>1, <1>2 DEF Imports, Dependency, Walking
    <2>3. Chain(Append(paths[current], d))
      BY <2>1, <2>2, ChainExtends
    <2>4. ASSUME NEW m \in DOMAIN paths'
          PROVE  /\ paths'[m] \in Seq(Local) /\ paths'[m] # << >>
                 /\ Chain(paths'[m]) /\ paths'[m][Len(paths'[m])] = m
      <3>1. CASE m = d
        BY <1>1, <1>3, <2>1, <2>3, <3>1
      <3>2. CASE m # d
        BY <1>1, <1>2, <1>3, <3>2 DEF Inductive, PathsReal
      <3> QED BY <3>1, <3>2
    <2>5. \A m \in DOMAIN paths' : Chain(paths'[m]) <=> Chain(paths[m])'
      BY <1>1 DEF Chain, Imports
    <2> QED BY <2>4, <2>5 DEF PathsReal
  <1>9. MetReachable'
    <2>1. ASSUME NEW S \in SUBSET Local, Closed(S)
          PROVE  DOMAIN paths' \subseteq S
      <3>1. current \in S
        BY <1>2, <2>1 DEF Inductive, MetReachable, Reachable
      <3>2. d \in S
        BY <1>0, <1>1, <1>2, <2>1, <3>1 DEF Closed, Imports, Dependency, Walking
      <3> QED BY <1>2, <1>3, <2>1, <3>2 DEF Inductive, MetReachable, Reachable
    <2>2. DOMAIN paths' \subseteq Reachable
      BY <1>1, <1>2, <1>3, <2>1 DEF Inductive, TypeOK, Reachable
    <2> QED BY <1>1, <2>2, ReachableKept DEF MetReachable
  <1>10. Stopped'
    BY <1>1 DEF Stopped
  <1> QED BY <1>6, <1>7, <1>8, <1>9, <1>10 DEF Inductive

\* Every step of the gate keeps the invariant.
LEMMA NextInductive == Inductive /\ [Next]_vars => Inductive'
  <1> SUFFICES ASSUME Inductive, [Next]_vars PROVE Inductive'
    OBVIOUS
  <1>1. CASE ReadRow
    BY <1>1, BeforeWalk DEF ReadRow, Started
  <1>2. CASE EndManifest
    BY <1>2, BeforeWalk DEF EndManifest, Started, boundary
  <1>3. CASE RefuseHeaders
    BY <1>3, BeforeWalk DEF RefuseHeaders, HeadersFailure, Started, boundary
  <1>4. CASE UNCHANGED vars
    <2>0. UNCHANGED <<root, forbidden, graph, queue, paths, current, at, verdict>>
      BY <1>4 DEF vars
    <2>1. TypeOK'
      BY <2>0 DEF Inductive, TypeOK, Started
    <2>2. WorklistCovers'
      BY <2>0 DEF Inductive, WorklistCovers, Started, Walked, Passed, Walking, Imports
    <2>3. PathsReal'
      <3>1. ASSUME NEW path, Chain(path) PROVE Chain(path)'
        BY <2>0, <3>1 DEF Chain, Imports
      <3> QED BY <2>0, <3>1 DEF Inductive, PathsReal, Started
    <2>4. Stopped'
      BY <2>0 DEF Inductive, Stopped, Walking, Dependency
    <2>5. MetReachable'
      BY <1>4, ReachableKept DEF vars, Inductive, MetReachable, Started
    <2> QED BY <2>1, <2>2, <2>3, <2>4, <2>5 DEF Inductive
  <1> QED
    BY <1>1, <1>2, <1>3, <1>4, StartInductive, VisitInductive, SkipInductive,
       EndInductive, MeetInductive
    DEF Next

\* check_graph's loop invariant: what has been walked is covered, what is met is
\* queued or walked, and every path kept is a real chain of imports.
THEOREM GateInvariant == Spec => []Inductive
  <1> QED BY InitInductive, NextInductive, PTL DEF Spec

\* At an acceptance the modules met hold the root and every local import.
LEMMA MetClosed ==
  ASSUME Inductive, verdict = "ok"
  PROVE  /\ DOMAIN paths \in SUBSET Local /\ Closed(DOMAIN paths)
         /\ \A m \in DOMAIN paths : \A d : Imports(m, d) => Passed(d)
  <1>1. /\ Started /\ ~ Walking /\ queue = << >>
    BY DEF Inductive, Stopped, Started
  <1>2. /\ DOMAIN paths \subseteq Local /\ at \in Nat /\ root \in DOMAIN paths
        /\ \A m \in Local : graph[m] \in Seq(Names)
        /\ \A m \in DOMAIN paths : Walked(m)
    BY <1>1 DEF Inductive, TypeOK, WorklistCovers
  <1>3. ASSUME NEW m \in DOMAIN paths, NEW d, Imports(m, d)
        PROVE  Passed(d)
    <2>1. PICK i \in DOMAIN graph[m] : graph[m][i] = d
      BY <1>3 DEF Imports
    <2>2. m \in Local /\ m # NoModule /\ graph[m] \in Seq(Names)
      BY <1>2, LocalAssumption
    <2>3. i \in 1 .. Len(graph[m])
      BY <2>2
    <2>4. m = current => i < at
      BY <1>1, <1>2, <2>2, <2>3 DEF Walking
    <2> QED BY <1>2, <2>1, <2>4 DEF Walked
  <1>4. Closed(DOMAIN paths)
    BY <1>2, <1>3 DEF Closed, Passed
  <1> QED BY <1>2, <1>3, <1>4

\* Nothing the root depends on imports a forbidden name (check_graph, line 55).
THEOREM GateSound == Spec => []AcceptSound
  <1>1. Inductive => AcceptSound
    <2> SUFFICES ASSUME Inductive, verdict = "ok",
                        NEW m \in Reachable, NEW d \in forbidden
                 PROVE  ~ Imports(m, d)
      BY DEF AcceptSound
    <2>1. m \in DOMAIN paths
      BY MetClosed DEF Reachable
    <2> QED BY <2>1, MetClosed DEF Passed
  <1> QED BY <1>1, GateInvariant, PTL

\* The path a refusal prints is made of real imports (check_graph, line 51).
THEOREM GateRefusalReal == Spec => []RefusalReal
  <1>1. Inductive => RefusalReal
    <2> SUFFICES ASSUME Inductive, verdict = "forbidden"
                 PROVE  Dependency \in forbidden
                        /\ Chain(Append(paths[current], Dependency))
      BY DEF RefusalReal
    <2>1. Started /\ Walking /\ Dependency \in forbidden
      BY DEF Inductive, Stopped, Started
    <2>2. /\ current \in DOMAIN paths /\ at \in Nat \ {0} /\ current \in Local
          /\ graph[current] \in Seq(Names)
      BY <2>1 DEF Inductive, TypeOK, WorklistCovers, Walking
    <2>3. /\ paths[current] \in Seq(Local) /\ paths[current] # << >>
          /\ Chain(paths[current]) /\ paths[current][Len(paths[current])] = current
      BY <2>1, <2>2 DEF Inductive, PathsReal
    <2>4. Imports(current, Dependency)
      BY <2>1, <2>2 DEF Imports, Dependency, Walking
    <2> QED BY <2>1, <2>3, <2>4, ChainExtends
  <1> QED BY <1>1, GateInvariant, PTL

\* The number of modules a passing gate reports counts exactly those the root
\* depends on (check_graph, line 55).
THEOREM GateCountExact == Spec => []CountExact
  <1>1. Inductive => CountExact
    <2> SUFFICES ASSUME Inductive, verdict = "ok" PROVE DOMAIN paths = Reachable
      BY DEF CountExact
    <2>1. DOMAIN paths \subseteq Reachable
      BY DEF Inductive, MetReachable, Started
    <2>2. Reachable \subseteq DOMAIN paths
      BY MetClosed DEF Reachable
    <2> QED BY <2>1, <2>2
  <1> QED BY <1>1, GateInvariant, PTL

\* The two together: what a passing boundary says (check_graph, lines 46 to 55).
THEOREM GateExact == Spec => []AcceptExact
  <1>1. AcceptSound /\ CountExact => AcceptExact
    BY DEF AcceptExact
  <1> QED BY <1>1, GateSound, GateCountExact, PTL
-----------------------------------------------------------------------------
(* Breadth first: what the order of the queue adds to the loop invariant.   *)

\* While the walk goes on, every module met has a distance.
LEMMA Distances ==
  ASSUME Inductive, Started
  PROVE  /\ root \in DOMAIN paths /\ queue \in Seq(Local) /\ at \in Nat \ {0}
         /\ DOMAIN paths \subseteq Local /\ NoModule \notin Local
         /\ current \in Local \cup {NoModule}
         /\ current # NoModule => current \in DOMAIN paths
         /\ \A m \in Local : graph[m] \in Seq(Names)
         /\ \A i \in 1 .. Len(queue) : queue[i] \in DOMAIN paths
         /\ \A m \in DOMAIN paths : Distance(m) \in Nat \ {0} /\ paths[m] \in Seq(Local)
  BY LocalAssumption DEF Inductive, TypeOK, WorklistCovers, PathsReal, Distance

\* The walk starts with one path, the shortest there is.
LEMMA StartBreadth == Inductive /\ StartWalk => BreadthFirst'
  <1> SUFFICES ASSUME Inductive, StartWalk PROVE BreadthFirst'
    OBVIOUS
  <1>1. current = NoModule /\ current' = current
        /\ queue' = <<root>> /\ root' = root /\ paths' = [m \in {root} |-> <<root>>]
    BY DEF StartWalk, Started, Inductive, TypeOK, boundary
  <1>2. ByDistance'
    BY <1>1 DEF ByDistance, Distance
  <1>3. NearWalked'
    BY <1>1 DEF NearWalked, Waiting
  <1> QED BY <1>2, <1>3 DEF BreadthFirst

\* The module taken is the nearest still queued; the one walked before it has
\* been walked to its end.
LEMMA VisitBreadth == Inductive /\ BreadthFirst /\ Visit => BreadthFirst'
  <1> SUFFICES ASSUME Inductive, BreadthFirst, Visit PROVE BreadthFirst'
    OBVIOUS
  <1>1. /\ verdict = "walk" /\ ~ Walking /\ queue # << >>
        /\ current' = Head(queue) /\ at' = 1 /\ queue' = Tail(queue)
        /\ UNCHANGED <<root, forbidden, graph, paths>>
    BY DEF Visit, boundary
  <1>2. Started /\ ByDistance /\ NearWalked
    BY <1>1 DEF Started, BreadthFirst
  <1>3. /\ Len(queue) \in Nat \ {0} /\ Head(queue) = queue[1]
        /\ Len(Tail(queue)) = Len(queue) - 1
        /\ \A i \in 1 .. Len(queue) - 1 : Tail(queue)[i] = queue[i + 1]
    BY <1>1, <1>2, Distances
  <1>4. ByDistance'
    <2>1. Distance(root) = 1 /\ current' # NoModule /\ current' \in DOMAIN paths
      BY <1>1, <1>2, <1>3, Distances DEF ByDistance
    <2>2. ASSUME NEW i \in 1 .. Len(queue'), NEW j \in 1 .. Len(queue'), i <= j
          PROVE  Distance(queue'[i]) <= Distance(queue'[j])
      BY <1>1, <1>2, <1>3, <2>2 DEF ByDistance
    <2>3. ASSUME NEW i \in 1 .. Len(queue')
          PROVE  Distance(current') <= Distance(queue'[i])
      BY <1>1, <1>2, <1>3, <2>3 DEF ByDistance
    <2>4. ASSUME NEW m \in DOMAIN paths
          PROVE  Distance(m) <= Distance(current') + 1
      <3>1. Distance(m) \in Nat /\ Distance(queue[1]) \in Nat
        BY <1>2, <1>3, Distances
      <3>2. CASE current = NoModule
        BY <1>2, <3>1, <3>2, Distances, <2>1 DEF ByDistance
      <3>3. CASE current # NoModule
        <4>1. Distance(m) <= Distance(current) + 1 /\ Distance(current) <= Distance(queue[1])
          BY <1>2, <1>3, <3>3 DEF ByDistance
        <4>2. Distance(current) \in Nat
          BY <1>2, <3>3, Distances
        <4> QED BY <1>1, <1>3, <3>1, <4>1, <4>2
      <3> QED BY <3>2, <3>3
    <2>5. \A m : Distance(m)' = Distance(m)
      BY <1>1 DEF Distance
    <2> QED BY <1>1, <2>1, <2>2, <2>3, <2>4, <2>5 DEF ByDistance, Distance
  <1>5. NearWalked'
    <2> SUFFICES ASSUME NEW m \in DOMAIN paths, ~ Waiting(m)',
                        NEW i \in DOMAIN graph[m], m = current' => i < 1
                 PROVE  Near(m, graph[m][i])
      BY <1>1 DEF NearWalked, Near, Passed, Distance
    <2>1. m \in Local /\ graph[m] \in Seq(Names) /\ i \in 1 .. Len(graph[m])
      BY <1>2, Distances
    <2>2. m # Head(queue)
      BY <1>1, <2>1
    <2>3. ~ Waiting(m)
      <3> SUFFICES ASSUME NEW k \in 1 .. Len(queue), queue[k] = m PROVE FALSE
        BY DEF Waiting
      <3>1. k # 1
        BY <1>3, <2>2
      <3>2. k - 1 \in 1 .. Len(queue') /\ queue'[k - 1] = m
        BY <1>1, <1>3, <3>1
      <3> QED BY <3>2 DEF Waiting
    <2>4. m = current => i < at
      BY <1>1, <1>2, <2>1, Distances DEF Walking
    <2> QED BY <1>2, <2>3, <2>4 DEF NearWalked
  <1> QED BY <1>4, <1>5 DEF BreadthFirst

\* A name passed over is forbidden nowhere and, when local, already near.
LEMMA SkipBreadth == Inductive /\ BreadthFirst /\ SkipImport => BreadthFirst'
  <1> SUFFICES ASSUME Inductive, BreadthFirst, SkipImport PROVE BreadthFirst'
    OBVIOUS
  <1>1. /\ verdict = "walk" /\ Walking /\ at' = at + 1 /\ Passed(Dependency)
        /\ UNCHANGED <<root, forbidden, graph, queue, paths, current>>
    BY DEF SkipImport, boundary, Passed
  <1>2. Started /\ ByDistance /\ NearWalked /\ current # NoModule
    BY <1>1 DEF Started, BreadthFirst, Walking
  <1>3. ByDistance'
    BY <1>1, <1>2 DEF ByDistance, Distance
  <1>4. Near(current, Dependency)
    BY <1>1, <1>2 DEF Near, Passed, ByDistance
  <1>5. NearWalked'
    <2> SUFFICES ASSUME NEW m \in DOMAIN paths, ~ Waiting(m),
                        NEW i \in DOMAIN graph[m], m = current => i < at + 1
                 PROVE  Near(m, graph[m][i])
      BY <1>1 DEF NearWalked, Near, Passed, Distance, Waiting
    <2>1. i \in Nat /\ at \in Nat
      BY <1>2, Distances
    <2>2. CASE m = current /\ i = at
      BY <1>4, <2>2 DEF Dependency
    <2>3. CASE ~ (m = current /\ i = at)
      BY <1>2, <2>1, <2>3 DEF NearWalked
    <2> QED BY <2>2, <2>3
  <1> QED BY <1>3, <1>5 DEF BreadthFirst

\* A module met for the first time is one import beyond the module being walked,
\* and nothing queued lies further.
LEMMA MeetBreadth == Inductive /\ BreadthFirst /\ MeetLocal => BreadthFirst'
  <1> SUFFICES ASSUME Inductive, BreadthFirst, MeetLocal PROVE BreadthFirst'
    OBVIOUS
  <1>0. PICK d : d = Dependency
    OBVIOUS
  <1>1. /\ verdict = "walk" /\ Walking /\ at' = at + 1
        /\ d \notin forbidden /\ d \in Local /\ d \notin DOMAIN paths
        /\ paths' = [m \in DOMAIN paths \cup {d} |->
                       IF m = d THEN Append(paths[current], d) ELSE paths[m]]
        /\ queue' = Append(queue, d)
        /\ UNCHANGED <<root, forbidden, graph, current>>
    BY <1>0 DEF MeetLocal, boundary
  <1>2. /\ Started /\ ByDistance /\ NearWalked /\ current # NoModule
        /\ current \in DOMAIN paths /\ at \in Nat \ {0}
    BY <1>1, Distances DEF Started, BreadthFirst, Walking
  <1>3. /\ DOMAIN paths' = DOMAIN paths \cup {d}
        /\ \A m \in DOMAIN paths : Distance(m)' = Distance(m) /\ m # d
        /\ Distance(d)' = Distance(current) + 1
    BY <1>1, <1>2, Distances DEF Distance
  <1>4. /\ Len(queue') = Len(queue) + 1 /\ queue'[Len(queue) + 1] = d
        /\ \A i \in 1 .. Len(queue) : queue'[i] = queue[i] /\ queue[i] \in DOMAIN paths
        /\ Len(queue) \in Nat
    BY <1>1, <1>2, Distances
  <1>5. \A m \in DOMAIN paths : Distance(m) \in Nat /\ Distance(m) <= Distance(current) + 1
    BY <1>2, Distances DEF ByDistance
  <1>6. ByDistance'
    <2>1. Distance(root)' = 1 /\ current' # NoModule
      BY <1>1, <1>2, <1>3, Distances DEF ByDistance, Distance
    <2>2. ASSUME NEW i \in 1 .. Len(queue'), NEW j \in 1 .. Len(queue'), i <= j
          PROVE  Len(paths'[queue'[i]]) <= Len(paths'[queue'[j]])
      <3>1. CASE j \in 1 .. Len(queue)
        <4>1. i \in 1 .. Len(queue) /\ queue'[i] = queue[i] /\ queue'[j] = queue[j]
              /\ queue[i] \in DOMAIN paths /\ queue[j] \in DOMAIN paths
          BY <1>4, <2>2, <3>1
        <4>2. Len(paths[queue[i]]) <= Len(paths[queue[j]])
          BY <1>2, <2>2, <3>1, <4>1 DEF ByDistance, Distance
        <4> QED BY <1>3, <4>1, <4>2 DEF Distance
      <3>2. CASE j = Len(queue) + 1 /\ i \in 1 .. Len(queue)
        BY <1>3, <1>4, <1>5, <3>2 DEF Distance
      <3>3. CASE j = Len(queue) + 1 /\ i = Len(queue) + 1
        BY <1>2, <1>3, <1>4, <1>5, <3>3 DEF Distance
      <3> QED BY <1>4, <2>2, <3>1, <3>2, <3>3
    <2>3. ASSUME NEW i \in 1 .. Len(queue')
          PROVE  Len(paths'[current']) <= Len(paths'[queue'[i]])
      <3>1. CASE i \in 1 .. Len(queue)
        BY <1>1, <1>2, <1>3, <1>4, <3>1 DEF ByDistance, Distance
      <3>2. CASE i = Len(queue) + 1
        BY <1>1, <1>2, <1>3, <1>4, <1>5, <3>2 DEF Distance
      <3> QED BY <1>4, <3>1, <3>2
    <2>4. ASSUME NEW m \in DOMAIN paths'
          PROVE  Len(paths'[m]) <= Len(paths'[current']) + 1
      BY <1>1, <1>2, <1>3, <1>5 DEF Distance
    <2> QED BY <2>1, <2>2, <2>3, <2>4 DEF ByDistance, Distance
  <1>7. \A e : \A m \in DOMAIN paths : Near(m, e) => Near(m, e)'
    BY <1>1, <1>3 DEF Near, Passed, Distance
  <1>8. Near(current, d)'
    BY <1>1, <1>2, <1>3, <1>5 DEF Near, Passed, Distance
  <1>9. NearWalked'
    <2> SUFFICES ASSUME NEW m \in DOMAIN paths', ~ Waiting(m)',
                        NEW i \in DOMAIN graph[m], m = current => i < at + 1
                 PROVE  Near(m, graph[m][i])'
      BY <1>1 DEF NearWalked, Near, Passed, Distance, Waiting
    <2>1. m # d
      BY <1>4 DEF Waiting
    <2>2. m \in DOMAIN paths /\ ~ Waiting(m)
      BY <1>3, <1>4, <2>1 DEF Waiting
    <2>3. i \in Nat
      BY <1>2, <2>2, Distances
    <2>4. CASE m = current /\ i = at
      BY <1>0, <1>1, <1>8, <2>4 DEF Dependency, Near, Passed, Distance
    <2>5. CASE ~ (m = current /\ i = at)
      <3>1. Near(m, graph[m][i])
        BY <1>2, <2>2, <2>3, <2>5 DEF NearWalked
      <3>2. PICK e : e = graph[m][i]
        OBVIOUS
      <3>3. Near(m, e)'
        BY <1>7, <2>2, <3>1, <3>2
      <3> QED BY <1>1, <3>2, <3>3 DEF Near, Passed, Distance
    <2> QED BY <2>4, <2>5
  <1> QED BY <1>6, <1>9 DEF BreadthFirst

\* Every step of the walk keeps it breadth first.
LEMMA NextBreadth == Inductive /\ BreadthFirst /\ [Next]_vars => BreadthFirst'
  <1> SUFFICES ASSUME Inductive, BreadthFirst, [Next]_vars PROVE BreadthFirst'
    OBVIOUS
  <1>1. CASE ReadRow \/ EndManifest \/ RefuseHeaders
    BY <1>1 DEF ReadRow, EndManifest, RefuseHeaders, HeadersFailure, BreadthFirst, Started
  <1>2. CASE MeetForbidden \/ Accept \/ UNCHANGED vars
    <2>1. /\ Started' => Started
          /\ UNCHANGED <<root, forbidden, graph, queue, paths, current, at>>
      BY <1>2 DEF MeetForbidden, Accept, vars, boundary, walk, Started
    <2>2. ByDistance => ByDistance'
      BY <2>1 DEF ByDistance, Distance
    <2>3. NearWalked => NearWalked'
      BY <2>1 DEF NearWalked, Waiting, Near, Passed, Distance
    <2> QED BY <2>1, <2>2, <2>3 DEF BreadthFirst
  <1> QED
    BY <1>1, <1>2, StartBreadth, VisitBreadth, SkipBreadth, MeetBreadth DEF Next

\* check_graph's queue is a breadth-first frontier: it is sorted by distance from
\* the root and spans at most two distances (check_graph, lines 44 to 54).
THEOREM GateBreadthFirst == Spec => []BreadthFirst
  <1>1. Init => BreadthFirst
    BY DEF Init, GateInit, BreadthFirst, Started
  <1> QED BY <1>1, NextBreadth, GateInvariant, PTL DEF Spec

\* A chain of imports shorter than the walked module's path has been walked itself:
\* each of its modules is met, no further from the root than it stands in the chain.
LEMMA ShortChainsWalked ==
  ASSUME Inductive, BreadthFirst, verdict = "forbidden",
         NEW n \in 1 .. Len(paths[current]) - 1,
         NEW path \in [1 .. n -> Local], NEW d, Chain(Append(path, d))
  PROVE  d \notin forbidden
  <1>1. Started /\ current # NoModule /\ ByDistance /\ NearWalked
    BY DEF Inductive, Stopped, Started, BreadthFirst, Walking
  <1>2. /\ current \in DOMAIN paths /\ Distance(current) \in Nat /\ n < Distance(current)
        /\ path \in Seq(Local) /\ Len(path) = n /\ n \in Nat \ {0}
    <2>1. current \in DOMAIN paths /\ Distance(current) \in Nat
      BY <1>1, Distances
    <2>2. n \in Nat \ {0} /\ n < Distance(current)
      BY <2>1 DEF Distance
    <2>3. path \in Seq(Local) /\ Len(path) = n
      BY <2>2
    <2> QED BY <2>1, <2>2, <2>3
  <1>3. /\ Len(Append(path, d)) = n + 1 /\ Append(path, d)[n + 1] = d
        /\ \A i \in 1 .. n : Append(path, d)[i] = path[i]
    BY <1>2
  <1>4. path[1] = root /\ \A i \in 1 .. n : Imports(path[i], Append(path, d)[i + 1])
    BY <1>2, <1>3 DEF Chain
  <1>5. ASSUME NEW k \in 1 .. n, path[k] \in DOMAIN paths, Distance(path[k]) <= k,
               NEW e, Imports(path[k], e)
        PROVE  Near(path[k], e)
    <2>1. path[k] # current /\ ~ Waiting(path[k])
      <3>1. Distance(path[k]) < Distance(current) /\ Distance(path[k]) \in Nat
        BY <1>1, <1>2, <1>5, Distances
      <3>2. \A i \in 1 .. Len(queue) : Distance(queue[i]) \in Nat
        BY <1>1, Distances
      <3> QED BY <1>1, <1>2, <3>1, <3>2 DEF Waiting, ByDistance
    <2> QED BY <1>1, <1>5, <2>1 DEF NearWalked, Imports
  <1> DEFINE Met(k) == k + 1 <= n => path[k + 1] \in DOMAIN paths /\ Distance(path[k + 1]) <= k + 1
             S == {k \in Nat : Met(k)}
  <1>6. 0 \in S
    BY <1>1, <1>4, Distances DEF ByDistance
  <1>7. ASSUME NEW k \in Nat, k \in S PROVE k + 1 \in S
    <2> SUFFICES ASSUME k + 2 <= n
                 PROVE  path[k + 2] \in DOMAIN paths /\ Distance(path[k + 2]) <= k + 2
      BY <1>2
    <2>1. /\ k + 1 \in 1 .. n /\ k + 2 \in 1 .. n
          /\ path[k + 1] \in DOMAIN paths /\ Distance(path[k + 1]) <= k + 1
      BY <1>2, <1>7
    <2>2. path[k + 2] \in Local /\ Imports(path[k + 1], path[k + 2])
      BY <1>2, <1>3, <1>4, <2>1
    <2>3. Near(path[k + 1], path[k + 2])
      BY <1>5, <2>1, <2>2
    <2>4. Distance(path[k + 1]) \in Nat /\ Distance(path[k + 2]) \in Nat
      BY <1>1, <2>1, <2>2, <2>3, Distances DEF Near, Passed
    <2> QED BY <2>1, <2>2, <2>3, <2>4 DEF Near, Passed
  <1> HIDE DEF S
  <1>8. Nat \subseteq S
    BY <1>6, <1>7, BySet
  <1>9. n - 1 \in S
    BY <1>2, <1>8
  <1>10. path[n] \in DOMAIN paths /\ Distance(path[n]) <= n
    BY <1>2, <1>9 DEF S
  <1>11. n \in 1 .. n /\ Imports(path[n], d)
    BY <1>2, <1>3, <1>4
  <1> QED BY <1>5, <1>10, <1>11 DEF Near, Passed

\* The chain a refusal prints has no shorter rival: no forbidden name can be reached
\* from the root by fewer imports (check_graph, lines 46 to 54).
THEOREM GateRefusalShortest == Spec => []RefusalShortest
  <1>1. Inductive /\ BreadthFirst => RefusalShortest
    BY ShortChainsWalked DEF RefusalShortest
  <1> QED BY <1>1, GateInvariant, GateBreadthFirst, PTL
-----------------------------------------------------------------------------
(* The stratification.                                                      *)

\* The letters stand in the order they are listed in, each once.
LEMMA LetterHeights ==
  /\ DOMAIN Letters = 1 .. 14 /\ Len(Letters) = 14
  /\ ToSet(Letters) = {"U", "F", "G", "S", "B", "E", "M", "R", "X", "P", "K", "D", "Q", "N"}
  /\ Height(Letter("U")) = 1 /\ Height(Letter("F")) = 2 /\ Height(Letter("G")) = 3
  /\ Height(Letter("S")) = 4 /\ Height(Letter("B")) = 5 /\ Height(Letter("E")) = 6
  /\ Height(Letter("M")) = 7 /\ Height(Letter("R")) = 8 /\ Height(Letter("X")) = 9
  /\ Height(Letter("P")) = 10 /\ Height(Letter("K")) = 11 /\ Height(Letter("D")) = 12
  /\ Height(Letter("Q")) = 13 /\ Height(Letter("N")) = 14
  <1>1. DOMAIN Letters = 1 .. 14 /\ Len(Letters) = 14
    BY DEF Letters
  <1>2. /\ Letters[1] = "U" /\ Letters[2] = "F" /\ Letters[3] = "G" /\ Letters[4] = "S"
        /\ Letters[5] = "B" /\ Letters[6] = "E" /\ Letters[7] = "M" /\ Letters[8] = "R"
        /\ Letters[9] = "X" /\ Letters[10] = "P" /\ Letters[11] = "K" /\ Letters[12] = "D"
        /\ Letters[13] = "Q" /\ Letters[14] = "N"
    BY DEF Letters
  <1>3. \A i \in 1 .. 14 : i = 1 \/ i = 2 \/ i = 3 \/ i = 4 \/ i = 5 \/ i = 6 \/ i = 7
          \/ i = 8 \/ i = 9 \/ i = 10 \/ i = 11 \/ i = 12 \/ i = 13 \/ i = 14
    OBVIOUS
  <1>4. ToSet(Letters) = {"U", "F", "G", "S", "B", "E", "M", "R", "X", "P", "K", "D", "Q", "N"}
    BY <1>1, <1>2, <1>3 DEF ToSet
  <1>5. \A i \in 1 .. 14, j \in 1 .. 14 : Letters[i] = Letters[j] => i = j
    BY <1>2, <1>3
  <1>6. \A i \in 1 .. 14 : Height(Letter(Letters[i])) = i
    <2> SUFFICES ASSUME NEW i \in 1 .. 14
                 PROVE  (CHOOSE j \in DOMAIN Letters : Letters[j] = Letters[i]) = i
      BY DEF Height, Letter
    <2> QED BY <1>1, <1>5
  <1> HIDE DEF Letters
  <1> QED BY <1>1, <1>2, <1>4, <1>6

\* The strata, with the height of each.
LEMMA StratumForms ==
  ASSUME NEW s \in Strata
  PROVE  \/ \E l \in ToSet(Letters) : s = Letter(l) /\ Height(s) \in 1 .. 14
         \/ \E n \in 0 .. 17 : s = Agent(n) /\ Height(s) = 15 + n
         \/ \E n \in 0 .. 19 : s = Machine(n) /\ Height(s) = 33 + n
  <1>1. \A l \in ToSet(Letters) : Height(Letter(l)) \in 1 .. 14
    BY LetterHeights
  <1>2. /\ \A n \in 0 .. 17 : Height(Agent(n)) = 15 + n
        /\ \A n \in 0 .. 19 : Height(Machine(n)) = 33 + n
    BY LetterHeights DEF Height, Agent, Machine
  <1> QED BY <1>1, <1>2 DEF Strata

\* The table of allowed imports climbs nowhere: an import leads to a lower stratum, or
\* stays within one letter (allowed_dependency).
LEMMA AllowedDescends ==
  ASSUME NEW from \in Strata, NEW to \in Strata, Allowed(from, to)
  PROVE  Height(to) < Height(from) \/ (to = from /\ from.group = "letter")
  <1>1. \A l \in ToSet(Letters) : \A k \in Reads[l] :
          k \in ToSet(Letters) /\ (k = l \/ Height(Letter(k)) < Height(Letter(l)))
    BY LetterHeights DEF Reads
  <1>2. CASE to.group = "letter" /\ from.group = "letter"
    <2>1. PICK l \in ToSet(Letters), k \in ToSet(Letters) : from = Letter(l) /\ to = Letter(k)
      BY <1>2, StratumForms DEF Agent, Machine
    <2>2. k \in Reads[l]
      BY <1>2, <2>1 DEF Allowed, Letter
    <2> QED BY <1>1, <1>2, <2>1, <2>2
  <1>3. CASE to.group = "letter" /\ from.group # "letter"
    BY <1>3, StratumForms DEF Letter, Agent, Machine
  <1>4. CASE to.group = "agent"
    <2>1. PICK n \in 0 .. 17 : to = Agent(n) /\ Height(to) = 15 + n
      BY <1>4, StratumForms DEF Letter, Machine
    <2>2. \/ \E k \in 0 .. 17 : from = Agent(k) /\ Height(from) = 15 + k /\ n < k
          \/ \E k \in 0 .. 19 : from = Machine(k) /\ Height(from) = 33 + k
      BY <1>4, <2>1, StratumForms DEF Allowed, Letter, Agent, Machine
    <2> QED BY <2>1, <2>2
  <1>5. CASE to.group = "machine"
    <2>1. PICK n \in 0 .. 19 : to = Machine(n) /\ Height(to) = 33 + n
      BY <1>5, StratumForms DEF Letter, Agent
    <2>2. \E k \in 0 .. 19 : from = Machine(k) /\ Height(from) = 33 + k /\ n < k
      BY <1>5, <2>1, StratumForms DEF Allowed, Letter, Agent, Machine
    <2> QED BY <2>1, <2>2
  <1>6. to.group \in {"letter", "agent", "machine"}
    BY StratumForms DEF Letter, Agent, Machine
  <1> QED BY <1>2, <1>3, <1>4, <1>5, <1>6

\* A module that is read imports no test, and its header is a sequence.
LEMMA FilesClear ==
  ASSUME HeadersTyped, \A m \in sources : FileFailures(m) = {}
  PROVE  \A m \in sources : headers[m] \in Seq(Imported) /\ ToSet(headers[m]) \cap Tests = {}
  BY DEF HeadersTyped, FileFailures

\* Nothing has been listed yet.
LEMMA StrataInitInductive == StrataInit /\ HeadersTyped => StrataInductive
  BY DEF StrataInit, StrataInductive, StrataTypeOK, EndsCompared, ReachReal, Accepting

\* Reading the inventory ends in no walk.
LEMMA InventoryInductive ==
  StrataInductive /\ (ReadEntry \/ RefuseFiles) => StrataInductive'
  <1> SUFFICES ASSUME StrataInductive, ReadEntry \/ RefuseFiles PROVE StrataInductive'
    OBVIOUS
  <1>1. /\ stage = "inventory" /\ UNCHANGED <<sources, headers, pending, worklist, place, seen>>
    BY DEF ReadEntry, RefuseFiles, tables, walking
  <1>2. stage' \notin {"walk", "reach", "ok"}
    <2>1. \A m : FileFailures(m) \subseteq {"unreadable", "test imported"}
      BY DEF FileFailures
    <2>2. \A row : EntryFailure(row) \in
            {"malformed", "duplicate", "unknown stratum", "not enforced", "none"}
      BY DEF EntryFailure
    <2> QED BY <1>1, <2>1, <2>2 DEF ReadEntry, RefuseFiles
  <1>3. \A m \in DOMAIN layer' : layer'[m] \in Strata
    <2>1. CASE layer' = layer
      BY <2>1 DEF StrataInductive, StrataTypeOK
    <2>2. CASE /\ layer' = [m \in DOMAIN layer \cup {Head(inventory).module} |->
                              IF m = Head(inventory).module THEN Head(inventory).stratum
                              ELSE layer[m]]
               /\ EntryFailure(Head(inventory)) = "none"
      <3>1. Head(inventory).stratum \in Strata
        BY <2>2 DEF EntryFailure
      <3> QED BY <2>2, <3>1 DEF StrataInductive, StrataTypeOK
    <2> QED BY <2>1, <2>2 DEF ReadEntry, RefuseFiles, tables
  <1> QED BY <1>1, <1>2, <1>3
    DEF StrataInductive, StrataTypeOK, HeadersTyped, EndsCompared, ReachReal, Accepting

\* A complete inventory starts the walks with no file of the theory looked at.
LEMMA StartWalksInductive == StrataInductive /\ StartWalks => StrataInductive'
  <1> SUFFICES ASSUME StrataInductive, StartWalks PROVE StrataInductive'
    OBVIOUS
  <1>1. /\ stage = "inventory" /\ worklist = << >> /\ place = 1 /\ HeadersTyped
        /\ \A m \in DOMAIN layer : layer[m] \in Strata
        /\ UNCHANGED <<sources, headers, layer, worklist, place, seen>>
        /\ stage' = Compared /\ (Compared = "walk" => pending' = DOMAIN layer)
    BY DEF StartWalks, tables, walking, StrataInductive, StrataTypeOK
  <1>2. \A m \in sources : headers[m] \in Seq(Imported) /\ ToSet(headers[m]) \cap Tests = {}
    BY <1>1, FilesClear DEF StartWalks
  <1>3. /\ stage' \notin {"inventory", "reach", "ok"}
        /\ stage' = "walk" => DOMAIN layer = sources
    BY <1>1 DEF Compared
  <1>4. StrataTypeOK'
    BY <1>1, <1>2, <1>3 DEF StrataTypeOK, HeadersTyped, Accepting
  <1> QED BY <1>1, <1>3, <1>4 DEF StrataInductive, EndsCompared, ReachReal

\* While a walk goes on, the tables agree and the worklist is one of listed modules.
LEMMA WalkTyped ==
  ASSUME StrataInductive, Accepting
  PROVE  /\ DOMAIN layer = sources /\ \A m \in sources : layer[m] \in Strata
         /\ \A m \in sources : headers[m] \in Seq(Imported) /\ ToSet(headers[m]) \cap Tests = {}
         /\ worklist \in Seq(sources) /\ place \in Nat \ {0} /\ HeadersTyped
         /\ worklist = << >> => place = 1
  BY DEF StrataInductive, StrataTypeOK

\* A walk that keeps the tables needs only its own worklist looked at.
LEMMA WalkKeepsTypes ==
  ASSUME StrataInductive, Accepting, stage' # "inventory", UNCHANGED tables,
         worklist' \in Seq(sources), place' \in Nat \ {0}, worklist' = << >> => place' = 1
  PROVE  StrataTypeOK'
  BY WalkTyped DEF StrataTypeOK, HeadersTyped, tables, Accepting

\* A walk starts from the next module.
LEMMA WalkFromInductive ==
  ASSUME StrataInductive, NEW r \in sources, WalkFrom(r) PROVE StrataInductive'
  <1>1. /\ stage = "walk" /\ Accepting /\ worklist = << >> /\ place = 1
        /\ worklist' = <<r>> /\ pending' = pending \ {r}
        /\ UNCHANGED <<sources, headers, layer, place, stage>>
    BY WalkTyped DEF WalkFrom, Accepting, tables
  <1>2. StrataTypeOK'
    BY <1>1, WalkTyped, WalkKeepsTypes DEF tables
  <1>3. ASSUME NEW m \in sources, m \notin pending', NEW i \in DOMAIN headers[m]
        PROVE  Respects(m, i) \/ Ahead(m, i)'
    <2>1. i \in Nat \ {0}
      BY <1>1, WalkTyped
    <2>2. CASE m = r
      BY <1>1, <2>1, <2>2 DEF Ahead
    <2>3. CASE m # r
      BY <1>1, <1>3, <2>3 DEF StrataInductive, EndsCompared, Ahead
    <2> QED BY <2>2, <2>3
  <1>4. EndsCompared'
    BY <1>1, <1>3 DEF EndsCompared, Respects
  <1> QED BY <1>1, <1>2, <1>4 DEF StrataInductive, ReachReal

\* The two walks look at imports in the same way.
LEMMA LookTyped ==
  ASSUME StrataInductive, Accepting, NEW m \in sources, PassOver(m) \/ MeetListed(m)
  PROVE  /\ UNCHANGED <<sources, headers, layer, pending, stage>>
         /\ worklist # << >> /\ m = worklist[1] /\ place \in DOMAIN headers[m]
         /\ place' = place + 1
         /\ worklist' \in Seq(sources) /\ worklist' # << >>
         /\ \A k \in DOMAIN worklist : k \in DOMAIN worklist' /\ worklist'[k] = worklist[k]
         /\ Looked(m) \in sources => Looked(m) \in seen'
         /\ seen' = seen \/ (Looked(m) \in sources /\ seen' = seen \cup {Looked(m)})
         /\ ToSet(worklist') \subseteq ToSet(worklist) \cup (seen' \ seen)
  <1>1. /\ UNCHANGED <<sources, headers, layer, pending, stage>>
        /\ Looking(m) /\ place' = place + 1
    BY DEF PassOver, MeetListed, tables
  <1>2. worklist # << >> /\ m = worklist[1] /\ place \in DOMAIN headers[m]
    BY <1>1, WalkTyped DEF Looking, AtHead
  <1>3. CASE PassOver(m)
    BY <1>1, <1>2, <1>3, WalkTyped DEF PassOver
  <1>4. CASE MeetListed(m)
    <2>1. PICK d \in sources \ seen : /\ d = Looked(m)
                                      /\ worklist' = Append(worklist, d) /\ seen' = seen \cup {d}
      BY <1>4, WalkTyped DEF MeetListed
    <2>2. /\ worklist' \in Seq(sources) /\ DOMAIN worklist' = 1 .. Len(worklist) + 1
          /\ \A k \in 1 .. Len(worklist) : worklist'[k] = worklist[k]
          /\ worklist'[Len(worklist) + 1] = d
      BY <2>1, WalkTyped
    <2>3. ToSet(worklist') \subseteq ToSet(worklist) \cup {d}
      BY <2>2, WalkTyped DEF ToSet
    <2> QED BY <1>1, <1>2, <2>1, <2>2, <2>3, WalkTyped
  <1> QED BY <1>3, <1>4

\* The next import is one the stratum allows: it is met, or passed over.
LEMMA LookAllowedInductive ==
  ASSUME StrataInductive, NEW m \in sources, LookAllowed(m) PROVE StrataInductive'
  <1>1. /\ stage = "walk" /\ Accepting /\ ~ Forbids(m)
        /\ UNCHANGED <<sources, headers, layer, pending, stage>>
        /\ worklist # << >> /\ m = worklist[1] /\ place \in DOMAIN headers[m]
        /\ place' = place + 1
        /\ worklist' \in Seq(sources) /\ worklist' # << >>
        /\ \A k \in DOMAIN worklist : k \in DOMAIN worklist' /\ worklist'[k] = worklist[k]
    BY LookTyped DEF LookAllowed, Accepting
  <1>2. StrataTypeOK'
    BY <1>1, WalkTyped, WalkKeepsTypes DEF tables
  <1>3. Respects(m, place)
    BY <1>1, WalkTyped DEF Forbids, Looked, Respects
  <1>4. ASSUME NEW x \in sources \ pending, NEW i \in DOMAIN headers[x]
        PROVE  Respects(x, i) \/ Ahead(x, i)'
    <2>1. Respects(x, i) \/ Ahead(x, i)
      BY <1>1 DEF StrataInductive, EndsCompared
    <2>2. ASSUME NEW k \in DOMAIN worklist, worklist[k] = x, k = 1 => place <= i
          PROVE  Respects(x, i) \/ Ahead(x, i)'
      <3>1. i \in Nat /\ place \in Nat
        BY <1>1, WalkTyped
      <3>2. CASE k = 1 /\ i = place
        BY <1>1, <1>3, <2>2, <3>2
      <3>3. CASE ~ (k = 1 /\ i = place)
        BY <1>1, <2>2, <3>1, <3>3 DEF Ahead
      <3> QED BY <3>2, <3>3
    <2> QED BY <2>1, <2>2 DEF Ahead
  <1>5. EndsCompared'
    BY <1>1, <1>4 DEF EndsCompared, Respects
  <1> QED BY <1>1, <1>2, <1>5 DEF StrataInductive, ReachReal

\* What a module in the public tree imports, if it is listed, is in the tree.
LEMMA TreeGrows ==
  ASSUME NEW m \in PublicTree, NEW d \in sources, d \in ToSet(headers[m])
  PROVE  d \in PublicTree
  <1>1. PICK r \in ToSet(PublicRoots) \cap sources : m = r \/ m \in Dependencies(r)
    BY DEF PublicTree
  <1>2. d \in Dependencies(r)
    BY <1>1 DEF Dependencies, Holds
  <1> QED BY <1>2 DEF PublicTree

\* The next import on the way from the public roots is met, or passed over.
LEMMA LookReachedInductive ==
  ASSUME StrataInductive, NEW m \in sources, LookReached(m) PROVE StrataInductive'
  <1>1. /\ stage = "reach" /\ Accepting
        /\ UNCHANGED <<sources, headers, layer, stage>>
        /\ worklist # << >> /\ m = worklist[1] /\ place \in DOMAIN headers[m]
        /\ place' = place + 1
        /\ worklist' \in Seq(sources) /\ worklist' # << >>
        /\ seen' = seen \/ (Looked(m) \in sources /\ seen' = seen \cup {Looked(m)})
        /\ ToSet(worklist') \subseteq ToSet(worklist) \cup (seen' \ seen)
    BY LookTyped DEF LookReached, Accepting
  <1>2. StrataTypeOK'
    BY <1>1, WalkTyped, WalkKeepsTypes DEF tables
  <1>3. EndsCompared'
    BY <1>1 DEF StrataInductive, EndsCompared, Respects
  <1>4. PublicTree' = PublicTree
    BY <1>1 DEF PublicTree, Dependencies, Holds
  <1>5. m \in PublicTree /\ ToSet(worklist) \subseteq seen /\ seen \subseteq PublicTree
    <2>1. m \in ToSet(worklist)
      BY <1>1, WalkTyped DEF ToSet
    <2> QED BY <1>1, <2>1 DEF StrataInductive, ReachReal
  <1>6. Looked(m) \in sources => Looked(m) \in PublicTree
    BY <1>1, <1>5, TreeGrows DEF Looked, ToSet
  <1>7. ToSet(worklist') \subseteq seen' /\ seen' \subseteq PublicTree
    BY <1>1, <1>5, <1>6
  <1>8. ReachReal'
    BY <1>1, <1>4, <1>7 DEF ReachReal, ToSet
  <1> QED BY <1>2, <1>3, <1>8 DEF StrataInductive

\* A module leaves its walk once the walk has come to the end of its header.
LEMMA LeaveInductive ==
  ASSUME StrataInductive, NEW m \in sources, LeaveModule(m) PROVE StrataInductive'
  <1>1. /\ stage \in {"walk", "reach"} /\ Accepting
        /\ worklist # << >> /\ m = Head(worklist) /\ place > Len(headers[m])
        /\ worklist' = Tail(worklist) /\ place' = 1
        /\ UNCHANGED <<sources, headers, layer, pending, seen, stage>>
    BY DEF LeaveModule, AtHead, Accepting, tables
  <1>2. /\ worklist' \in Seq(sources) /\ m = worklist[1]
        /\ DOMAIN worklist' = 1 .. Len(worklist) - 1 /\ Len(worklist) \in Nat \ {0}
        /\ \A k \in 1 .. Len(worklist) - 1 : worklist'[k] = worklist[k + 1]
        /\ DOMAIN worklist = 1 .. Len(worklist)
    BY <1>1, WalkTyped
  <1>3. StrataTypeOK'
    BY <1>1, <1>2, WalkKeepsTypes DEF tables
  <1>4. ASSUME NEW x \in sources, NEW i \in DOMAIN headers[x], Ahead(x, i)
        PROVE  Ahead(x, i)'
    <2>1. PICK k \in DOMAIN worklist : worklist[k] = x /\ (k = 1 => place <= i)
      BY <1>4 DEF Ahead
    <2>2. i \in Nat \ {0} /\ i <= Len(headers[x]) /\ place \in Nat
      BY <1>1, WalkTyped
    <2>3. k # 1
      BY <1>1, <1>2, <2>1, <2>2, WalkTyped
    <2>4. k - 1 \in DOMAIN worklist' /\ worklist'[k - 1] = x
      BY <1>2, <2>1, <2>3
    <2> QED BY <1>1, <2>2, <2>4 DEF Ahead
  <1>5. EndsCompared'
    BY <1>1, <1>4 DEF StrataInductive, EndsCompared, Respects
  <1>6. ToSet(worklist') \subseteq ToSet(worklist)
    BY <1>2 DEF ToSet
  <1>7. ReachReal'
    BY <1>1, <1>6 DEF StrataInductive, ReachReal, PublicTree, Dependencies, Holds
  <1> QED BY <1>3, <1>5, <1>7 DEF StrataInductive

\* When the last walk of the first round ends, every import has been compared.
LEMMA StartReachInductive == StrataInductive /\ StartReach => StrataInductive'
  <1> SUFFICES ASSUME StrataInductive, StartReach PROVE StrataInductive'
    OBVIOUS
  <1>1. /\ stage = "walk" /\ Accepting /\ worklist = << >> /\ pending = {}
        /\ UNCHANGED <<sources, headers, layer, place>>
    BY DEF StartReach, Accepting, tables
  <1>2. \A m \in sources : \A i \in DOMAIN headers[m] : Respects(m, i)
    BY <1>1 DEF StrataInductive, EndsCompared, Ahead
  <1>3. EndsCompared'
    BY <1>1, <1>2 DEF StartReach, EndsCompared, Respects
  <1>4. CASE ToSet(PublicRoots) \subseteq DOMAIN layer
    <2>1. stage' = "reach" /\ worklist' = PublicRoots /\ seen' = ToSet(PublicRoots)
      BY <1>4 DEF StartReach
    <2>2. PublicRoots \in Seq(sources) /\ ToSet(PublicRoots) \subseteq sources
      BY <1>1, <1>4, PublicRootsAssumption, WalkTyped DEF ToSet
    <2>3. StrataTypeOK'
      BY <1>1, <2>1, <2>2, WalkTyped, WalkKeepsTypes DEF tables
    <2>4. ReachReal'
      BY <1>1, <2>1, <2>2 DEF ReachReal, PublicTree
    <2> QED BY <1>3, <2>3, <2>4 DEF StrataInductive
  <1>5. CASE ~ ToSet(PublicRoots) \subseteq DOMAIN layer
    <2>1. stage' = "missing root" /\ worklist' = worklist
      BY <1>5 DEF StartReach
    <2>2. StrataTypeOK'
      BY <1>1, <2>1, WalkTyped, WalkKeepsTypes DEF tables
    <2> QED BY <1>3, <2>1, <2>2 DEF StrataInductive, ReachReal
  <1> QED BY <1>4, <1>5

\* The gate stops where it stands.
LEMMA StopInductive ==
  ASSUME StrataInductive, EndReach \/ (\E m \in sources : LookForbidden(m))
  PROVE  StrataInductive'
  <1>1. /\ stage \in {"walk", "reach"} /\ Accepting
        /\ UNCHANGED <<sources, headers, layer, pending, worklist, place, seen>>
        /\ stage' = "ok" => stage = "reach" /\ DOMAIN layer \subseteq seen
        /\ stage' \in {"ok", "orphans", "forbidden"}
    BY DEF EndReach, LookForbidden, Accepting, tables, walking
  <1>2. StrataTypeOK'
    BY <1>1, WalkTyped, WalkKeepsTypes DEF tables
  <1>3. EndsCompared'
    BY <1>1 DEF StrataInductive, EndsCompared, Respects
  <1>4. ReachReal'
    BY <1>1, WalkTyped DEF StrataInductive, ReachReal, PublicTree, Dependencies, Holds
  <1> QED BY <1>2, <1>3, <1>4 DEF StrataInductive

\* Every step of the stratification gate keeps the invariant.
LEMMA StrataNextInductive ==
  StrataInductive /\ [StrataNext]_<<tables, inventory, pending, walking, stage>>
    => StrataInductive'
  <1> SUFFICES ASSUME StrataInductive,
                      [StrataNext]_<<tables, inventory, pending, walking, stage>>
               PROVE  StrataInductive'
    OBVIOUS
  <1>1. CASE UNCHANGED <<tables, inventory, pending, walking, stage>>
    BY <1>1 DEF StrataInductive, StrataTypeOK, HeadersTyped, Accepting, EndsCompared, Respects,
                Ahead, ReachReal, PublicTree, Dependencies, Holds, tables, walking
  <1>2. ASSUME NEW m \in DOMAIN layer,
               WalkFrom(m) \/ LeaveModule(m) \/ LookAllowed(m) \/ LookForbidden(m) \/ LookReached(m)
        PROVE  StrataInductive'
    <2>1. m \in sources
      BY <1>2, WalkTyped
      DEF WalkFrom, LeaveModule, LookAllowed, LookForbidden, LookReached, Accepting
    <2> QED
      BY <1>2, <2>1, WalkFromInductive, LeaveInductive, LookAllowedInductive,
         LookReachedInductive, StopInductive
  <1> QED
    BY <1>1, <1>2, InventoryInductive, StartWalksInductive, StartReachInductive, StopInductive
    DEF StrataNext

\* The two walks of the stratification gate (lines 128 to 164): what was walked has
\* had both ends of its imports compared, and what was reached is reachable.
THEOREM StrataInvariant == StrataSpec => []StrataInductive
  <1> QED BY StrataInitInductive, StrataNextInductive, PTL DEF StrataSpec

\* Where every import is allowed, no chain of imports climbs.
LEMMA ChainsDescend ==
  ASSUME StrataInductive, stage = "ok", NEW m \in sources, NEW d \in Dependencies(m)
  PROVE  \/ Height(layer[d]) < Height(layer[m])
         \/ layer[d] = layer[m] /\ layer[m].group = "letter"
  <1> DEFINE Below == {x \in sources : \/ Height(layer[x]) < Height(layer[m])
                                       \/ layer[x] = layer[m] /\ layer[m].group = "letter"}
  <1>1. /\ \A x \in sources : layer[x] \in Strata /\ headers[x] \in Seq(Imported)
        /\ \A x \in sources : \A i \in DOMAIN headers[x] : Respects(x, i)
    BY WalkTyped DEF StrataInductive, EndsCompared, Accepting
  <1>2. ASSUME NEW x \in sources, NEW y \in ToSet(headers[x]) \cap sources
        PROVE  /\ Height(layer[x]) \in Nat /\ Height(layer[y]) \in Nat /\ Height(layer[m]) \in Nat
               /\ \/ Height(layer[y]) < Height(layer[x])
                  \/ layer[y] = layer[x] /\ layer[x].group = "letter"
    <2>1. Allowed(layer[x], layer[y])
      BY <1>1, <1>2 DEF ToSet, Respects
    <2>2. ASSUME NEW z \in sources PROVE Height(layer[z]) \in Nat
      <3>1. layer[z] \in Strata
        BY <1>1
      <3> QED BY <3>1, StratumForms
    <2> QED BY <1>1, <2>1, <2>2, AllowedDescends
  <1>3. Holds(m, Below)
    BY <1>2 DEF Holds
  <1>4. ASSUME NEW x \in Below PROVE Holds(x, Below)
    <2>1. ASSUME NEW y \in ToSet(headers[x]) \cap sources PROVE y \in Below
      <3>1. /\ Height(layer[x]) \in Nat /\ Height(layer[y]) \in Nat /\ Height(layer[m]) \in Nat
            /\ \/ Height(layer[y]) < Height(layer[x])
               \/ layer[y] = layer[x] /\ layer[x].group = "letter"
        BY <1>2, <2>1
      <3>2. \/ Height(layer[x]) < Height(layer[m])
            \/ layer[x] = layer[m] /\ layer[m].group = "letter"
        OBVIOUS
      <3> QED BY <2>1, <3>1, <3>2
    <2> QED BY <2>1 DEF Holds
  <1>5. d \in Below
    <2>1. Below \in SUBSET sources
      OBVIOUS
    <2> HIDE DEF Below
    <2> QED BY <1>3, <1>4, <2>1 DEF Dependencies
  <1> QED BY <1>5

\* A listing the gate accepts is a stratification of the whole tree: the table of
\* allowed imports is not transitive, yet no chain of imports climbs, none returns to a
\* rank, no test is imported and nothing is orphaned (lines 74 to 164).
THEOREM StrataGateSound == StrataSpec => []AcceptStratified
  <1>1. StrataInductive => AcceptStratified
    <2> SUFFICES ASSUME StrataInductive, stage = "ok"
                 PROVE  AcceptStratified
      BY DEF AcceptStratified
    <2>1. /\ DOMAIN layer = sources
          /\ \A m \in sources : ToSet(headers[m]) \cap Tests = {}
      BY WalkTyped DEF Accepting
    <2>2. sources \subseteq PublicTree
      BY DEF StrataInductive, ReachReal
    <2> QED BY <2>1, <2>2, ChainsDescend DEF AcceptStratified
  <1> QED BY <1>1, StrataInvariant, PTL

-----------------------------------------------------------------------------
(* The count of routes.  The frames are a chain of mentions; what the memo  *)
(* and the totals hold counts all chains longer than the names remembered   *)
(* are many, or is already too large; and what was not cut short leads to   *)
(* nothing that loops.                                                      *)

Depth == Cardinality(Functions)
Frames == [name : Inner, at : Nat \ {0}, total : Nat]

\* The values of the count; no frame is for the producer or a boundary.
CountType ==
  /\ refs \in Bodies /\ expected \in Nat
  /\ calling \in Functions \cup {Nobody}
  /\ frames \in Seq(Frames)
  /\ DOMAIN memo \subseteq Inner /\ memo \in [DOMAIN memo -> Nat]
  /\ result \in {Counting, Cycle} \cup {Found(n) : n \in Nat}

\* What a frame waits for, and how many of its mentions are in its total.
Awaited(j) == IF j < Len(frames) THEN frames[j + 1].name ELSE calling
Settled(j) == IF Awaited(j) = Nobody THEN frames[j].at - 1 ELSE frames[j].at - 2

\* The frames are a chain of mentions from the start, each on the way to the producer.
FrameStacked(j) ==
  /\ Reaches(frames[j].name) /\ frames[j].name \notin DOMAIN memo
  /\ frames[j].at - 1 \in 0 .. Len(refs[frames[j].name])
  /\ Awaited(j) # Nobody => frames[j].at - 1 \in Mentions(frames[j].name, Awaited(j))

Stacked ==
  /\ \A j \in 1 .. Len(frames) : FrameStacked(j)
  /\ \A i, j \in 1 .. Len(frames) : frames[i].name = frames[j].name => i = j
  /\ frames # << >> => frames[1].name = Start
  /\ frames = << >> /\ result = Counting => calling = Start /\ DOMAIN memo = {}

\* A number is what is counted of chains of c mentions and of longer ones, or it is
\* already too large.
Measures(v, count, c) ==
  \/ \A k \in c .. Depth : count[k] = v
  \/ v > expected /\ v <= count[c]

OfFunction(n) == [k \in 0 .. Depth |-> RoutesWithin[k][n]]
OfMentions(n, s) == [k \in 0 .. Depth |-> RoutesAlong(RoutesWithin[k], n, s)]

\* No chain through what is remembered is longer than there are names remembered.
Held == Cardinality(DOMAIN memo)

\* What the memo and the frames hold.
MemoMeasured == \A n \in DOMAIN memo : Measures(memo[n], OfFunction(n), Held)
FrameMeasured(j) == Measures(frames[j].total, OfMentions(frames[j].name, Settled(j)), Held)

\* What is remembered and was not cut short leads to nothing that is not.
Settles(n) == n \in DOMAIN memo /\ memo[n] <= expected

\* The same of the memo, where no function leads back to itself, and of the frames.
MemoCloses ==
  \A n \in DOMAIN memo : Settles(n) /\ Reaches(n) =>
    /\ n \notin WalkableFrom(Successors(n))
    /\ \A m \in Successors(n) : Reaches(m) => Settles(m)

FrameCloses(j) ==
  frames[j].total <= expected =>
    \A i \in 1 .. Settled(j), m \in Inner :
      i \in Mentions(frames[j].name, m) /\ Reaches(m) => Settles(m)

\* The results.
Concluded ==
  /\ result = Cycle => Looping
  /\ \A v \in Nat : result = Found(v) =>
       /\ v = Routes(Start) \/ (v > expected /\ v <= Routes(Start))
       /\ v <= expected => ~ Looping

\* The invariant.
CountInductive ==
  /\ CountType /\ Stacked
  /\ MemoMeasured /\ \A j \in 1 .. Len(frames) : FrameMeasured(j)
  /\ MemoCloses /\ \A j \in 1 .. Len(frames) : FrameCloses(j)
  /\ Concluded

-----------------------------------------------------------------------------
\* Bodies, and what their mentions stand for.
LEMMA BodyTypes ==
  ASSUME refs \in Bodies, NEW n \in Functions
  PROVE  /\ refs[n] \in Seq(Tokens) /\ Len(refs[n]) \in Nat /\ DOMAIN refs[n] = 1 .. Len(refs[n])
         /\ \A i \in 1 .. Len(refs[n]) : refs[n][i] \in Tokens
  BY GraphAssumption

\* There are finitely many functions.
LEMMA DepthType == Depth \in Nat
  BY GraphAssumption, FS_CardinalityType DEF Depth

\* A mention stands for one function at most: the one called for it.
LEMMA FollowedMention ==
  ASSUME refs \in Bodies, NEW n \in Functions, NEW i \in 1 .. Len(refs[n])
  PROVE  /\ Followed(refs[n][i]) \in Functions \cup {Nobody}
         /\ \A m \in Functions : i \in Mentions(n, m) <=> Followed(refs[n][i]) = m
  BY BodyTypes, GraphAssumption DEF Followed, Mentions

\* The routes a mention starts are those of the function called for it.
LEMMA RoutesByMention ==
  ASSUME refs \in Bodies, NEW n \in Functions, NEW i \in 1 .. Len(refs[n]), NEW count
  PROVE  RoutesBy(count, n, i) =
           IF Followed(refs[n][i]) \in Functions THEN count[Followed(refs[n][i])] ELSE 0
  <1>1. CASE Followed(refs[n][i]) \in Functions
    <2>1. \A m \in Functions : i \in Mentions(n, m) <=> m = Followed(refs[n][i])
      BY FollowedMention
    <2>2. (CHOOSE m \in Functions : i \in Mentions(n, m)) = Followed(refs[n][i])
      BY <1>1, <2>1
    <2> QED BY <1>1, <2>1, <2>2 DEF RoutesBy
  <1>2. CASE Followed(refs[n][i]) \notin Functions
    <2>1. ~ \E m \in Functions : i \in Mentions(n, m)
      BY <1>2, FollowedMention
    <2> QED BY <1>2, <2>1 DEF RoutesBy
  <1> QED BY <1>1, <1>2

\* Who is mentioned on the way to the producer has it ahead too.
LEMMA ReachesBack ==
  ASSUME refs \in Bodies, NEW n \in Functions, NEW m \in Functions, Mentions(n, m) # {}, Reaches(m)
  PROVE  Reaches(n)
  <1>1. m \in LeadsTo(n)
    BY BodyTypes DEF LeadsTo, Mentions, Range
  <1>2. ASSUME NEW S \in SUBSET Functions, n \in S, \A x \in S : LeadsTo(x) \subseteq S
        PROVE  Target \in S
    BY <1>1, <1>2 DEF Reaches, ReachableFrom
  <1> QED BY <1>2, GraphAssumption DEF Reaches, ReachableFrom

\* The producer leads to itself.
LEMMA TargetReaches == Reaches(Target)
  BY GraphAssumption DEF Reaches, ReachableFrom

\* The routes along a body are a sum, mention by mention.
LEMMA AlongUnfolds ==
  ASSUME refs \in Bodies, NEW n \in Functions, NEW count \in [Functions -> Nat]
  PROVE  /\ RoutesAlong(count, n, 0) = 0
         /\ \A i \in 1 .. Len(refs[n]) :
              RoutesAlong(count, n, i) = RoutesAlong(count, n, i - 1) + RoutesBy(count, n, i)
         /\ \A i \in 0 .. Len(refs[n]) : RoutesAlong(count, n, i) \in Nat
  <1> DEFINE N == Len(refs[n])
             By(i) == RoutesBy(count, n, i)
             Body(f) == [i \in 0 .. N |-> IF i = 0 THEN 0 ELSE f[i - 1] + By(i)]
             step == [i \in Nat |-> [v \in Nat |-> IF i \in 1 .. N THEN v + By(i) ELSE v]]
             sum == CHOOSE f : f = Body(f)
  <1>1. N \in Nat
    BY BodyTypes
  <1>2. \A i \in 1 .. N : By(i) \in Nat
    BY RoutesByMention
  <1>3. \A k : RoutesAlong(count, n, k) = sum[k]
    BY DEF RoutesAlong
  <1>4. \A f : /\ Body(f)[0] = 0
               /\ \A i \in 1 .. N : Body(f)[i] = f[i - 1] + By(i)
               /\ Body(f) = [i \in 0 .. N |-> Body(f)[i]]
    BY <1>1
  <1>5. \A i \in 0 .. N : i = 0 \/ i \in 1 .. N
    BY <1>1
  <1>6. \A i \in 1 .. N : i \in Nat /\ i - 1 \in 0 .. N /\ i \in 0 .. N
    BY <1>1
  <1> HIDE DEF By, N, Body
  <1>7. step \in [Nat -> [Nat -> Nat]]
    BY <1>1, <1>2
  <1>8. \A i \in 1 .. N : \A v \in Nat : step[i][v] = v + By(i)
    BY <1>6
  <1> HIDE DEF step
  <1>9. PICK f \in [0 .. N -> Nat] : Builds(f, N, 0, step)
    BY <1>1, <1>7, RecursionUpTo
  <1>10. f = Body(f)
    <2>1. ASSUME NEW i \in 1 .. N PROVE f[i] = Body(f)[i]
      <3>1. f[i - 1] \in Nat
        BY <1>6, <1>9
      <3>2. f[i] = step[i][f[i - 1]]
        BY <1>9 DEF Builds
      <3> QED BY <1>4, <1>8, <3>1, <3>2
    <2>2. f[0] = Body(f)[0]
      BY <1>4, <1>9 DEF Builds
    <2>3. \A i \in 0 .. N : f[i] = Body(f)[i]
      BY <1>5, <2>1, <2>2
    <2>4. f = [i \in 0 .. N |-> f[i]]
      BY <1>9
    <2> QED BY <1>4, <2>3, <2>4
  <1>11. sum = Body(sum)
    BY <1>10
  <1> HIDE DEF sum
  <1>12. sum[0] = 0 /\ \A i \in 1 .. N : sum[i] = sum[i - 1] + By(i)
    BY <1>4, <1>11
  <1> DEFINE S == {i \in Nat : i <= N => sum[i] \in Nat}
  <1>13. 0 \in S
    BY <1>12
  <1>14. ASSUME NEW i \in Nat, i \in S PROVE i + 1 \in S
    <2>1. SUFFICES ASSUME i + 1 <= N PROVE sum[i + 1] \in Nat
      OBVIOUS
    <2>2. i + 1 \in 1 .. N /\ (i + 1) - 1 = i /\ i <= N
      BY <1>1, <2>1
    <2>3. sum[i + 1] = sum[i] + By(i + 1) /\ By(i + 1) \in Nat
      BY <1>2, <1>12, <2>2
    <2> QED BY <1>14, <2>2, <2>3
  <1> HIDE DEF S
  <1>15. Nat \subseteq S
    BY <1>13, <1>14, BySet
  <1>16. \A i \in 0 .. N : sum[i] \in Nat
    BY <1>1, <1>15 DEF S
  <1> QED BY <1>3, <1>12, <1>16 DEF N, By

\* The routes of a function by those of its mentions, one mention shorter.
LEMMA WithinUnfolds ==
  ASSUME refs \in Bodies
  PROVE  /\ RoutesWithin \in [0 .. Depth -> [Functions -> Nat]]
         /\ \A k \in 0 .. Depth, n \in Functions :
              RoutesWithin[k][n] =
                IF n = Target THEN 1
                ELSE IF n \in boundaries \/ k = 0 THEN 0
                ELSE RoutesAlong(RoutesWithin[k - 1], n, Len(refs[n]))
  <1> DEFINE B == [Functions -> Nat]
             Row(k, count) ==
               [n \in Functions |-> IF n = Target THEN 1 ELSE IF n \in boundaries \/ k = 0 THEN 0
                                    ELSE RoutesAlong(count, n, Len(refs[n]))]
             Body(f) == [k \in 0 .. Depth |-> Row(k, f[k - 1])]
             base == [n \in Functions |-> IF n = Target THEN 1 ELSE 0]
             step == [k \in Nat |-> [count \in B |-> Row(k, count)]]
  <1>1. Depth \in Nat
    BY DepthType
  <1>2. base \in B
    OBVIOUS
  <1>3. ASSUME NEW count \in B, NEW k PROVE Row(k, count) \in B
    <2>1. ASSUME NEW n \in Functions PROVE RoutesAlong(count, n, Len(refs[n])) \in Nat
      <3>1. Len(refs[n]) \in 0 .. Len(refs[n])
        BY BodyTypes
      <3> QED BY <3>1, AlongUnfolds
    <2> QED BY <2>1
  <1>4. \A count : Row(0, count) = base
    OBVIOUS
  <1>5. RoutesWithin = CHOOSE f : f = Body(f)
    BY DEF RoutesWithin, Depth
  <1>6. \A f : /\ \A k \in 0 .. Depth : Body(f)[k] = Row(k, f[k - 1])
               /\ Body(f) = [k \in 0 .. Depth |-> Body(f)[k]]
    OBVIOUS
  <1>7. \A k \in 0 .. Depth : k = 0 \/ k \in 1 .. Depth
    BY <1>1
  <1>8. \A k \in 1 .. Depth : k \in Nat /\ k - 1 \in 0 .. Depth /\ k \in 0 .. Depth /\ k # 0
    BY <1>1
  <1>9. \A k, count : \A n \in Functions :
          Row(k, count)[n] = IF n = Target THEN 1 ELSE IF n \in boundaries \/ k = 0 THEN 0
                             ELSE RoutesAlong(count, n, Len(refs[n]))
    OBVIOUS
  <1> HIDE DEF Row, Body, base
  <1>10. step \in [Nat -> [B -> B]]
    BY <1>3
  <1>11. \A k \in 1 .. Depth : \A count \in B : step[k][count] = Row(k, count)
    BY <1>8
  <1> HIDE DEF step
  <1>12. PICK f \in [0 .. Depth -> B] : Builds(f, Depth, base, step)
    <2> HIDE DEF B
    <2> QED BY <1>1, <1>2, <1>10, RecursionUpTo
  <1> HIDE DEF B
  <1>13. f = Body(f)
    <2>1. ASSUME NEW k \in 1 .. Depth PROVE f[k] = Body(f)[k]
      <3>1. f[k - 1] \in B
        BY <1>8, <1>12
      <3>2. f[k] = step[k][f[k - 1]]
        BY <1>12 DEF Builds
      <3> QED BY <1>6, <1>8, <1>11, <3>1, <3>2
    <2>2. f[0] = Body(f)[0]
      BY <1>1, <1>4, <1>6, <1>12 DEF Builds
    <2>3. \A k \in 0 .. Depth : f[k] = Body(f)[k]
      BY <1>7, <2>1, <2>2
    <2>4. f = [k \in 0 .. Depth |-> f[k]]
      BY <1>12
    <2> QED BY <1>6, <2>3, <2>4
  <1>14. RoutesWithin = Body(RoutesWithin)
    BY <1>5, <1>13
  <1>15. \A k \in 0 .. Depth : RoutesWithin[k] = Row(k, RoutesWithin[k - 1])
    BY <1>6, <1>14
  <1> DEFINE S == {k \in Nat : k <= Depth => RoutesWithin[k] \in B}
  <1>16. 0 \in S
    BY <1>1, <1>2, <1>4, <1>15
  <1>17. ASSUME NEW k \in Nat, k \in S PROVE k + 1 \in S
    <2>1. SUFFICES ASSUME k + 1 <= Depth PROVE RoutesWithin[k + 1] \in B
      OBVIOUS
    <2>2. k + 1 \in 0 .. Depth /\ (k + 1) - 1 = k /\ k <= Depth
      BY <1>1, <2>1
    <2> QED BY <1>3, <1>15, <1>17, <2>2
  <1> HIDE DEF S
  <1>18. Nat \subseteq S
    BY <1>16, <1>17, BySet
  <1>19. RoutesWithin = [k \in 0 .. Depth |-> RoutesWithin[k]]
    BY <1>6, <1>14
  <1>20. \A k \in 0 .. Depth : RoutesWithin[k] \in B
    BY <1>1, <1>18 DEF S
  <1>21. RoutesWithin \in [0 .. Depth -> B]
    BY <1>19, <1>20
  <1>22. ASSUME NEW k \in 0 .. Depth, NEW n \in Functions
         PROVE  RoutesWithin[k][n] = IF n = Target THEN 1 ELSE IF n \in boundaries \/ k = 0 THEN 0
                                     ELSE RoutesAlong(RoutesWithin[k - 1], n, Len(refs[n]))
    <2>1. RoutesWithin[k] = Row(k, RoutesWithin[k - 1])
      BY <1>15
    <2>2. Row(k, RoutesWithin[k - 1])[n] = RoutesWithin[k][n]
      BY <2>1
    <2> QED BY <1>9, <2>2
  <1> QED BY <1>21, <1>22 DEF B

-----------------------------------------------------------------------------
\* More mentions and longer chains give no fewer routes.
LEMMA AlongMore ==
  ASSUME refs \in Bodies, NEW n \in Functions, NEW few \in [Functions -> Nat],
         NEW many \in [Functions -> Nat], \A m \in Functions : few[m] <= many[m],
         NEW i \in 0 .. Len(refs[n]), NEW j \in 0 .. Len(refs[n]), i <= j
  PROVE  RoutesAlong(few, n, i) <= RoutesAlong(many, n, j)
  <1> DEFINE N == Len(refs[n])
             a(k) == RoutesAlong(few, n, k)
             b(k) == RoutesAlong(many, n, k)
             S == {k \in Nat : k <= N => /\ a(k) <= b(k)
                                         /\ \A l \in 0 .. k : a(l) <= b(k)}
  <1>1. N \in Nat
    BY BodyTypes
  <1>2. ASSUME NEW k \in 1 .. N
        PROVE  RoutesBy(few, n, k) \in Nat /\ RoutesBy(few, n, k) <= RoutesBy(many, n, k)
               /\ RoutesBy(many, n, k) \in Nat
    BY RoutesByMention
  <1>3. /\ a(0) = 0 /\ b(0) = 0
        /\ \A k \in 1 .. N : /\ a(k) = a(k - 1) + RoutesBy(few, n, k)
                             /\ b(k) = b(k - 1) + RoutesBy(many, n, k)
        /\ \A k \in 0 .. N : a(k) \in Nat /\ b(k) \in Nat
    BY AlongUnfolds
  <1> HIDE DEF N, a, b
  <1>4. 0 \in S
    BY <1>3
  <1>5. ASSUME NEW k \in Nat, k \in S PROVE k + 1 \in S
    <2>1. SUFFICES ASSUME k + 1 <= N
                   PROVE  a(k + 1) <= b(k + 1) /\ \A l \in 0 .. k + 1 : a(l) <= b(k + 1)
      OBVIOUS
    <2>2. k + 1 \in 1 .. N /\ (k + 1) - 1 = k /\ k \in 0 .. N
      BY <1>1, <2>1
    <2>3. a(k + 1) <= b(k + 1) /\ b(k) <= b(k + 1) /\ b(k) \in Nat /\ b(k + 1) \in Nat
      BY <1>2, <1>3, <1>5, <2>2
    <2>4. ASSUME NEW l \in 0 .. k + 1 PROVE a(l) <= b(k + 1)
      <3>1. CASE l = k + 1
        BY <2>3, <3>1
      <3>2. CASE l \in 0 .. k
        <4>1. a(l) <= b(k) /\ l \in 0 .. N /\ a(l) \in Nat
          BY <1>1, <1>3, <1>5, <2>1, <3>2
        <4> QED BY <2>3, <4>1
      <3> QED BY <3>1, <3>2
    <2> QED BY <2>3, <2>4
  <1> HIDE DEF S
  <1>6. Nat \subseteq S
    BY <1>4, <1>5, BySet
  <1>7. j \in Nat /\ j <= N /\ i \in 0 .. j
    BY <1>1 DEF N
  <1> QED BY <1>6, <1>7 DEF S, a, b

\* Longer chains are at least as many.
LEMMA WithinMore ==
  ASSUME refs \in Bodies, NEW n \in Functions, NEW k \in 0 .. Depth, NEW l \in 0 .. Depth, k <= l
  PROVE  RoutesWithin[k][n] <= RoutesWithin[l][n]
  <1> DEFINE W(x, m) == RoutesWithin[x][m]
             S == {x \in Nat : x < Depth => \A m \in Functions : W(x, m) <= W(x + 1, m)}
  <1>1. /\ Depth \in Nat
        /\ \A x \in 0 .. Depth : RoutesWithin[x] \in [Functions -> Nat]
        /\ \A x \in 0 .. Depth, m \in Functions :
             W(x, m) = IF m = Target THEN 1 ELSE IF m \in boundaries \/ x = 0 THEN 0
                       ELSE RoutesAlong(RoutesWithin[x - 1], m, Len(refs[m]))
    BY DepthType, WithinUnfolds
  <1>2. \A x \in 0 .. Depth, m \in Functions : W(x, m) \in Nat
    BY <1>1
  <1>3. ASSUME NEW x \in Nat, x < Depth, NEW m \in Functions, x = 0 \/ x - 1 \in S
        PROVE  W(x, m) <= W(x + 1, m)
    <2>1. x \in 0 .. Depth /\ x + 1 \in 0 .. Depth /\ (x + 1) - 1 = x /\ x + 1 # 0
      BY <1>1, <1>3
    <2>2. CASE m = Target \/ m \in boundaries \/ x = 0
      BY <1>1, <1>2, <2>1, <2>2
    <2>3. CASE ~ (m = Target \/ m \in boundaries \/ x = 0)
      <3>1. x - 1 \in 0 .. Depth /\ x - 1 < Depth /\ x - 1 \in Nat /\ (x - 1) + 1 = x
        BY <1>1, <1>3, <2>3
      <3>2. \A p \in Functions : RoutesWithin[x - 1][p] <= RoutesWithin[x][p]
        BY <1>3, <2>3, <3>1
      <3>3. Len(refs[m]) \in 0 .. Len(refs[m]) /\ Len(refs[m]) <= Len(refs[m])
        BY BodyTypes
      <3>4. RoutesAlong(RoutesWithin[x - 1], m, Len(refs[m])) <= RoutesAlong(RoutesWithin[x], m, Len(refs[m]))
        BY <1>1, <2>1, <3>1, <3>2, <3>3, AlongMore
      <3> QED BY <1>1, <2>1, <2>3, <3>4
    <2> QED BY <2>2, <2>3
  <1>4. 0 \in S
    BY <1>1, <1>3
  <1>5. ASSUME NEW x \in Nat, x \in S PROVE x + 1 \in S
    <2>1. (x + 1) - 1 \in S /\ x + 1 \in Nat
      BY <1>5
    <2> HIDE DEF W
    <2>2. SUFFICES ASSUME x + 1 < Depth PROVE \A m \in Functions : W(x + 1, m) <= W((x + 1) + 1, m)
      BY <2>1
    <2> HIDE DEF S
    <2> QED BY <1>3, <2>1, <2>2
  <1> HIDE DEF S, W
  <1>6. Nat \subseteq S
    BY <1>4, <1>5, BySet
  <1>7. \A x \in Nat : x < Depth => W(x, n) <= W(x + 1, n)
    BY <1>6 DEF S
  <1> DEFINE T == {d \in Nat : k + d <= Depth => W(k, n) <= W(k + d, n)}
  <1>8. 0 \in T
    BY <1>2
  <1>9. ASSUME NEW d \in Nat, d \in T PROVE d + 1 \in T
    <2>1. SUFFICES ASSUME k + (d + 1) <= Depth PROVE W(k, n) <= W(k + (d + 1), n)
      OBVIOUS
    <2>2. /\ k + d \in Nat /\ k + d < Depth /\ (k + d) + 1 = k + (d + 1) /\ k + d <= Depth
          /\ k + d \in 0 .. Depth /\ k + (d + 1) \in 0 .. Depth
      BY <1>1, <2>1
    <2>3. W(k, n) <= W(k + d, n) /\ W(k + d, n) <= W(k + (d + 1), n)
      BY <1>7, <1>9, <2>2
    <2>4. W(k, n) \in Nat /\ W(k + d, n) \in Nat /\ W(k + (d + 1), n) \in Nat
      BY <1>2, <2>2
    <2> QED BY <2>3, <2>4
  <1> HIDE DEF T
  <1>10. Nat \subseteq T
    BY <1>8, <1>9, BySet
  <1>11. l - k \in Nat /\ k + (l - k) = l /\ l <= Depth
    BY <1>1
  <1> QED BY <1>10, <1>11 DEF T, W

\* No route starts where the producer is not ahead.
LEMMA NoRoutes ==
  ASSUME refs \in Bodies, NEW n \in Functions, ~ Reaches(n), NEW k \in 0 .. Depth
  PROVE  RoutesWithin[k][n] = 0
  <1> DEFINE S == {x \in Nat : x <= Depth => \A m \in Functions : ~ Reaches(m) => RoutesWithin[x][m] = 0}
  <1>1. /\ Depth \in Nat
        /\ \A x \in 0 .. Depth : RoutesWithin[x] \in [Functions -> Nat]
        /\ \A x \in 0 .. Depth, m \in Functions :
             RoutesWithin[x][m] = IF m = Target THEN 1 ELSE IF m \in boundaries \/ x = 0 THEN 0
                                  ELSE RoutesAlong(RoutesWithin[x - 1], m, Len(refs[m]))
    BY DepthType, WithinUnfolds
  <1>2. 0 \in S
    BY <1>1, TargetReaches
  <1>3. ASSUME NEW x \in Nat, x \in S PROVE x + 1 \in S
    <2>1. SUFFICES ASSUME x + 1 <= Depth, NEW m \in Functions, ~ Reaches(m)
                   PROVE  RoutesWithin[x + 1][m] = 0
      OBVIOUS
    <2>2. /\ x \in 0 .. Depth /\ x + 1 \in 0 .. Depth /\ (x + 1) - 1 = x /\ x + 1 # 0
          /\ m # Target
      <3>1. m # Target
        BY <2>1, TargetReaches
      <3>2. Depth \in Nat /\ x + 1 <= Depth
        BY <2>1, DepthType
      <3>3. x \in 0 .. Depth /\ x + 1 \in 0 .. Depth /\ (x + 1) - 1 = x /\ x + 1 # 0
        BY <3>2
      <3> QED BY <3>1, <3>3
    <2> DEFINE N == Len(refs[m])
               along(i) == RoutesAlong(RoutesWithin[x], m, i)
               Z == {i \in Nat : i <= N => along(i) = 0}
    <2>3. N \in Nat
      BY BodyTypes
    <2>4. ASSUME NEW i \in 1 .. N PROVE RoutesBy(RoutesWithin[x], m, i) = 0
      <3>1. CASE Followed(refs[m][i]) \in Functions
        <4>1. ~ Reaches(Followed(refs[m][i]))
          BY <2>1, <3>1, FollowedMention, ReachesBack
        <4>2. RoutesWithin[x][Followed(refs[m][i])] = 0
          BY <1>3, <2>2, <3>1, <4>1
        <4> QED BY <3>1, <4>2, RoutesByMention
      <3>2. CASE Followed(refs[m][i]) \notin Functions
        BY <3>2, RoutesByMention
      <3> QED BY <3>1, <3>2
    <2>5. along(0) = 0 /\ \A i \in 1 .. N : along(i) = along(i - 1) + RoutesBy(RoutesWithin[x], m, i)
      <3>1. RoutesWithin[x] \in [Functions -> Nat]
        BY <1>1, <2>2
      <3> QED BY <3>1, AlongUnfolds
    <2> HIDE DEF along, N
    <2>6. 0 \in Z
      BY <2>5
    <2>7. ASSUME NEW i \in Nat, i \in Z PROVE i + 1 \in Z
      <3>1. SUFFICES ASSUME i + 1 <= N PROVE along(i + 1) = 0
        OBVIOUS
      <3>2. i + 1 \in 1 .. N /\ (i + 1) - 1 = i /\ i <= N
        BY <2>3, <3>1
      <3>3. along(i) = 0
        BY <2>7, <3>2
      <3> QED BY <2>4, <2>5, <3>2, <3>3
    <2> HIDE DEF Z
    <2>8. N \in Z
      BY <2>3, <2>6, <2>7, BySet
    <2>9. along(N) = 0
      BY <2>3, <2>8 DEF Z
    <2> QED BY <1>1, <2>2, <2>9 DEF along, N
  <1> HIDE DEF S
  <1>4. Nat \subseteq S
    BY <1>2, <1>3, BySet
  <1> QED BY <1>1, <1>4 DEF S

-----------------------------------------------------------------------------
(* What is counted of a body, step by step.                                 *)

\* The counts are numbers, and grow with the length of the chains.
LEMMA MentionCounts ==
  ASSUME refs \in Bodies, NEW n \in Functions
  PROVE  /\ OfFunction(n) \in [0 .. Depth -> Nat]
         /\ \A c \in 0 .. Depth, d \in 0 .. Depth : c <= d => OfFunction(n)[c] <= OfFunction(n)[d]
         /\ \A s \in 0 .. Len(refs[n]) :
              /\ OfMentions(n, s) \in [0 .. Depth -> Nat]
              /\ \A c \in 0 .. Depth, d \in 0 .. Depth :
                   c <= d => OfMentions(n, s)[c] <= OfMentions(n, s)[d]
  <1>1. \A k \in 0 .. Depth : RoutesWithin[k] \in [Functions -> Nat]
    BY WithinUnfolds
  <1>2. \A k \in 0 .. Depth, s \in 0 .. Len(refs[n]) : RoutesAlong(RoutesWithin[k], n, s) \in Nat
    BY <1>1, AlongUnfolds
  <1>3. ASSUME NEW c \in 0 .. Depth, NEW d \in 0 .. Depth, c <= d
        PROVE  /\ \A m \in Functions : RoutesWithin[c][m] <= RoutesWithin[d][m]
               /\ \A s \in 0 .. Len(refs[n]) :
                    RoutesAlong(RoutesWithin[c], n, s) <= RoutesAlong(RoutesWithin[d], n, s)
    <2>1. \A m \in Functions : RoutesWithin[c][m] <= RoutesWithin[d][m]
      BY <1>3, WithinMore
    <2>2. \A s \in 0 .. Len(refs[n]) : s <= s
      BY BodyTypes
    <2> QED BY <1>1, <2>1, <2>2, AlongMore
  <1> QED BY <1>1, <1>2, <1>3 DEF OfFunction, OfMentions

\* Longer chains do not spoil what is measured of shorter ones.
LEMMA MeasuresLater ==
  ASSUME NEW v, NEW count \in [0 .. Depth -> Nat], NEW c \in 0 .. Depth, NEW d \in 0 .. Depth,
         c <= d, count[c] <= count[d], v \in Nat, expected \in Nat, Measures(v, count, c)
  PROVE  Measures(v, count, d)
  <1>1. Depth \in Nat
    BY DepthType
  <1>2. CASE \A k \in c .. Depth : count[k] = v
    BY <1>1, <1>2 DEF Measures
  <1>3. CASE v > expected /\ v <= count[c]
    <2>1. count[c] \in Nat /\ count[d] \in Nat
      OBVIOUS
    <2> QED BY <1>3, <2>1 DEF Measures
  <1> QED BY <1>2, <1>3 DEF Measures

\* Nothing has been counted of no mention.
LEMMA NothingMeasured ==
  ASSUME refs \in Bodies, NEW n \in Functions, NEW c \in 0 .. Depth
  PROVE  Measures(0, OfMentions(n, 0), c)
  <1>1. \A k \in c .. Depth : k \in 0 .. Depth
    BY DepthType
  <1>2. \A k \in 0 .. Depth : RoutesAlong(RoutesWithin[k], n, 0) = 0
    BY WithinUnfolds, AlongUnfolds
  <1> QED BY <1>1, <1>2 DEF Measures, OfMentions

\* The count of one more mention is added.
LEMMA Delivered ==
  ASSUME refs \in Bodies, expected \in Nat, NEW n \in Functions, NEW m \in Functions,
         NEW i \in Mentions(n, m), NEW c \in 0 .. Depth, NEW v \in Nat, NEW w \in Nat,
         Measures(v, OfMentions(n, i - 1), c), Measures(w, OfFunction(m), c)
  PROVE  Measures(v + w, OfMentions(n, i), c)
  <1> DEFINE f == OfMentions(n, i - 1)
             g == OfFunction(m)
             h == OfMentions(n, i)
  <1>1. i \in 1 .. Len(refs[n]) /\ i - 1 \in 0 .. Len(refs[n]) /\ Len(refs[n]) \in Nat
    BY BodyTypes DEF Mentions
  <1>2. Followed(refs[n][i]) = m
    BY <1>1, FollowedMention
  <1>3. ASSUME NEW k \in 0 .. Depth PROVE h[k] = f[k] + g[k]
    <2>1. RoutesWithin[k] \in [Functions -> Nat]
      BY WithinUnfolds
    <2>2. RoutesBy(RoutesWithin[k], n, i) = RoutesWithin[k][m]
      BY <1>1, <1>2, RoutesByMention
    <2>3. RoutesAlong(RoutesWithin[k], n, i) = RoutesAlong(RoutesWithin[k], n, i - 1) + RoutesWithin[k][m]
      BY <1>1, <2>1, <2>2, AlongUnfolds
    <2> QED BY <2>3 DEF OfMentions, OfFunction
  <1>4. f \in [0 .. Depth -> Nat] /\ g \in [0 .. Depth -> Nat]
    BY <1>1, MentionCounts
  <1>5. \A k \in c .. Depth : k \in 0 .. Depth
    BY DepthType
  <1>6. c \in c .. Depth
    BY DepthType
  <1> HIDE DEF f, g, h
  <1>7. f[c] \in Nat /\ g[c] \in Nat /\ h[c] = f[c] + g[c]
    BY <1>3, <1>4
  <1>8. (\A k \in c .. Depth : f[k] = v) \/ (v > expected /\ v <= f[c])
    BY DEF Measures, f
  <1>9. (\A k \in c .. Depth : g[k] = w) \/ (w > expected /\ w <= g[c])
    BY DEF Measures, g
  <1>10. CASE (\A k \in c .. Depth : f[k] = v) /\ (\A k \in c .. Depth : g[k] = w)
    BY <1>3, <1>5, <1>10 DEF Measures, h
  <1>11. CASE (v > expected /\ v <= f[c]) \/ (w > expected /\ w <= g[c])
    <2>1. v <= f[c] /\ w <= g[c]
      BY <1>6, <1>7, <1>8, <1>9
    <2>2. v + w > expected /\ v + w <= h[c]
      BY <1>7, <1>11, <2>1
    <2> QED BY <2>2 DEF Measures, h
  <1> QED BY <1>8, <1>9, <1>10, <1>11

\* A mention of nothing adds nothing.
LEMMA Skipped ==
  ASSUME refs \in Bodies, NEW n \in Functions, NEW i \in 1 .. Len(refs[n]),
         Followed(refs[n][i]) = Nobody, NEW c \in 0 .. Depth, NEW v,
         Measures(v, OfMentions(n, i - 1), c)
  PROVE  Measures(v, OfMentions(n, i), c)
  <1>1. ASSUME NEW k \in 0 .. Depth PROVE OfMentions(n, i)[k] = OfMentions(n, i - 1)[k]
    <2>1. RoutesWithin[k] \in [Functions -> Nat]
      BY WithinUnfolds
    <2>2. RoutesBy(RoutesWithin[k], n, i) = 0
      BY RoutesByMention, GraphAssumption
    <2>3. i - 1 \in 0 .. Len(refs[n])
      BY BodyTypes
    <2>4. RoutesAlong(RoutesWithin[k], n, i)
            = RoutesAlong(RoutesWithin[k], n, i - 1) + RoutesBy(RoutesWithin[k], n, i)
      BY <2>1, AlongUnfolds
    <2>5. RoutesAlong(RoutesWithin[k], n, i - 1) \in Nat
      BY <2>1, <2>3, AlongUnfolds
    <2> QED BY <2>2, <2>4, <2>5 DEF OfMentions
  <1>2. \A k \in c .. Depth : k \in 0 .. Depth
    BY DepthType
  <1> QED BY <1>1, <1>2 DEF Measures

\* A body counted to its end, or until it was too much, is counted by chains one longer.
LEMMA Summed ==
  ASSUME refs \in Bodies, expected \in Nat, NEW n \in Inner, NEW c \in 0 .. Depth, c + 1 \in 0 .. Depth,
         NEW v \in Nat, NEW s \in 0 .. Len(refs[n]), s = Len(refs[n]) \/ v > expected,
         Measures(v, OfMentions(n, s), c)
  PROVE  Measures(v, OfFunction(n), c + 1)
  <1> DEFINE N == Len(refs[n])
             along(k, i) == RoutesAlong(RoutesWithin[k], n, i)
  <1>1. n \in Functions /\ n # Target /\ n \notin boundaries
    BY DEF Inner
  <1>2. Depth \in Nat /\ N \in Nat /\ N \in 0 .. N
    BY <1>1, DepthType, BodyTypes
  <1>3. ASSUME NEW k \in 0 .. Depth, k + 1 \in 0 .. Depth
        PROVE  OfFunction(n)[k + 1] = along(k, N)
    <2>1. (k + 1) - 1 = k /\ k + 1 # 0
      OBVIOUS
    <2> QED BY <1>1, <1>3, <2>1, WithinUnfolds DEF OfFunction
  <1>4. \A k \in 0 .. Depth, i \in 0 .. N : OfMentions(n, i)[k] = along(k, i) /\ along(k, i) \in Nat
    BY <1>1, AlongUnfolds, WithinUnfolds DEF OfMentions
  <1>5. CASE (\A k \in c .. Depth : OfMentions(n, s)[k] = v) /\ s = N
    <2>1. ASSUME NEW k \in c + 1 .. Depth PROVE OfFunction(n)[k] = v
      <3>1. k - 1 \in 0 .. Depth /\ k - 1 \in c .. Depth /\ (k - 1) + 1 = k /\ k \in 0 .. Depth
        BY <1>2
      <3>2. OfFunction(n)[(k - 1) + 1] = along(k - 1, N)
        BY <1>3, <3>1
      <3> QED BY <1>2, <1>4, <1>5, <3>1, <3>2
    <2> QED BY <2>1 DEF Measures
  <1>6. CASE v > expected
    <2>1. c \in c .. Depth
      BY <1>2
    <2>2. v <= OfMentions(n, s)[c]
      <3>1. OfMentions(n, s)[c] \in Nat
        BY <1>4
      <3> QED BY <2>1, <3>1 DEF Measures
    <2>3. along(c, s) <= along(c, N)
      <3>1. \A m \in Functions : RoutesWithin[c][m] <= RoutesWithin[c][m]
        BY WithinUnfolds
      <3>2. s <= N
        BY <1>2
      <3> QED BY <1>1, <1>2, <3>1, <3>2, AlongMore, WithinUnfolds
    <2>4. along(c, N) \in Nat /\ along(c, s) \in Nat
      BY <1>2, <1>4
    <2>5. v <= OfFunction(n)[c + 1]
      BY <1>2, <1>3, <1>4, <2>2, <2>3, <2>4
    <2> QED BY <1>6, <2>5 DEF Measures
  <1>7. (\A k \in c .. Depth : OfMentions(n, s)[k] = v) \/ v > expected
    BY DEF Measures
  <1> QED BY <1>5, <1>6, <1>7

\* At the greatest depth, a number is the routes or is too large.
LEMMA MeasuresRoutes ==
  ASSUME refs \in Bodies, expected \in Nat, NEW n \in Functions, NEW c \in 0 .. Depth, NEW v \in Nat,
         Measures(v, OfFunction(n), c)
  PROVE  v = Routes(n) \/ (v > expected /\ v <= Routes(n))
  <1>1. Depth \in Nat /\ Depth \in 0 .. Depth /\ c <= Depth /\ Depth \in Depth .. Depth
    BY DepthType
  <1>2. OfFunction(n) \in [0 .. Depth -> Nat] /\ OfFunction(n)[c] <= OfFunction(n)[Depth]
    BY <1>1, MentionCounts
  <1>3. Measures(v, OfFunction(n), Depth)
    BY <1>1, <1>2, MeasuresLater
  <1>4. OfFunction(n)[Depth] = Routes(n)
    BY <1>1 DEF OfFunction, Routes, Depth
  <1> QED BY <1>1, <1>3, <1>4 DEF Measures

-----------------------------------------------------------------------------
(* Walking from functions to those they mention.                            *)

\* What is neither the producer nor a boundary is a function.
LEMMA InnerType == Inner \subseteq Functions
  BY DEF Inner

\* A walk meets no producer and no boundary.
LEMMA SuccessorsInner == \A n : Successors(n) \subseteq Inner
  BY DEF Successors

\* A walk stays in any closed set it starts in.
LEMMA WalkStays ==
  ASSUME NEW S \in SUBSET Inner, \A n \in S : Successors(n) \subseteq S,
         NEW names \in SUBSET S
  PROVE  WalkableFrom(names) \subseteq S
  BY DEF WalkableFrom

\* It covers where it starts and goes on.
LEMMA WalkGoesOn ==
  ASSUME NEW names \in SUBSET Inner
  PROVE  /\ names \subseteq WalkableFrom(names) /\ WalkableFrom(names) \subseteq Inner
         /\ \A n \in WalkableFrom(names) : Successors(n) \subseteq WalkableFrom(names)
  BY SuccessorsInner DEF WalkableFrom

\* What leads to the producer cannot be met behind what does not.
LEMMA BehindReaching ==
  ASSUME refs \in Bodies, NEW n \in Inner, ~ Reaches(n)
  PROVE  \A m \in Successors(n) : ~ Reaches(m)
  BY ReachesBack, InnerType DEF Successors

\* Functions on the way to the producer that all lead, on that way, to themselves:
\* the walk from them meets no other one.
LEMMA WalkSettled ==
  ASSUME refs \in Bodies, NEW D \in SUBSET Inner,
         \A n \in D : \A m \in Successors(n) : Reaches(m) => m \in D,
         NEW names \in SUBSET Inner, \A n \in names : Reaches(n) => n \in D
  PROVE  \A n \in WalkableFrom(names) : Reaches(n) => n \in D
  <1> DEFINE S == D \cup {n \in Inner : ~ Reaches(n)}
  <1>1. S \in SUBSET Inner /\ names \subseteq S
    OBVIOUS
  <1>2. \A n \in S : Successors(n) \subseteq S
    BY BehindReaching, SuccessorsInner
  <1> HIDE DEF S
  <1>3. WalkableFrom(names) \subseteq S
    BY <1>1, <1>2, WalkStays
  <1> QED BY <1>3 DEF S

\* A closed set without loops, with the start unless it leads nowhere: nothing loops.
LEMMA NoLoopFrom ==
  ASSUME refs \in Bodies, NEW D \in SUBSET Inner,
         \A n \in D : \A m \in Successors(n) : Reaches(m) => m \in D,
         \A n \in D : n \notin WalkableFrom(Successors(n)),
         Start \in Inner /\ Reaches(Start) => Start \in D
  PROVE  ~ Looping
  <1>1. \A n \in WalkableFrom({Start} \cap Inner) : Reaches(n) => n \in D
    <2>1. {Start} \cap Inner \in SUBSET Inner /\ \A n \in {Start} \cap Inner : Reaches(n) => n \in D
      OBVIOUS
    <2> QED BY <2>1, WalkSettled
  <1> QED BY <1>1 DEF Looping

-----------------------------------------------------------------------------
(* The steps.                                                               *)

\* The bodies and what is asked of them do not change.
LEMMA CountKept ==
  ASSUME UNCHANGED <<refs, boundaries, expected>>
  PROVE  /\ Inner' = Inner /\ RoutesWithin' = RoutesWithin
         /\ \A n : Reaches(n)' <=> Reaches(n)
         /\ \A n : \A m : Mentions(n, m)' = Mentions(n, m)
         /\ \A n : Successors(n)' = Successors(n)
         /\ \A S : WalkableFrom(S)' = WalkableFrom(S)
         /\ \A n : OfFunction(n)' = OfFunction(n)
         /\ \A n : \A s : OfMentions(n, s)' = OfMentions(n, s)
         /\ \A v : \A f : \A c : Measures(v, f, c)' <=> Measures(v, f, c)
         /\ Looping' <=> Looping
         /\ Routes(Start)' = Routes(Start)
  <1>1. Inner' = Inner
    BY DEF Inner
  <1>2. \A n : \A m : Mentions(n, m)' = Mentions(n, m)
    BY DEF Mentions
  <1>3. \A n : Reaches(n)' <=> Reaches(n)
    BY DEF Reaches, ReachableFrom, LeadsTo
  <1>4. \A n : Successors(n)' = Successors(n)
    BY <1>1, <1>2 DEF Successors
  <1>5. \A S : WalkableFrom(S)' = WalkableFrom(S)
    BY <1>1, <1>4 DEF WalkableFrom
  <1>6. \A f : \A n : \A s : RoutesAlong(f, n, s)' = RoutesAlong(f, n, s)
    BY DEF RoutesAlong, RoutesBy, Mentions
  <1>7. RoutesWithin' = RoutesWithin
    BY <1>6 DEF RoutesWithin
  <1>8. \A n : OfFunction(n)' = OfFunction(n)
    BY <1>7 DEF OfFunction
  <1>9. \A n : \A s : OfMentions(n, s)' = OfMentions(n, s)
    BY <1>6, <1>7 DEF OfMentions
  <1>10. \A v : \A f : \A c : Measures(v, f, c)' <=> Measures(v, f, c)
    BY DEF Measures
  <1>11. Looping' <=> Looping
    BY <1>1, <1>3, <1>4, <1>5 DEF Looping
  <1>12. Routes(Start)' = Routes(Start)
    BY <1>7 DEF Routes
  <1> QED BY <1>1, <1>2, <1>3, <1>4, <1>5, <1>7, <1>8, <1>9, <1>10, <1>11, <1>12

\* There is room for the length of the chains a new name adds.
LEMMA MemoSize ==
  ASSUME CountType
  PROVE  /\ Held \in 0 .. Depth
         /\ \A n \in Inner \ DOMAIN memo :
              Cardinality(DOMAIN memo \cup {n}) = Held + 1 /\ Held + 1 \in 0 .. Depth
  <1>1. DOMAIN memo \subseteq Functions /\ IsFiniteSet(Functions) /\ IsFiniteSet(DOMAIN memo)
    BY GraphAssumption, FS_Subset, InnerType DEF CountType
  <1>2. Held \in Nat /\ Depth \in Nat /\ Held <= Depth
    BY <1>1, FS_Subset, FS_CardinalityType DEF Held, Depth
  <1>3. ASSUME NEW n \in Inner \ DOMAIN memo
        PROVE  Cardinality(DOMAIN memo \cup {n}) = Held + 1 /\ Held + 1 \in 0 .. Depth
    <2>1. DOMAIN memo \cup {n} \subseteq Functions
      BY <1>1, InnerType
    <2>2. Cardinality(DOMAIN memo \cup {n}) = Held + 1
      BY <1>1, FS_AddElement DEF Held
    <2>3. Cardinality(DOMAIN memo \cup {n}) <= Depth
      BY <1>1, <2>1, FS_Subset DEF Depth
    <2> QED BY <1>2, <2>2, <2>3
  <1> QED BY <1>2, <1>3

\* A call answered at once is answered with what it measures.
LEMMA ImmediateMeasures ==
  ASSUME CountType, MemoMeasured, NEW n \in Functions, Immediate(n)
  PROVE  /\ ImmediateCount(n) \in Nat
         /\ Measures(ImmediateCount(n), OfFunction(n), Held)
  <1>1. \A k \in Held .. Depth : k \in 0 .. Depth
    BY MemoSize, DepthType
  <1>2. refs \in Bodies /\ memo \in [DOMAIN memo -> Nat]
    BY DEF CountType
  <1>3. \A k \in 0 .. Depth : OfFunction(n)[k] = RoutesWithin[k][n]
    BY DEF OfFunction
  <1>4. CASE n = Target
    BY <1>1, <1>2, <1>3, <1>4, WithinUnfolds DEF ImmediateCount, Measures
  <1>5. CASE n # Target /\ n \in boundaries
    BY <1>1, <1>2, <1>3, <1>5, WithinUnfolds DEF ImmediateCount, Measures
  <1>6. CASE n # Target /\ n \notin boundaries /\ n \in DOMAIN memo
    BY <1>2, <1>6 DEF ImmediateCount, MemoMeasured
  <1>7. CASE n # Target /\ n \notin boundaries /\ n \notin DOMAIN memo
    <2>1. ~ Reaches(n) /\ ImmediateCount(n) = 0
      BY <1>7 DEF Immediate, ImmediateCount
    <2> QED BY <1>1, <1>2, <1>3, <2>1, NoRoutes DEF Measures
  <1> QED BY <1>4, <1>5, <1>6, <1>7

\* The memo keeps what it holds; a new name is measured with the chains that end in it.
LEMMA MemoGrows ==
  ASSUME CountType, MemoMeasured, NEW n \in Inner \ DOMAIN memo, NEW v \in Nat,
         memo' = Remembered(n, v), UNCHANGED <<refs, boundaries, expected>>
  PROVE  /\ DOMAIN memo' = DOMAIN memo \cup {n} /\ memo' \in [DOMAIN memo' -> Nat]
         /\ memo'[n] = v /\ \A m \in DOMAIN memo : memo'[m] = memo[m]
         /\ Held' = Held + 1 /\ Held' \in 0 .. Depth
         /\ Measures(v, OfFunction(n), Held') => MemoMeasured'
  <1>1. /\ DOMAIN memo' = DOMAIN memo \cup {n} /\ memo' \in [DOMAIN memo' -> Nat]
        /\ memo'[n] = v /\ \A m \in DOMAIN memo : memo'[m] = memo[m]
    BY DEF Remembered, CountType
  <1>2. Held' = Held + 1 /\ Held' \in 0 .. Depth
    BY <1>1, MemoSize DEF Held
  <1>3. ASSUME Measures(v, OfFunction(n), Held'), NEW m \in DOMAIN memo'
        PROVE  Measures(memo'[m], OfFunction(m), Held')
    <2>1. CASE m = n
      BY <1>1, <1>3, <2>1
    <2>2. CASE m \in DOMAIN memo
      <3>1. /\ m \in Functions /\ memo[m] \in Nat /\ refs \in Bodies /\ expected \in Nat
            /\ Measures(memo[m], OfFunction(m), Held)
        BY <2>2, InnerType DEF CountType, MemoMeasured
      <3>2. Held \in 0 .. Depth /\ Held <= Held'
        BY <1>2, MemoSize
      <3>3. OfFunction(m) \in [0 .. Depth -> Nat] /\ OfFunction(m)[Held] <= OfFunction(m)[Held']
        BY <1>2, <3>1, <3>2, MentionCounts
      <3>4. Measures(memo[m], OfFunction(m), Held')
        <4> HIDE DEF OfFunction, Held
        <4> QED BY <1>2, <3>1, <3>2, <3>3, MeasuresLater
      <3> QED BY <1>1, <2>2, <3>4
    <2> QED BY <1>1, <2>1, <2>2
  <1>4. Measures(v, OfFunction(n), Held') => MemoMeasured'
    BY <1>3, CountKept DEF MemoMeasured
  <1> QED BY <1>1, <1>2, <1>4

\* How far a frame has come lies within its body.
LEMMA SettledType ==
  ASSUME CountType, Stacked, NEW j \in 1 .. Len(frames)
  PROVE  /\ frames[j].name \in Inner /\ frames[j].name \in Functions
         /\ frames[j].at \in Nat /\ frames[j].total \in Nat
         /\ Settled(j) \in 0 .. Len(refs[frames[j].name])
         /\ Awaited(j) # Nobody =>
              /\ frames[j].at - 1 \in 1 .. Len(refs[frames[j].name])
              /\ Settled(j) = (frames[j].at - 1) - 1
         /\ Awaited(j) = Nobody => Settled(j) = frames[j].at - 1
  <1>1. frames[j] \in Frames /\ refs \in Bodies
    BY DEF CountType
  <1>2. /\ frames[j].name \in Inner /\ frames[j].name \in Functions
        /\ frames[j].at \in Nat /\ frames[j].at >= 1 /\ frames[j].total \in Nat
    BY <1>1, InnerType DEF Frames
  <1>3. Len(refs[frames[j].name]) \in Nat /\ DOMAIN refs[frames[j].name] = 1 .. Len(refs[frames[j].name])
    BY <1>1, <1>2, BodyTypes
  <1>4. FrameStacked(j)
    BY DEF Stacked
  <1>5. CASE Awaited(j) = Nobody
    BY <1>2, <1>3, <1>4, <1>5 DEF FrameStacked, Settled
  <1>6. CASE Awaited(j) # Nobody
    <2>1. frames[j].at - 1 \in 1 .. Len(refs[frames[j].name])
      BY <1>3, <1>4, <1>6 DEF FrameStacked, Mentions
    <2> QED BY <1>2, <1>3, <1>6, <2>1 DEF Settled
  <1> QED BY <1>5, <1>6

\* A result goes to the frame that waits for it; the frames under that one are as they were.
LEMMA FramesReturn ==
  ASSUME CountInductive, UNCHANGED <<refs, boundaries, expected>>,
         NEW last \in 1 .. Len(frames), NEW m \in Functions, NEW v \in Nat, Awaited(last) = m,
         Len(frames') = last,
         \A j \in 1 .. last :
           /\ frames'[j].name = frames[j].name /\ frames'[j].at = frames[j].at
           /\ frames'[j].total = IF j = last THEN frames[j].total + v ELSE frames[j].total
           /\ frames[j].name \notin DOMAIN memo',
         calling' = Nobody,
         DOMAIN memo \subseteq DOMAIN memo', \A n \in DOMAIN memo : memo'[n] = memo[n],
         Held' \in 0 .. Depth, Held <= Held',
         Measures(v, OfFunction(m), Held'),
         m \in Inner /\ Reaches(m) /\ v <= expected => Settles(m)'
  PROVE  \A j \in 1 .. Len(frames') : FrameStacked(j)' /\ FrameMeasured(j)' /\ FrameCloses(j)'
  <1> SUFFICES ASSUME NEW j \in 1 .. last
               PROVE  FrameStacked(j)' /\ FrameMeasured(j)' /\ FrameCloses(j)'
    OBVIOUS
  <1> DEFINE n == frames[j].name
  <1>1. /\ CountType /\ Stacked /\ MemoMeasured /\ refs \in Bodies /\ expected \in Nat
        /\ j \in 1 .. Len(frames) /\ Len(frames) \in Nat /\ m # Nobody
    BY GraphAssumption DEF CountInductive, CountType
  <1>2. /\ n \in Inner /\ n \in Functions /\ frames[j].at \in Nat /\ frames[j].total \in Nat
        /\ Settled(j) \in 0 .. Len(refs[n])
        /\ Awaited(j) # Nobody => /\ frames[j].at - 1 \in 1 .. Len(refs[n])
                                  /\ Settled(j) = (frames[j].at - 1) - 1
        /\ Awaited(j) = Nobody => Settled(j) = frames[j].at - 1
    BY <1>1, SettledType
  <1>3. Awaited(j)' = IF j = last THEN Nobody ELSE Awaited(j)
    <2>1. CASE j = last
      BY <1>1, <2>1 DEF Awaited
    <2>2. CASE j # last
      <3>1. j + 1 \in 1 .. last /\ j < Len(frames) /\ j < Len(frames')
        BY <1>1, <2>2
      <3> QED BY <2>2, <3>1 DEF Awaited
    <2> QED BY <2>1, <2>2
  <1>4. Settled(j)' = IF j = last THEN Settled(j) + 1 ELSE Settled(j)
    <2>1. frames'[j].at = frames[j].at
      OBVIOUS
    <2>2. CASE j = last
      <3>1. Settled(j)' = frames[j].at - 1
        BY <1>3, <2>1, <2>2 DEF Settled
      <3> QED BY <1>1, <1>2, <2>2, <3>1
    <2>3. CASE j # last
      BY <1>3, <2>1, <2>3 DEF Settled
    <2> QED BY <2>2, <2>3
  <1>5. frames'[j].name = n /\ frames'[j].at = frames[j].at /\ n \notin DOMAIN memo'
    OBVIOUS
  <1>6. FrameStacked(j) /\ FrameMeasured(j) /\ FrameCloses(j)
    BY <1>1 DEF CountInductive, Stacked
  <1>7. FrameStacked(j)'
    BY <1>3, <1>5, <1>6, CountKept DEF FrameStacked
  <1>8. Held \in 0 .. Depth
    BY <1>1, MemoSize
  <1>9. Measures(frames[j].total, OfMentions(n, Settled(j)), Held')
    <2>1. OfMentions(n, Settled(j)) \in [0 .. Depth -> Nat]
          /\ OfMentions(n, Settled(j))[Held] <= OfMentions(n, Settled(j))[Held']
      BY <1>1, <1>2, <1>8, MentionCounts
    <2>2. Measures(frames[j].total, OfMentions(n, Settled(j)), Held)
      BY <1>6 DEF FrameMeasured
    <2> QED BY <1>1, <1>2, <1>8, <2>1, <2>2, MeasuresLater
  <1>10. FrameMeasured(j)'
    <2>1. CASE j # last
      BY <1>4, <1>5, <1>9, <2>1, CountKept DEF FrameMeasured
    <2>2. CASE j = last
      <3>1. frames[j].at - 1 \in Mentions(n, m) /\ Settled(j) = (frames[j].at - 1) - 1
            /\ Settled(j)' = frames[j].at - 1
        <4>1. Awaited(j) = m /\ m # Nobody
          BY <1>1, <2>2
        <4>2. frames[j].at - 1 \in Mentions(n, m)
          BY <1>6, <4>1 DEF FrameStacked
        <4>3. Settled(j) = (frames[j].at - 1) - 1 /\ Settled(j)' = Settled(j) + 1
          BY <1>2, <1>4, <2>2, <4>1
        <4> QED BY <1>2, <4>2, <4>3
      <3>2. Measures(frames[j].total + v, OfMentions(n, frames[j].at - 1), Held')
        BY <1>1, <1>2, <1>9, <3>1, Delivered
      <3> QED BY <1>5, <2>2, <3>1, <3>2, CountKept DEF FrameMeasured
    <2> QED BY <2>1, <2>2
  <1>11. \A x : Settles(x) => Settles(x)'
    BY DEF Settles
  <1>12. FrameCloses(j)'
    <2>1. CASE j # last
      <3>1. frames'[j].total = frames[j].total
        BY <2>1
      <3> QED BY <1>4, <1>5, <1>6, <1>11, <2>1, <3>1, CountKept DEF FrameCloses
    <2>2. CASE j = last
      <3>1. SUFFICES ASSUME frames[j].total + v <= expected,
                            NEW i \in 1 .. Settled(j) + 1, NEW x \in Inner,
                            i \in Mentions(n, x), Reaches(x)
                     PROVE  Settles(x)'
        BY <1>4, <1>5, <2>2, CountKept DEF FrameCloses
      <3>2. frames[j].total <= expected /\ v <= expected
        <4>1. frames[j].total \in Nat /\ expected \in Nat /\ frames[j].total + v <= expected
          BY <1>1, <1>2, <3>1
        <4> QED BY <4>1
      <3>3. CASE i \in 1 .. Settled(j)
        BY <1>6, <1>11, <3>1, <3>2, <3>3 DEF FrameCloses
      <3>4. CASE i = Settled(j) + 1
        <4>1. i = frames[j].at - 1 /\ i \in 1 .. Len(refs[n]) /\ i \in Mentions(n, m)
          <5>1. Awaited(j) = m /\ m # Nobody
            BY <1>1, <2>2
          <5>2. frames[j].at - 1 \in 1 .. Len(refs[n]) /\ Settled(j) = (frames[j].at - 1) - 1
            BY <1>2, <5>1
          <5>3. i = frames[j].at - 1
            BY <1>2, <3>4, <5>2
          <5>4. frames[j].at - 1 \in Mentions(n, m)
            BY <1>6, <5>1 DEF FrameStacked
          <5> QED BY <5>2, <5>3, <5>4
        <4>2. x = m
          BY <1>1, <1>2, <3>1, <4>1, FollowedMention, InnerType
        <4> QED BY <3>1, <3>2, <4>2
      <3> QED BY <1>2, <3>3, <3>4
    <2> QED BY <2>1, <2>2
  <1> QED BY <1>7, <1>10, <1>12

\* Nothing called, nothing remembered: the first state.
LEMMA CountInitHolds == CountInit => CountInductive
  <1> SUFFICES ASSUME CountInit PROVE CountInductive
    OBVIOUS
  <1>1. CountType
    BY GraphAssumption DEF CountInit, CountType
  <1>2. Stacked /\ MemoMeasured /\ MemoCloses
    BY DEF CountInit, Stacked, MemoMeasured, MemoCloses
  <1>3. Len(frames) = 0
    BY DEF CountInit
  <1>4. Concluded
    BY DEF CountInit, Concluded, Counting, Cycle, Found
  <1> QED BY <1>1, <1>2, <1>3, <1>4 DEF CountInductive

\* A new frame has counted nothing yet.
LEMMA EnterHolds == CountInductive /\ Enter => CountInductive'
  <1> SUFFICES ASSUME CountInductive, Enter PROVE CountInductive'
    OBVIOUS
  <1> DEFINE frame == [name |-> calling, at |-> 1, total |-> 0]
  <1>0. PICK N \in Nat : N = Len(frames)
    BY DEF CountInductive, CountType
  <1>1. /\ CountType /\ Stacked /\ MemoMeasured /\ MemoCloses
        /\ \A j \in 1 .. N : FrameStacked(j) /\ FrameMeasured(j) /\ FrameCloses(j)
    BY <1>0 DEF CountInductive, Stacked
  <1>2. /\ result = Counting /\ calling \in Functions /\ ~ Immediate(calling) /\ calling \notin Stack
        /\ frames' = Append(frames, frame) /\ calling' = Nobody
        /\ UNCHANGED <<refs, boundaries, expected, memo, result>>
    BY <1>1 DEF Enter, InProgress, CountType
  <1>3. calling \in Inner /\ calling \notin DOMAIN memo /\ Reaches(calling)
    BY <1>2 DEF Immediate, Inner
  <1>4. /\ frames \in Seq(Frames) /\ N \in Nat /\ frame \in Frames /\ refs \in Bodies /\ expected \in Nat
        /\ Nobody \notin Functions
    BY <1>1, <1>3, GraphAssumption DEF CountType, Frames
  <1> HIDE DEF frame
  <1>5. /\ frames' \in Seq(Frames) /\ Len(frames') = N + 1 /\ frames'[N + 1] = frame
        /\ \A j \in 1 .. N : frames'[j] = frames[j]
    BY <1>0, <1>2, <1>4
  <1>6. frame.name = calling /\ frame.at = 1 /\ frame.total = 0
    BY DEF frame
  <1>7. CountType'
    BY <1>1, <1>2, <1>5, CountKept DEF CountType, Frames
  <1>8. \A j \in 1 .. N : Awaited(j)' = Awaited(j) /\ Settled(j)' = Settled(j)
    <2>1. ASSUME NEW j \in 1 .. N PROVE Awaited(j)' = Awaited(j)
      <3>1. CASE j = N
        <4>1. j < N + 1 /\ ~ (j < N)
          BY <1>4, <3>1
        <4> QED BY <1>0, <1>5, <1>6, <3>1, <4>1 DEF Awaited
      <3>2. CASE j # N
        <4>1. j < N /\ j < N + 1 /\ j + 1 \in 1 .. N
          BY <1>4, <3>2
        <4> QED BY <1>0, <1>5, <4>1 DEF Awaited
      <3> QED BY <3>1, <3>2
    <2> QED BY <1>5, <2>1 DEF Settled
  <1>9. Held' = Held
    BY <1>2 DEF Held
  <1>10. \A x : Settles(x)' <=> Settles(x)
    BY <1>2 DEF Settles
  <1>11. ASSUME NEW j \in 1 .. N PROVE FrameStacked(j)' /\ FrameMeasured(j)' /\ FrameCloses(j)'
    <2>1. FrameStacked(j) /\ FrameMeasured(j) /\ FrameCloses(j)
      BY <1>1
    <2>2. FrameStacked(j)'
      BY <1>2, <1>5, <1>8, <2>1, CountKept DEF FrameStacked
    <2>3. FrameMeasured(j)'
      BY <1>2, <1>5, <1>8, <1>9, <2>1, CountKept DEF FrameMeasured
    <2>4. FrameCloses(j)'
      BY <1>2, <1>5, <1>8, <1>10, <2>1, CountKept DEF FrameCloses
    <2> QED BY <2>2, <2>3, <2>4
  <1>12. Awaited(N + 1)' = Nobody /\ Settled(N + 1)' = 0
    <2>1. ~ (N + 1 < N + 1)
      BY <1>4
    <2> QED BY <1>2, <1>5, <1>6, <2>1 DEF Awaited, Settled
  <1>13. FrameStacked(N + 1)' /\ FrameMeasured(N + 1)' /\ FrameCloses(N + 1)'
    <2>1. FrameStacked(N + 1)'
      <3>1. 0 \in 0 .. Len(refs[calling]) /\ 1 - 1 = 0
        BY <1>2, <1>4, BodyTypes
      <3> QED BY <1>2, <1>3, <1>5, <1>6, <1>12, <3>1, CountKept DEF FrameStacked
    <2>2. FrameMeasured(N + 1)'
      <3>1. Measures(0, OfMentions(calling, 0), Held)
        BY <1>1, <1>2, <1>4, MemoSize, NothingMeasured
      <3> QED BY <1>2, <1>5, <1>6, <1>9, <1>12, <3>1, CountKept DEF FrameMeasured
    <2>3. FrameCloses(N + 1)'
      BY <1>12 DEF FrameCloses
    <2> QED BY <2>1, <2>2, <2>3
  <1>14. \A j \in 1 .. N + 1 : j = N + 1 \/ j \in 1 .. N
    BY <1>4
  <1>15. \A j \in 1 .. Len(frames') : FrameStacked(j)' /\ FrameMeasured(j)' /\ FrameCloses(j)'
    BY <1>5, <1>11, <1>13, <1>14
  <1>16. \A i, j \in 1 .. N + 1 : frames'[i].name = frames'[j].name => i = j
    <2>1. \A i \in 1 .. N : frames'[i].name # calling
      BY <1>0, <1>2, <1>4, <1>5 DEF Stack
    <2>2. \A i, j \in 1 .. N : frames[i].name = frames[j].name => i = j
      BY <1>0, <1>1 DEF Stacked
    <2> QED BY <1>5, <1>6, <1>14, <2>1, <2>2
  <1>17. frames' # << >> /\ frames'[1].name = Start
    <2>1. CASE frames = << >>
      <3>1. N = 0 /\ calling = Start
        BY <1>0, <1>1, <1>2, <2>1 DEF Stacked
      <3>2. frames'[1] = frame /\ Len(frames') = 1
        BY <1>5, <3>1
      <3>3. frames' # << >>
        BY <3>2
      <3> QED BY <1>6, <3>1, <3>2, <3>3
    <2>2. CASE frames # << >>
      <3>1. 1 \in 1 .. N /\ frames[1].name = Start
        BY <1>0, <1>1, <1>4, <2>2 DEF Stacked
      <3>2. Len(frames') # 0
        BY <1>5
      <3> QED BY <1>5, <3>1, <3>2
    <2> QED BY <2>1, <2>2
  <1>18. Stacked'
    BY <1>5, <1>15, <1>16, <1>17 DEF Stacked
  <1>19. MemoMeasured' /\ MemoCloses'
    BY <1>1, <1>2, <1>9, <1>10, CountKept DEF MemoMeasured, MemoCloses
  <1>20. Concluded'
    <2>1. result' = Counting
      BY <1>2
    <2> QED BY <2>1 DEF Concluded, Counting, Cycle, Found
  <1> QED BY <1>7, <1>15, <1>18, <1>19, <1>20 DEF CountInductive

\* What each frame holds.
LEMMA FrameParts ==
  ASSUME CountType
  PROVE  /\ Len(frames) \in Nat
         /\ \A j \in 1 .. Len(frames) : /\ frames[j] \in Frames /\ frames[j].name \in Inner
                                       /\ frames[j].at \in Nat \ {0} /\ frames[j].total \in Nat
  <1>1. frames \in Seq(Frames)
    BY DEF CountType
  <1>2. Len(frames) \in Nat /\ \A j \in 1 .. Len(frames) : frames[j] \in Frames
    BY <1>1
  <1>3. \A f \in Frames : f.name \in Inner /\ f.at \in Nat \ {0} /\ f.total \in Nat
    BY DEF Frames
  <1> QED BY <1>2, <1>3

\* A mention that stands for no function starts no route; another one is waited for.
LEMMA AdvanceHolds == CountInductive /\ Advance => CountInductive'
  <1> SUFFICES ASSUME CountInductive, Advance PROVE CountInductive'
    OBVIOUS
  <1>0. PICK N \in Nat : N = Len(frames)
    BY DEF CountInductive, CountType
  <1>1. /\ CountType /\ Stacked /\ MemoMeasured /\ MemoCloses
        /\ \A j \in 1 .. N : FrameStacked(j) /\ FrameMeasured(j) /\ FrameCloses(j)
    BY <1>0 DEF CountInductive, Stacked
  <1>2. /\ result = Counting /\ calling = Nobody /\ frames # << >> /\ ~ Exhausted(frames[N])
        /\ calling' = Followed(refs[frames[N].name][frames[N].at])
        /\ frames' = [frames EXCEPT ![N].at = frames[N].at + 1]
        /\ UNCHANGED <<refs, boundaries, expected, memo, result>>
    BY <1>0 DEF Advance, Top, After
  <1>3. frames \in Seq(Frames) /\ refs \in Bodies /\ expected \in Nat /\ Nobody \notin Functions
    BY <1>1, GraphAssumption DEF CountType
  <1>4. N \in 1 .. N /\ \A j \in 1 .. N : j # N => j < N /\ j + 1 \in 1 .. N
    <2>1. N # 0
      BY <1>0, <1>2, <1>3
    <2> QED BY <2>1
  <1>5. PICK n \in Inner, spot \in Nat \ {0}, total \in Nat :
          n = frames[N].name /\ spot = frames[N].at /\ total = frames[N].total
    BY <1>0, <1>1, <1>4, FrameParts
  <1>6. n \in Functions
    BY InnerType
  <1>7. spot \in 1 .. Len(refs[n]) /\ total <= expected /\ Len(refs[n]) \in Nat
    BY <1>2, <1>3, <1>5, <1>6, BodyTypes DEF Exhausted
  <1>8. /\ calling' = Followed(refs[n][spot]) /\ calling' \in Functions \cup {Nobody}
        /\ \A m \in Functions : spot \in Mentions(n, m) <=> calling' = m
    BY <1>2, <1>3, <1>5, <1>6, <1>7, FollowedMention
  <1>9. /\ frames' \in Seq(Frames) /\ Len(frames') = N
        /\ \A j \in 1 .. N : /\ frames'[j].name = frames[j].name /\ frames'[j].total = frames[j].total
                             /\ frames'[j].at = IF j = N THEN spot + 1 ELSE frames[j].at
    <2>1. \A j \in 1 .. N : frames[j] \in Frames
      BY <1>0, <1>3
    <2> QED BY <1>0, <1>2, <1>3, <1>4, <1>5, <2>1 DEF Frames
  <1>10. CountType'
    BY <1>1, <1>2, <1>8, <1>9, CountKept DEF CountType, Frames
  <1>11. /\ Awaited(N) = Nobody /\ Settled(N) = spot - 1 /\ Awaited(N)' = calling'
         /\ Settled(N)' = IF calling' = Nobody THEN spot ELSE spot - 1
    <2>1. ~ (N < N)
      BY <1>0
    <2>2. Awaited(N) = Nobody /\ Awaited(N)' = calling'
      BY <1>0, <1>2, <1>9, <2>1 DEF Awaited
    <2>3. frames'[N].at = spot + 1
      BY <1>4, <1>9
    <2> QED BY <1>5, <2>2, <2>3 DEF Settled
  <1>12. \A j \in 1 .. N : j # N => Awaited(j)' = Awaited(j) /\ Settled(j)' = Settled(j)
    <2>1. \A j \in 1 .. N : j # N => Awaited(j)' = Awaited(j)
      BY <1>0, <1>4, <1>9 DEF Awaited
    <2> QED BY <1>9, <2>1 DEF Settled
  <1>13. Held' = Held /\ \A x : Settles(x)' <=> Settles(x)
    BY <1>2 DEF Held, Settles
  <1>14. ASSUME NEW j \in 1 .. N, j # N
         PROVE  FrameStacked(j)' /\ FrameMeasured(j)' /\ FrameCloses(j)'
    <2>1. FrameStacked(j) /\ FrameMeasured(j) /\ FrameCloses(j)
      BY <1>1
    <2>2. Awaited(j)' = Awaited(j) /\ Settled(j)' = Settled(j) /\ frames'[j].name = frames[j].name
          /\ frames'[j].total = frames[j].total /\ frames'[j].at = frames[j].at
      BY <1>9, <1>12, <1>14
    <2>3. FrameStacked(j)'
      BY <1>2, <2>1, <2>2, CountKept DEF FrameStacked
    <2>4. FrameMeasured(j)'
      BY <1>2, <1>13, <2>1, <2>2, CountKept DEF FrameMeasured
    <2>5. FrameCloses(j)'
      BY <1>2, <1>13, <2>1, <2>2, CountKept DEF FrameCloses
    <2> QED BY <2>3, <2>4, <2>5
  <1>15. frames'[N].name = n /\ frames'[N].total = total /\ frames'[N].at = spot + 1
    BY <1>4, <1>5, <1>9
  <1>16. FrameStacked(N) /\ FrameMeasured(N) /\ FrameCloses(N)
    BY <1>1, <1>4
  <1>17. FrameStacked(N)'
    <2>1. (spot + 1) - 1 = spot /\ spot \in 0 .. Len(refs[n])
      BY <1>7
    <2>2. calling' # Nobody => spot \in Mentions(n, calling')
      BY <1>8
    <2>3. Reaches(n) /\ n \notin DOMAIN memo
      BY <1>5, <1>16 DEF FrameStacked
    <2> QED BY <1>2, <1>11, <1>15, <2>1, <2>2, <2>3, CountKept DEF FrameStacked
  <1>18. FrameMeasured(N)'
    <2>1. Measures(total, OfMentions(n, spot - 1), Held)
      BY <1>5, <1>11, <1>16 DEF FrameMeasured
    <2>2. CASE calling' = Nobody
      <3>1. Measures(total, OfMentions(n, spot), Held)
        BY <1>1, <1>3, <1>6, <1>7, <1>8, <2>1, <2>2, MemoSize, Skipped
      <3> QED BY <1>2, <1>11, <1>13, <1>15, <2>2, <3>1, CountKept DEF FrameMeasured
    <2>3. CASE calling' # Nobody
      BY <1>2, <1>11, <1>13, <1>15, <2>1, <2>3, CountKept DEF FrameMeasured
    <2> QED BY <2>2, <2>3
  <1>19. FrameCloses(N)'
    <2>1. SUFFICES ASSUME NEW i \in 1 .. Settled(N)', NEW m \in Inner, i \in Mentions(n, m), Reaches(m)
                   PROVE  Settles(m)
      BY <1>2, <1>13, <1>15, CountKept DEF FrameCloses
    <2>2. i \in 1 .. spot - 1
      <3>1. CASE calling' = Nobody
        <4>1. i # spot
          BY <1>3, <1>8, <2>1, <3>1, InnerType
        <4> QED BY <1>11, <2>1, <3>1, <4>1
      <3>2. CASE calling' # Nobody
        BY <1>11, <2>1, <3>2
      <3> QED BY <3>1, <3>2
    <2> QED BY <1>5, <1>7, <1>11, <1>16, <2>1, <2>2 DEF FrameCloses
  <1>20. \A j \in 1 .. Len(frames') : FrameStacked(j)' /\ FrameMeasured(j)' /\ FrameCloses(j)'
    BY <1>9, <1>14, <1>17, <1>18, <1>19
  <1>21. Stacked'
    <2>1. \A i, j \in 1 .. N : frames'[i].name = frames'[j].name => i = j
      BY <1>0, <1>1, <1>9 DEF Stacked
    <2>2. frames' # << >> /\ frames'[1].name = Start
      <3>1. 1 \in 1 .. N /\ frames[1].name = Start
        BY <1>1, <1>2, <1>4 DEF Stacked
      <3>2. Len(frames') # 0
        BY <1>9, <3>1
      <3> QED BY <1>9, <3>1, <3>2
    <2> QED BY <1>9, <1>20, <2>1, <2>2 DEF Stacked
  <1>22. MemoMeasured' /\ MemoCloses'
    BY <1>2, <1>1, <1>13, CountKept DEF MemoMeasured, MemoCloses
  <1>23. Concluded'
    <2>1. result' = Counting
      BY <1>2
    <2> QED BY <2>1 DEF Concluded, Counting, Cycle, Found
  <1> QED BY <1>10, <1>20, <1>21, <1>22, <1>23 DEF CountInductive

\* Each frame mentions the next: a walk that meets one meets those above it.
LEMMA UpTheStack ==
  ASSUME CountType, Stacked, NEW i \in 1 .. Len(frames), NEW names \in SUBSET Inner,
         frames[i].name \in WalkableFrom(names)
  PROVE  \A j \in i .. Len(frames) : frames[j].name \in WalkableFrom(names)
  <1> DEFINE W == WalkableFrom(names)
             S == {d \in Nat : i + d <= Len(frames) => frames[i + d].name \in W}
  <1>1. Len(frames) \in Nat /\ Nobody \notin Functions
    BY GraphAssumption DEF CountType
  <1>2. 0 \in S
    OBVIOUS
  <1>3. ASSUME NEW d \in Nat, d \in S PROVE d + 1 \in S
    <2>1. SUFFICES ASSUME i + (d + 1) <= Len(frames) PROVE frames[i + (d + 1)].name \in W
      OBVIOUS
    <2>2. /\ i + d \in 1 .. Len(frames) /\ i + d < Len(frames) /\ (i + d) + 1 = i + (d + 1)
          /\ i + (d + 1) \in 1 .. Len(frames) /\ i + d <= Len(frames)
      BY <1>1, <2>1
    <2>3. frames[i + d].name \in W
      BY <1>3, <2>2
    <2>4. Awaited(i + d) = frames[i + (d + 1)].name
      BY <2>2 DEF Awaited
    <2>5. frames[i + (d + 1)].name \in Inner /\ frames[i + (d + 1)].name # Nobody
      BY <1>1, <2>2, InnerType, FrameParts
    <2>6. Mentions(frames[i + d].name, frames[i + (d + 1)].name) # {}
      BY <2>2, <2>4, <2>5 DEF Stacked, FrameStacked
    <2>7. frames[i + (d + 1)].name \in Successors(frames[i + d].name)
      BY <2>5, <2>6 DEF Successors
    <2> QED BY <2>3, <2>7, WalkGoesOn
  <1> HIDE DEF S
  <1>4. Nat \subseteq S
    BY <1>2, <1>3, BySet
  <1>5. ASSUME NEW j \in i .. Len(frames) PROVE frames[j].name \in W
    <2>1. j - i \in Nat /\ i + (j - i) = j /\ j <= Len(frames)
      BY <1>1
    <2> QED BY <1>4, <2>1 DEF S
  <1> QED BY <1>5

\* A name called while its frame waits is on a loop.
LEMMA RefuseHolds == CountInductive /\ Refuse => CountInductive'
  <1> SUFFICES ASSUME CountInductive, Refuse PROVE CountInductive'
    OBVIOUS
  <1> DEFINE N == Len(frames)
  <1>1. CountType /\ Stacked /\ N \in Nat /\ Nobody \notin Functions
    BY GraphAssumption DEF CountInductive, CountType
  <1>2. /\ calling \in Functions /\ calling \in Stack /\ ~ Immediate(calling)
        /\ result' = Cycle /\ UNCHANGED <<refs, boundaries, expected, calling, frames, memo>>
    BY <1>1 DEF Refuse, InProgress, CountType
  <1>3. calling \in Inner /\ Reaches(calling)
    BY <1>2 DEF Immediate, Inner
  <1>4. PICK i \in 1 .. N : calling = frames[i].name
    BY <1>1, <1>2 DEF Stack, CountType
  <1>5. frames # << >> /\ frames[1].name = Start /\ 1 \in 1 .. N /\ N \in 1 .. N
    BY <1>1, <1>4 DEF Stacked, CountType
  <1>6. \A j \in 1 .. N : frames[j].name \in Inner
    BY <1>1, FrameParts
  <1>7. calling \in WalkableFrom({Start} \cap Inner)
    <2>1. {Start} \cap Inner \in SUBSET Inner /\ Start \in {Start} \cap Inner
      BY <1>5, <1>6
    <2>2. frames[1].name \in WalkableFrom({Start} \cap Inner)
      BY <1>5, <2>1, WalkGoesOn
    <2>3. i \in 1 .. Len(frames)
      OBVIOUS
    <2> QED BY <1>1, <1>4, <1>5, <2>1, <2>2, <2>3, UpTheStack
  <1>8. calling \in WalkableFrom(Successors(calling))
    <2> DEFINE W == WalkableFrom(Successors(calling))
    <2>1. /\ Successors(calling) \in SUBSET Inner /\ Successors(calling) \subseteq W
          /\ \A n \in W : Successors(n) \subseteq W
      BY SuccessorsInner, WalkGoesOn
    <2>2. calling \in Successors(frames[N].name)
      <3>1. Awaited(N) = calling
        BY <1>1 DEF Awaited
      <3>2. Mentions(frames[N].name, calling) # {}
        BY <1>1, <1>2, <1>5, <3>1 DEF Stacked, FrameStacked
      <3> QED BY <1>3, <3>2 DEF Successors
    <2>3. CASE i = N
      BY <1>4, <2>1, <2>2, <2>3
    <2>4. CASE i # N
      <3>1. i + 1 \in 1 .. N /\ i < N /\ N \in i + 1 .. N
        BY <1>1, <2>4
      <3>2. Awaited(i) = frames[i + 1].name /\ frames[i + 1].name \in Functions
        BY <1>6, <3>1, InnerType DEF Awaited
      <3>3. frames[i + 1].name \in Successors(calling)
        BY <1>1, <1>4, <1>6, <3>1, <3>2 DEF Stacked, FrameStacked, Successors
      <3>4. frames[i + 1].name \in W
        BY <2>1, <3>3
      <3>5. frames[N].name \in W
        BY <1>1, <2>1, <3>1, <3>4, UpTheStack
      <3> QED BY <2>1, <2>2, <3>5
    <2> QED BY <2>3, <2>4
  <1>9. Looping
    BY <1>3, <1>7, <1>8 DEF Looping
  <1>10. CountType'
    BY <1>1, <1>2, CountKept DEF CountType, Frames
  <1>11. Held' = Held /\ (\A x : Settles(x)' <=> Settles(x))
         /\ \A j : Awaited(j)' = Awaited(j) /\ Settled(j)' = Settled(j)
    BY <1>2 DEF Held, Settles, Settled, Awaited
  <1>12. ASSUME NEW j \in 1 .. N PROVE FrameStacked(j)' /\ FrameMeasured(j)' /\ FrameCloses(j)'
    <2>1. FrameStacked(j) /\ FrameMeasured(j) /\ FrameCloses(j)
      BY <1>1 DEF CountInductive, Stacked
    <2>2. FrameStacked(j)'
      BY <1>2, <1>11, <2>1, CountKept DEF FrameStacked
    <2>3. FrameMeasured(j)'
      BY <1>2, <1>11, <2>1, CountKept DEF FrameMeasured
    <2>4. FrameCloses(j)'
      BY <1>2, <1>11, <2>1, CountKept DEF FrameCloses
    <2> QED BY <2>2, <2>3, <2>4
  <1>13. Stacked'
    <2>1. frames' = frames /\ frames # << >>
      BY <1>2, <1>5
    <2> QED BY <1>1, <1>12, <2>1 DEF Stacked
  <1>14. MemoMeasured' /\ MemoCloses'
    BY <1>2, <1>11, CountKept DEF CountInductive, MemoMeasured, MemoCloses
  <1>15. Concluded'
    BY <1>2, <1>9, CountKept DEF Concluded, Cycle, Found
  <1>16. \A j \in 1 .. Len(frames') : FrameMeasured(j)' /\ FrameCloses(j)'
    BY <1>2, <1>12
  <1> QED BY <1>10, <1>13, <1>14, <1>15, <1>16 DEF CountInductive

\* What an answer leaves in the memo: nothing new that leads to the producer.
LEMMA AnswerRemembers ==
  ASSUME CountType, MemoMeasured, MemoCloses, Answer, NEW called, called = calling
  PROVE  /\ called \in Functions /\ ImmediateCount(called) \in Nat
         /\ DOMAIN memo' \subseteq Inner /\ memo' \in [DOMAIN memo' -> Nat]
         /\ DOMAIN memo \subseteq DOMAIN memo' /\ \A n \in DOMAIN memo : memo'[n] = memo[n]
         /\ \A n \in DOMAIN memo' : n \in DOMAIN memo \/ ~ Reaches(n)
         /\ Held' \in 0 .. Depth /\ Held <= Held'
         /\ MemoMeasured' /\ MemoCloses'
         /\ Measures(ImmediateCount(called), OfFunction(called), Held')
         /\ called \in Inner /\ Reaches(called) /\ ImmediateCount(called) <= expected
              => Settles(called)'
  <1> DEFINE v == ImmediateCount(called)
  <1>1. /\ called \in Functions /\ Immediate(called) /\ UNCHANGED <<refs, boundaries, expected>>
        /\ memo' = IF called \in {Target} \cup boundaries THEN memo ELSE Remembered(called, v)
    BY DEF Answer, CountType
  <1>2. /\ v \in Nat /\ Measures(v, OfFunction(called), Held) /\ Held \in 0 .. Depth
        /\ refs \in Bodies /\ expected \in Nat
        /\ DOMAIN memo \subseteq Inner /\ memo \in [DOMAIN memo -> Nat]
    BY <1>1, ImmediateMeasures, MemoSize DEF CountType
  <1>3. CASE called \in {Target} \cup boundaries \/ called \in DOMAIN memo
    <2>1. memo' = memo
      <3>1. CASE called \in {Target} \cup boundaries
        BY <1>1, <3>1
      <3>2. CASE called \notin {Target} \cup boundaries
        <4>1. called \in DOMAIN memo /\ v = memo[called] /\ memo' = Remembered(called, v)
          BY <1>1, <1>3, <3>2 DEF ImmediateCount
        <4> QED BY <1>2, <4>1 DEF Remembered
      <3> QED BY <3>1, <3>2
    <2>2. Held' = Held /\ \A x : Settles(x)' <=> Settles(x)
      BY <1>1, <2>1 DEF Held, Settles
    <2>3. MemoMeasured' /\ MemoCloses'
      BY <1>1, <2>1, <2>2, CountKept DEF MemoMeasured, MemoCloses
    <2>4. called \in Inner /\ v <= expected => Settles(called)
      BY <1>3 DEF Inner, Settles, ImmediateCount
    <2>5. Held <= Held'
      BY <1>2, <2>2, DepthType
    <2> QED BY <1>1, <1>2, <2>1, <2>2, <2>3, <2>4, <2>5
  <1>4. CASE ~ (called \in {Target} \cup boundaries \/ called \in DOMAIN memo)
    <2>1. ~ Reaches(called) /\ called \in Inner \ DOMAIN memo /\ memo' = Remembered(called, v)
      BY <1>1, <1>4 DEF Immediate, Inner
    <2>2. /\ DOMAIN memo' = DOMAIN memo \cup {called} /\ memo' \in [DOMAIN memo' -> Nat]
          /\ \A m \in DOMAIN memo : memo'[m] = memo[m]
          /\ Held' = Held + 1 /\ Held' \in 0 .. Depth
          /\ Measures(v, OfFunction(called), Held') => MemoMeasured'
      BY <1>1, <1>2, <2>1, MemoGrows
    <2>3. Held <= Held'
      BY <1>2, <2>2, DepthType
    <2>4. Measures(v, OfFunction(called), Held')
      <3>1. /\ OfFunction(called) \in [0 .. Depth -> Nat]
            /\ OfFunction(called)[Held] <= OfFunction(called)[Held']
        BY <1>1, <1>2, <2>2, <2>3, MentionCounts
      <3> HIDE DEF v
      <3> QED BY <1>2, <2>2, <2>3, <3>1, MeasuresLater
    <2>5. \A x : Settles(x) => Settles(x)'
      BY <1>1, <2>2 DEF Settles
    <2>6. \A x \in DOMAIN memo : Settles(x)' => Settles(x)
      BY <1>1, <2>2 DEF Settles
    <2>7. MemoCloses'
      <3>1. SUFFICES ASSUME NEW n \in DOMAIN memo', Settles(n)', Reaches(n)
                     PROVE  /\ n \notin WalkableFrom(Successors(n))
                            /\ \A m \in Successors(n) : Reaches(m) => Settles(m)'
        BY <1>1, CountKept DEF MemoCloses
      <3>2. n \in DOMAIN memo
        BY <2>1, <2>2, <3>1
      <3> QED BY <2>5, <2>6, <3>1, <3>2 DEF MemoCloses
    <2> QED BY <1>1, <1>2, <2>1, <2>2, <2>3, <2>4, <2>7
  <1> QED BY <1>3, <1>4

\* An answer that needs no frame counts what it should.
LEMMA AnswerHolds == CountInductive /\ Answer => CountInductive'
  <1> SUFFICES ASSUME CountInductive, Answer PROVE CountInductive'
    OBVIOUS
  <1>0. PICK N \in Nat : N = Len(frames)
    BY DEF CountInductive, CountType
  <1>1. /\ CountType /\ Stacked /\ MemoMeasured /\ MemoCloses
        /\ refs \in Bodies /\ expected \in Nat /\ Nobody \notin Functions
    BY GraphAssumption DEF CountInductive, CountType
  <1>2. PICK m \in Functions, v \in Nat : m = calling /\ v = ImmediateCount(m)
    BY <1>1, AnswerRemembers
  <1>3. /\ result = Counting /\ Immediate(m) /\ calling' = Nobody
        /\ Deliver(v, frames) /\ UNCHANGED <<refs, boundaries, expected>>
    BY <1>2 DEF Answer
  <1>4. /\ m \in Functions
        /\ DOMAIN memo' \subseteq Inner /\ memo' \in [DOMAIN memo' -> Nat]
        /\ DOMAIN memo \subseteq DOMAIN memo' /\ \A n \in DOMAIN memo : memo'[n] = memo[n]
        /\ \A n \in DOMAIN memo' : n \in DOMAIN memo \/ ~ Reaches(n)
        /\ Held' \in 0 .. Depth /\ Held <= Held'
        /\ MemoMeasured' /\ MemoCloses'
        /\ Measures(v, OfFunction(m), Held')
        /\ m \in Inner /\ Reaches(m) /\ v <= expected => Settles(m)'
    BY <1>1, <1>2, AnswerRemembers
  <1>5. CASE frames = << >>
    <2>1. frames' = << >> /\ result' = Found(v) /\ m = Start /\ DOMAIN memo = {}
      BY <1>1, <1>2, <1>3, <1>5 DEF Deliver, Stacked
    <2>2. v = Routes(Start) \/ (v > expected /\ v <= Routes(Start))
      BY <1>1, <1>4, <2>1, MeasuresRoutes
    <2>3. ~ Looping
      <3>1. ~ (Start \in Inner /\ Reaches(Start))
        BY <1>3, <2>1 DEF Immediate, Inner
      <3>2. {} \in SUBSET Inner
        OBVIOUS
      <3> QED BY <1>1, <3>1, <3>2, NoLoopFrom
    <2>4. Concluded'
      BY <1>3, <2>1, <2>2, <2>3, CountKept DEF Concluded, Cycle, Found
    <2>5. CountType'
      BY <1>1, <1>3, <1>4, <2>1, CountKept DEF CountType
    <2>6. Len(frames') = 0 /\ result' # Counting
      BY <2>1 DEF Found, Counting
    <2>7. Stacked'
      BY <2>1, <2>6 DEF Stacked
    <2> QED BY <1>4, <2>4, <2>5, <2>6, <2>7 DEF CountInductive
  <1>6. CASE frames # << >>
    <2>1. N \in 1 .. N
      <3>1. N # 0
        BY <1>0, <1>1, <1>6 DEF CountType
      <3> QED BY <3>1
    <2>2. /\ \A j \in 1 .. N : /\ frames[j] \in Frames /\ frames[j].name \in Inner
                               /\ frames[j].at \in Nat \ {0} /\ frames[j].total \in Nat
          /\ frames \in Seq(Frames)
      BY <1>0, <1>1, FrameParts DEF CountType
    <2>3. frames' = [frames EXCEPT ![N].total = frames[N].total + v] /\ result' = result
      BY <1>0, <1>3, <1>6, <2>1, <2>2 DEF Deliver
    <2>4. /\ frames' \in Seq(Frames) /\ Len(frames') = N
          /\ \A j \in 1 .. N :
               /\ frames'[j].name = frames[j].name /\ frames'[j].at = frames[j].at
               /\ frames'[j].total = IF j = N THEN frames[j].total + v ELSE frames[j].total
      BY <1>0, <2>1, <2>2, <2>3 DEF Frames
    <2>5. \A j \in 1 .. N : FrameStacked(j) /\ frames[j].name \notin DOMAIN memo'
      BY <1>0, <1>1, <1>4 DEF Stacked, FrameStacked
    <2>6. Awaited(N) = m
      BY <1>0, <1>2 DEF Awaited
    <2>7. \A j \in 1 .. Len(frames') : FrameStacked(j)' /\ FrameMeasured(j)' /\ FrameCloses(j)'
      <3>1. Len(frames') = N /\ N \in 1 .. Len(frames)
        BY <1>0, <2>1, <2>4
      <3>2. \A j \in 1 .. N :
              /\ frames'[j].name = frames[j].name /\ frames'[j].at = frames[j].at
              /\ frames'[j].total = IF j = N THEN frames[j].total + v ELSE frames[j].total
              /\ frames[j].name \notin DOMAIN memo'
        BY <2>4, <2>5
      <3> QED BY <1>3, <1>4, <2>6, <3>1, <3>2, FramesReturn
    <2>8. CountType'
      BY <1>1, <1>3, <1>4, <2>3, <2>4, CountKept DEF CountType, Frames
    <2>9. Stacked'
      <3>1. \A i, j \in 1 .. N : frames'[i].name = frames'[j].name => i = j
        BY <1>0, <1>1, <2>4 DEF Stacked
      <3>2. Len(frames') # 0 /\ 1 \in 1 .. N /\ frames[1].name = Start
        BY <1>1, <1>6, <2>1, <2>4 DEF Stacked
      <3>3. frames' # << >> /\ frames'[1].name = Start
        BY <2>4, <3>2
      <3> QED BY <2>4, <2>7, <3>1, <3>3 DEF Stacked
    <2>10. Concluded'
      <3>1. result' = Counting
        BY <1>3, <2>3
      <3> QED BY <3>1 DEF Concluded, Counting, Cycle, Found
    <2> QED BY <1>4, <2>7, <2>8, <2>9, <2>10 DEF CountInductive
  <1> QED BY <1>5, <1>6

\* What a frame that ends leaves in the memo: its function, with all it leads to settled
\* unless its total is already too large.
LEMMA LeaveRemembers ==
  ASSUME CountInductive, Leave, NEW N \in Nat, N = Len(frames),
         NEW n, NEW t, n = frames[N].name, t = frames[N].total
  PROVE  /\ N \in 1 .. N /\ n \in Inner \ DOMAIN memo /\ Reaches(n)
         /\ DOMAIN memo' = DOMAIN memo \cup {n} /\ memo' \in [DOMAIN memo' -> Nat]
         /\ \A m \in DOMAIN memo : memo'[m] = memo[m]
         /\ Held' \in 0 .. Depth /\ Held <= Held'
         /\ MemoMeasured' /\ MemoCloses'
         /\ Measures(t, OfFunction(n), Held')
         /\ t <= expected => Settles(n)'
  <1>1. /\ CountType /\ Stacked /\ MemoMeasured /\ MemoCloses
        /\ refs \in Bodies /\ expected \in Nat /\ Nobody \notin Functions
        /\ DOMAIN memo \subseteq Inner
    BY GraphAssumption DEF CountInductive, CountType
  <1>2. N \in 1 .. N
    <2>1. N # 0
      BY <1>1 DEF Leave, CountType
    <2> QED BY <2>1
  <1>3. n \in Inner /\ t \in Nat
    BY <1>1, <1>2, FrameParts
  <1>4. /\ calling = Nobody /\ (t > expected \/ frames[N].at > Len(refs[n]))
        /\ memo' = Remembered(n, t) /\ UNCHANGED <<refs, boundaries, expected>>
    BY <1>3 DEF Leave, Top, Exhausted
  <1>5. FrameStacked(N) /\ FrameMeasured(N) /\ FrameCloses(N)
    BY <1>1, <1>2 DEF CountInductive, Stacked
  <1>6. PICK s \in 0 .. Len(refs[n]) : s = Settled(N)
    BY <1>1, <1>2, <1>3, SettledType
  <1>7. s = Len(refs[n]) \/ t > expected
    <2>1. Awaited(N) = Nobody
      BY <1>4 DEF Awaited
    <2>2. frames[N].at \in Nat /\ s = frames[N].at - 1
      BY <1>1, <1>2, <1>6, <2>1, SettledType
    <2>3. Len(refs[n]) \in Nat
      BY <1>1, BodyTypes, InnerType
    <2> QED BY <1>4, <2>2, <2>3
  <1>8. n \in Inner \ DOMAIN memo /\ Reaches(n)
    BY <1>3, <1>5 DEF FrameStacked
  <1>9. /\ DOMAIN memo' = DOMAIN memo \cup {n} /\ memo' \in [DOMAIN memo' -> Nat]
        /\ memo'[n] = t /\ \A m \in DOMAIN memo : memo'[m] = memo[m]
        /\ Held' = Held + 1 /\ Held' \in 0 .. Depth
        /\ Measures(t, OfFunction(n), Held') => MemoMeasured'
    BY <1>1, <1>3, <1>4, <1>8, MemoGrows
  <1>10. Held \in 0 .. Depth /\ Held <= Held' /\ Held + 1 \in 0 .. Depth
    BY <1>1, <1>9, MemoSize, DepthType
  <1>11. Measures(t, OfFunction(n), Held')
    <2>1. Measures(t, OfMentions(n, s), Held)
      BY <1>3, <1>5, <1>6 DEF FrameMeasured
    <2> QED BY <1>1, <1>3, <1>7, <1>9, <1>10, <2>1, Summed
  <1>12. /\ \A x : Settles(x) => Settles(x)'
         /\ \A x \in DOMAIN memo : Settles(x)' => Settles(x)
         /\ Settles(n)' <=> t <= expected
    BY <1>4, <1>9 DEF Settles
  <1>13. ASSUME t <= expected
         PROVE  /\ n \notin WalkableFrom(Successors(n))
                /\ \A m \in Successors(n) : Reaches(m) => Settles(m)
    <2>1. \A m \in Successors(n) : Reaches(m) => Settles(m)
      <3>1. SUFFICES ASSUME NEW m \in Inner, NEW i \in Mentions(n, m), Reaches(m) PROVE Settles(m)
        BY DEF Successors
      <3>2. s = Len(refs[n])
        BY <1>1, <1>3, <1>7, <1>13
      <3>3. i \in 1 .. s
        BY <1>1, <3>1, <3>2, BodyTypes, InnerType DEF Mentions
      <3> QED BY <1>3, <1>5, <1>6, <1>13, <3>1, <3>3 DEF FrameCloses
    <2> DEFINE D == {x \in Inner : Settles(x) /\ Reaches(x)}
    <2>2. \A x \in D : \A m \in Successors(x) : Reaches(m) => m \in D
      BY SuccessorsInner, <1>1 DEF MemoCloses, Settles
    <2>3. \A m \in Successors(n) : Reaches(m) => m \in D
      BY <2>1, SuccessorsInner
    <2>4. n \notin D
      BY <1>8 DEF Settles
    <2>5. D \in SUBSET Inner /\ Successors(n) \in SUBSET Inner
      BY SuccessorsInner
    <2> HIDE DEF D
    <2>6. \A x \in WalkableFrom(Successors(n)) : Reaches(x) => x \in D
      BY <1>1, <2>2, <2>3, <2>5, WalkSettled
    <2> QED BY <1>8, <2>1, <2>4, <2>6
  <1>14. MemoCloses'
    <2>1. SUFFICES ASSUME NEW x \in DOMAIN memo', Settles(x)', Reaches(x)
                   PROVE  /\ x \notin WalkableFrom(Successors(x))
                          /\ \A m \in Successors(x) : Reaches(m) => Settles(m)'
      BY <1>4, CountKept DEF MemoCloses
    <2>2. CASE x = n
      BY <1>12, <1>13, <2>1, <2>2
    <2>3. CASE x \in DOMAIN memo
      BY <1>1, <1>12, <2>1, <2>3 DEF MemoCloses
    <2> QED BY <1>9, <2>1, <2>2, <2>3
  <1> QED BY <1>2, <1>3, <1>8, <1>9, <1>10, <1>11, <1>12, <1>14

\* A frame that ends delivers what its function counts.
LEMMA LeaveHolds == CountInductive /\ Leave => CountInductive'
  <1> SUFFICES ASSUME CountInductive, Leave PROVE CountInductive'
    OBVIOUS
  <1>0. PICK N \in Nat : N = Len(frames)
    BY DEF CountInductive, CountType
  <1>1. /\ CountType /\ Stacked /\ refs \in Bodies /\ expected \in Nat /\ Nobody \notin Functions
        /\ DOMAIN memo \subseteq Inner
    BY GraphAssumption DEF CountInductive, CountType
  <1>2. /\ N \in 1 .. N /\ frames \in Seq(Frames)
        /\ \A j \in 1 .. N : /\ frames[j] \in Frames /\ frames[j].name \in Inner
                             /\ frames[j].at \in Nat \ {0} /\ frames[j].total \in Nat
    BY <1>0, <1>1, FrameParts, LeaveRemembers DEF CountType
  <1>3. PICK n \in Inner, t \in Nat : n = frames[N].name /\ t = frames[N].total
    BY <1>2
  <1>4. /\ n \in Inner \ DOMAIN memo /\ Reaches(n)
        /\ DOMAIN memo' = DOMAIN memo \cup {n} /\ memo' \in [DOMAIN memo' -> Nat]
        /\ \A m \in DOMAIN memo : memo'[m] = memo[m]
        /\ Held' \in 0 .. Depth /\ Held <= Held'
        /\ MemoMeasured' /\ MemoCloses'
        /\ Measures(t, OfFunction(n), Held')
        /\ t <= expected => Settles(n)'
    BY <1>0, <1>3, LeaveRemembers
  <1>5. /\ result = Counting /\ calling = Nobody /\ frames # << >>
        /\ Deliver(t, SubSeq(frames, 1, N - 1))
        /\ UNCHANGED <<refs, boundaries, expected, calling>>
    BY <1>0, <1>3 DEF Leave, Top, Front
  <1>6. /\ SubSeq(frames, 1, N - 1) \in Seq(Frames) /\ Len(SubSeq(frames, 1, N - 1)) = N - 1
        /\ \A j \in 1 .. N - 1 : SubSeq(frames, 1, N - 1)[j] = frames[j]
    BY <1>0, <1>2
  <1>7. DOMAIN memo' \subseteq Inner
    BY <1>1, <1>4
  <1>8. CASE N = 1
    <2>1. SubSeq(frames, 1, N - 1) = << >>
      BY <1>6, <1>8
    <2>2. frames' = << >> /\ result' = Found(t) /\ n = Start
      BY <1>1, <1>3, <1>5, <1>8, <2>1 DEF Deliver, Stacked
    <2>3. t = Routes(Start) \/ (t > expected /\ t <= Routes(Start))
      BY <1>1, <1>4, <2>2, InnerType, MeasuresRoutes
    <2>4. ASSUME t <= expected PROVE ~ Looping
      <3> DEFINE D == {x \in DOMAIN memo' : memo'[x] <= expected /\ Reaches(x)}
      <3>1. \A x : Settles(x)' <=> x \in DOMAIN memo' /\ memo'[x] <= expected
        BY <1>5 DEF Settles
      <3>2. \A x \in D : /\ x \notin WalkableFrom(Successors(x))
                         /\ \A m \in Successors(x) : Reaches(m) => m \in D
        BY <1>4, <1>5, <3>1, CountKept DEF MemoCloses
      <3>3. D \in SUBSET Inner /\ n \in D
        BY <1>4, <1>7, <2>4, <3>1
      <3> HIDE DEF D
      <3> QED BY <1>1, <2>2, <3>2, <3>3, NoLoopFrom
    <2>5. Concluded'
      BY <1>5, <2>2, <2>3, <2>4, CountKept DEF Concluded, Cycle, Found
    <2>6. CountType'
      BY <1>1, <1>4, <1>5, <1>7, <2>2, CountKept DEF CountType
    <2>7. Len(frames') = 0 /\ result' # Counting
      BY <2>2 DEF Found, Counting
    <2>8. Stacked'
      BY <2>2, <2>7 DEF Stacked
    <2> QED BY <1>4, <2>5, <2>6, <2>7, <2>8 DEF CountInductive
  <1>9. CASE N # 1
    <2>1. PICK M \in Nat : M = N - 1 /\ M \in 1 .. N /\ M \in 1 .. M /\ M < N /\ M + 1 = N
      BY <1>2, <1>9
    <2>2. PICK under \in Seq(Frames) : under = SubSeq(frames, 1, N - 1)
      BY <1>6
    <2>3. Len(under) = M /\ \A j \in 1 .. M : under[j] = frames[j]
      BY <1>6, <2>1, <2>2
    <2>4. under # << >>
      <3>1. Len(under) # 0
        BY <2>1, <2>3
      <3> QED BY <3>1
    <2>5. frames' = [under EXCEPT ![M].total = under[M].total + t] /\ result' = result
      BY <1>5, <2>2, <2>3, <2>4 DEF Deliver
    <2>6. \A j \in 1 .. M : under[j] \in Frames /\ under[j].total \in Nat /\ j \in 1 .. N
      BY <1>2, <2>1, <2>3
    <2>7. /\ frames' \in Seq(Frames) /\ Len(frames') = M
          /\ \A j \in 1 .. M :
               /\ frames'[j].name = under[j].name /\ frames'[j].at = under[j].at
               /\ frames'[j].total = IF j = M THEN under[j].total + t ELSE under[j].total
      BY <1>3, <2>1, <2>3, <2>5, <2>6 DEF Frames
    <2>8. \A j \in 1 .. M : frames[j].name \notin DOMAIN memo'
      <3>1. ASSUME NEW j \in 1 .. M PROVE frames[j].name \notin DOMAIN memo /\ frames[j].name # n
        <4>1. j \in 1 .. Len(frames) /\ N \in 1 .. Len(frames) /\ j # N
          BY <1>0, <1>2, <2>1
        <4> QED BY <1>1, <1>3, <4>1 DEF Stacked, FrameStacked
      <3> QED BY <1>4, <3>1
    <2>9. Awaited(M) = n
      BY <1>0, <1>3, <2>1 DEF Awaited
    <2>10. \A j \in 1 .. M : /\ frames'[j].name = frames[j].name /\ frames'[j].at = frames[j].at
             /\ frames'[j].total = IF j = M THEN frames[j].total + t ELSE frames[j].total
      BY <2>3, <2>7
    <2>11. /\ calling' = Nobody /\ DOMAIN memo \subseteq DOMAIN memo' /\ n \in Functions
           /\ UNCHANGED <<refs, boundaries, expected>> /\ M \in 1 .. Len(frames)
      BY <1>0, <1>4, <1>5, <2>1, InnerType
    <2>12. \A j \in 1 .. Len(frames') : FrameStacked(j)' /\ FrameMeasured(j)' /\ FrameCloses(j)'
      BY <1>4, <2>7, <2>8, <2>9, <2>10, <2>11, FramesReturn
    <2>13. CountType'
      BY <1>1, <1>4, <1>5, <1>7, <2>5, <2>7, CountKept DEF CountType, Frames
    <2>14. Stacked'
      <3>1. \A i, j \in 1 .. M : frames'[i].name = frames'[j].name => i = j
        BY <1>0, <1>1, <2>6, <2>10 DEF Stacked
      <3>2. Len(frames') # 0 /\ 1 \in 1 .. M /\ frames[1].name = Start
        BY <1>1, <1>5, <2>1, <2>7 DEF Stacked
      <3>3. frames' # << >> /\ frames'[1].name = Start
        BY <2>10, <3>2
      <3> QED BY <2>7, <2>12, <3>1, <3>3 DEF Stacked
    <2>15. Concluded'
      <3>1. result' = Counting
        BY <1>5, <2>5
      <3> QED BY <3>1 DEF Concluded, Counting, Cycle, Found
    <2> QED BY <1>4, <2>12, <2>13, <2>14, <2>15 DEF CountInductive
  <1> QED BY <1>8, <1>9

\* The invariant holds in every state of every count.
THEOREM CountInvariant == CountSpec => []CountInductive
  <1>1. CountInductive /\ CountNext => CountInductive'
    BY AnswerHolds, RefuseHolds, EnterHolds, AdvanceHolds, LeaveHolds DEF CountNext
  <1>2. CountInductive /\ UNCHANGED counted => CountInductive'
    <2> SUFFICES ASSUME CountInductive, UNCHANGED counted PROVE CountInductive'
      OBVIOUS
    <2>1. /\ UNCHANGED <<refs, boundaries, expected>> /\ calling' = calling /\ frames' = frames
          /\ memo' = memo /\ result' = result
      BY DEF counted
    <2>2. CountType' /\ Held' = Held /\ \A x : Settles(x)' <=> Settles(x)
      BY <2>1, CountKept DEF CountInductive, CountType, Frames, Held, Settles
    <2>3. \A j : Awaited(j)' = Awaited(j) /\ Settled(j)' = Settled(j)
      BY <2>1 DEF Awaited, Settled
    <2>4. \A j : FrameStacked(j)' <=> FrameStacked(j)
      BY <2>1, <2>3, CountKept DEF FrameStacked
    <2>5. \A j : FrameMeasured(j)' <=> FrameMeasured(j)
      BY <2>1, <2>2, <2>3, CountKept DEF FrameMeasured
    <2>6. \A j : FrameCloses(j)' <=> FrameCloses(j)
      BY <2>1, <2>2, <2>3, CountKept DEF FrameCloses
    <2>7. Stacked'
      BY <2>1, <2>4 DEF CountInductive, Stacked
    <2>8. MemoMeasured' /\ MemoCloses'
      BY <2>1, <2>2, CountKept DEF CountInductive, MemoMeasured, MemoCloses
    <2>9. Concluded'
      BY <2>1, CountKept DEF CountInductive, Concluded
    <2> QED BY <2>1, <2>2, <2>5, <2>6, <2>7, <2>8, <2>9 DEF CountInductive
  <1> QED BY CountInitHolds, <1>1, <1>2, PTL DEF CountSpec

(* A remembered count is the number of routes, or too large and no larger   *)
(* than it: however the bodies share, repeat or go round                    *)
(* (check-unified-codegen.py:108-112, 126).                                 *)
THEOREM RoutesMemoSound == CountSpec => []MemoSound
  <1>1. CountInductive => MemoSound
    <2> SUFFICES ASSUME CountInductive, NEW n \in DOMAIN memo
                 PROVE  memo[n] = Routes(n) \/ (memo[n] > expected /\ memo[n] <= Routes(n))
      BY DEF MemoSound
    <2>1. CountType /\ MemoMeasured /\ refs \in Bodies /\ expected \in Nat
      BY DEF CountInductive, CountType
    <2>2. n \in Functions /\ memo[n] \in Nat /\ Held \in 0 .. Depth
      BY <2>1, InnerType, MemoSize DEF CountType
    <2>3. Measures(memo[n], OfFunction(n), Held)
      BY <2>1 DEF MemoMeasured
    <2> QED BY <2>1, <2>2, <2>3, MeasuresRoutes
  <1> QED BY <1>1, CountInvariant, PTL

(* The producer check passes exactly when no route can go round and the     *)
(* routes are as many as expected (check-unified-codegen.py:95-131).        *)
THEOREM RoutesAcceptedExactly == CountSpec => []AcceptedExactly
  <1>1. CountInductive => AcceptedExactly
    <2> SUFFICES ASSUME CountInductive, result # Counting
                 PROVE  Accepted <=> ~ Looping /\ Routes(Start) = expected
      BY DEF AcceptedExactly
    <2>1. Concluded /\ expected \in Nat /\ result \in {Cycle} \cup {Found(n) : n \in Nat}
      BY DEF CountInductive, CountType
    <2>2. CASE result = Cycle
      <3>1. Looping /\ ~ Accepted
        BY <2>1, <2>2 DEF Concluded, Accepted, Cycle, Found
      <3> QED BY <3>1
    <2>3. ASSUME NEW v \in Nat, result = Found(v)
          PROVE  Accepted <=> ~ Looping /\ Routes(Start) = expected
      <3>1. Accepted <=> v = expected
        BY <2>3 DEF Accepted, Found
      <3>2. (v = Routes(Start) \/ (v > expected /\ v <= Routes(Start))) /\ (v <= expected => ~ Looping)
        BY <2>1, <2>3 DEF Concluded
      <3>3. Routes(Start) \in Nat
        BY WithinUnfolds, DepthType, GraphAssumption DEF CountInductive, CountType, Routes, Depth
      <3> QED BY <2>1, <3>1, <3>2, <3>3
    <2> QED BY <2>1, <2>2, <2>3
  <1> QED BY <1>1, CountInvariant, PTL

-----------------------------------------------------------------------------
(* The reader of Lean headers, on every file that is well written.          *)

-----------------------------------------------------------------------------
(* The header reader.                                                       *)

\* How the reader stands after each symbol.
Modes == [depth : Nat, quoted : BOOLEAN, line : BOOLEAN, second : BOOLEAN]
Outputs == [mode : Modes, code : Seq(Symbols)]
ModeAt(text, i) == Lexed(text)[i].mode
Visible(s, text, i) == IF Shown(s, text, i) THEN text[i] ELSE Space

\* The symbols are strings; a hidden one is one too.
LEMMA SpaceSymbol == Space \in Symbols
  BY DEF Symbols, Marks

\* What is shown of a symbol is the symbol or a space.
LEMMA VisibleSymbol ==
  ASSUME NEW text, NEW i, NEW s, text[i] \in Symbols PROVE Visible(s, text, i) \in Symbols
  <1>1. Visible(s, text, i) = text[i] \/ Visible(s, text, i) = Space
    BY DEF Visible
  <1> QED BY <1>1, SpaceSymbol

\* A step leaves a mode of the reader.
LEMMA StepModes ==
  ASSUME NEW text, NEW i, NEW s \in Modes PROVE Step(s, text, i) \in Modes
  <1>1. /\ s.depth \in Nat /\ s.quoted \in BOOLEAN /\ s.line \in BOOLEAN /\ s.second \in BOOLEAN
    BY DEF Modes
  <1>2. [s EXCEPT !.second = FALSE] \in Modes
    BY DEF Modes
  <1>3. [s EXCEPT !.line = text[i] # Newline] \in Modes
    BY DEF Modes
  <1>4. ASSUME s.depth > 0 PROVE InComment(s, text, i) \in Modes
    <2>1. s.depth + 1 \in Nat /\ s.depth - 1 \in Nat
      BY <1>1, <1>4
    <2>2. Taken(s.depth + 1) \in Modes /\ Taken(s.depth - 1) \in Modes
      BY <2>1 DEF Modes, Taken
    <2> QED BY <2>2 DEF InComment
  <1>5. InString(s, text, i) \in Modes
    BY DEF Modes, InString
  <1>6. InText(s, text, i) \in Modes
    <2> DEFINE d == IF Begins(text, i, Opening) THEN 1 ELSE 0
    <2>1. d \in Nat
      OBVIOUS
    <2>2. (text[i] = Quote) \in BOOLEAN /\ Begins(text, i, LineComment) \in BOOLEAN
          /\ Begins(text, i, Opening) \in BOOLEAN
      BY DEF Begins
    <2> HIDE DEF d
    <2> QED BY <2>1, <2>2 DEF Modes, InText, d
  <1> QED BY <1>1, <1>2, <1>3, <1>4, <1>5, <1>6 DEF Step

\* lean_code: the output is built symbol by symbol.
LEMMA LexedRuns ==
  ASSUME NEW text \in Seq(Symbols)
  PROVE  /\ Len(text) \in Nat
         /\ Lexed(text)[0].mode = Fresh /\ Lexed(text)[0].code = << >>
         /\ \A i \in 1 .. Len(text) :
              /\ Lexed(text)[i].mode = Step(Lexed(text)[i - 1].mode, text, i)
              /\ Lexed(text)[i].code =
                   Append(Lexed(text)[i - 1].code, Visible(Lexed(text)[i - 1].mode, text, i))
  <1> DEFINE N == Len(text)
             base == [mode |-> Fresh, code |-> << >>]
             Next1(s, i) == [mode |-> Step(s.mode, text, i),
                             code |-> Append(s.code, Visible(s.mode, text, i))]
             Body(f) == [i \in 0 .. N |-> IF i = 0 THEN base ELSE Next1(f[i - 1], i)]
             step == [i \in Nat |-> [s \in Outputs |-> IF i \in 1 .. N THEN Next1(s, i) ELSE s]]
  <1>1. N \in Nat /\ \A i \in 1 .. N : text[i] \in Symbols
    OBVIOUS
  <1>2. base \in Outputs
    BY DEF Outputs, Modes, Fresh
  <1>3. ASSUME NEW i \in 1 .. N, NEW s \in Outputs PROVE Next1(s, i) \in Outputs
    <2>1. s.mode \in Modes /\ s.code \in Seq(Symbols)
      BY DEF Outputs
    <2>2. Visible(s.mode, text, i) \in Symbols
      BY <1>1, VisibleSymbol
    <2>3. Step(s.mode, text, i) \in Modes
      BY <2>1, StepModes
    <2>4. Append(s.code, Visible(s.mode, text, i)) \in Seq(Symbols)
      BY <2>1, <2>2
    <2> QED BY <2>3, <2>4 DEF Outputs
  <1>4. Lexed(text) = CHOOSE f : f = Body(f)
    BY DEF Lexed, Visible
  <1>12. /\ base.mode = Fresh /\ base.code = << >>
         /\ \A s, i : /\ Next1(s, i).mode = Step(s.mode, text, i)
                      /\ Next1(s, i).code = Append(s.code, Visible(s.mode, text, i))
    OBVIOUS
  <1> HIDE DEF Next1, base, N
  <1>5. step \in [Nat -> [Outputs -> Outputs]]
    BY <1>3
  <1>6. \A i \in 1 .. N : i \in Nat /\ i - 1 \in 0 .. N /\ \A s \in Outputs : step[i][s] = Next1(s, i)
    BY <1>1
  <1>7. \A f : /\ Body(f) = [i \in 0 .. N |-> Body(f)[i]] /\ Body(f)[0] = base
               /\ \A i \in 1 .. N : Body(f)[i] = Next1(f[i - 1], i)
    BY <1>1
  <1> HIDE DEF step, Body
  <1>8. PICK f \in [0 .. N -> Outputs] : Builds(f, N, base, step)
    BY <1>1, <1>2, <1>5, RecursionUpTo
  <1>9. f = Body(f)
    <2>1. \A i \in 1 .. N : f[i] = Next1(f[i - 1], i)
      BY <1>6, <1>8 DEF Builds
    <2>2. \A i \in 0 .. N : i = 0 \/ i \in 1 .. N
      BY <1>1
    <2>3. \A i \in 0 .. N : f[i] = Body(f)[i]
      BY <1>7, <1>8, <2>1, <2>2 DEF Builds
    <2> QED BY <1>7, <2>3
  <1>10. PICK g : g = Body(g) /\ Lexed(text) = g
    BY <1>4, <1>9
  <1>11. g[0] = base /\ \A i \in 1 .. N : g[i] = Next1(g[i - 1], i)
    BY <1>7, <1>10
  <1> QED BY <1>1, <1>10, <1>11, <1>12 DEF N

\* The modes alone: each follows from the one before.
LEMMA Lexing ==
  ASSUME NEW text \in Seq(Symbols)
  PROVE  /\ ModeAt(text, 0) = Fresh
         /\ \A i \in 1 .. Len(text) : ModeAt(text, i) = Step(ModeAt(text, i - 1), text, i)
         /\ \A i \in 0 .. Len(text) : ModeAt(text, i) \in Modes
  <1>1. /\ Len(text) \in Nat /\ ModeAt(text, 0) = Fresh
        /\ \A i \in 1 .. Len(text) : ModeAt(text, i) = Step(ModeAt(text, i - 1), text, i)
    <2>1. /\ Len(text) \in Nat
          /\ Lexed(text)[0].mode = Fresh /\ Lexed(text)[0].code = << >>
          /\ \A i \in 1 .. Len(text) :
               /\ Lexed(text)[i].mode = Step(Lexed(text)[i - 1].mode, text, i)
               /\ Lexed(text)[i].code =
                    Append(Lexed(text)[i - 1].code, Visible(Lexed(text)[i - 1].mode, text, i))
      BY LexedRuns
    <2> QED BY <2>1 DEF ModeAt
  <1> DEFINE S == {i \in Nat : i <= Len(text) => ModeAt(text, i) \in Modes}
  <1>2. 0 \in S
    <2>1. Fresh \in Modes
      BY DEF Fresh, Modes
    <2> QED BY <1>1, <2>1
  <1>3. ASSUME NEW i \in Nat, i \in S PROVE i + 1 \in S
    <2>1. SUFFICES ASSUME i + 1 <= Len(text) PROVE ModeAt(text, i + 1) \in Modes
      OBVIOUS
    <2>2. ModeAt(text, i) \in Modes /\ i + 1 \in 1 .. Len(text) /\ (i + 1) - 1 = i
      BY <1>1, <1>3, <2>1
    <2>3. ModeAt(text, i + 1) = Step(ModeAt(text, i), text, i + 1)
      BY <1>1, <2>2
    <2> QED BY <2>2, <2>3, StepModes
  <1>4. Nat \subseteq S
    BY <1>2, <1>3, BySet
  <1>5. ASSUME NEW i \in 0 .. Len(text) PROVE ModeAt(text, i) \in Modes
    BY <1>1, <1>4
  <1> QED BY <1>1, <1>5

\* The code is the text with everything hidden turned into spaces, in place.
LEMMA CodeSymbols ==
  ASSUME NEW text \in Seq(Symbols)
  PROVE  /\ CodeOf(text) \in Seq(Symbols) /\ Len(CodeOf(text)) = Len(text)
         /\ \A i \in 1 .. Len(text) : CodeOf(text)[i] = Visible(ModeAt(text, i - 1), text, i)
  <1> DEFINE Code(i) == Lexed(text)[i].code
             Fits(i) == /\ Code(i) \in Seq(Symbols) /\ Len(Code(i)) = i
                         /\ \A j \in 1 .. i : Code(i)[j] = Visible(ModeAt(text, j - 1), text, j)
             S == {i \in Nat : i <= Len(text) => Fits(i)}
  <1>1. /\ Len(text) \in Nat /\ Code(0) = << >>
        /\ \A i \in 1 .. Len(text) : Code(i) = Append(Code(i - 1), Visible(ModeAt(text, i - 1), text, i))
        /\ \A i \in 1 .. Len(text) : Visible(ModeAt(text, i - 1), text, i) \in Symbols
    <2>1. \A i \in 1 .. Len(text) : text[i] \in Symbols
      OBVIOUS
    <2>2. \A i \in 1 .. Len(text) : Visible(ModeAt(text, i - 1), text, i) \in Symbols
      BY <2>1, VisibleSymbol
    <2>3. /\ Len(text) \in Nat
          /\ Lexed(text)[0].mode = Fresh /\ Lexed(text)[0].code = << >>
          /\ \A i \in 1 .. Len(text) :
               /\ Lexed(text)[i].mode = Step(Lexed(text)[i - 1].mode, text, i)
               /\ Lexed(text)[i].code =
                    Append(Lexed(text)[i - 1].code, Visible(Lexed(text)[i - 1].mode, text, i))
      BY LexedRuns
    <2> QED BY <2>2, <2>3 DEF ModeAt
  <1> HIDE DEF Code
  <1>2. 0 \in S
    <2>1. << >> \in Seq(Symbols) /\ Len(<< >>) = 0 /\ \A j \in 1 .. 0 : FALSE
      OBVIOUS
    <2>2. Fits(0)
      BY <1>1, <2>1
    <2> QED BY <2>2
  <1>3. ASSUME NEW i \in Nat, i \in S PROVE i + 1 \in S
    <2>1. SUFFICES ASSUME i + 1 <= Len(text) PROVE Fits(i + 1)
      OBVIOUS
    <2>2. Fits(i) /\ i + 1 \in 1 .. Len(text) /\ (i + 1) - 1 = i
      BY <1>1, <1>3, <2>1
    <2> DEFINE x == Visible(ModeAt(text, i), text, i + 1)
    <2>3. Code(i + 1) = Append(Code(i), x) /\ x \in Symbols
      BY <1>1, <2>2
    <2> HIDE DEF x
    <2>4. /\ Code(i + 1) \in Seq(Symbols) /\ Len(Code(i + 1)) = i + 1
          /\ Code(i + 1)[i + 1] = x /\ \A j \in 1 .. i : Code(i + 1)[j] = Code(i)[j]
      <3>1. PICK c \in Seq(Symbols) : c = Code(i) /\ Len(c) = i
        BY <2>2
      <3>2. /\ Append(c, x) \in Seq(Symbols) /\ Len(Append(c, x)) = i + 1
            /\ Append(c, x)[i + 1] = x /\ \A j \in 1 .. i : Append(c, x)[j] = c[j]
        BY <2>3, <3>1
      <3> QED BY <2>3, <3>1, <3>2
    <2>5. ASSUME NEW j \in 1 .. i + 1 PROVE Code(i + 1)[j] = Visible(ModeAt(text, j - 1), text, j)
      <3>1. CASE j = i + 1
        BY <2>2, <2>4, <3>1 DEF x
      <3>2. CASE j \in 1 .. i
        BY <2>2, <2>4, <3>2
      <3> QED BY <3>1, <3>2
    <2> QED BY <2>4, <2>5
  <1> HIDE DEF Fits
  <1>4. Nat \subseteq S
    BY <1>2, <1>3, BySet
  <1>5. Fits(Len(text))
    BY <1>1, <1>4
  <1> QED BY <1>5 DEF Fits, Code, CodeOf

\* A step reads a symbol and the next one, wherever they stand.
LEMMA StepElsewhere ==
  ASSUME NEW text \in Seq(Symbols), NEW other \in Seq(Symbols), NEW i \in Nat, NEW j \in Nat,
         text[i] = other[j], i < Len(text) <=> j < Len(other),
         i < Len(text) => text[i + 1] = other[j + 1],
         NEW s
  PROVE  Step(s, text, i) = Step(s, other, j) /\ Visible(s, text, i) = Visible(s, other, j)
  <1>1. \A mark : Begins(text, i, mark) <=> Begins(other, j, mark)
    BY DEF Begins
  <1>2. InComment(s, text, i) = InComment(s, other, j)
    BY <1>1 DEF InComment
  <1>3. InString(s, text, i) = InString(s, other, j)
    BY DEF InString
  <1>4. InText(s, text, i) = InText(s, other, j)
    <2> DEFINE Made(a, b, c) == [depth |-> IF a THEN 1 ELSE 0, quoted |-> c = Quote, line |-> b, second |-> a]
    <2>1. /\ InText(s, text, i) = Made(Begins(text, i, Opening), Begins(text, i, LineComment), text[i])
          /\ InText(s, other, j) = Made(Begins(other, j, Opening), Begins(other, j, LineComment), other[j])
      BY DEF InText
    <2>2. /\ Begins(text, i, Opening) = Begins(other, j, Opening)
          /\ Begins(text, i, LineComment) = Begins(other, j, LineComment)
      BY DEF Begins
    <2> HIDE DEF Made
    <2> QED BY <2>1, <2>2
  <1>5. Step(s, text, i) = Step(s, other, j)
    BY <1>2, <1>3, <1>4 DEF Step
  <1>6. Shown(s, text, i) <=> Shown(s, other, j)
    BY <1>1 DEF Shown
  <1> QED BY <1>5, <1>6 DEF Visible

\* From a place where nothing is open, the rest reads as it would alone.
LEMMA Onward ==
  ASSUME NEW text \in Seq(Symbols), NEW rest \in Seq(Symbols), NEW a \in Nat,
         Len(text) = a + Len(rest), \A i \in 1 .. Len(rest) : text[a + i] = rest[i],
         ModeAt(text, a) = Fresh
  PROVE  /\ ModeAt(text, Len(text)) = ModeAt(rest, Len(rest))
         /\ \A i \in 1 .. Len(rest) : CodeOf(text)[a + i] = CodeOf(rest)[i]
  <1> DEFINE S == {i \in Nat : i <= Len(rest) => ModeAt(text, a + i) = ModeAt(rest, i)}
  <1>1. Len(rest) \in Nat /\ Len(text) \in Nat /\ a + 0 = a
    OBVIOUS
  <1>2. /\ ModeAt(text, 0) = Fresh
        /\ \A i \in 1 .. Len(text) : ModeAt(text, i) = Step(ModeAt(text, i - 1), text, i)
        /\ \A i \in 0 .. Len(text) : ModeAt(text, i) \in Modes
    BY Lexing
  <1>3. /\ ModeAt(rest, 0) = Fresh
        /\ \A i \in 1 .. Len(rest) : ModeAt(rest, i) = Step(ModeAt(rest, i - 1), rest, i)
        /\ \A i \in 0 .. Len(rest) : ModeAt(rest, i) \in Modes
    BY Lexing
  <1>4. ASSUME NEW i \in 1 .. Len(rest), NEW s
        PROVE  Step(s, text, a + i) = Step(s, rest, i) /\ Visible(s, text, a + i) = Visible(s, rest, i)
    <2>1. PICK k \in Nat : k = a + i
      BY <1>1
    <2>2. text[k] = rest[i]
      BY <2>1
    <2>3. k < Len(text) <=> i < Len(rest)
      BY <1>1, <2>1
    <2>4. k < Len(text) => text[k + 1] = rest[i + 1]
      <3>1. SUFFICES ASSUME k < Len(text) PROVE text[k + 1] = rest[i + 1]
        OBVIOUS
      <3>2. i < Len(rest)
        BY <2>3, <3>1
      <3>3. i + 1 \in 1 .. Len(rest) /\ a + (i + 1) = k + 1
        BY <1>1, <2>1, <3>2
      <3>4. text[a + (i + 1)] = rest[i + 1]
        BY <3>3
      <3> QED BY <3>3, <3>4
    <2>5. Step(s, text, k) = Step(s, rest, i) /\ Visible(s, text, k) = Visible(s, rest, i)
      BY <2>2, <2>3, <2>4, StepElsewhere
    <2> QED BY <2>1, <2>5
  <1>5. 0 \in S
    BY <1>1, <1>3
  <1>6. ASSUME NEW i \in Nat, i \in S PROVE i + 1 \in S
    <2>1. SUFFICES ASSUME i + 1 <= Len(rest) PROVE ModeAt(text, a + (i + 1)) = ModeAt(rest, i + 1)
      OBVIOUS
    <2>2. /\ ModeAt(text, a + i) = ModeAt(rest, i) /\ i + 1 \in 1 .. Len(rest) /\ (i + 1) - 1 = i
          /\ a + (i + 1) \in 1 .. Len(text) /\ (a + (i + 1)) - 1 = a + i
      BY <1>1, <1>6, <2>1
    <2>3. ModeAt(text, a + (i + 1)) = Step(ModeAt(text, a + i), text, a + (i + 1))
      BY <1>2, <2>2
    <2>4. ModeAt(rest, i + 1) = Step(ModeAt(rest, i), rest, i + 1)
      BY <1>3, <2>2
    <2> QED BY <1>4, <2>2, <2>3, <2>4
  <1>7. Nat \subseteq S
    BY <1>5, <1>6, BySet
  <1>8. \A i \in 0 .. Len(rest) : ModeAt(text, a + i) = ModeAt(rest, i)
    BY <1>1, <1>7
  <1>9. ASSUME NEW i \in 1 .. Len(rest) PROVE CodeOf(text)[a + i] = CodeOf(rest)[i]
    <2>1. a + i \in 1 .. Len(text) /\ (a + i) - 1 = a + (i - 1) /\ i - 1 \in 0 .. Len(rest)
      <3>1. i \in Nat /\ 1 <= i /\ i <= Len(rest)
        BY <1>1
      <3>2. a + i \in Nat /\ 1 <= a + i /\ a + i <= Len(text)
        BY <1>1, <3>1
      <3>3. (a + i) - 1 = a + (i - 1) /\ i - 1 \in 0 .. Len(rest)
        BY <1>1, <3>1
      <3> QED BY <1>1, <3>2, <3>3
    <2>2. CodeOf(text)[a + i] = Visible(ModeAt(text, (a + i) - 1), text, a + i)
      BY <2>1, CodeSymbols
    <2>3. CodeOf(rest)[i] = Visible(ModeAt(rest, i - 1), rest, i)
      BY CodeSymbols
    <2> QED BY <1>4, <1>8, <2>1, <2>2, <2>3
  <1> QED BY <1>1, <1>8, <1>9

\* A piece stands at a place of a text.
Placed(text, a, piece) ==
  a + Len(piece) <= Len(text) /\ \A i \in 1 .. Len(piece) : text[a + i] = piece[i]

\* The last symbol of a silent piece says nothing either way, whatever comes next.
LEMMA LastSilent ==
  ASSUME NEW text, NEW piece, NEW i, NEW s \in Modes, Len(piece) \in Nat,
         text[i] = piece[Len(piece)],
         Step(s, piece, Len(piece)) = Fresh, Visible(s, piece, Len(piece)) \in Blanks
  PROVE  Step(s, text, i) = Fresh /\ Visible(s, text, i) \in Blanks
  <1> DEFINE n == Len(piece)
  <1>1. /\ s.depth \in Nat /\ s.quoted \in BOOLEAN /\ s.line \in BOOLEAN /\ s.second \in BOOLEAN
        /\ s = [depth |-> s.depth, quoted |-> s.quoted, line |-> s.line, second |-> s.second]
    BY DEF Modes
  <1>2. \A mark : ~Begins(piece, n, mark)
    BY DEF Begins
  <1>3. Space \in Blanks
    BY DEF Blanks
  <1>4. s # Fresh => ~Shown(s, text, i)
    BY DEF Shown
  <1>5. Fresh.depth = 0 /\ Fresh.quoted = FALSE /\ Fresh.line = FALSE /\ Fresh.second = FALSE
    BY DEF Fresh
  <1>6. CASE s.second
    BY <1>3, <1>4, <1>5, <1>6 DEF Step, Visible
  <1>7. CASE ~s.second /\ s.line
    BY <1>3, <1>4, <1>5, <1>7 DEF Step, Visible
  <1>8. CASE ~s.second /\ ~s.line /\ s.depth > 0
    <2>1. Step(s, piece, n) = s
      BY <1>2, <1>8 DEF Step, InComment
    <2> QED BY <1>5, <1>8, <2>1
  <1>9. CASE ~s.second /\ ~s.line /\ ~(s.depth > 0) /\ s.quoted
    <2>1. /\ Step(s, piece, n) = InString(s, piece, n) /\ Step(s, text, i) = InString(s, text, i)
      BY <1>9 DEF Step
    <2>2. InString(s, piece, n) = InString(s, text, i)
      BY DEF InString
    <2> QED BY <1>3, <1>4, <1>5, <1>9, <2>1, <2>2 DEF Visible
  <1>10. CASE ~s.second /\ ~s.line /\ ~(s.depth > 0) /\ ~s.quoted
    <2>1. s = Fresh
      BY <1>1, <1>10 DEF Fresh
    <2>2. /\ Step(s, piece, n) = InText(s, piece, n) /\ Step(s, text, i) = InText(s, text, i)
      BY <1>10 DEF Step
    <2>3. InText(s, piece, n).quoted = (piece[n] = Quote)
      BY DEF InText
    <2>4. piece[n] # Quote
      BY <1>5, <2>2, <2>3
    <2>5. Shown(s, piece, n)
      BY <1>2, <2>1, <2>4 DEF Shown
    <2>6. text[i] \in Blanks
      BY <2>5 DEF Visible
    <2>7. text[i] # Slash /\ text[i] # Dash /\ text[i] # Quote
      BY <2>6 DEF Blanks, Slash, Dash, Quote, Space, Newline
    <2>8. ~Begins(text, i, Opening) /\ ~Begins(text, i, LineComment)
      BY <2>7 DEF Begins, Opening, LineComment
    <2>9. InText(s, text, i) = Fresh
      <3>1. /\ (text[i] = Quote) = FALSE /\ Begins(text, i, Opening) = FALSE
            /\ Begins(text, i, LineComment) = FALSE
        BY <2>7, <2>8 DEF Begins
      <3>2. InText(s, text, i) = [depth |-> 0, quoted |-> FALSE, line |-> FALSE, second |-> FALSE]
        BY <2>8, <3>1, Zenon DEF InText
      <3> QED BY <3>2 DEF Fresh
    <2>10. Visible(s, text, i) = text[i]
      BY <2>1, <2>7, <2>8 DEF Visible, Shown
    <2> QED BY <2>2, <2>6, <2>9, <2>10
  <1> QED BY <1>6, <1>7, <1>8, <1>9, <1>10

\* A silent piece leaves nothing open and no word.
LEMMA SilentPlaced ==
  ASSUME NEW text \in Seq(Symbols), NEW piece \in Seq(Symbols), NEW a \in Nat,
         Placed(text, a, piece), Silent(piece), ModeAt(text, a) = Fresh
  PROVE  /\ ModeAt(text, a + Len(piece)) = Fresh
         /\ \A i \in 1 .. Len(piece) : CodeOf(text)[a + i] \in Blanks
  <1> DEFINE n == Len(piece)
             S == {i \in Nat : i < n => ModeAt(text, a + i) = ModeAt(piece, i)}
  <1>1. n \in Nat /\ Len(text) \in Nat /\ a + n <= Len(text) /\ a + 0 = a
        /\ \A i \in 1 .. n : text[a + i] = piece[i]
    BY DEF Placed
  <1>2. /\ ModeAt(text, 0) = Fresh
        /\ \A i \in 1 .. Len(text) : ModeAt(text, i) = Step(ModeAt(text, i - 1), text, i)
        /\ \A i \in 0 .. Len(text) : ModeAt(text, i) \in Modes
    BY Lexing
  <1>3. /\ ModeAt(piece, 0) = Fresh
        /\ \A i \in 1 .. n : ModeAt(piece, i) = Step(ModeAt(piece, i - 1), piece, i)
        /\ \A i \in 0 .. n : ModeAt(piece, i) \in Modes
    BY Lexing
  <1>4. ModeAt(piece, n) = Fresh /\ \A i \in 1 .. n : CodeOf(piece)[i] \in Blanks
    <2>1. DOMAIN piece = 1 .. n
      OBVIOUS
    <2> QED BY <2>1 DEF Silent, Mode, ModeAt
  <1>5. \A i \in 1 .. n : CodeOf(piece)[i] = Visible(ModeAt(piece, i - 1), piece, i)
    BY CodeSymbols
  <1>6. \A i \in 1 .. Len(text) : CodeOf(text)[i] = Visible(ModeAt(text, i - 1), text, i)
    BY CodeSymbols
  <1>7. ASSUME NEW i \in 1 .. n, i < n, NEW s
        PROVE  Step(s, text, a + i) = Step(s, piece, i) /\ Visible(s, text, a + i) = Visible(s, piece, i)
    <2>1. PICK k \in Nat : k = a + i
      BY <1>1
    <2>2. text[k] = piece[i] /\ k < Len(text) /\ i \in Nat
      BY <1>1, <1>7, <2>1
    <2>3. i + 1 \in 1 .. n /\ a + (i + 1) = k + 1
      BY <1>1, <1>7, <2>1
    <2>4. text[a + (i + 1)] = piece[i + 1]
      BY <1>1, <2>3
    <2>5. text[k + 1] = piece[i + 1]
      BY <2>3, <2>4
    <2>6. k < Len(text) <=> i < Len(piece)
      BY <1>7, <2>2
    <2>7. k < Len(text) => text[k + 1] = piece[i + 1]
      BY <2>5
    <2>8. Step(s, text, k) = Step(s, piece, i) /\ Visible(s, text, k) = Visible(s, piece, i)
      BY <2>2, <2>6, <2>7, StepElsewhere
    <2> QED BY <2>1, <2>8
  <1> HIDE DEF n
  <1>8. 0 \in S
    BY <1>1, <1>3
  <1>9. ASSUME NEW i \in Nat, i \in S PROVE i + 1 \in S
    <2>1. SUFFICES ASSUME i + 1 < n PROVE ModeAt(text, a + (i + 1)) = ModeAt(piece, i + 1)
      OBVIOUS
    <2>2. /\ ModeAt(text, a + i) = ModeAt(piece, i) /\ i + 1 \in 1 .. n /\ (i + 1) - 1 = i
          /\ a + (i + 1) \in 1 .. Len(text) /\ (a + (i + 1)) - 1 = a + i
      BY <1>1, <1>9, <2>1
    <2>3. ModeAt(text, a + (i + 1)) = Step(ModeAt(text, a + i), text, a + (i + 1))
      BY <1>2, <2>2
    <2>4. ModeAt(piece, i + 1) = Step(ModeAt(piece, i), piece, i + 1)
      BY <1>3, <2>2
    <2>5. Step(ModeAt(piece, i), text, a + (i + 1)) = Step(ModeAt(piece, i), piece, i + 1)
      BY <1>7, <2>1, <2>2
    <2> QED BY <2>2, <2>3, <2>4, <2>5
  <1>10. Nat \subseteq S
    BY <1>8, <1>9, BySet
  <1>11. ASSUME NEW i \in 1 .. n
         PROVE  /\ a + i \in 1 .. Len(text) /\ (a + i) - 1 = a + (i - 1) /\ i - 1 \in 0 .. n
                /\ ModeAt(text, a + (i - 1)) = ModeAt(piece, i - 1)
    <2>1. i \in Nat /\ 1 <= i /\ i <= n
      BY <1>1
    <2>2. PICK j \in Nat : j = i - 1 /\ j + 1 = i
      <3>1. i - 1 \in Nat /\ (i - 1) + 1 = i
        BY <2>1
      <3> QED BY <3>1
    <2>3. j \in 0 .. n /\ j < n
      BY <1>1, <2>1, <2>2
    <2>4. (a + i) - 1 = a + j
      BY <2>2
    <2>5. 1 <= a + i /\ a + i <= a + n /\ a + i \in Nat
      BY <1>1, <2>1
    <2>6. a + i \in 1 .. Len(text)
      BY <1>1, <2>5
    <2>7. ModeAt(text, a + j) = ModeAt(piece, j)
      BY <1>10, <2>3
    <2> QED BY <2>2, <2>3, <2>4, <2>6, <2>7
  <1> HIDE DEF S
  <1>12. ASSUME NEW i \in 1 .. n, i < n PROVE CodeOf(text)[a + i] \in Blanks
    <2>1. CodeOf(text)[a + i] = Visible(ModeAt(piece, i - 1), text, a + i)
      BY <1>6, <1>11
    <2>2. Visible(ModeAt(piece, i - 1), text, a + i) = Visible(ModeAt(piece, i - 1), piece, i)
      BY <1>7, <1>12
    <2>3. CodeOf(piece)[i] = Visible(ModeAt(piece, i - 1), piece, i) /\ CodeOf(piece)[i] \in Blanks
      BY <1>4, <1>5
    <2> QED BY <2>1, <2>2, <2>3
  <1>13. CASE n = 0
    BY <1>1, <1>13 DEF n
  <1>14. CASE n # 0
    <2>1. n \in 1 .. n /\ n - 1 \in 0 .. n
      BY <1>1, <1>14
    <2> DEFINE s == ModeAt(piece, n - 1)
    <2>2. s \in Modes
      BY <1>3, <2>1
    <2>3. Step(s, piece, n) = Fresh /\ Visible(s, piece, n) \in Blanks
      BY <1>3, <1>4, <1>5, <2>1
    <2>4. /\ ModeAt(text, a + n) = Step(s, text, a + n)
          /\ CodeOf(text)[a + n] = Visible(s, text, a + n)
      BY <1>2, <1>6, <1>11, <2>1
    <2>5. text[a + n] = piece[n]
      BY <1>1, <2>1
    <2> HIDE DEF s
    <2>6. Step(s, text, a + n) = Fresh /\ Visible(s, text, a + n) \in Blanks
      <3>1. n \in Nat
        BY <1>1
      <3> QED BY <2>2, <2>3, <2>5, <3>1, LastSilent DEF n
    <2>7. ASSUME NEW i \in 1 .. n PROVE CodeOf(text)[a + i] \in Blanks
      <3>1. i < n \/ i = n
        BY <1>1
      <3> QED BY <1>12, <2>4, <2>6, <3>1
    <2> QED BY <2>4, <2>6, <2>7 DEF n
  <1> QED BY <1>13, <1>14

\* A symbol that no mark begins with stays as it is.
LEMMA PlainPlaced ==
  ASSUME NEW text \in Seq(Symbols), NEW a \in Nat, a + 1 <= Len(text), ModeAt(text, a) = Fresh,
         text[a + 1] \notin {Slash, Dash, Quote}
  PROVE  ModeAt(text, a + 1) = Fresh /\ CodeOf(text)[a + 1] = text[a + 1]
  <1> DEFINE i == a + 1
  <1>1. i \in 1 .. Len(text) /\ i - 1 = a
    OBVIOUS
  <1>2. ModeAt(text, i) = Step(Fresh, text, i)
    BY <1>1, Lexing
  <1>3. CodeOf(text)[i] = Visible(Fresh, text, i)
    BY <1>1, CodeSymbols
  <1>4. ~Begins(text, i, Opening) /\ ~Begins(text, i, LineComment) /\ text[i] # Quote
    BY DEF Begins, Opening, LineComment
  <1>5. Fresh.depth = 0 /\ Fresh.quoted = FALSE /\ Fresh.line = FALSE /\ Fresh.second = FALSE
    BY DEF Fresh
  <1> HIDE DEF i
  <1>6. /\ (text[i] = Quote) = FALSE /\ Begins(text, i, Opening) = FALSE
        /\ Begins(text, i, LineComment) = FALSE
    BY <1>4 DEF Begins
  <1>7. InText(Fresh, text, i) = [depth |-> 0, quoted |-> FALSE, line |-> FALSE, second |-> FALSE]
    BY <1>4, <1>6, Zenon DEF InText
  <1>8. InText(Fresh, text, i) = Fresh
    BY <1>7 DEF Fresh
  <1>9. Step(Fresh, text, i) = InText(Fresh, text, i)
    BY <1>5 DEF Step
  <1>10. Visible(Fresh, text, i) = text[i]
    BY <1>4 DEF Visible, Shown
  <1> QED BY <1>2, <1>3, <1>8, <1>9, <1>10 DEF i

-----------------------------------------------------------------------------
\* Where the next token of a code is.
LEMMA TokenIs ==
  ASSUME NEW code \in Seq(Symbols), NEW k \in Nat, k <= Len(code)
  PROVE  /\ TokenAfter(code, k) \in (k + 1) .. (Len(code) + 1)
         /\ TokenAfter(code, k) <= Len(code) => code[TokenAfter(code, k)] \notin Blanks
         /\ \A i \in (k + 1) .. (TokenAfter(code, k) - 1) : code[i] \in Blanks
  <1> DEFINE N == Len(code)
             Places == {i \in DOMAIN code : i > k /\ code[i] \notin Blanks} \cup {N + 1}
             n == TokenAfter(code, k)
  <1>1. N \in Nat /\ DOMAIN code = 1 .. N
    OBVIOUS
  <1>2. Places \in SUBSET Nat /\ Places # {}
    BY <1>1
  <1>3. n = CHOOSE x \in Places : \A y \in Places : x <= y
    BY DEF TokenAfter, Min
  <1>4. \A i : i \in Places <=> i = N + 1 \/ (i \in 1 .. N /\ i > k /\ code[i] \notin Blanks)
    BY <1>1
  <1> HIDE DEF Places
  <1>5. \E x \in Places : \A y \in Places : x <= y
    BY <1>2, Least
  <1>6. n \in Places /\ \A y \in Places : n <= y
    BY <1>3, <1>5
  <1> HIDE DEF n
  <1>7. n \in (k + 1) .. (N + 1) /\ (n <= N => code[n] \notin Blanks)
    BY <1>1, <1>4, <1>6
  <1>8. ASSUME NEW i \in (k + 1) .. (n - 1) PROVE code[i] \in Blanks
    <2>1. i \in 1 .. N /\ i > k /\ ~(n <= i)
      BY <1>1, <1>7
    <2> QED BY <1>4, <1>6, <2>1
  <1> QED BY <1>7, <1>8 DEF n

\* A token with nothing but blanks before it is the next one.
LEMMA TokenFound ==
  ASSUME NEW code \in Seq(Symbols), NEW k \in Nat, k <= Len(code),
         NEW n \in (k + 1) .. (Len(code) + 1), n <= Len(code) => code[n] \notin Blanks,
         \A i \in (k + 1) .. (n - 1) : code[i] \in Blanks
  PROVE  TokenAfter(code, k) = n
  <1> DEFINE t == TokenAfter(code, k)
  <1>1. /\ t \in (k + 1) .. (Len(code) + 1) /\ (t <= Len(code) => code[t] \notin Blanks)
        /\ \A i \in (k + 1) .. (t - 1) : code[i] \in Blanks
    BY TokenIs
  <1> HIDE DEF t
  <1>2. Len(code) \in Nat
    OBVIOUS
  <1>3. ~(t < n)
    <2>1. SUFFICES ASSUME t < n PROVE FALSE
      OBVIOUS
    <2>2. t \in (k + 1) .. (n - 1) /\ t <= Len(code)
      BY <1>1, <1>2, <2>1
    <2> QED BY <1>1, <2>2
  <1>4. ~(n < t)
    <2>1. SUFFICES ASSUME n < t PROVE FALSE
      OBVIOUS
    <2>2. n \in (k + 1) .. (t - 1) /\ n <= Len(code)
      BY <1>1, <1>2, <2>1
    <2> QED BY <1>1, <2>2
  <1>5. t = n
    BY <1>1, <1>2, <1>3, <1>4
  <1> QED BY <1>5 DEF t

\* Blanks do not change what comes next.
LEMMA TokenSkips ==
  ASSUME NEW code \in Seq(Symbols), NEW k \in Nat, NEW l \in Nat, k <= l, l <= Len(code),
         \A i \in (k + 1) .. l : code[i] \in Blanks
  PROVE  TokenAfter(code, k) = TokenAfter(code, l)
  <1>1. PICK n : n = TokenAfter(code, l)
    OBVIOUS
  <1>2. /\ n \in (l + 1) .. (Len(code) + 1) /\ (n <= Len(code) => code[n] \notin Blanks)
        /\ \A i \in (l + 1) .. (n - 1) : code[i] \in Blanks
    BY <1>1, TokenIs
  <1>3. Len(code) \in Nat /\ n \in (k + 1) .. (Len(code) + 1) /\ k <= Len(code)
    BY <1>2
  <1>4. ASSUME NEW i \in (k + 1) .. (n - 1) PROVE code[i] \in Blanks
    <2>1. i \in (k + 1) .. l \/ i \in (l + 1) .. (n - 1)
      BY <1>2, <1>3
    <2> QED BY <1>2, <2>1
  <1> QED BY <1>1, <1>2, <1>3, <1>4, TokenFound

\* The end of a code, read by itself.
EndOf(code, a, rest) ==
  Len(code) = a + Len(rest) /\ \A i \in 1 .. Len(rest) : code[a + i] = rest[i]

\* The tokens of the end of a code are those of that end alone.
LEMMA TokenShifts ==
  ASSUME NEW code \in Seq(Symbols), NEW rest \in Seq(Symbols), NEW a \in Nat, EndOf(code, a, rest),
         NEW k \in Nat, k <= Len(rest)
  PROVE  TokenAfter(code, a + k) = a + TokenAfter(rest, k)
  <1>1. PICK n : n = TokenAfter(rest, k)
    OBVIOUS
  <1>2. /\ n \in (k + 1) .. (Len(rest) + 1) /\ (n <= Len(rest) => rest[n] \notin Blanks)
        /\ \A i \in (k + 1) .. (n - 1) : rest[i] \in Blanks
    BY <1>1, TokenIs
  <1>3. Len(code) \in Nat /\ Len(rest) \in Nat /\ Len(code) = a + Len(rest)
        /\ \A i \in 1 .. Len(rest) : code[a + i] = rest[i]
    BY DEF EndOf
  <1>4. PICK m \in Nat : m = a + n
    BY <1>2, <1>3
  <1>5. PICK l \in Nat : l = a + k
    BY <1>3
  <1>6. m \in (l + 1) .. (Len(code) + 1) /\ l <= Len(code)
    BY <1>2, <1>3, <1>4, <1>5
  <1>7. m <= Len(code) => code[m] \notin Blanks
    <2>1. m <= Len(code) => n \in 1 .. Len(rest) /\ n <= Len(rest)
      BY <1>2, <1>3, <1>4
    <2> QED BY <1>2, <1>3, <1>4, <2>1
  <1>8. ASSUME NEW i \in (l + 1) .. (m - 1) PROVE code[i] \in Blanks
    <2>1. i - a \in (k + 1) .. (n - 1) /\ i - a \in 1 .. Len(rest) /\ a + (i - a) = i
      BY <1>2, <1>3, <1>4, <1>5
    <2>2. code[a + (i - a)] = rest[i - a]
      BY <1>3, <2>1
    <2> QED BY <1>2, <2>1, <2>2
  <1>9. TokenAfter(code, l) = m
    BY <1>6, <1>7, <1>8, TokenFound
  <1> QED BY <1>1, <1>4, <1>5, <1>9

\* Places of tokens stay places.
LEMMA PastPlace ==
  ASSUME NEW code \in Seq(Symbols), NEW k \in 1 .. Len(code) + 1, NEW word
  PROVE  Past(code, k, word) \in 1 .. Len(code) + 1
  <1>1. Len(code) \in Nat
    OBVIOUS
  <1>2. CASE Is(code, k, word)
    <2>1. k \in Nat /\ k <= Len(code)
      BY <1>1, <1>2 DEF Is
    <2>2. TokenAfter(code, k) \in (k + 1) .. (Len(code) + 1)
      BY <2>1, TokenIs
    <2> QED BY <1>1, <1>2, <2>1, <2>2 DEF Past
  <1> QED BY <1>2 DEF Past

\* So is passing over a word.
LEMMA PastShifts ==
  ASSUME NEW code \in Seq(Symbols), NEW rest \in Seq(Symbols), NEW a \in Nat, EndOf(code, a, rest),
         NEW k \in 1 .. Len(rest) + 1, NEW word
  PROVE  /\ Is(code, a + k, word) <=> Is(rest, k, word)
         /\ Past(code, a + k, word) = a + Past(rest, k, word)
  <1>1. Len(code) \in Nat /\ Len(rest) \in Nat /\ Len(code) = a + Len(rest)
        /\ \A i \in 1 .. Len(rest) : code[a + i] = rest[i]
    BY DEF EndOf
  <1>2. a + k <= Len(code) <=> k <= Len(rest)
    BY <1>1
  <1>3. k <= Len(rest) => code[a + k] = rest[k]
    BY <1>1
  <1>4. Is(code, a + k, word) <=> Is(rest, k, word)
    BY <1>2, <1>3 DEF Is
  <1>5. Is(rest, k, word) => TokenAfter(code, a + k) = a + TokenAfter(rest, k)
    <2>1. SUFFICES ASSUME Is(rest, k, word) PROVE TokenAfter(code, a + k) = a + TokenAfter(rest, k)
      OBVIOUS
    <2>2. k \in Nat /\ k <= Len(rest)
      BY <1>1, <2>1 DEF Is
    <2> QED BY <2>2, TokenShifts
  <1> QED BY <1>4, <1>5 DEF Past

-----------------------------------------------------------------------------
\* How the loop over the imports stands.
Turns(n) == [at : 1 .. n + 1, names : Seq(Symbols), stage : {"reading", "read", "refused"}]
Opened(k) == [at |-> k, names |-> << >>, stage |-> "reading"]

\* A command has a place in the code, or just past it.
LEMMA CommandPlace ==
  ASSUME NEW code \in Seq(Symbols), NEW k \in 1 .. Len(code) + 1
  PROVE  CommandAt(code, k) \in 1 .. Len(code) + 1
  <1>1. Past(code, k, "public") \in 1 .. Len(code) + 1
    BY PastPlace
  <1> QED BY <1>1, PastPlace DEF CommandAt

\* After an import comes a place for its name.
LEMMA NamePlace ==
  ASSUME NEW code \in Seq(Symbols), NEW k \in 1 .. Len(code) + 1,
         Is(code, CommandAt(code, k), "import")
  PROVE  /\ CommandAt(code, k) \in 1 .. Len(code)
         /\ TokenAfter(code, CommandAt(code, k)) \in 1 .. Len(code) + 1
         /\ Past(code, TokenAfter(code, CommandAt(code, k)), "all") \in 1 .. Len(code) + 1
  <1>1. PICK c \in 1 .. Len(code) + 1 : c = CommandAt(code, k)
    BY CommandPlace
  <1>2. c <= Len(code) /\ c \in Nat /\ Len(code) \in Nat
    BY <1>1 DEF Is
  <1>3. TokenAfter(code, c) \in (c + 1) .. (Len(code) + 1)
    BY <1>2, TokenIs
  <1>4. TokenAfter(code, c) \in 1 .. Len(code) + 1
    BY <1>2, <1>3
  <1>5. Past(code, TokenAfter(code, c), "all") \in 1 .. Len(code) + 1
    BY <1>4, PastPlace
  <1> QED BY <1>1, <1>2, <1>4, <1>5

\* A turn of the loop leaves it in a place of the code.
LEMMA TurnPlaces ==
  ASSUME NEW code \in Seq(Symbols), NEW s \in Turns(Len(code))
  PROVE  Turn(code, s) \in Turns(Len(code))
  <1> DEFINE command == CommandAt(code, s.at)
             name == Past(code, TokenAfter(code, command), "all")
  <1>1. /\ s.at \in 1 .. Len(code) + 1 /\ s.names \in Seq(Symbols)
        /\ s.stage \in {"reading", "read", "refused"}
        /\ s = [at |-> s.at, names |-> s.names, stage |-> s.stage]
    BY DEF Turns
  <1>2. [s EXCEPT !.stage = "read"] \in Turns(Len(code)) /\ [s EXCEPT !.stage = "refused"] \in Turns(Len(code))
    BY DEF Turns
  <1>3. CASE Is(code, command, "import") /\ ~Unsupported(code, name)
    <2>1. name \in 1 .. Len(code) + 1
      BY <1>1, <1>3, NamePlace
    <2> HIDE DEF name
    <2>2. name \in 1 .. Len(code) /\ name \in Nat /\ name <= Len(code) /\ Len(code) \in Nat
      BY <1>3, <2>1 DEF Unsupported
    <2>3. TokenAfter(code, name) \in (name + 1) .. (Len(code) + 1)
      BY <2>2, TokenIs
    <2>4. TokenAfter(code, name) \in 1 .. Len(code) + 1
      BY <2>2, <2>3
    <2>5. code[name] \in Symbols
      BY <2>2
    <2>6. Append(s.names, code[name]) \in Seq(Symbols)
      BY <1>1, <2>5
    <2>7. [at |-> TokenAfter(code, name), names |-> Append(s.names, code[name]), stage |-> "reading"]
            \in Turns(Len(code))
      BY <2>4, <2>6 DEF Turns
    <2> QED BY <1>3, <2>7 DEF Turn, name
  <1>4. CASE ~(Is(code, command, "import") /\ ~Unsupported(code, name))
    BY <1>2, <1>4 DEF Turn
  <1> QED BY <1>3, <1>4

\* imports: the loop goes turn by turn.
LEMMA HeaderRuns ==
  ASSUME NEW code \in Seq(Symbols), NEW k \in 1 .. Len(code) + 1
  PROVE  /\ HeaderFrom(code, k)[0] = Opened(k)
         /\ \A n \in 1 .. Len(code) + 1 :
              HeaderFrom(code, k)[n] = Turn(code, HeaderFrom(code, k)[n - 1])
         /\ \A n \in 0 .. Len(code) + 1 : HeaderFrom(code, k)[n] \in Turns(Len(code))
  <1> DEFINE N == Len(code) + 1
             B == Turns(Len(code))
             base == Opened(k)
             Body(f) == [n \in 0 .. N |-> IF n = 0 THEN base ELSE Turn(code, f[n - 1])]
             step == [n \in Nat |-> [s \in B |-> Turn(code, s)]]
  <1>1. N \in Nat
    OBVIOUS
  <1>2. base \in B
    BY DEF Opened, Turns
  <1>3. \A s \in B : Turn(code, s) \in B
    BY TurnPlaces
  <1>4. HeaderFrom(code, k) = CHOOSE f : f = Body(f)
    BY DEF HeaderFrom, Opened
  <1> HIDE DEF base, N, B
  <1>5. step \in [Nat -> [B -> B]]
    BY <1>3
  <1>6. \A n \in 1 .. N : n \in Nat /\ n - 1 \in 0 .. N /\ \A s \in B : step[n][s] = Turn(code, s)
    BY <1>1
  <1>7. \A f : /\ Body(f) = [n \in 0 .. N |-> Body(f)[n]] /\ Body(f)[0] = base
               /\ \A n \in 1 .. N : Body(f)[n] = Turn(code, f[n - 1])
    BY <1>1
  <1> HIDE DEF step, Body
  <1>8. PICK f \in [0 .. N -> B] : Builds(f, N, base, step)
    BY <1>1, <1>2, <1>5, RecursionUpTo
  <1>9. f = Body(f)
    <2>1. \A n \in 1 .. N : f[n] = Turn(code, f[n - 1])
      BY <1>6, <1>8 DEF Builds
    <2>2. \A n \in 0 .. N : n = 0 \/ n \in 1 .. N
      BY <1>1
    <2>3. \A n \in 0 .. N : f[n] = Body(f)[n]
      BY <1>7, <1>8, <2>1, <2>2 DEF Builds
    <2> QED BY <1>7, <2>3
  <1>10. PICK g : g = Body(g) /\ HeaderFrom(code, k) = g
    BY <1>4, <1>9
  <1>11. g[0] = base /\ \A n \in 1 .. N : g[n] = Turn(code, g[n - 1])
    BY <1>7, <1>10
  <1> DEFINE S == {n \in Nat : n <= N => g[n] \in B}
  <1>12. 0 \in S
    BY <1>2, <1>11
  <1>13. ASSUME NEW n \in Nat, n \in S PROVE n + 1 \in S
    <2>1. SUFFICES ASSUME n + 1 <= N PROVE g[n + 1] \in B
      OBVIOUS
    <2>2. g[n] \in B /\ n + 1 \in 1 .. N /\ (n + 1) - 1 = n
      BY <1>1, <1>13, <2>1
    <2>3. g[n + 1] = Turn(code, g[n])
      BY <1>11, <2>2
    <2> QED BY <1>3, <2>2, <2>3
  <1>14. Nat \subseteq S
    BY <1>12, <1>13, BySet
  <1>15. \A n \in 0 .. N : g[n] \in B
    BY <1>1, <1>14
  <1> QED BY <1>10, <1>11, <1>15 DEF N, B, base

\* A loop that has ended stays as it is.
LEMMA EndedStays ==
  ASSUME NEW code \in Seq(Symbols), NEW k \in 1 .. Len(code) + 1,
         NEW n \in 0 .. Len(code) + 1, HeaderFrom(code, k)[n].stage # "reading"
  PROVE  HeaderFrom(code, k)[Len(code) + 1] = HeaderFrom(code, k)[n]
  <1> DEFINE N == Len(code) + 1
             h == HeaderFrom(code, k)
             S == {d \in Nat : n + d <= N => h[n + d] = h[n]}
  <1>1. N \in Nat /\ n + 0 = n
    OBVIOUS
  <1>2. \A i \in 1 .. N : h[i] = Turn(code, h[i - 1])
    BY HeaderRuns
  <1> HIDE DEF h, N
  <1>3. h[n].stage # "reading"
    BY DEF h
  <1>4. 0 \in S
    BY <1>1
  <1>5. ASSUME NEW d \in Nat, d \in S PROVE d + 1 \in S
    <2>1. SUFFICES ASSUME n + (d + 1) <= N PROVE h[n + (d + 1)] = h[n]
      OBVIOUS
    <2>2. /\ h[n + d] = h[n] /\ n + (d + 1) \in 1 .. N /\ (n + (d + 1)) - 1 = n + d
      BY <1>1, <1>5, <2>1 DEF N
    <2>3. h[n + (d + 1)] = Turn(code, h[n])
      BY <1>2, <2>2
    <2> QED BY <1>3, <2>3 DEF Turn
  <1>6. Nat \subseteq S
    BY <1>4, <1>5, BySet
  <1>7. PICK d \in Nat : n + d = N /\ n + d <= N
    <2>1. N - n \in Nat /\ n + (N - n) = N /\ n + (N - n) <= N
      BY <1>1 DEF N
    <2> QED BY <2>1
  <1>8. h[N] = h[n]
    BY <1>6, <1>7
  <1> QED BY <1>8 DEF h, N

\* The loop over the end of a code goes as over that end alone.
LEMMA TurnShifts ==
  ASSUME NEW code \in Seq(Symbols), NEW rest \in Seq(Symbols), NEW a \in Nat, EndOf(code, a, rest),
         NEW s \in Turns(Len(code)), NEW t \in Turns(Len(rest)),
         s.at = a + t.at, s.stage = t.stage
  PROVE  /\ Turn(code, s).at = a + Turn(rest, t).at
         /\ Turn(code, s).stage = Turn(rest, t).stage
  <1> DEFINE cs == CommandAt(code, s.at)
             ct == CommandAt(rest, t.at)
             ns == Past(code, TokenAfter(code, cs), "all")
             nt == Past(rest, TokenAfter(rest, ct), "all")
  <1>1. /\ t.at \in 1 .. Len(rest) + 1 /\ s.at \in 1 .. Len(code) + 1 /\ Len(rest) \in Nat /\ Len(code) \in Nat
        /\ Len(code) = a + Len(rest) /\ \A i \in 1 .. Len(rest) : code[a + i] = rest[i]
    BY DEF Turns, EndOf
  <1>2. cs = a + ct /\ ct \in 1 .. Len(rest) + 1
    <2>1. PICK p \in 1 .. Len(rest) + 1 : p = Past(rest, t.at, "public")
      BY <1>1, PastPlace
    <2>2. Past(code, s.at, "public") = a + p
      BY <1>1, <2>1, PastShifts
    <2>3. Past(code, a + p, "meta") = a + Past(rest, p, "meta")
      BY PastShifts
    <2>4. Past(rest, p, "meta") \in 1 .. Len(rest) + 1
      BY PastPlace
    <2> QED BY <2>1, <2>2, <2>3, <2>4 DEF CommandAt
  <1> HIDE DEF cs, ct
  <1>3. Is(code, cs, "import") <=> Is(rest, ct, "import")
    BY <1>2, PastShifts
  <1>4. CASE t.stage # "reading"
    BY <1>4 DEF Turn
  <1>5. CASE t.stage = "reading" /\ ~Is(rest, ct, "import")
    <2>1. Turn(code, s) = [s EXCEPT !.stage = "read"] /\ Turn(rest, t) = [t EXCEPT !.stage = "read"]
      BY <1>3, <1>5 DEF Turn, cs, ct
    <2>2. /\ [s EXCEPT !.stage = "read"].at = s.at /\ [s EXCEPT !.stage = "read"].stage = "read"
          /\ [t EXCEPT !.stage = "read"].at = t.at /\ [t EXCEPT !.stage = "read"].stage = "read"
      BY DEF Turns
    <2> QED BY <2>1, <2>2
  <1>6. CASE t.stage = "reading" /\ Is(rest, ct, "import")
    <2>1. PICK m \in 1 .. Len(rest) + 1 : m = TokenAfter(rest, ct)
      <3>1. ct \in 1 .. Len(rest) /\ TokenAfter(rest, ct) \in 1 .. Len(rest) + 1
        BY <1>1, <1>6, NamePlace DEF ct
      <3> QED BY <3>1
    <2>2. TokenAfter(code, cs) = a + m
      <3>1. ct \in Nat /\ ct <= Len(rest)
        BY <1>1, <1>2, <1>6 DEF Is
      <3> QED BY <1>2, <2>1, <3>1, TokenShifts
    <2>3. ns = a + nt /\ nt \in 1 .. Len(rest) + 1
      <3>1. Past(code, a + m, "all") = a + Past(rest, m, "all")
        BY PastShifts
      <3>2. Past(rest, m, "all") \in 1 .. Len(rest) + 1
        BY PastPlace
      <3> QED BY <2>1, <2>2, <3>1, <3>2
    <2> HIDE DEF ns, nt
    <2>4. ns > Len(code) <=> nt > Len(rest)
      BY <1>1, <2>3
    <2>5. nt <= Len(rest) =>
            /\ code[ns] = rest[nt] /\ TokenAfter(code, ns) = a + TokenAfter(rest, nt)
            /\ GoesOn(code, ns) <=> GoesOn(rest, nt)
      <3>1. SUFFICES ASSUME nt <= Len(rest)
                     PROVE  /\ code[ns] = rest[nt] /\ TokenAfter(code, ns) = a + TokenAfter(rest, nt)
                            /\ GoesOn(code, ns) <=> GoesOn(rest, nt)
        OBVIOUS
      <3>2. nt \in Nat /\ code[ns] = rest[nt]
        BY <1>1, <2>3, <3>1
      <3>3. TokenAfter(code, ns) = a + TokenAfter(rest, nt)
        BY <2>3, <3>1, <3>2, TokenShifts
      <3>4. PICK f \in (nt + 1) .. (Len(rest) + 1) : f = TokenAfter(rest, nt)
        BY <3>1, <3>2, TokenIs
      <3>5. a + f <= Len(code) <=> f <= Len(rest)
        BY <1>1, <3>2, <3>4
      <3>6. f <= Len(rest) => code[a + f] = rest[f]
        BY <1>1, <3>2, <3>4
      <3>7. a + f = ns + 1 <=> f = nt + 1
        <4>1. f \in Nat
          BY <1>1, <3>2, <3>4
        <4>2. ns = a + nt /\ nt \in Nat
          BY <2>3, <3>2
        <4>3. ns + 1 = a + (nt + 1)
          BY <4>2
        <4>4. a + f = a + (nt + 1) <=> f = nt + 1
          BY <4>1, <4>2
        <4> QED BY <4>3, <4>4
      <3>8. GoesOn(code, ns) <=> a + f <= Len(code) /\ (code[a + f] \in {Dot, Angle} \/ a + f = ns + 1)
        BY <3>3, <3>4 DEF GoesOn
      <3>9. GoesOn(rest, nt) <=> f <= Len(rest) /\ (rest[f] \in {Dot, Angle} \/ f = nt + 1)
        BY <3>4 DEF GoesOn
      <3>10. GoesOn(code, ns) <=> GoesOn(rest, nt)
        BY <3>5, <3>6, <3>7, <3>8, <3>9
      <3> QED BY <3>2, <3>3, <3>10
    <2>6. Unsupported(code, ns) <=> Unsupported(rest, nt)
      <3>1. nt > Len(rest) \/ nt <= Len(rest)
        BY <1>1, <2>3
      <3> QED BY <2>4, <2>5, <3>1 DEF Unsupported
    <2>7. CASE Unsupported(rest, nt)
      <3>1. Turn(code, s) = [s EXCEPT !.stage = "refused"] /\ Turn(rest, t) = [t EXCEPT !.stage = "refused"]
        BY <1>3, <1>6, <2>6, <2>7 DEF Turn, cs, ct, ns, nt
      <3>2. /\ [s EXCEPT !.stage = "refused"].at = s.at /\ [s EXCEPT !.stage = "refused"].stage = "refused"
            /\ [t EXCEPT !.stage = "refused"].at = t.at /\ [t EXCEPT !.stage = "refused"].stage = "refused"
        BY DEF Turns
      <3> QED BY <3>1, <3>2
    <2>8. CASE ~Unsupported(rest, nt)
      <3>1. nt <= Len(rest)
        BY <1>1, <2>3, <2>8 DEF Unsupported
      <3>2. /\ Turn(code, s) = [at |-> TokenAfter(code, ns), names |-> Append(s.names, code[ns]), stage |-> "reading"]
            /\ Turn(rest, t) = [at |-> TokenAfter(rest, nt), names |-> Append(t.names, rest[nt]), stage |-> "reading"]
        BY <1>3, <1>6, <2>6, <2>8 DEF Turn, cs, ct, ns, nt
      <3> QED BY <2>5, <3>1, <3>2
    <2> QED BY <2>7, <2>8
  <1> QED BY <1>4, <1>5, <1>6

\* What is refused alone is refused at the end of a code, when the loop gets there.
LEMMA RefusedShifts ==
  ASSUME NEW code \in Seq(Symbols), NEW rest \in Seq(Symbols), NEW a \in Nat, EndOf(code, a, rest),
         NEW k \in 1 .. Len(code) + 1, NEW l \in 1 .. Len(rest) + 1, NEW n \in Nat, n <= a,
         HeaderFrom(code, k)[n].stage = "reading", HeaderFrom(code, k)[n].at = a + l,
         HeaderFrom(rest, l)[Len(rest) + 1].stage = "refused"
  PROVE  HeaderFrom(code, k)[Len(code) + 1].stage = "refused"
  <1> DEFINE h == HeaderFrom(code, k)
             g == HeaderFrom(rest, l)
             M == Len(rest) + 1
             N == Len(code) + 1
             S == {d \in Nat : d <= M => h[n + d].at = a + g[d].at /\ h[n + d].stage = g[d].stage}
  <1>1. M \in Nat /\ N \in Nat /\ N = a + M /\ n + M \in 0 .. N /\ n + 0 = n /\ M \in 0 .. M
    BY DEF EndOf
  <1>2. /\ h[0] = Opened(k) /\ \A i \in 1 .. N : h[i] = Turn(code, h[i - 1])
        /\ \A i \in 0 .. N : h[i] \in Turns(Len(code))
    BY HeaderRuns
  <1>3. /\ g[0] = Opened(l) /\ \A i \in 1 .. M : g[i] = Turn(rest, g[i - 1])
        /\ \A i \in 0 .. M : g[i] \in Turns(Len(rest))
    BY HeaderRuns
  <1>4. h[n].stage = "reading" /\ h[n].at = a + l /\ g[M].stage = "refused"
    OBVIOUS
  <1> HIDE DEF h, g, M, N
  <1>5. 0 \in S
    BY <1>1, <1>3, <1>4 DEF Opened
  <1>6. ASSUME NEW d \in Nat, d \in S PROVE d + 1 \in S
    <2>1. SUFFICES ASSUME d + 1 <= M
                   PROVE  /\ h[n + (d + 1)].at = a + g[d + 1].at
                          /\ h[n + (d + 1)].stage = g[d + 1].stage
      OBVIOUS
    <2>2. /\ d + 1 \in 1 .. M /\ (d + 1) - 1 = d /\ d \in 0 .. M /\ d <= M
          /\ n + (d + 1) \in 1 .. N /\ (n + (d + 1)) - 1 = n + d /\ n + d \in 0 .. N
      <3>1. d + 1 \in 1 .. M /\ (d + 1) - 1 = d /\ d \in 0 .. M /\ d <= M
        BY <1>1, <2>1
      <3>2. n + d + 1 <= n + M /\ n + M <= N
        BY <1>1, <2>1
      <3> QED BY <1>1, <3>1, <3>2
    <2>3. h[n + (d + 1)] = Turn(code, h[n + d]) /\ g[d + 1] = Turn(rest, g[d])
      BY <1>2, <1>3, <2>2
    <2>4. h[n + d] \in Turns(Len(code)) /\ g[d] \in Turns(Len(rest))
      BY <1>2, <1>3, <2>2
    <2>5. h[n + d].at = a + g[d].at /\ h[n + d].stage = g[d].stage
      BY <1>6, <2>2
    <2>6. PICK u \in Turns(Len(code)) : u = h[n + d]
      BY <2>4
    <2>7. PICK v \in Turns(Len(rest)) : v = g[d]
      BY <2>4
    <2>8. /\ Turn(code, u).at = a + Turn(rest, v).at
          /\ Turn(code, u).stage = Turn(rest, v).stage
      BY <2>5, <2>6, <2>7, TurnShifts
    <2> QED BY <2>3, <2>6, <2>7, <2>8
  <1>7. Nat \subseteq S
    BY <1>5, <1>6, BySet
  <1>8. h[n + M].stage = "refused"
    BY <1>1, <1>4, <1>7
  <1>9. h[N] = h[n + M]
    BY <1>1, <1>8, EndedStays DEF h, N
  <1> QED BY <1>8, <1>9 DEF h, N

-----------------------------------------------------------------------------
\* How a text is put together.
LEMMA Joins ==
  ASSUME NEW V, NEW s \in Seq(V), NEW t \in Seq(V)
  PROVE  /\ s \o t \in Seq(V) /\ Len(s \o t) = Len(s) + Len(t)
         /\ Len(s) \in Nat /\ Len(t) \in Nat
         /\ \A i \in 1 .. Len(s) : (s \o t)[i] = s[i]
         /\ \A i \in 1 .. Len(t) : (s \o t)[Len(s) + i] = t[i]
  OBVIOUS

\* The two parts of a piece stand one after the other.
LEMMA PlacedParts ==
  ASSUME NEW text \in Seq(Symbols), NEW a \in Nat, NEW s \in Seq(Symbols), NEW t \in Seq(Symbols),
         Placed(text, a, s \o t)
  PROVE  /\ Placed(text, a, s) /\ Placed(text, a + Len(s), t)
         /\ a + Len(s) \in Nat /\ a + Len(s) <= Len(text)
         /\ Len(s \o t) = Len(s) + Len(t)
  <1> DEFINE u == s \o t
  <1>1. /\ u \in Seq(Symbols) /\ Len(u) = Len(s) + Len(t) /\ Len(s) \in Nat /\ Len(t) \in Nat
        /\ \A i \in 1 .. Len(s) : u[i] = s[i]
        /\ \A i \in 1 .. Len(t) : u[Len(s) + i] = t[i]
    BY Joins
  <1>2. Placed(text, a, u) /\ Len(text) \in Nat
    OBVIOUS
  <1> HIDE DEF u
  <1>3. a + Len(u) <= Len(text) /\ \A i \in 1 .. Len(u) : text[a + i] = u[i]
    BY <1>2 DEF Placed
  <1>4. Placed(text, a, s)
    <2>1. \A i \in 1 .. Len(s) : i \in 1 .. Len(u)
      BY <1>1
    <2>2. a + Len(s) <= Len(text)
      BY <1>1, <1>2, <1>3
    <2> QED BY <1>1, <1>3, <2>1, <2>2 DEF Placed
  <1>5. Placed(text, a + Len(s), t)
    <2>1. PICK b \in Nat : b = a + Len(s)
      BY <1>1
    <2>2. ASSUME NEW i \in 1 .. Len(t) PROVE text[b + i] = t[i]
      <3>1. Len(s) + i \in 1 .. Len(u) /\ a + (Len(s) + i) = b + i
        BY <1>1, <2>1
      <3>2. text[a + (Len(s) + i)] = u[Len(s) + i]
        BY <1>3, <3>1
      <3> QED BY <1>1, <3>1, <3>2
    <2>3. b + Len(t) <= Len(text)
      BY <1>1, <1>2, <1>3, <2>1
    <2> QED BY <2>1, <2>2, <2>3 DEF Placed
  <1>6. a + Len(s) \in Nat /\ a + Len(s) <= Len(text)
    BY <1>1, <1>2, <1>3
  <1> QED BY <1>1, <1>4, <1>5, <1>6 DEF u

\* A text that grows part by part.
Grows(g, parts, n) == \A i \in 1 .. n : g[i] = g[i - 1] \o parts[i]

GrownAt(text, a, g, parts, n) ==
  /\ \A i \in 0 .. n : Placed(text, a, g[i]) /\ a + Len(g[i]) \in Nat /\ a + Len(g[i]) <= Len(text)
  /\ \A i \in 1 .. n : /\ Placed(text, a + Len(g[i - 1]), parts[i])
                       /\ Len(g[i]) = Len(g[i - 1]) + Len(parts[i])

\* Every part of a text that grew stands where it was put.
LEMMA GrownPlaces ==
  ASSUME NEW text \in Seq(Symbols), NEW a \in Nat, NEW n \in Nat,
         NEW g \in [0 .. n -> Seq(Symbols)], NEW parts \in [1 .. n -> Seq(Symbols)],
         Grows(g, parts, n), Placed(text, a, g[n])
  PROVE  GrownAt(text, a, g, parts, n)
  <1> DEFINE S == {d \in Nat : d <= n => Placed(text, a, g[n - d])}
  <1>1. 0 \in S
    OBVIOUS
  <1>2. ASSUME NEW i \in 1 .. n, Placed(text, a, g[i])
        PROVE  /\ Placed(text, a, g[i - 1]) /\ Placed(text, a + Len(g[i - 1]), parts[i])
               /\ Len(g[i]) = Len(g[i - 1]) + Len(parts[i])
    <2>1. PICK s \in Seq(Symbols) : s = g[i - 1]
      OBVIOUS
    <2>2. PICK t \in Seq(Symbols) : t = parts[i]
      OBVIOUS
    <2>3. g[i] = s \o t
      BY <2>1, <2>2 DEF Grows
    <2>4. Placed(text, a, s \o t)
      BY <1>2, <2>3
    <2>5. Placed(text, a, s) /\ Placed(text, a + Len(s), t) /\ Len(s \o t) = Len(s) + Len(t)
      BY <2>4, PlacedParts
    <2> QED BY <2>1, <2>2, <2>3, <2>5
  <1>3. ASSUME NEW d \in Nat, d \in S PROVE d + 1 \in S
    <2>1. SUFFICES ASSUME d + 1 <= n PROVE Placed(text, a, g[n - (d + 1)])
      OBVIOUS
    <2>2. PICK i \in 1 .. n : i = n - d /\ i - 1 = n - (d + 1)
      <3>1. n - d \in 1 .. n /\ (n - d) - 1 = n - (d + 1)
        BY <2>1
      <3> QED BY <3>1
    <2>3. Placed(text, a, g[i])
      BY <1>3, <2>1, <2>2
    <2> QED BY <1>2, <2>2, <2>3
  <1> HIDE DEF S
  <1>4. Nat \subseteq S
    BY <1>1, <1>3, BySet
  <1>5. ASSUME NEW i \in 0 .. n PROVE Placed(text, a, g[i])
    <2>1. n - i \in Nat /\ n - i <= n /\ n - (n - i) = i
      OBVIOUS
    <2>2. PICK d \in Nat : d <= n /\ n - d = i
      BY <2>1
    <2>3. Placed(text, a, g[n - d])
      BY <1>4, <2>2 DEF S
    <2> QED BY <2>2, <2>3
  <1>6. ASSUME NEW i \in 0 .. n PROVE a + Len(g[i]) \in Nat /\ a + Len(g[i]) <= Len(text)
    <2>1. Len(g[i]) \in Nat
      OBVIOUS
    <2>2. a + Len(g[i]) <= Len(text)
      BY <1>5 DEF Placed
    <2> QED BY <2>1, <2>2
  <1>7. ASSUME NEW i \in 1 .. n
        PROVE  Placed(text, a + Len(g[i - 1]), parts[i]) /\ Len(g[i]) = Len(g[i - 1]) + Len(parts[i])
    <2>1. i \in 0 .. n
      OBVIOUS
    <2>2. Placed(text, a, g[i])
      BY <1>5, <2>1
    <2> QED BY <1>2, <2>2
  <1> QED BY <1>5, <1>6, <1>7 DEF GrownAt

\* Words, each followed by the gap.
LEMMA SpacedRuns ==
  ASSUME NEW words \in Seq(Symbols), NEW gap \in Seq(Symbols)
  PROVE  /\ Spaced(words, gap)[0] = << >>
         /\ Spaced(words, gap) \in [0 .. Len(words) -> Seq(Symbols)]
         /\ \A i \in 1 .. Len(words) :
              Spaced(words, gap)[i] = Spaced(words, gap)[i - 1] \o (<<words[i]>> \o gap)
  <1> DEFINE N == Len(words)
             B == Seq(Symbols)
             base == << >>
             Add(s, i) == s \o (<<words[i]>> \o gap)
             Body(f) == [i \in 0 .. N |-> IF i = 0 THEN base ELSE Add(f[i - 1], i)]
             step == [i \in Nat |-> [s \in B |-> IF i \in 1 .. N THEN Add(s, i) ELSE s]]
  <1>1. N \in Nat /\ base \in B
    OBVIOUS
  <1>2. ASSUME NEW i \in 1 .. N, NEW s \in B PROVE Add(s, i) \in B
    <2>1. <<words[i]>> \in Seq(Symbols)
      OBVIOUS
    <2>2. <<words[i]>> \o gap \in Seq(Symbols)
      BY <2>1, Joins
    <2> QED BY <2>2, Joins
  <1>3. Spaced(words, gap) = CHOOSE f : f = Body(f)
    BY DEF Spaced
  <1> HIDE DEF base, N, B, Add
  <1>4. step \in [Nat -> [B -> B]]
    BY <1>2
  <1>5. \A i \in 1 .. N : i \in Nat /\ i - 1 \in 0 .. N /\ \A s \in B : step[i][s] = Add(s, i)
    BY <1>1
  <1>6. \A f : /\ Body(f) = [i \in 0 .. N |-> Body(f)[i]] /\ Body(f)[0] = base
               /\ \A i \in 1 .. N : Body(f)[i] = Add(f[i - 1], i)
    BY <1>1
  <1> HIDE DEF step, Body
  <1>7. PICK f \in [0 .. N -> B] : Builds(f, N, base, step)
    BY <1>1, <1>4, RecursionUpTo
  <1>8. f = Body(f)
    <2>1. \A i \in 1 .. N : f[i] = Add(f[i - 1], i)
      BY <1>5, <1>7 DEF Builds
    <2>2. \A i \in 0 .. N : i = 0 \/ i \in 1 .. N
      BY <1>1
    <2>3. \A i \in 0 .. N : f[i] = Body(f)[i]
      BY <1>6, <1>7, <2>1, <2>2 DEF Builds
    <2> QED BY <1>6, <2>3
  <1>9. PICK g : g = Body(g) /\ Spaced(words, gap) = g
    BY <1>3, <1>8
  <1>10. g[0] = base /\ g = [i \in 0 .. N |-> g[i]] /\ \A i \in 1 .. N : g[i] = Add(g[i - 1], i)
    BY <1>6, <1>9
  <1> DEFINE S == {i \in Nat : i <= N => g[i] \in B}
  <1>11. 0 \in S
    BY <1>1, <1>10
  <1>12. ASSUME NEW i \in Nat, i \in S PROVE i + 1 \in S
    <2>1. SUFFICES ASSUME i + 1 <= N PROVE g[i + 1] \in B
      OBVIOUS
    <2>2. g[i] \in B /\ i + 1 \in 1 .. N /\ (i + 1) - 1 = i
      BY <1>1, <1>12, <2>1
    <2>3. g[i + 1] = Add(g[i], i + 1)
      BY <1>10, <2>2
    <2> QED BY <1>2, <2>2, <2>3
  <1>13. Nat \subseteq S
    BY <1>11, <1>12, BySet
  <1>14. \A i \in 0 .. N : g[i] \in B
    BY <1>1, <1>13
  <1>15. g \in [0 .. N -> B]
    BY <1>10, <1>14
  <1> QED BY <1>9, <1>10, <1>15 DEF Add, base, N, B

\* What one import adds to a text.
ItemText(item, gap) ==
  Spaced(item.before, gap)[Len(item.before)] \o (<<item.name>> \o (item.after.text \o gap))

ItemType == [before : Qualified, name : Words, after : Pieces]

\* What stands before a name are words, and the first is no mark of files.
LEMMA BeforeWords ==
  ASSUME NEW before \in Qualified
  PROVE  /\ before \in Seq(Symbols) /\ Len(before) >= 1
         /\ \A i \in 1 .. Len(before) : before[i] \in {"public", "meta", "import", "all"}
         /\ before[1] \in {"public", "meta", "import"}
  <1> DEFINE W == {"public", "meta", "import", "all"}
  <1>1. W \subseteq Symbols
    BY DEF Symbols, Reserved
  <1>2. before \in Seq(W) /\ Len(before) >= 1 /\ before[1] \in {"public", "meta", "import"}
    <2> DEFINE Fits(b) == b \in Seq(W) /\ Len(b) >= 1 /\ b[1] \in {"public", "meta", "import"}
    <2>1. Fits(<<"import">>)
      OBVIOUS
    <2>2. Fits(<<"public", "import">>)
      OBVIOUS
    <2>3. Fits(<<"meta", "import">>)
      OBVIOUS
    <2>4. Fits(<<"public", "meta", "import">>)
      OBVIOUS
    <2>5. Fits(<<"import", "all">>)
      OBVIOUS
    <2>6. Fits(<<"public", "import", "all">>)
      OBVIOUS
    <2>7. Fits(<<"meta", "import", "all">>)
      OBVIOUS
    <2>8. Fits(<<"public", "meta", "import", "all">>)
      OBVIOUS
    <2> HIDE DEF Fits, W
    <2>9. Fits(before)
      BY <2>1, <2>2, <2>3, <2>4, <2>5, <2>6, <2>7, <2>8 DEF Qualified
    <2> QED BY <2>9 DEF Fits
  <1> HIDE DEF W
  <1>3. \A i \in 1 .. Len(before) : before[i] \in W
    BY <1>2
  <1>4. before \in Seq(Symbols)
    BY <1>1, <1>2
  <1> QED BY <1>2, <1>3, <1>4 DEF W

\* What an import adds is a text.
LEMMA ItemSymbols ==
  ASSUME NEW item \in ItemType, NEW gap \in Seq(Symbols)
  PROVE  /\ item.before \in Qualified /\ item.name \in Symbols /\ item.after.text \in Seq(Symbols)
         /\ Spaced(item.before, gap)[Len(item.before)] \in Seq(Symbols)
         /\ <<item.name>> \in Seq(Symbols) /\ item.after.text \o gap \in Seq(Symbols)
         /\ <<item.name>> \o (item.after.text \o gap) \in Seq(Symbols)
         /\ ItemText(item, gap) \in Seq(Symbols)
  <1>1. item.before \in Qualified /\ item.name \in Symbols /\ item.after.text \in Seq(Symbols)
    BY DEF ItemType, Pieces, Symbols
  <1>2. PICK b \in Seq(Symbols) : b = Spaced(item.before, gap)[Len(item.before)]
    <2>1. item.before \in Seq(Symbols)
      BY <1>1, BeforeWords
    <2>2. Len(item.before) \in 0 .. Len(item.before)
      BY <2>1
    <2>3. Spaced(item.before, gap) \in [0 .. Len(item.before) -> Seq(Symbols)]
      BY <2>1, SpacedRuns
    <2>4. Spaced(item.before, gap)[Len(item.before)] \in Seq(Symbols)
      BY <2>2, <2>3
    <2> QED BY <2>4
  <1>3. <<item.name>> \in Seq(Symbols)
    BY <1>1
  <1>4. item.after.text \o gap \in Seq(Symbols)
    BY <1>1, Joins
  <1>5. <<item.name>> \o (item.after.text \o gap) \in Seq(Symbols)
    BY <1>3, <1>4, Joins
  <1>6. b \o (<<item.name>> \o (item.after.text \o gap)) \in Seq(Symbols)
    BY <1>5, Joins
  <1> QED BY <1>1, <1>2, <1>3, <1>4, <1>5, <1>6 DEF ItemText

\* The file up to each import.
LEMMA HeaderTextRuns ==
  ASSUME NEW file \in FileType
  PROVE  /\ Len(file.imports) \in Nat /\ DOMAIN file.imports = 1 .. Len(file.imports)
         /\ \A k \in 1 .. Len(file.imports) : file.imports[k] \in ItemType
         /\ file.lead.text \in Seq(Symbols) /\ file.marks \in Seq(Symbols)
         /\ file.gap.text \in Seq(Symbols) /\ file.tail.text \in Seq(Symbols)
         /\ Spaced(file.marks, file.gap.text)[Len(file.marks)] \in Seq(Symbols)
         /\ HeaderText(file)[0] = file.lead.text \o Spaced(file.marks, file.gap.text)[Len(file.marks)]
         /\ HeaderText(file) \in [0 .. Len(file.imports) -> Seq(Symbols)]
         /\ \A k \in 1 .. Len(file.imports) :
              HeaderText(file)[k] = HeaderText(file)[k - 1] \o ItemText(file.imports[k], file.gap.text)
  <1> DEFINE N == Len(file.imports)
             B == Seq(Symbols)
             gap == file.gap.text
             marks == Spaced(file.marks, gap)[Len(file.marks)]
             base == file.lead.text \o marks
             Add(s, k) == s \o ItemText(file.imports[k], gap)
             Body(f) == [k \in 0 .. N |-> IF k = 0 THEN base ELSE Add(f[k - 1], k)]
             step == [k \in Nat |-> [s \in B |-> IF k \in 1 .. N THEN Add(s, k) ELSE s]]
  <1>1. N \in Nat /\ DOMAIN file.imports = 1 .. N /\ \A k \in 1 .. N : file.imports[k] \in ItemType
    <2>1. file.imports \in Seq(ItemType)
      BY DEF FileType, ItemType
    <2> QED BY <2>1
  <1>2. file.lead.text \in B /\ gap \in B /\ file.tail.text \in B
    BY DEF FileType, Pieces
  <1>3. file.marks \in Seq(Symbols)
    <2>1. "module" \in Symbols /\ "prelude" \in Symbols
      BY DEF Symbols, Reserved
    <2>2. file.marks \in {<<>>, <<"module">>, <<"prelude">>, <<"module", "prelude">>}
      BY DEF FileType
    <2>3. /\ <<>> \in Seq(Symbols) /\ <<"module">> \in Seq(Symbols) /\ <<"prelude">> \in Seq(Symbols)
          /\ <<"module", "prelude">> \in Seq(Symbols)
      BY <2>1
    <2> QED BY <2>2, <2>3
  <1>4. marks \in B
    <2>1. Len(file.marks) \in 0 .. Len(file.marks)
      BY <1>3
    <2>2. Spaced(file.marks, gap) \in [0 .. Len(file.marks) -> Seq(Symbols)]
      BY <1>2, <1>3, SpacedRuns
    <2> QED BY <2>1, <2>2
  <1>5. base \in B
    <2> HIDE DEF marks
    <2> QED BY <1>2, <1>4, Joins
  <1>6. ASSUME NEW k \in 1 .. N, NEW s \in B PROVE Add(s, k) \in B
    <2>1. PICK item \in ItemType : item = file.imports[k]
      BY <1>1
    <2>2. ItemText(item, gap) \in Seq(Symbols)
      BY <1>2, ItemSymbols
    <2> QED BY <2>1, <2>2, Joins
  <1>7. HeaderText(file) = CHOOSE f : f = Body(f)
    BY DEF HeaderText, ItemText
  <1> HIDE DEF base, N, B, Add
  <1>8. step \in [Nat -> [B -> B]]
    BY <1>6
  <1>9. \A k \in 1 .. N : k \in Nat /\ k - 1 \in 0 .. N /\ \A s \in B : step[k][s] = Add(s, k)
    BY <1>1
  <1>10. \A f : /\ Body(f) = [k \in 0 .. N |-> Body(f)[k]] /\ Body(f)[0] = base
                /\ \A k \in 1 .. N : Body(f)[k] = Add(f[k - 1], k)
    BY <1>1
  <1> HIDE DEF step, Body
  <1>11. PICK f \in [0 .. N -> B] : Builds(f, N, base, step)
    BY <1>1, <1>5, <1>8, RecursionUpTo
  <1>12. f = Body(f)
    <2>1. \A k \in 1 .. N : f[k] = Add(f[k - 1], k)
      BY <1>9, <1>11 DEF Builds
    <2>2. \A k \in 0 .. N : k = 0 \/ k \in 1 .. N
      BY <1>1
    <2>3. \A k \in 0 .. N : f[k] = Body(f)[k]
      BY <1>10, <1>11, <2>1, <2>2 DEF Builds
    <2> QED BY <1>10, <2>3
  <1>13. PICK g : g = Body(g) /\ HeaderText(file) = g
    BY <1>7, <1>12
  <1>14. g[0] = base /\ g = [k \in 0 .. N |-> g[k]] /\ \A k \in 1 .. N : g[k] = Add(g[k - 1], k)
    BY <1>10, <1>13
  <1> DEFINE S == {k \in Nat : k <= N => g[k] \in B}
  <1>15. 0 \in S
    BY <1>5, <1>14
  <1>16. ASSUME NEW k \in Nat, k \in S PROVE k + 1 \in S
    <2>1. SUFFICES ASSUME k + 1 <= N PROVE g[k + 1] \in B
      OBVIOUS
    <2>2. g[k] \in B /\ k + 1 \in 1 .. N /\ (k + 1) - 1 = k
      BY <1>1, <1>16, <2>1
    <2>3. g[k + 1] = Add(g[k], k + 1)
      BY <1>14, <2>2
    <2> QED BY <1>6, <2>2, <2>3
  <1>17. Nat \subseteq S
    BY <1>15, <1>16, BySet
  <1>18. \A k \in 0 .. N : g[k] \in B
    BY <1>1, <1>17
  <1>19. g \in [0 .. N -> B]
    BY <1>14, <1>18
  <1> QED BY <1>1, <1>2, <1>3, <1>4, <1>13, <1>14, <1>19 DEF Add, base, N, B

\* A word and the gap after it: one token, then nothing up to the end of the gap.
LEMMA WordThenBlanks ==
  ASSUME NEW text \in Seq(Symbols), NEW a \in Nat, ModeAt(text, a) = Fresh,
         NEW w \in Symbols, w \notin {Slash, Dash, Quote} \cup Blanks,
         NEW gap \in Seq(Symbols), Silent(gap), Placed(text, a, <<w>> \o gap)
  PROVE  /\ ModeAt(text, a + Len(<<w>> \o gap)) = Fresh
         /\ a + 1 <= Len(text) /\ CodeOf(text)[a + 1] = w /\ TokenAfter(CodeOf(text), a) = a + 1
         /\ TokenAfter(CodeOf(text), a + 1) = TokenAfter(CodeOf(text), a + Len(<<w>> \o gap))
  <1> DEFINE code == CodeOf(text)
  <1>1. /\ <<w>> \in Seq(Symbols) /\ Len(<<w>>) = 1 /\ <<w>>[1] = w
    OBVIOUS
  <1>2. /\ Placed(text, a, <<w>>) /\ Placed(text, a + Len(<<w>>), gap)
        /\ a + Len(<<w>>) <= Len(text) /\ Len(<<w>> \o gap) = Len(<<w>>) + Len(gap)
    <2>1. PICK s \in Seq(Symbols) : s = <<w>>
      BY <1>1
    <2>2. Placed(text, a, s \o gap)
      BY <2>1
    <2>3. /\ Placed(text, a, s) /\ Placed(text, a + Len(s), gap)
          /\ a + Len(s) <= Len(text) /\ Len(s \o gap) = Len(s) + Len(gap)
      BY <2>2, PlacedParts
    <2> QED BY <2>1, <2>3
  <1>3. PICK b \in Nat : b = a + 1
    OBVIOUS
  <1>4. PICK c \in Nat : c = b + Len(gap) /\ c = a + Len(<<w>> \o gap)
    <2>1. Len(gap) \in Nat
      OBVIOUS
    <2>2. b + Len(gap) \in Nat /\ b + Len(gap) = a + (1 + Len(gap))
      BY <1>3, <2>1
    <2> QED BY <1>1, <1>2, <2>2
  <1>5. text[a + 1] = w /\ b <= Len(text) /\ Placed(text, b, gap)
    BY <1>1, <1>2, <1>3 DEF Placed
  <1>6. ModeAt(text, b) = Fresh /\ code[b] = w
    BY <1>3, <1>5, PlainPlaced
  <1>7. ModeAt(text, c) = Fresh /\ \A i \in 1 .. Len(gap) : code[b + i] \in Blanks
    BY <1>4, <1>5, <1>6, SilentPlaced
  <1>8. code \in Seq(Symbols) /\ Len(code) = Len(text) /\ Len(text) \in Nat /\ Len(gap) \in Nat
    BY CodeSymbols
  <1>9. b <= c /\ c <= Len(code) /\ a <= Len(code) /\ b <= Len(code)
    BY <1>3, <1>4, <1>5, <1>8 DEF Placed
  <1> HIDE DEF code
  <1>10. TokenAfter(code, a) = b
    <2>1. b \in (a + 1) .. (Len(code) + 1) /\ code[b] \notin Blanks /\ \A i \in (a + 1) .. (b - 1) : FALSE
      BY <1>3, <1>6, <1>8, <1>9
    <2> QED BY <1>8, <1>9, <2>1, TokenFound
  <1>11. TokenAfter(code, b) = TokenAfter(code, c)
    <2>1. ASSUME NEW i \in (b + 1) .. c PROVE code[i] \in Blanks
      <3>1. i - b \in 1 .. Len(gap) /\ b + (i - b) = i
        BY <1>4, <1>8
      <3> QED BY <1>7, <3>1
    <2> QED BY <1>8, <1>9, <2>1, TokenSkips
  <1> QED BY <1>3, <1>4, <1>6, <1>7, <1>8, <1>9, <1>10, <1>11 DEF code

\* Words are read one after the other.
ReadAt(code, words, spot) ==
  \A i \in 1 .. Len(words) : /\ spot[i] \in 1 .. Len(code) /\ code[spot[i]] = words[i]
                             /\ TokenAfter(code, spot[i]) = spot[i + 1]

ReadTo(code, a, words, b) ==
  \E spot \in [1 .. Len(words) + 1 -> Nat] :
    /\ ReadAt(code, words, spot)
    /\ spot[1] = TokenAfter(code, a) /\ spot[Len(words) + 1] = TokenAfter(code, b)
    /\ Len(words) >= 1 => spot[1] = a + 1

PlainWords(words) == \A i \in 1 .. Len(words) : words[i] \notin {Slash, Dash, Quote} \cup Blanks

\* Words with a silent gap after each are read one after the other.
LEMMA WordsRead ==
  ASSUME NEW text \in Seq(Symbols), NEW a \in Nat, ModeAt(text, a) = Fresh,
         NEW words \in Seq(Symbols),
         PlainWords(words),
         NEW gap \in Seq(Symbols), Silent(gap),
         NEW b \in Nat, b = a + Len(Spaced(words, gap)[Len(words)]),
         Placed(text, a, Spaced(words, gap)[Len(words)])
  PROVE  ModeAt(text, b) = Fresh /\ ReadTo(CodeOf(text), a, words, b)
  <1> DEFINE code == CodeOf(text)
             n == Len(words)
             sp == Spaced(words, gap)
             parts == [i \in 1 .. n |-> <<words[i]>> \o gap]
             S == {i \in Nat : i <= n => ModeAt(text, a + Len(sp[i])) = Fresh}
             spot == [i \in 1 .. n + 1 |-> TokenAfter(code, a + Len(sp[i - 1]))]
  <1>1. n \in Nat /\ Len(text) \in Nat /\ code \in Seq(Symbols) /\ Len(code) = Len(text)
    BY CodeSymbols
  <1>2. /\ sp[0] = << >> /\ sp \in [0 .. n -> Seq(Symbols)]
        /\ \A i \in 1 .. n : sp[i] = sp[i - 1] \o (<<words[i]>> \o gap)
    BY SpacedRuns
  <1>3. Placed(text, a, sp[n]) /\ b = a + Len(sp[n])
    OBVIOUS
  <1>4. parts \in [1 .. n -> Seq(Symbols)]
    <2>1. ASSUME NEW i \in 1 .. n PROVE <<words[i]>> \o gap \in Seq(Symbols)
      <3>1. <<words[i]>> \in Seq(Symbols)
        OBVIOUS
      <3> QED BY <3>1, Joins
    <2> QED BY <2>1
  <1>5. \A i \in 1 .. n : parts[i] = <<words[i]>> \o gap
    OBVIOUS
  <1>6. \A i \in 1 .. n : words[i] \in Symbols
    OBVIOUS
  <1> HIDE DEF n, sp, parts, code
  <1>7. Grows(sp, parts, n)
    BY <1>2, <1>5 DEF Grows
  <1>8. /\ \A i \in 0 .. n : Placed(text, a, sp[i]) /\ a + Len(sp[i]) \in Nat /\ a + Len(sp[i]) <= Len(text)
        /\ \A i \in 1 .. n : /\ Placed(text, a + Len(sp[i - 1]), parts[i])
                             /\ Len(sp[i]) = Len(sp[i - 1]) + Len(parts[i])
    <2>1. PICK m \in Nat : m = n
      BY <1>1
    <2>2. PICK g \in [0 .. m -> Seq(Symbols)] : g = sp
      BY <1>2, <2>1
    <2>3. PICK p \in [1 .. m -> Seq(Symbols)] : p = parts
      BY <1>4, <2>1
    <2>4. Grows(g, p, m) /\ Placed(text, a, g[m])
      BY <1>3, <1>7, <2>1, <2>2, <2>3
    <2>5. GrownAt(text, a, g, p, m)
      BY <2>4, GrownPlaces
    <2> QED BY <2>1, <2>2, <2>3, <2>5 DEF GrownAt
  <1>9. a + Len(sp[0]) = a
    BY <1>2
  <1>10. ASSUME NEW i \in 1 .. n, ModeAt(text, a + Len(sp[i - 1])) = Fresh
         PROVE  /\ ModeAt(text, a + Len(sp[i])) = Fresh
                /\ (a + Len(sp[i - 1])) + 1 \in 1 .. Len(code)
                /\ code[(a + Len(sp[i - 1])) + 1] = words[i]
                /\ TokenAfter(code, a + Len(sp[i - 1])) = (a + Len(sp[i - 1])) + 1
                /\ TokenAfter(code, (a + Len(sp[i - 1])) + 1) = TokenAfter(code, a + Len(sp[i]))
    <2>1. i - 1 \in 0 .. n /\ i \in 0 .. n
      BY <1>1
    <2>2. PICK c \in Nat : c = a + Len(sp[i - 1])
      BY <1>8, <2>1
    <2>3. PICK w \in Symbols : w = words[i] /\ w \notin {Slash, Dash, Quote} \cup Blanks
      BY <1>6 DEF PlainWords, n
    <2>4. Placed(text, c, <<w>> \o gap)
      BY <1>5, <1>8, <2>2, <2>3
    <2>5. a + Len(sp[i]) = c + Len(<<w>> \o gap)
      <3>1. Len(sp[i - 1]) \in Nat /\ Len(parts[i]) \in Nat
        BY <1>2, <1>4, <2>1
      <3>2. Len(sp[i]) = Len(sp[i - 1]) + Len(<<w>> \o gap)
        BY <1>5, <1>8, <2>3
      <3>3. PICK l \in Nat : l = Len(<<w>> \o gap)
        BY <1>5, <2>3, <3>1
      <3>4. PICK m \in Nat : m = Len(sp[i - 1])
        BY <3>1
      <3>5. a + (m + l) = (a + m) + l
        OBVIOUS
      <3> QED BY <2>2, <3>2, <3>3, <3>4, <3>5
    <2>6. /\ ModeAt(text, c + Len(<<w>> \o gap)) = Fresh
          /\ c + 1 <= Len(text) /\ code[c + 1] = w /\ TokenAfter(code, c) = c + 1
          /\ TokenAfter(code, c + 1) = TokenAfter(code, c + Len(<<w>> \o gap))
      <3>1. ModeAt(text, c) = Fresh
        BY <1>10, <2>2
      <3>2. /\ ModeAt(text, c + Len(<<w>> \o gap)) = Fresh
            /\ c + 1 <= Len(text) /\ CodeOf(text)[c + 1] = w /\ TokenAfter(CodeOf(text), c) = c + 1
            /\ TokenAfter(CodeOf(text), c + 1) = TokenAfter(CodeOf(text), c + Len(<<w>> \o gap))
        BY <2>3, <2>4, <3>1, WordThenBlanks
      <3> QED BY <3>2 DEF code
    <2>7. c + 1 \in 1 .. Len(code)
      BY <1>1, <2>6
    <2> QED BY <2>2, <2>3, <2>5, <2>6, <2>7
  <1>11. 0 \in S
    BY <1>9
  <1>12. ASSUME NEW i \in Nat, i \in S PROVE i + 1 \in S
    <2>1. SUFFICES ASSUME i + 1 <= n PROVE ModeAt(text, a + Len(sp[i + 1])) = Fresh
      OBVIOUS
    <2>2. i + 1 \in 1 .. n /\ (i + 1) - 1 = i /\ ModeAt(text, a + Len(sp[i])) = Fresh
      BY <1>1, <1>12, <2>1
    <2> QED BY <1>10, <2>2
  <1>13. Nat \subseteq S
    BY <1>11, <1>12, BySet
  <1>14. \A i \in 0 .. n : ModeAt(text, a + Len(sp[i])) = Fresh
    BY <1>1, <1>13
  <1> HIDE DEF S
  <1>15. ASSUME NEW i \in 1 .. n + 1 PROVE TokenAfter(code, a + Len(sp[i - 1])) \in Nat
    <2>1. i - 1 \in 0 .. n
      BY <1>1
    <2>2. PICK c \in Nat : c = a + Len(sp[i - 1]) /\ c <= Len(code)
      BY <1>1, <1>8, <2>1
    <2>3. TokenAfter(code, c) \in (c + 1) .. (Len(code) + 1)
      BY <1>1, <2>2, TokenIs
    <2>4. TokenAfter(code, c) \in Nat
      BY <1>1, <2>3
    <2> QED BY <2>2, <2>4
  <1>16. spot \in [1 .. n + 1 -> Nat]
    BY <1>15
  <1>17. spot[1] = TokenAfter(code, a) /\ spot[n + 1] = TokenAfter(code, b)
    <2>1. 1 \in 1 .. n + 1 /\ n + 1 \in 1 .. n + 1 /\ (n + 1) - 1 = n /\ 1 - 1 = 0
      BY <1>1
    <2>2. spot[1] = TokenAfter(code, a + Len(sp[0])) /\ spot[n + 1] = TokenAfter(code, a + Len(sp[n]))
      BY <2>1
    <2> QED BY <1>3, <1>9, <2>2
  <1>18. ASSUME NEW i \in 1 .. n
         PROVE  /\ spot[i] = (a + Len(sp[i - 1])) + 1 /\ spot[i] \in 1 .. Len(code) /\ code[spot[i]] = words[i]
                /\ TokenAfter(code, spot[i]) = spot[i + 1]
    <2>1. i \in 1 .. n + 1 /\ i + 1 \in 1 .. n + 1 /\ (i + 1) - 1 = i /\ i - 1 \in 0 .. n
      BY <1>1
    <2>2. spot[i] = TokenAfter(code, a + Len(sp[i - 1])) /\ spot[i + 1] = TokenAfter(code, a + Len(sp[i]))
      BY <2>1
    <2> HIDE DEF spot
    <2>3. ModeAt(text, a + Len(sp[i - 1])) = Fresh
      BY <1>14, <2>1
    <2> QED BY <1>10, <2>2, <2>3
  <1>19. n >= 1 => spot[1] = a + 1
    <2>1. n >= 1 => 1 \in 1 .. n /\ 1 - 1 = 0
      BY <1>1
    <2> HIDE DEF spot
    <2> QED BY <1>9, <1>18, <2>1
  <1>20. ModeAt(text, b) = Fresh
    <2>1. n \in 0 .. n
      BY <1>1
    <2>2. ModeAt(text, a + Len(sp[n])) = Fresh
      BY <1>14, <2>1
    <2> HIDE DEF spot
    <2> QED BY <1>3, <2>2
  <1> HIDE DEF spot
  <1>21. ReadAt(code, words, spot)
    BY <1>18 DEF ReadAt, n
  <1> QED BY <1>16, <1>17, <1>19, <1>20, <1>21 DEF ReadTo, code, n

\* The words before a name lead the reader to the name.
LEMMA QualifiersRead ==
  ASSUME NEW code, NEW before \in Qualified, NEW spot, ReadAt(code, before, spot),
         spot[Len(before) + 1] \in 1 .. Len(code), code[spot[Len(before) + 1]] \notin Reserved
  PROVE  /\ Is(code, CommandAt(code, spot[1]), "import")
         /\ Past(code, TokenAfter(code, CommandAt(code, spot[1])), "all") = spot[Len(before) + 1]
  <1>1. /\ code[spot[Len(before) + 1]] # "public" /\ code[spot[Len(before) + 1]] # "meta"
        /\ code[spot[Len(before) + 1]] # "all"
    BY DEF Reserved
  <1>2. CASE before = <<"import">>
    <2>1. Len(before) = 1 /\ before[1] = "import"
      BY <1>2
    <2>2. \A i \in 1 .. 1 : /\ spot[i] \in 1 .. Len(code) /\ code[spot[i]] = before[i]
                            /\ TokenAfter(code, spot[i]) = spot[i + 1]
      BY <2>1 DEF ReadAt
    <2>3. /\ code[spot[1]] = "import"
          /\ TokenAfter(code, spot[1]) = spot[2]
          /\ spot[1] <= Len(code) /\ spot[2] <= Len(code)
      BY <2>1, <2>2
    <2>4. /\ code[spot[2]] # "public" /\ code[spot[2]] # "meta" /\ code[spot[2]] # "all"
      BY <1>1, <2>1
    <2> QED BY <2>1, <2>3, <2>4 DEF Is, Past, CommandAt
  <1>3. CASE before = <<"public", "import">>
    <2>1. Len(before) = 2 /\ before[1] = "public" /\ before[2] = "import"
      BY <1>3
    <2>2. \A i \in 1 .. 2 : /\ spot[i] \in 1 .. Len(code) /\ code[spot[i]] = before[i]
                            /\ TokenAfter(code, spot[i]) = spot[i + 1]
      BY <2>1 DEF ReadAt
    <2>3. /\ code[spot[1]] = "public" /\ code[spot[2]] = "import"
          /\ TokenAfter(code, spot[1]) = spot[2] /\ TokenAfter(code, spot[2]) = spot[3]
          /\ spot[1] <= Len(code) /\ spot[2] <= Len(code) /\ spot[3] <= Len(code)
      BY <2>1, <2>2
    <2>4. /\ code[spot[3]] # "public" /\ code[spot[3]] # "meta" /\ code[spot[3]] # "all"
      BY <1>1, <2>1
    <2> QED BY <2>1, <2>3, <2>4 DEF Is, Past, CommandAt
  <1>4. CASE before = <<"meta", "import">>
    <2>1. Len(before) = 2 /\ before[1] = "meta" /\ before[2] = "import"
      BY <1>4
    <2>2. \A i \in 1 .. 2 : /\ spot[i] \in 1 .. Len(code) /\ code[spot[i]] = before[i]
                            /\ TokenAfter(code, spot[i]) = spot[i + 1]
      BY <2>1 DEF ReadAt
    <2>3. /\ code[spot[1]] = "meta" /\ code[spot[2]] = "import"
          /\ TokenAfter(code, spot[1]) = spot[2] /\ TokenAfter(code, spot[2]) = spot[3]
          /\ spot[1] <= Len(code) /\ spot[2] <= Len(code) /\ spot[3] <= Len(code)
      BY <2>1, <2>2
    <2>4. /\ code[spot[3]] # "public" /\ code[spot[3]] # "meta" /\ code[spot[3]] # "all"
      BY <1>1, <2>1
    <2> QED BY <2>1, <2>3, <2>4 DEF Is, Past, CommandAt
  <1>5. CASE before = <<"public", "meta", "import">>
    <2>1. Len(before) = 3 /\ before[1] = "public" /\ before[2] = "meta" /\ before[3] = "import"
      BY <1>5
    <2>2. \A i \in 1 .. 3 : /\ spot[i] \in 1 .. Len(code) /\ code[spot[i]] = before[i]
                            /\ TokenAfter(code, spot[i]) = spot[i + 1]
      BY <2>1 DEF ReadAt
    <2>3. /\ code[spot[1]] = "public" /\ code[spot[2]] = "meta" /\ code[spot[3]] = "import"
          /\ TokenAfter(code, spot[1]) = spot[2] /\ TokenAfter(code, spot[2]) = spot[3] /\ TokenAfter(code, spot[3]) = spot[4]
          /\ spot[1] <= Len(code) /\ spot[2] <= Len(code) /\ spot[3] <= Len(code) /\ spot[4] <= Len(code)
      BY <2>1, <2>2
    <2>4. /\ code[spot[4]] # "public" /\ code[spot[4]] # "meta" /\ code[spot[4]] # "all"
      BY <1>1, <2>1
    <2> QED BY <2>1, <2>3, <2>4 DEF Is, Past, CommandAt
  <1>6. CASE before = <<"import", "all">>
    <2>1. Len(before) = 2 /\ before[1] = "import" /\ before[2] = "all"
      BY <1>6
    <2>2. \A i \in 1 .. 2 : /\ spot[i] \in 1 .. Len(code) /\ code[spot[i]] = before[i]
                            /\ TokenAfter(code, spot[i]) = spot[i + 1]
      BY <2>1 DEF ReadAt
    <2>3. /\ code[spot[1]] = "import" /\ code[spot[2]] = "all"
          /\ TokenAfter(code, spot[1]) = spot[2] /\ TokenAfter(code, spot[2]) = spot[3]
          /\ spot[1] <= Len(code) /\ spot[2] <= Len(code) /\ spot[3] <= Len(code)
      BY <2>1, <2>2
    <2>4. /\ code[spot[3]] # "public" /\ code[spot[3]] # "meta" /\ code[spot[3]] # "all"
      BY <1>1, <2>1
    <2> QED BY <2>1, <2>3, <2>4 DEF Is, Past, CommandAt
  <1>7. CASE before = <<"public", "import", "all">>
    <2>1. Len(before) = 3 /\ before[1] = "public" /\ before[2] = "import" /\ before[3] = "all"
      BY <1>7
    <2>2. \A i \in 1 .. 3 : /\ spot[i] \in 1 .. Len(code) /\ code[spot[i]] = before[i]
                            /\ TokenAfter(code, spot[i]) = spot[i + 1]
      BY <2>1 DEF ReadAt
    <2>3. /\ code[spot[1]] = "public" /\ code[spot[2]] = "import" /\ code[spot[3]] = "all"
          /\ TokenAfter(code, spot[1]) = spot[2] /\ TokenAfter(code, spot[2]) = spot[3] /\ TokenAfter(code, spot[3]) = spot[4]
          /\ spot[1] <= Len(code) /\ spot[2] <= Len(code) /\ spot[3] <= Len(code) /\ spot[4] <= Len(code)
      BY <2>1, <2>2
    <2>4. /\ code[spot[4]] # "public" /\ code[spot[4]] # "meta" /\ code[spot[4]] # "all"
      BY <1>1, <2>1
    <2> QED BY <2>1, <2>3, <2>4 DEF Is, Past, CommandAt
  <1>8. CASE before = <<"meta", "import", "all">>
    <2>1. Len(before) = 3 /\ before[1] = "meta" /\ before[2] = "import" /\ before[3] = "all"
      BY <1>8
    <2>2. \A i \in 1 .. 3 : /\ spot[i] \in 1 .. Len(code) /\ code[spot[i]] = before[i]
                            /\ TokenAfter(code, spot[i]) = spot[i + 1]
      BY <2>1 DEF ReadAt
    <2>3. /\ code[spot[1]] = "meta" /\ code[spot[2]] = "import" /\ code[spot[3]] = "all"
          /\ TokenAfter(code, spot[1]) = spot[2] /\ TokenAfter(code, spot[2]) = spot[3] /\ TokenAfter(code, spot[3]) = spot[4]
          /\ spot[1] <= Len(code) /\ spot[2] <= Len(code) /\ spot[3] <= Len(code) /\ spot[4] <= Len(code)
      BY <2>1, <2>2
    <2>4. /\ code[spot[4]] # "public" /\ code[spot[4]] # "meta" /\ code[spot[4]] # "all"
      BY <1>1, <2>1
    <2> QED BY <2>1, <2>3, <2>4 DEF Is, Past, CommandAt
  <1>9. CASE before = <<"public", "meta", "import", "all">>
    <2>1. Len(before) = 4 /\ before[1] = "public" /\ before[2] = "meta" /\ before[3] = "import" /\ before[4] = "all"
      BY <1>9
    <2>2. \A i \in 1 .. 4 : /\ spot[i] \in 1 .. Len(code) /\ code[spot[i]] = before[i]
                            /\ TokenAfter(code, spot[i]) = spot[i + 1]
      BY <2>1 DEF ReadAt
    <2>3. /\ code[spot[1]] = "public" /\ code[spot[2]] = "meta" /\ code[spot[3]] = "import" /\ code[spot[4]] = "all"
          /\ TokenAfter(code, spot[1]) = spot[2] /\ TokenAfter(code, spot[2]) = spot[3] /\ TokenAfter(code, spot[3]) = spot[4] /\ TokenAfter(code, spot[4]) = spot[5]
          /\ spot[1] <= Len(code) /\ spot[2] <= Len(code) /\ spot[3] <= Len(code) /\ spot[4] <= Len(code) /\ spot[5] <= Len(code)
      BY <2>1, <2>2
    <2>4. /\ code[spot[5]] # "public" /\ code[spot[5]] # "meta" /\ code[spot[5]] # "all"
      BY <1>1, <2>1
    <2> QED BY <2>1, <2>3, <2>4 DEF Is, Past, CommandAt
  <1> QED BY <1>2, <1>3, <1>4, <1>5, <1>6, <1>7, <1>8, <1>9 DEF Qualified

\* The words of an import, up to its name.
NameAt(text, a, item, gap, p) ==
  /\ a < p /\ p \in 1 .. Len(text) /\ ModeAt(text, p) = Fresh /\ CodeOf(text)[p] = item.name
  /\ Placed(text, p, item.after.text \o gap)
  /\ a + Len(ItemText(item, gap)) = p + Len(item.after.text \o gap)
  /\ Is(CodeOf(text), CommandAt(CodeOf(text), TokenAfter(CodeOf(text), a)), "import")
  /\ Past(CodeOf(text), TokenAfter(CodeOf(text), CommandAt(CodeOf(text), TokenAfter(CodeOf(text), a))), "all") = p
  /\ TokenAfter(CodeOf(text), a) = a + 1 /\ a + 1 <= Len(text)
  /\ CodeOf(text)[a + 1] \in {"public", "meta", "import"}

\* The reader gets from before an import to its name.
LEMMA ImportBegins ==
  ASSUME NEW text \in Seq(Symbols), NEW a \in Nat, ModeAt(text, a) = Fresh,
         NEW item \in ItemType, IsWord(item.name), item.name \notin Reserved \cup Blanks,
         NEW gap \in Seq(Symbols), Silent(gap), Placed(text, a, ItemText(item, gap))
  PROVE  \E p \in Nat : NameAt(text, a, item, gap, p)
  <1> DEFINE code == CodeOf(text)
             before == item.before
             after == item.after.text \o gap
  <1>1. PICK sp \in Seq(Symbols) : sp = Spaced(before, gap)[Len(before)]
    BY ItemSymbols
  <1>2. PICK word \in Seq(Symbols) : word = <<item.name>> /\ Len(word) = 1 /\ word[1] = item.name
    <2>1. <<item.name>> \in Seq(Symbols) /\ Len(<<item.name>>) = 1 /\ <<item.name>>[1] = item.name
      BY ItemSymbols
    <2> QED BY <2>1
  <1>3. PICK rest \in Seq(Symbols) : rest = after
    BY ItemSymbols
  <1>4. PICK more \in Seq(Symbols) : more = word \o rest
    BY Joins
  <1>5. ItemText(item, gap) = sp \o more
    BY <1>1, <1>2, <1>3, <1>4 DEF ItemText
  <1>6. /\ Placed(text, a, sp) /\ Placed(text, a + Len(sp), more)
        /\ a + Len(sp) \in Nat /\ a + Len(sp) <= Len(text)
        /\ Len(sp \o more) = Len(sp) + Len(more)
    BY <1>5, PlacedParts
  <1>7. PICK b \in Nat : b = a + Len(sp)
    BY <1>6
  <1>8. /\ Placed(text, b, word) /\ Placed(text, b + Len(word), rest)
        /\ b + Len(word) \in Nat /\ b + Len(word) <= Len(text)
        /\ Len(word \o rest) = Len(word) + Len(rest)
    <2>1. Placed(text, b, word \o rest)
      BY <1>4, <1>6, <1>7
    <2> QED BY <2>1, PlacedParts
  <1>9. PICK p \in Nat : p = b + 1
    OBVIOUS
  <1>10. p <= Len(text) /\ text[p] = item.name /\ Placed(text, p, rest)
    BY <1>2, <1>8, <1>9 DEF Placed
  <1>11. before \in Qualified /\ before \in Seq(Symbols) /\ Len(before) >= 1
         /\ before[1] \in {"public", "meta", "import"}
         /\ \A i \in 1 .. Len(before) : before[i] \in {"public", "meta", "import", "all"}
    <2>1. before \in Qualified
      BY ItemSymbols
    <2> QED BY <2>1, BeforeWords
  <1>12. \A i \in 1 .. Len(before) : before[i] \notin {Slash, Dash, Quote} \cup Blanks
    BY <1>11 DEF Slash, Dash, Quote, Blanks, Space, Newline
  <1>13. item.name \notin {Slash, Dash, Quote} \cup Blanks
    BY DEF IsWord
  <1>14. ModeAt(text, b) = Fresh /\ ReadTo(code, a, before, b)
    <2>1. PICK w \in Seq(Symbols) : w = before
      BY <1>11
    <2>2. /\ b = a + Len(Spaced(w, gap)[Len(w)]) /\ Placed(text, a, Spaced(w, gap)[Len(w)])
          /\ PlainWords(w)
      BY <1>1, <1>6, <1>7, <1>12, <2>1 DEF PlainWords
    <2>3. ModeAt(text, b) = Fresh /\ ReadTo(CodeOf(text), a, w, b)
      BY <2>2, WordsRead
    <2> QED BY <2>1, <2>3
  <1>15. ModeAt(text, p) = Fresh /\ code[p] = item.name
    <2>1. b + 1 <= Len(text) /\ text[b + 1] = item.name /\ text[b + 1] \notin {Slash, Dash, Quote}
      BY <1>9, <1>10, <1>13
    <2>2. ModeAt(text, b + 1) = Fresh /\ CodeOf(text)[b + 1] = text[b + 1]
      BY <1>14, <2>1, PlainPlaced
    <2> QED BY <1>9, <2>1, <2>2
  <1>16. code \in Seq(Symbols) /\ Len(code) = Len(text) /\ Len(text) \in Nat
    BY CodeSymbols
  <1>17. PICK spot \in [1 .. Len(before) + 1 -> Nat] :
              /\ ReadAt(code, before, spot)
              /\ spot[1] = TokenAfter(code, a)
              /\ spot[Len(before) + 1] = TokenAfter(code, b)
              /\ spot[1] = a + 1
    BY <1>11, <1>14 DEF ReadTo
  <1> HIDE DEF code, before, after
  <1>18. TokenAfter(code, b) = p
    <2>1. p \in (b + 1) .. (Len(code) + 1) /\ code[p] \notin Blanks /\ b <= Len(code)
          /\ \A i \in (b + 1) .. (p - 1) : FALSE
      BY <1>9, <1>10, <1>13, <1>15, <1>16
    <2> QED BY <1>16, <2>1, TokenFound
  <1>19. spot[Len(before) + 1] = p /\ p \in 1 .. Len(code) /\ code[p] \notin Reserved
    BY <1>9, <1>10, <1>15, <1>16, <1>17, <1>18
  <1>20. /\ Is(code, CommandAt(code, spot[1]), "import")
         /\ Past(code, TokenAfter(code, CommandAt(code, spot[1])), "all") = spot[Len(before) + 1]
    BY <1>11, <1>17, <1>19, QualifiersRead
  <1>21. code[a + 1] \in {"public", "meta", "import"} /\ a + 1 <= Len(text)
    <2>1. 1 \in 1 .. Len(before)
      BY <1>11
    <2>2. spot[1] \in 1 .. Len(code) /\ code[spot[1]] = before[1]
      BY <1>17, <2>1 DEF ReadAt
    <2> QED BY <1>11, <1>16, <1>17, <2>2
  <1>22. a + Len(ItemText(item, gap)) = p + Len(rest)
    <2>1. PICK l \in Nat : l = Len(sp)
      OBVIOUS
    <2>2. PICK m \in Nat : m = Len(rest)
      OBVIOUS
    <2>3. Len(ItemText(item, gap)) = l + (1 + m) /\ b = a + l
      BY <1>2, <1>4, <1>5, <1>6, <1>7, <1>8, <2>1, <2>2
    <2> QED BY <1>9, <2>2, <2>3
  <1>23. a < p
    <2>1. PICK l \in Nat : l = Len(sp)
      OBVIOUS
    <2> QED BY <1>7, <1>9, <2>1
  <1> QED BY <1>3, <1>10, <1>15, <1>16, <1>17, <1>19, <1>20, <1>21, <1>22, <1>23 DEF NameAt, code, after

\* After a name the author goes on soundly: nothing up to what comes next.
LEMMA ImportEnds ==
  ASSUME NEW text \in Seq(Symbols), NEW p \in Nat, ModeAt(text, p) = Fresh,
         NEW after \in Seq(Symbols), Silent(after), NEW gap \in Seq(Symbols), Silent(gap), gap # << >>,
         Placed(text, p, after \o gap)
  PROVE  /\ ModeAt(text, p + Len(after \o gap)) = Fresh
         /\ p + Len(after \o gap) \in Nat /\ p + Len(after \o gap) <= Len(text)
         /\ p < p + Len(after \o gap)
         /\ TokenAfter(CodeOf(text), p) = TokenAfter(CodeOf(text), p + Len(after \o gap))
  <1>1. /\ Placed(text, p, after) /\ Placed(text, p + Len(after), gap)
        /\ p + Len(after) \in Nat /\ Len(after \o gap) = Len(after) + Len(gap)
    BY PlacedParts
  <1>2. PICK l \in Nat : l = Len(after)
    OBVIOUS
  <1>3. PICK m \in Nat : m = Len(gap) /\ m >= 1
    OBVIOUS
  <1>4. PICK q \in Nat : q = p + l
    OBVIOUS
  <1>5. PICK r \in Nat : r = q + m /\ r = p + Len(after \o gap)
    BY <1>1, <1>2, <1>3, <1>4
  <1>6. ModeAt(text, q) = Fresh /\ \A i \in 1 .. l : CodeOf(text)[p + i] \in Blanks
    BY <1>1, <1>2, <1>4, SilentPlaced
  <1>7. Placed(text, q, gap)
    BY <1>1, <1>2, <1>4
  <1>8. ModeAt(text, r) = Fresh /\ \A i \in 1 .. m : CodeOf(text)[q + i] \in Blanks
    BY <1>3, <1>5, <1>6, <1>7, SilentPlaced
  <1>9. CodeOf(text) \in Seq(Symbols) /\ Len(CodeOf(text)) = Len(text) /\ Len(text) \in Nat
    BY CodeSymbols
  <1>10. r <= Len(text) /\ p < r
    BY <1>3, <1>4, <1>5, <1>7 DEF Placed
  <1>11. ASSUME NEW i \in (p + 1) .. r PROVE CodeOf(text)[i] \in Blanks
    <2>1. \/ i - p \in 1 .. l /\ p + (i - p) = i
          \/ i - q \in 1 .. m /\ q + (i - q) = i
      BY <1>4, <1>5
    <2> QED BY <1>6, <1>8, <2>1
  <1>12. TokenAfter(CodeOf(text), p) = TokenAfter(CodeOf(text), r)
    BY <1>9, <1>10, <1>11, TokenSkips
  <1> QED BY <1>5, <1>8, <1>10, <1>12

\* Or the name goes on.
LEMMA ImportContinues ==
  ASSUME NEW text \in Seq(Symbols), NEW p \in Nat, ModeAt(text, p) = Fresh,
         NEW after \in Seq(Symbols), Continues(after), NEW gap \in Seq(Symbols),
         Placed(text, p, after \o gap)
  PROVE  GoesOn(CodeOf(text), p)
  <1>1. Placed(text, p, after)
    BY PlacedParts
  <1>2. PICK i \in 1 .. Len(after) : /\ Silent(SubSeq(after, 1, i - 1))
                                     /\ ~IsWord(after[i]) /\ after[i] \notin {Slash, Dash, Quote}
                                     /\ i = 1 \/ after[i] \in {Dot, Angle}
    <2>1. DOMAIN after = 1 .. Len(after)
      OBVIOUS
    <2> QED BY <2>1 DEF Continues
  <1>3. PICK q \in Seq(Symbols) : /\ q = SubSeq(after, 1, i - 1) /\ Len(q) = i - 1
                                  /\ \A j \in 1 .. Len(q) : q[j] = after[j]
    <2>1. /\ SubSeq(after, 1, i - 1) \in Seq(Symbols) /\ Len(SubSeq(after, 1, i - 1)) = i - 1
          /\ \A j \in 1 .. i - 1 : SubSeq(after, 1, i - 1)[j] = after[j]
      OBVIOUS
    <2> QED BY <2>1
  <1>4. /\ p + Len(after) <= Len(text) /\ Len(text) \in Nat /\ Len(after) \in Nat
        /\ \A j \in 1 .. Len(after) : text[p + j] = after[j]
    BY <1>1 DEF Placed
  <1>5. Placed(text, p, q)
    <2>1. p + Len(q) <= Len(text) /\ \A j \in 1 .. Len(q) : j \in 1 .. Len(after)
      BY <1>3, <1>4
    <2> QED BY <1>3, <1>4, <2>1 DEF Placed
  <1>6. PICK m \in Nat : m = p + Len(q) /\ m + 1 = p + i
    BY <1>3
  <1>7. ModeAt(text, m) = Fresh /\ \A j \in 1 .. Len(q) : CodeOf(text)[p + j] \in Blanks
    BY <1>2, <1>3, <1>5, <1>6, SilentPlaced
  <1>8. m + 1 <= Len(text) /\ text[m + 1] = after[i]
    BY <1>4, <1>6
  <1>9. CodeOf(text)[m + 1] = after[i]
    BY <1>2, <1>7, <1>8, PlainPlaced
  <1>10. after[i] \notin Blanks
    BY <1>2 DEF IsWord, Blanks, Space, Newline, Escape, Dot, Angle, Plus
  <1>11. CodeOf(text) \in Seq(Symbols) /\ Len(CodeOf(text)) = Len(text)
    BY CodeSymbols
  <1>12. TokenAfter(CodeOf(text), p) = m + 1
    <2>1. m + 1 \in (p + 1) .. (Len(CodeOf(text)) + 1) /\ p <= Len(CodeOf(text))
      <3>1. PICK l \in Nat : l = Len(q)
        BY <1>3
      <3>2. p <= m /\ p <= Len(text) /\ m + 1 \in (p + 1) .. (Len(text) + 1)
        BY <1>4, <1>6, <1>8, <3>1
      <3> QED BY <1>11, <3>2
    <2>2. ASSUME NEW j \in (p + 1) .. ((m + 1) - 1) PROVE CodeOf(text)[j] \in Blanks
      <3>1. j - p \in 1 .. Len(q) /\ p + (j - p) = j
        BY <1>3, <1>6
      <3> QED BY <1>7, <3>1
    <2> QED BY <1>9, <1>10, <1>11, <2>1, <2>2, TokenFound
  <1>13. i = 1 => m + 1 = p + 1
    BY <1>6
  <1> QED BY <1>2, <1>8, <1>9, <1>11, <1>12, <1>13 DEF GoesOn

\* Where the parts of a file stand in its text.
UpTo(file, k) == Len(HeaderText(file)[k])

FileAt(file) ==
  /\ Text(file) \in Seq(Symbols)
  /\ \A k \in 0 .. Len(file.imports) : UpTo(file, k) \in Nat /\ UpTo(file, k) <= Len(Text(file))
  /\ \A k \in 1 .. Len(file.imports) :
       /\ Placed(Text(file), UpTo(file, k - 1), ItemText(file.imports[k], file.gap.text))
       /\ UpTo(file, k) = UpTo(file, k - 1) + Len(ItemText(file.imports[k], file.gap.text))
  /\ Placed(Text(file), 0, file.lead.text)
  /\ Placed(Text(file), Len(file.lead.text), Spaced(file.marks, file.gap.text)[Len(file.marks)])
  /\ UpTo(file, 0) = Len(file.lead.text) + Len(Spaced(file.marks, file.gap.text)[Len(file.marks)])
  /\ EndOf(Text(file), UpTo(file, Len(file.imports)), file.tail.text)

\* The lead, the marks, every import and the tail stand where they were put.
LEMMA FilePlaces ==
  ASSUME NEW file \in FileType PROVE FileAt(file)
  <1>1. PICK n \in Nat : n = Len(file.imports)
    BY HeaderTextRuns
  <1>2. /\ \A k \in 1 .. n : file.imports[k] \in ItemType
        /\ file.lead.text \in Seq(Symbols) /\ file.gap.text \in Seq(Symbols) /\ file.tail.text \in Seq(Symbols)
        /\ Spaced(file.marks, file.gap.text)[Len(file.marks)] \in Seq(Symbols)
        /\ HeaderText(file)[0] = file.lead.text \o Spaced(file.marks, file.gap.text)[Len(file.marks)]
        /\ HeaderText(file) \in [0 .. n -> Seq(Symbols)]
        /\ \A k \in 1 .. n : HeaderText(file)[k] = HeaderText(file)[k - 1] \o ItemText(file.imports[k], file.gap.text)
    BY <1>1, HeaderTextRuns
  <1>3. PICK g \in [0 .. n -> Seq(Symbols)] : g = HeaderText(file)
    BY <1>2
  <1>4. PICK lead \in Seq(Symbols) : lead = file.lead.text
    BY <1>2
  <1>5. PICK marks \in Seq(Symbols) : marks = Spaced(file.marks, file.gap.text)[Len(file.marks)]
    BY <1>2
  <1>6. PICK gap \in Seq(Symbols) : gap = file.gap.text
    BY <1>2
  <1>7. PICK tail \in Seq(Symbols) : tail = file.tail.text
    BY <1>2
  <1> DEFINE items == [k \in 1 .. n |-> ItemText(file.imports[k], gap)]
  <1>8. items \in [1 .. n -> Seq(Symbols)]
    <2>1. ASSUME NEW k \in 1 .. n PROVE ItemText(file.imports[k], gap) \in Seq(Symbols)
      <3>1. PICK item \in ItemType : item = file.imports[k]
        BY <1>2
      <3>2. ItemText(item, gap) \in Seq(Symbols)
        BY ItemSymbols
      <3> QED BY <3>1, <3>2
    <2> QED BY <2>1
  <1>9. \A k \in 1 .. n : items[k] = ItemText(file.imports[k], file.gap.text)
    BY <1>6
  <1> HIDE DEF items
  <1>10. PICK parts \in [1 .. n -> Seq(Symbols)] : parts = items
    BY <1>8
  <1>11. Grows(g, parts, n)
    BY <1>2, <1>3, <1>9, <1>10 DEF Grows
  <1>12. PICK head \in Seq(Symbols) : head = g[n]
    OBVIOUS
  <1>13. PICK text \in Seq(Symbols) : text = head \o tail /\ text = Text(file)
    <2>1. head \o tail \in Seq(Symbols)
      BY Joins
    <2> QED BY <1>1, <1>3, <1>7, <1>12, <2>1 DEF Text
  <1>14. /\ Len(text) = Len(head) + Len(tail) /\ Len(head) \in Nat /\ Len(tail) \in Nat
         /\ \A i \in 1 .. Len(head) : text[i] = head[i]
         /\ \A i \in 1 .. Len(tail) : text[Len(head) + i] = tail[i]
    <2>1. /\ Len(head \o tail) = Len(head) + Len(tail) /\ Len(head) \in Nat /\ Len(tail) \in Nat
          /\ \A i \in 1 .. Len(head) : (head \o tail)[i] = head[i]
          /\ \A i \in 1 .. Len(tail) : (head \o tail)[Len(head) + i] = tail[i]
      BY Joins
    <2> QED BY <1>13, <2>1
  <1>15. Placed(text, 0, g[n])
    <2>1. 0 + Len(head) <= Len(text) /\ \A i \in 1 .. Len(head) : 0 + i = i
      BY <1>14
    <2>2. \A i \in 1 .. Len(head) : text[0 + i] = head[i]
      BY <1>14, <2>1
    <2> QED BY <1>12, <2>1, <2>2 DEF Placed
  <1>16. GrownAt(text, 0, g, parts, n)
    BY <1>11, <1>15, GrownPlaces
  <1>17. \A k \in 0 .. n : /\ Placed(text, 0, g[k]) /\ 0 + Len(g[k]) \in Nat /\ 0 + Len(g[k]) <= Len(text)
                           /\ Len(g[k]) \in Nat /\ 0 + Len(g[k]) = Len(g[k])
    <2>1. \A k \in 0 .. n : Len(g[k]) \in Nat
      OBVIOUS
    <2> QED BY <1>16, <2>1 DEF GrownAt
  <1>18. \A k \in 1 .. n : /\ Placed(text, 0 + Len(g[k - 1]), parts[k])
                           /\ Len(g[k]) = Len(g[k - 1]) + Len(parts[k])
    BY <1>16 DEF GrownAt
  <1>19. ASSUME NEW k \in 1 .. n
         PROVE  /\ Placed(text, UpTo(file, k - 1), ItemText(file.imports[k], file.gap.text))
                /\ UpTo(file, k) = UpTo(file, k - 1) + Len(ItemText(file.imports[k], file.gap.text))
    <2>1. k - 1 \in 0 .. n
      OBVIOUS
    <2>2. UpTo(file, k - 1) = Len(g[k - 1]) /\ UpTo(file, k) = Len(g[k]) /\ 0 + Len(g[k - 1]) = Len(g[k - 1])
      BY <1>3, <1>17, <2>1 DEF UpTo
    <2> QED BY <1>9, <1>10, <1>18, <2>2
  <1>20. ASSUME NEW k \in 0 .. n PROVE UpTo(file, k) \in Nat /\ UpTo(file, k) <= Len(text)
    <2>1. UpTo(file, k) = Len(g[k])
      BY <1>3 DEF UpTo
    <2>2. Len(g[k]) \in Nat /\ 0 + Len(g[k]) <= Len(text) /\ 0 + Len(g[k]) = Len(g[k])
      BY <1>17
    <2> QED BY <2>1, <2>2
  <1>21. Placed(text, 0, lead) /\ Placed(text, Len(lead), marks) /\ UpTo(file, 0) = Len(lead) + Len(marks)
    <2>1. g[0] = lead \o marks /\ 0 \in 0 .. n
      <3>1. HeaderText(file)[0] = file.lead.text \o Spaced(file.marks, file.gap.text)[Len(file.marks)]
        BY <1>2
      <3>2. g[0] = lead \o marks
        BY <1>3, <1>4, <1>5, <3>1
      <3> QED BY <3>2
    <2>2. Placed(text, 0, lead \o marks)
      BY <1>17, <2>1
    <2>3. Placed(text, 0, lead) /\ Placed(text, 0 + Len(lead), marks) /\ Len(lead \o marks) = Len(lead) + Len(marks)
      BY <2>2, PlacedParts
    <2>4. 0 + Len(lead) = Len(lead)
      OBVIOUS
    <2> QED BY <1>3, <2>1, <2>3, <2>4 DEF UpTo
  <1>22. EndOf(text, UpTo(file, n), tail)
    <2>1. UpTo(file, n) = Len(head)
      BY <1>3, <1>12 DEF UpTo
    <2> QED BY <1>14, <2>1 DEF EndOf
  <1> QED BY <1>1, <1>4, <1>5, <1>7, <1>13, <1>19, <1>20, <1>21, <1>22 DEF FileAt

\* What follows the header, or any import, is no mark and no part of a name.
LEMMA NextToken ==
  ASSUME NEW file, Written(file), NEW k \in 0 .. Len(file.imports),
         ModeAt(Text(file), UpTo(file, k)) = Fresh,
         TokenAfter(CodeOf(Text(file)), UpTo(file, k)) <= Len(CodeOf(Text(file)))
  PROVE  CodeOf(Text(file))[TokenAfter(CodeOf(Text(file)), UpTo(file, k))] \notin {"module", "prelude", Dot, Angle}
  <1>1. file \in FileType /\ FileAt(file) /\ Len(file.imports) \in Nat
    BY FilePlaces, HeaderTextRuns DEF Written
  <1>2. PICK n \in Nat : n = Len(file.imports)
    BY <1>1
  <1>3. PICK text \in Seq(Symbols) : text = Text(file)
    BY <1>1 DEF FileAt
  <1>4. PICK a \in Nat : a = UpTo(file, k)
    BY <1>1 DEF FileAt
  <1>5. CodeOf(text) \in Seq(Symbols) /\ Len(CodeOf(text)) = Len(text)
    BY CodeSymbols
  <1>6. PICK code \in Seq(Symbols) : code = CodeOf(text)
    BY <1>5
  <1>7. ModeAt(text, a) = Fresh /\ TokenAfter(code, a) <= Len(code)
    BY <1>3, <1>4, <1>6
  <1>8. file.gap.text \in Seq(Symbols) /\ Silent(file.gap.text) /\ file.tail.text \in Seq(Symbols)
    BY <1>1, HeaderTextRuns DEF Written
  <1>9. CASE k < n
    <2>1. PICK i \in 1 .. n : i - 1 = k
      <3>1. k + 1 \in 1 .. n /\ (k + 1) - 1 = k
        BY <1>2, <1>9
      <3> QED BY <3>1
    <2>2. PICK item \in ItemType : item = file.imports[i]
      BY <1>1, <1>2, HeaderTextRuns
    <2>3. PICK gap \in Seq(Symbols) : gap = file.gap.text
      BY <1>8
    <2>4. Placed(text, a, ItemText(item, gap))
      BY <1>1, <1>2, <1>3, <1>4, <2>1, <2>2, <2>3 DEF FileAt
    <2>5. i \in DOMAIN file.imports
      BY <1>1, <1>2, HeaderTextRuns
    <2>6. IsWord(item.name) /\ item.name \notin Reserved \cup Blanks /\ Silent(gap)
      BY <1>8, <2>2, <2>3, <2>5 DEF Written, ImportWritten
    <2>7. PICK p \in Nat : NameAt(text, a, item, gap, p)
      BY <1>7, <2>4, <2>6, ImportBegins
    <2>8. TokenAfter(code, a) = a + 1 /\ code[a + 1] \in {"public", "meta", "import"}
      BY <1>6, <2>7 DEF NameAt
    <2>9. code[TokenAfter(code, a)] \notin {"module", "prelude", Dot, Angle}
      BY <2>8 DEF Dot, Angle
    <2> QED BY <1>3, <1>4, <1>6, <2>9
  <1>10. CASE k = n
    <2>1. PICK tail \in Seq(Symbols) : tail = file.tail.text
      BY <1>8
    <2>2. EndOf(text, a, tail)
      BY <1>1, <1>2, <1>3, <1>4, <1>10, <2>1 DEF FileAt
    <2>3. Len(text) = a + Len(tail) /\ \A i \in 1 .. Len(tail) : text[a + i] = tail[i]
      BY <2>2 DEF EndOf
    <2>4. \A i \in 1 .. Len(tail) : CodeOf(text)[a + i] = CodeOf(tail)[i]
      BY <1>7, <2>3, Onward
    <2>5. CodeOf(tail) \in Seq(Symbols) /\ Len(CodeOf(tail)) = Len(tail)
      BY CodeSymbols
    <2>6. PICK rest \in Seq(Symbols) : rest = CodeOf(tail) /\ Len(rest) = Len(tail)
      BY <2>5
    <2>7. EndOf(code, a, rest)
      BY <1>5, <1>6, <2>3, <2>4, <2>6 DEF EndOf
    <2>8. PICK l \in Nat : l = Len(rest)
      OBVIOUS
    <2>9. a + 0 = a /\ 0 <= Len(rest)
      BY <2>8
    <2>10. TokenAfter(code, a + 0) = a + TokenAfter(rest, 0)
      BY <2>7, <2>9, TokenShifts
    <2>11. PICK f \in (0 + 1) .. (Len(rest) + 1) : f = TokenAfter(rest, 0)
      BY <2>9, TokenIs
    <2>12. TokenAfter(code, a) = a + f /\ Len(code) = a + l /\ f \in Nat
      BY <2>7, <2>8, <2>9, <2>10, <2>11 DEF EndOf
    <2>13. f \in 1 .. Len(rest)
      BY <1>7, <2>8, <2>11, <2>12
    <2>14. code[a + f] = rest[f]
      BY <2>7, <2>13 DEF EndOf
    <2>15. rest[f] \notin {"module", "prelude", Dot, Angle}
      <3>1. Follows(file.tail)
        BY DEF Written
      <3>2. f <= Len(rest) => rest[f] \notin {"module", "prelude", Dot, Angle}
        BY <2>1, <2>6, <2>11, <3>1 DEF Follows
      <3>3. f <= Len(rest)
        BY <2>8, <2>13
      <3> QED BY <3>2, <3>3
    <2> QED BY <1>3, <1>4, <1>6, <2>12, <2>14, <2>15
  <1>11. k < n \/ k = n
    BY <1>2
  <1> QED BY <1>9, <1>10, <1>11

\* How the loop stands after the first imports.
NamesTo(file, k) == [j \in 1 .. k |-> file.imports[j].name]
Arrived(file, k) ==
  [at |-> TokenAfter(CodeOf(Text(file)), UpTo(file, k)), names |-> NamesTo(file, k), stage |-> "reading"]

\* One turn of the loop reads one import, or refuses it.
LEMMA ImportTurn ==
  ASSUME NEW file, Written(file), NEW k \in 1 .. Len(file.imports),
         ModeAt(Text(file), UpTo(file, k - 1)) = Fresh
  PROVE  /\ file.imports[k].after.sound =>
              /\ ModeAt(Text(file), UpTo(file, k)) = Fresh /\ UpTo(file, k - 1) < UpTo(file, k)
              /\ Turn(CodeOf(Text(file)), Arrived(file, k - 1)) = Arrived(file, k)
         /\ ~file.imports[k].after.sound =>
              Turn(CodeOf(Text(file)), Arrived(file, k - 1)).stage = "refused"
  <1>1. file \in FileType /\ FileAt(file)
    BY FilePlaces DEF Written
  <1>2. PICK n \in Nat : n = Len(file.imports)
    BY <1>1, HeaderTextRuns
  <1>3. k \in 1 .. n /\ k - 1 \in 0 .. n /\ k \in 0 .. n
    BY <1>2
  <1>4. PICK text \in Seq(Symbols) : text = Text(file)
    BY <1>1 DEF FileAt
  <1>5. PICK a \in Nat : a = UpTo(file, k - 1) /\ a <= Len(text)
    BY <1>1, <1>2, <1>3, <1>4 DEF FileAt
  <1>6. PICK b \in Nat : b = UpTo(file, k) /\ b <= Len(text)
    BY <1>1, <1>2, <1>3, <1>4 DEF FileAt
  <1>7. PICK item \in ItemType : item = file.imports[k]
    BY <1>1, <1>2, <1>3, HeaderTextRuns
  <1>8. PICK gap \in Seq(Symbols) : gap = file.gap.text /\ Silent(gap) /\ gap # << >>
    BY <1>1, HeaderTextRuns DEF Written
  <1>9. ImportWritten(item)
    <2>1. k \in DOMAIN file.imports
      BY <1>1, <1>2, <1>3, HeaderTextRuns
    <2> QED BY <1>7, <2>1 DEF Written
  <1>10. PICK after \in Seq(Symbols) : after = item.after.text
    BY ItemSymbols, <1>8
  <1>11. Placed(text, a, ItemText(item, gap)) /\ b = a + Len(ItemText(item, gap)) /\ ModeAt(text, a) = Fresh
    BY <1>1, <1>2, <1>3, <1>4, <1>5, <1>6, <1>7, <1>8 DEF FileAt
  <1>12. PICK p \in Nat : NameAt(text, a, item, gap, p)
    <2>1. IsWord(item.name) /\ item.name \notin Reserved \cup Blanks
      BY <1>9 DEF ImportWritten
    <2> QED BY <1>8, <1>11, <2>1, ImportBegins
  <1>13. CodeOf(text) \in Seq(Symbols) /\ Len(CodeOf(text)) = Len(text) /\ Len(text) \in Nat
    BY CodeSymbols
  <1>14. PICK code \in Seq(Symbols) : code = CodeOf(text) /\ Len(code) = Len(text)
    BY <1>13
  <1>15. /\ a < p /\ p \in 1 .. Len(code) /\ ModeAt(text, p) = Fresh /\ code[p] = item.name
         /\ Placed(text, p, after \o gap) /\ b = p + Len(after \o gap)
         /\ Is(code, CommandAt(code, TokenAfter(code, a)), "import")
         /\ Past(code, TokenAfter(code, CommandAt(code, TokenAfter(code, a))), "all") = p
    BY <1>10, <1>11, <1>12, <1>14 DEF NameAt
  <1>16. PICK s : s = Arrived(file, k - 1)
    OBVIOUS
  <1>17. s.at = TokenAfter(code, a) /\ s.stage = "reading" /\ s.names = NamesTo(file, k - 1)
         /\ [s EXCEPT !.stage = "refused"].stage = "refused"
    BY <1>4, <1>5, <1>14, <1>16 DEF Arrived
  <1>18. Turn(code, s) = IF Unsupported(code, p) THEN [s EXCEPT !.stage = "refused"]
                         ELSE [at |-> TokenAfter(code, p), names |-> Append(NamesTo(file, k - 1), item.name), stage |-> "reading"]
    BY <1>15, <1>17 DEF Turn
  <1>19. IsWord(code[p]) /\ code[p] \notin Reserved /\ ~(p > Len(code))
    BY <1>9, <1>14, <1>15 DEF ImportWritten
  <1>20. CASE ~item.after.sound
    <2>1. Continues(after)
      BY <1>9, <1>10, <1>20 DEF ImportWritten
    <2>2. GoesOn(code, p)
      BY <1>14, <1>15, <2>1, ImportContinues
    <2>3. Turn(code, s).stage = "refused"
      BY <1>17, <1>18, <2>2 DEF Unsupported
    <2> QED BY <1>4, <1>7, <1>14, <1>16, <1>20, <2>3
  <1>21. CASE item.after.sound
    <2>1. Silent(after)
      BY <1>9, <1>10, <1>21 DEF ImportWritten
    <2>2. ModeAt(text, b) = Fresh /\ p < b /\ TokenAfter(code, p) = TokenAfter(code, b)
      <3>1. /\ ModeAt(text, p + Len(after \o gap)) = Fresh
            /\ p + Len(after \o gap) \in Nat /\ p + Len(after \o gap) <= Len(text)
            /\ p < p + Len(after \o gap)
            /\ TokenAfter(CodeOf(text), p) = TokenAfter(CodeOf(text), p + Len(after \o gap))
        <4>1. ModeAt(text, p) = Fresh /\ Placed(text, p, after \o gap) /\ Silent(gap) /\ gap # << >>
          BY <1>8, <1>15
        <4> QED BY <2>1, <4>1, ImportEnds
      <3> QED BY <1>14, <1>15, <3>1
    <2>3. a < b
      BY <1>15, <2>2
    <2>4. PICK f \in (b + 1) .. (Len(code) + 1) : f = TokenAfter(code, b)
      BY <1>6, <1>14, TokenIs
    <2>5. f # p + 1
      BY <2>2, <2>4
    <2>6. f <= Len(code) => code[f] \notin {Dot, Angle}
      BY <1>2, <1>3, <1>4, <1>6, <1>14, <2>2, <2>4, NextToken
    <2>7. ~GoesOn(code, p)
      BY <2>2, <2>4, <2>5, <2>6 DEF GoesOn
    <2>8. ~Unsupported(code, p)
      BY <1>19, <2>7 DEF Unsupported
    <2>9. Append(NamesTo(file, k - 1), item.name) = NamesTo(file, k)
      <3>1. PICK names : names = NamesTo(file, k - 1)
        OBVIOUS
      <3>2. PICK more : more = NamesTo(file, k)
        OBVIOUS
      <3>3. names = [j \in 1 .. (k - 1) |-> file.imports[j].name]
        BY <3>1 DEF NamesTo
      <3>4. \A j \in 1 .. k : file.imports[j].name \in Words
        <4>1. \A j \in 1 .. k : j \in 1 .. n
          BY <1>3
        <4>2. \A j \in 1 .. k : file.imports[j] \in ItemType
          BY <1>1, <1>2, <4>1, HeaderTextRuns
        <4> QED BY <4>2 DEF ItemType
      <3>5. names \in Seq(Words) /\ Len(names) = k - 1
        <4>1. k - 1 \in Nat /\ \A j \in 1 .. (k - 1) : j \in 1 .. k
          BY <1>3
        <4>2. names \in [1 .. (k - 1) -> Words]
          BY <3>3, <3>4, <4>1
        <4> QED BY <4>1, <4>2
      <3>6. more = [j \in 1 .. k |-> file.imports[j].name]
        BY <3>2 DEF NamesTo
      <3>7. more \in Seq(Words) /\ Len(more) = k
        <4>1. k \in Nat
          BY <1>3
        <4>2. more \in [1 .. k -> Words]
          BY <3>4, <3>6
        <4> QED BY <4>1, <4>2
      <3>8. \A j \in 1 .. k : Append(names, item.name)[j] = more[j]
        BY <1>7, <3>3, <3>5, <3>6
      <3>9. Append(names, item.name) \in Seq(Words) /\ Len(Append(names, item.name)) = k
        BY <3>5 DEF ItemType
      <3>10. Append(names, item.name) = more
        BY <3>7, <3>8, <3>9
      <3> QED BY <3>1, <3>2, <3>10
    <2>10. Turn(code, s) = Arrived(file, k)
      BY <1>4, <1>6, <1>14, <1>18, <2>2, <2>8, <2>9 DEF Arrived
    <2> QED BY <1>4, <1>5, <1>6, <1>7, <1>14, <1>16, <1>21, <2>2, <2>3, <2>10
  <1> QED BY <1>20, <1>21

\* Where the loop starts: after the marks that may open a file.
StartOf(code) == Past(code, Past(code, TokenAfter(code, 0), "module"), "prelude")

\* The lead and the marks are passed over.
LEMMA HeaderStarts ==
  ASSUME NEW file, Written(file), file.lead.sound
  PROVE  /\ ModeAt(Text(file), UpTo(file, 0)) = Fresh
         /\ StartOf(CodeOf(Text(file))) = TokenAfter(CodeOf(Text(file)), UpTo(file, 0))
  <1>1. file \in FileType /\ FileAt(file)
    BY FilePlaces DEF Written
  <1>2. PICK text \in Seq(Symbols) : text = Text(file)
    BY <1>1 DEF FileAt
  <1>3. PICK lead \in Seq(Symbols) : lead = file.lead.text /\ Silent(lead)
    BY <1>1, HeaderTextRuns DEF Written
  <1>4. PICK marks \in Seq(Symbols) : marks = file.marks
    BY <1>1, HeaderTextRuns
  <1>5. PICK gap \in Seq(Symbols) : gap = file.gap.text /\ Silent(gap)
    BY <1>1, HeaderTextRuns DEF Written
  <1>6. 0 \in 0 .. Len(file.imports)
    BY <1>1, HeaderTextRuns
  <1>7. PICK b \in Nat : b = UpTo(file, 0) /\ b <= Len(text)
    BY <1>1, <1>2, <1>6 DEF FileAt
  <1>8. PICK a \in Nat : a = Len(lead)
    OBVIOUS
  <1>9. Placed(text, 0, lead) /\ Placed(text, a, Spaced(marks, gap)[Len(marks)])
        /\ b = a + Len(Spaced(marks, gap)[Len(marks)])
    BY <1>1, <1>2, <1>3, <1>4, <1>5, <1>7, <1>8 DEF FileAt
  <1>10. CodeOf(text) \in Seq(Symbols) /\ Len(CodeOf(text)) = Len(text) /\ Len(text) \in Nat
    BY CodeSymbols
  <1>11. PICK code \in Seq(Symbols) : code = CodeOf(text) /\ Len(code) = Len(text)
    BY <1>10
  <1>12. ModeAt(text, a) = Fresh /\ TokenAfter(code, 0) = TokenAfter(code, a)
    <2>1. ModeAt(text, 0) = Fresh
      BY Lexing
    <2>2. ModeAt(text, 0 + Len(lead)) = Fresh /\ \A i \in 1 .. Len(lead) : CodeOf(text)[0 + i] \in Blanks
      BY <1>3, <1>9, <2>1, SilentPlaced
    <2>3. 0 + Len(lead) = a /\ \A i \in (0 + 1) .. a : i \in 1 .. Len(lead) /\ 0 + i = i
      BY <1>8
    <2>4. \A i \in (0 + 1) .. a : code[i] \in Blanks
      <3>1. ASSUME NEW i \in (0 + 1) .. a PROVE code[i] \in Blanks
        <4>1. i \in 1 .. Len(lead) /\ 0 + i = i
          BY <2>3
        <4>2. CodeOf(text)[0 + i] \in Blanks
          BY <2>2, <4>1
        <4> QED BY <1>11, <4>1, <4>2
      <3> QED BY <3>1
    <2>5. 0 <= a /\ a <= Len(code)
      BY <1>8, <1>9, <1>10, <1>11 DEF Placed
    <2>6. TokenAfter(code, 0) = TokenAfter(code, a)
      BY <2>4, <2>5, TokenSkips
    <2> QED BY <2>2, <2>3, <2>6
  <1>13. marks \in {<<>>, <<"module">>, <<"prelude">>, <<"module", "prelude">>}
    BY <1>1, <1>4 DEF FileType
  <1>14. PlainWords(marks)
    <2>1. \A i \in 1 .. Len(marks) : marks[i] \in {"module", "prelude"}
      <3> DEFINE Fits(s) == \A i \in 1 .. Len(s) : s[i] \in {"module", "prelude"}
      <3>1. Fits(<<>>) /\ Fits(<<"module">>)
        OBVIOUS
      <3>2. Fits(<<"prelude">>)
        OBVIOUS
      <3>3. Fits(<<"module", "prelude">>)
        OBVIOUS
      <3> HIDE DEF Fits
      <3>4. Fits(marks)
        BY <1>13, <3>1, <3>2, <3>3
      <3> QED BY <3>4 DEF Fits
    <2>2. \A w \in {"module", "prelude"} : w \notin {Slash, Dash, Quote} \cup Blanks
      BY DEF Slash, Dash, Quote, Blanks, Space, Newline
    <2> QED BY <2>1, <2>2 DEF PlainWords
  <1>15. ModeAt(text, b) = Fresh /\ ReadTo(code, a, marks, b)
    BY <1>5, <1>9, <1>11, <1>12, <1>14, WordsRead
  <1>16. PICK spot \in [1 .. Len(marks) + 1 -> Nat] :
           /\ ReadAt(code, marks, spot)
           /\ spot[1] = TokenAfter(code, a) /\ spot[Len(marks) + 1] = TokenAfter(code, b)
    BY <1>15 DEF ReadTo
  <1>17. /\ \A i \in 1 .. Len(marks) : /\ spot[i] <= Len(code) /\ code[spot[i]] = marks[i]
                                       /\ TokenAfter(code, spot[i]) = spot[i + 1]
    BY <1>16 DEF ReadAt
  <1>18. ~Is(code, TokenAfter(code, b), "module") /\ ~Is(code, TokenAfter(code, b), "prelude")
    <2>1. TokenAfter(code, b) <= Len(code) => code[TokenAfter(code, b)] \notin {"module", "prelude", Dot, Angle}
      BY <1>2, <1>6, <1>7, <1>11, <1>15, NextToken
    <2> QED BY <2>1 DEF Is
  <1>19. PICK t : t = TokenAfter(code, b)
    OBVIOUS
  <1>20. Past(code, t, "module") = t /\ Past(code, t, "prelude") = t
    BY <1>18, <1>19 DEF Past
  <1>21. Past(code, Past(code, spot[1], "module"), "prelude") = t
    <2>1. CASE marks = <<>>
      <3>1. spot[1] = t
        BY <1>16, <1>19, <2>1
      <3> QED BY <1>20, <3>1
    <2>2. CASE marks = <<"module">>
      <3>1. Len(marks) = 1 /\ marks[1] = "module" /\ 1 \in 1 .. Len(marks)
        BY <2>2
      <3>2. spot[1] <= Len(code) /\ code[spot[1]] = "module" /\ TokenAfter(code, spot[1]) = t
        BY <1>16, <1>17, <1>19, <3>1
      <3>3. Past(code, spot[1], "module") = t
        BY <3>2 DEF Past, Is
      <3> QED BY <1>20, <3>3
    <2>3. CASE marks = <<"prelude">>
      <3>1. Len(marks) = 1 /\ marks[1] = "prelude" /\ 1 \in 1 .. Len(marks)
        BY <2>3
      <3>2. spot[1] <= Len(code) /\ code[spot[1]] = "prelude" /\ TokenAfter(code, spot[1]) = t
        BY <1>16, <1>17, <1>19, <3>1
      <3>3. Past(code, spot[1], "module") = spot[1] /\ Past(code, spot[1], "prelude") = t
        BY <3>2 DEF Past, Is
      <3> QED BY <3>3
    <2>4. CASE marks = <<"module", "prelude">>
      <3>1. Len(marks) = 2 /\ marks[1] = "module" /\ marks[2] = "prelude"
            /\ 1 \in 1 .. Len(marks) /\ 2 \in 1 .. Len(marks)
        BY <2>4
      <3>2. /\ spot[1] <= Len(code) /\ code[spot[1]] = "module" /\ TokenAfter(code, spot[1]) = spot[2]
            /\ spot[2] <= Len(code) /\ code[spot[2]] = "prelude" /\ TokenAfter(code, spot[2]) = t
        BY <1>16, <1>17, <1>19, <3>1
      <3>3. Past(code, spot[1], "module") = spot[2] /\ Past(code, spot[2], "prelude") = t
        BY <3>2 DEF Past, Is
      <3> QED BY <3>3
    <2> QED BY <1>13, <2>1, <2>2, <2>3, <2>4
  <1> QED BY <1>2, <1>7, <1>11, <1>12, <1>15, <1>16, <1>19, <1>21 DEF StartOf

\* The loop starts in the code, or just past it.
LEMMA StartPlace ==
  ASSUME NEW code \in Seq(Symbols) PROVE StartOf(code) \in 1 .. Len(code) + 1
  <1>1. PICK n \in Nat : n = Len(code)
    OBVIOUS
  <1>2. TokenAfter(code, 0) \in 1 .. Len(code) + 1
    <2>1. TokenAfter(code, 0) \in (0 + 1) .. (Len(code) + 1)
      BY <1>1, TokenIs
    <2> QED BY <2>1
  <1>3. PICK k \in 1 .. Len(code) + 1 : k = TokenAfter(code, 0)
    BY <1>2
  <1>4. PICK l \in 1 .. Len(code) + 1 : l = Past(code, k, "module")
    BY PastPlace
  <1>5. Past(code, l, "prelude") \in 1 .. Len(code) + 1
    BY PastPlace
  <1> QED BY <1>3, <1>4, <1>5 DEF StartOf

Sounds(file, k) == \A j \in 1 .. k : file.imports[j].after.sound

\* The loop reads the imports in their order, as long as their names end soundly.
LEMMA ImportsRead ==
  ASSUME NEW file, Written(file), file.lead.sound, NEW k \in 0 .. Len(file.imports), Sounds(file, k)
  PROVE  /\ ModeAt(Text(file), UpTo(file, k)) = Fresh /\ k <= UpTo(file, k)
         /\ HeaderFrom(CodeOf(Text(file)), StartOf(CodeOf(Text(file))))[k] = Arrived(file, k)
  <1>1. file \in FileType /\ FileAt(file)
    BY FilePlaces DEF Written
  <1>2. PICK n \in Nat : n = Len(file.imports)
    BY <1>1, HeaderTextRuns
  <1>3. PICK text \in Seq(Symbols) : text = Text(file)
    BY <1>1 DEF FileAt
  <1>4. CodeOf(text) \in Seq(Symbols) /\ Len(CodeOf(text)) = Len(text) /\ Len(text) \in Nat
    BY CodeSymbols
  <1>5. PICK code \in Seq(Symbols) : code = CodeOf(text) /\ Len(code) = Len(text)
    BY <1>4
  <1>6. PICK s \in 1 .. Len(code) + 1 : s = StartOf(code)
    BY StartPlace
  <1>7. PICK h : h = HeaderFrom(code, s)
    OBVIOUS
  <1>8. h[0] = Opened(s) /\ \A i \in 1 .. Len(code) + 1 : h[i] = Turn(code, h[i - 1])
    BY <1>7, HeaderRuns
  <1> DEFINE S == {i \in Nat : i <= n /\ Sounds(file, i) =>
                     ModeAt(text, UpTo(file, i)) = Fresh /\ i <= UpTo(file, i) /\ h[i] = Arrived(file, i)}
  <1>9. 0 \in S
    <2>1. ModeAt(text, UpTo(file, 0)) = Fresh /\ s = TokenAfter(code, UpTo(file, 0))
      BY <1>3, <1>5, <1>6, HeaderStarts
    <2>2. UpTo(file, 0) \in Nat
      <3>1. 0 \in 0 .. Len(file.imports)
        BY <1>2
      <3> QED BY <1>1, <3>1 DEF FileAt
    <2>3. NamesTo(file, 0) = << >>
      BY DEF NamesTo
    <2>4. h[0] = Arrived(file, 0)
      BY <1>3, <1>5, <1>8, <2>1, <2>3 DEF Arrived, Opened
    <2> QED BY <2>1, <2>2, <2>4
  <1>10. ASSUME NEW i \in Nat, i \in S PROVE i + 1 \in S
    <2>1. SUFFICES ASSUME i + 1 <= n, Sounds(file, i + 1)
                   PROVE  /\ ModeAt(text, UpTo(file, i + 1)) = Fresh /\ i + 1 <= UpTo(file, i + 1)
                          /\ h[i + 1] = Arrived(file, i + 1)
      OBVIOUS
    <2>2. PICK j \in 1 .. Len(file.imports) : j = i + 1 /\ j - 1 = i
      <3>1. i + 1 \in 1 .. n /\ (i + 1) - 1 = i
        BY <2>1
      <3> QED BY <1>2, <3>1
    <2>3. Sounds(file, i) /\ file.imports[j].after.sound
      <3>1. j \in 1 .. i + 1 /\ \A l \in 1 .. i : l \in 1 .. i + 1
        BY <2>2
      <3> QED BY <2>1, <3>1 DEF Sounds
    <2>4. i <= n
      BY <2>1
    <2>5. ModeAt(text, UpTo(file, i)) = Fresh /\ i <= UpTo(file, i) /\ h[i] = Arrived(file, i)
      BY <1>10, <2>3, <2>4
    <2>6. /\ ModeAt(text, UpTo(file, j)) = Fresh /\ UpTo(file, j - 1) < UpTo(file, j)
          /\ Turn(code, Arrived(file, j - 1)) = Arrived(file, j)
      <3>1. ModeAt(Text(file), UpTo(file, j - 1)) = Fresh
        BY <1>3, <2>2, <2>5
      <3>2. file.imports[j].after.sound =>
              /\ ModeAt(Text(file), UpTo(file, j)) = Fresh /\ UpTo(file, j - 1) < UpTo(file, j)
              /\ Turn(CodeOf(Text(file)), Arrived(file, j - 1)) = Arrived(file, j)
        BY <3>1, ImportTurn
      <3> QED BY <1>3, <1>5, <2>3, <3>2
    <2>7. UpTo(file, i) \in Nat /\ UpTo(file, j) \in Nat /\ UpTo(file, i) <= Len(code)
      <3>1. i \in 0 .. Len(file.imports) /\ j \in 0 .. Len(file.imports)
        BY <1>2, <2>2, <2>4
      <3> QED BY <1>1, <1>3, <1>5, <3>1 DEF FileAt
    <2>8. j \in 1 .. Len(code) + 1
      BY <1>4, <1>5, <2>2, <2>5, <2>7
    <2>9. h[j] = Turn(code, h[j - 1])
      BY <1>8, <2>8
    <2>10. h[j] = Arrived(file, j)
      BY <2>2, <2>5, <2>6, <2>9
    <2>11. j <= UpTo(file, j)
      BY <2>2, <2>5, <2>6, <2>7
    <2> QED BY <2>2, <2>6, <2>10, <2>11
  <1>11. Nat \subseteq S
    BY <1>9, <1>10, BySet
  <1>12. k \in Nat /\ k <= n
    BY <1>2
  <1>13. k \in S
    BY <1>11, <1>12
  <1> QED BY <1>3, <1>5, <1>6, <1>7, <1>12, <1>13

\* What the reader answers, from how its loop ends.
LEMMA Answers ==
  ASSUME NEW text, NEW code, code = CodeOf(text), NEW h,
         h = HeaderFrom(code, StartOf(code))[Len(code) + 1]
  PROVE  /\ Unclosed(text) \/ h.stage = "refused" => HeaderOf(text) = Refused
         /\ ~Unclosed(text) /\ h.stage = "read" => HeaderOf(text) = Read(h.names)
  BY DEF HeaderOf, StartOf, CodeOf, Unclosed, Mode, Open

\* A name that does not end soundly has the header refused.
LEMMA UnsoundImport ==
  ASSUME NEW file, Written(file), file.lead.sound, ~Sounds(file, Len(file.imports))
  PROVE  HeaderOf(Text(file)) = Refused
  <1>1. file \in FileType /\ FileAt(file)
    BY FilePlaces DEF Written
  <1>2. PICK n \in Nat : n = Len(file.imports)
    BY <1>1, HeaderTextRuns
  <1>3. PICK k \in 1 .. n : Sounds(file, k - 1) /\ ~file.imports[k].after.sound
    <2>1. SUFFICES ASSUME \A k \in 1 .. n : Sounds(file, k - 1) => file.imports[k].after.sound PROVE FALSE
      OBVIOUS
    <2> DEFINE S == {i \in Nat : i <= n => Sounds(file, i)}
    <2>2. 0 \in S
      BY DEF Sounds
    <2>3. ASSUME NEW i \in Nat, i \in S PROVE i + 1 \in S
      <3>1. SUFFICES ASSUME i + 1 <= n PROVE Sounds(file, i + 1)
        OBVIOUS
      <3>2. i + 1 \in 1 .. n /\ (i + 1) - 1 = i /\ Sounds(file, i)
        BY <2>3, <3>1
      <3>3. file.imports[i + 1].after.sound
        BY <2>1, <3>2
      <3>4. \A j \in 1 .. i + 1 : j \in 1 .. i \/ j = i + 1
        OBVIOUS
      <3> QED BY <3>2, <3>3, <3>4 DEF Sounds
    <2>4. Nat \subseteq S
      BY <2>2, <2>3, BySet
    <2>5. Sounds(file, n)
      BY <2>4
    <2> QED BY <1>2, <2>5
  <1>4. PICK text \in Seq(Symbols) : text = Text(file)
    BY <1>1 DEF FileAt
  <1>5. CodeOf(text) \in Seq(Symbols) /\ Len(CodeOf(text)) = Len(text) /\ Len(text) \in Nat
    BY CodeSymbols
  <1>6. PICK code \in Seq(Symbols) : code = CodeOf(text) /\ Len(code) = Len(text)
    BY <1>5
  <1>7. PICK s \in 1 .. Len(code) + 1 : s = StartOf(code)
    BY StartPlace
  <1>8. PICK j \in 0 .. Len(file.imports) : j = k - 1 /\ k \in 1 .. Len(file.imports)
    BY <1>2
  <1>9. ModeAt(Text(file), UpTo(file, j)) = Fresh /\ j <= UpTo(file, j)
        /\ HeaderFrom(CodeOf(Text(file)), StartOf(CodeOf(Text(file))))[j] = Arrived(file, j)
    BY <1>3, <1>8, ImportsRead
  <1>10. ~file.imports[k].after.sound => Turn(CodeOf(Text(file)), Arrived(file, k - 1)).stage = "refused"
    BY <1>8, <1>9, ImportTurn
  <1>11. k \in 1 .. Len(code) + 1 /\ k \in 0 .. Len(code) + 1
    <2>1. UpTo(file, j) \in Nat /\ UpTo(file, j) <= Len(text)
      BY <1>1, <1>4, <1>8 DEF FileAt
    <2> QED BY <1>5, <1>6, <1>8, <1>9, <2>1
  <1>12. HeaderFrom(code, s)[k] = Turn(code, HeaderFrom(code, s)[k - 1])
    BY <1>11, HeaderRuns
  <1>13. HeaderFrom(code, s)[k].stage = "refused"
    BY <1>3, <1>4, <1>6, <1>7, <1>8, <1>9, <1>10, <1>12
  <1>14. HeaderFrom(code, s)[Len(code) + 1].stage = "refused"
    <2>1. HeaderFrom(code, s)[Len(code) + 1] = HeaderFrom(code, s)[k]
      BY <1>11, <1>13, EndedStays
    <2> QED BY <1>13, <2>1
  <1> QED BY <1>4, <1>6, <1>7, <1>14, Answers

\* What follows the imports ends the header, or has it refused.
LEMMA SoundImports ==
  ASSUME NEW file, Written(file), file.lead.sound, Sounds(file, Len(file.imports))
  PROVE  HeaderOf(Text(file)) =
           IF file.tail.sound THEN Read(NamesTo(file, Len(file.imports))) ELSE Refused
  <1>1. file \in FileType /\ FileAt(file)
    BY FilePlaces DEF Written
  <1>2. PICK n \in Nat : n = Len(file.imports)
    BY <1>1, HeaderTextRuns
  <1>3. PICK text \in Seq(Symbols) : text = Text(file)
    BY <1>1 DEF FileAt
  <1>4. CodeOf(text) \in Seq(Symbols) /\ Len(CodeOf(text)) = Len(text) /\ Len(text) \in Nat
    BY CodeSymbols
  <1>5. PICK code \in Seq(Symbols) : code = CodeOf(text) /\ Len(code) = Len(text)
    BY <1>4
  <1>6. PICK s \in 1 .. Len(code) + 1 : s = StartOf(code)
    BY StartPlace
  <1>7. n \in 0 .. Len(file.imports)
    BY <1>2
  <1>8. PICK a \in Nat : a = UpTo(file, n) /\ a <= Len(code)
    BY <1>1, <1>3, <1>5, <1>7 DEF FileAt
  <1>9. ModeAt(text, a) = Fresh /\ n <= a /\ HeaderFrom(code, s)[n] = Arrived(file, n)
    <2>1. /\ ModeAt(Text(file), UpTo(file, n)) = Fresh /\ n <= UpTo(file, n)
          /\ HeaderFrom(CodeOf(Text(file)), StartOf(CodeOf(Text(file))))[n] = Arrived(file, n)
      BY <1>2, <1>7, ImportsRead
    <2> QED BY <1>3, <1>5, <1>6, <1>8, <2>1
  <1>10. PICK tail \in Seq(Symbols) : tail = file.tail.text
    BY <1>1, HeaderTextRuns
  <1>11. Len(text) = a + Len(tail) /\ \A i \in 1 .. Len(tail) : text[a + i] = tail[i]
    BY <1>1, <1>2, <1>3, <1>8, <1>10 DEF FileAt, EndOf
  <1>12. /\ ModeAt(text, Len(text)) = ModeAt(tail, Len(tail))
         /\ \A i \in 1 .. Len(tail) : CodeOf(text)[a + i] = CodeOf(tail)[i]
    BY <1>9, <1>11, Onward
  <1>13. Unclosed(text) <=> Unclosed(tail)
    BY <1>12 DEF Unclosed, Mode, ModeAt
  <1>14. CodeOf(tail) \in Seq(Symbols) /\ Len(CodeOf(tail)) = Len(tail)
    BY CodeSymbols
  <1>15. PICK rest \in Seq(Symbols) : rest = CodeOf(tail) /\ Len(rest) = Len(tail)
    BY <1>14
  <1>16. EndOf(code, a, rest)
    BY <1>5, <1>11, <1>12, <1>15 DEF EndOf
  <1>17. PICK m \in Nat : m = Len(rest)
    OBVIOUS
  <1>18. PICK f \in 1 .. Len(rest) + 1 : f = TokenAfter(rest, 0) /\ TokenAfter(code, a) = a + f
    <2>1. 0 <= Len(rest) /\ a + 0 = a
      BY <1>17
    <2>2. TokenAfter(rest, 0) \in (0 + 1) .. (Len(rest) + 1)
      BY <2>1, TokenIs
    <2>3. TokenAfter(code, a + 0) = a + TokenAfter(rest, 0)
      BY <1>16, <2>1, TokenShifts
    <2> QED BY <2>1, <2>2, <2>3
  <1>19. Follows(file.tail)
    BY DEF Written
  <1>20. n \in 0 .. Len(code) + 1 /\ n + 1 \in 1 .. Len(code) + 1 /\ n + 1 \in 0 .. Len(code) + 1
         /\ (n + 1) - 1 = n
    BY <1>4, <1>5, <1>8, <1>9
  <1>21. Arrived(file, n).at = a + f /\ Arrived(file, n).stage = "reading"
         /\ Arrived(file, n).names = NamesTo(file, n)
    BY <1>3, <1>5, <1>8, <1>18 DEF Arrived
  <1>22. CASE file.tail.sound
    <2>1. ~Unclosed(tail) /\ ~Is(rest, CommandAt(rest, f), "import")
      BY <1>10, <1>15, <1>18, <1>19, <1>22 DEF Follows
    <2>2. Opened(f) \in Turns(Len(rest)) /\ Opened(f).at = f /\ Opened(f).stage = "reading"
      BY DEF Turns, Opened
    <2>3. HeaderFrom(code, s)[n] \in Turns(Len(code))
      BY <1>20, HeaderRuns
    <2>4. PICK u \in Turns(Len(code)) : u = HeaderFrom(code, s)[n]
      BY <2>3
    <2>5. PICK v \in Turns(Len(rest)) : v = Opened(f)
      BY <2>2
    <2>6. u.at = a + v.at /\ u.stage = v.stage
      BY <1>9, <1>21, <2>2, <2>4, <2>5
    <2>7. Turn(code, u).stage = Turn(rest, v).stage
      BY <1>16, <2>6, TurnShifts
    <2>8. Turn(rest, v).stage = "read"
      <3>1. Turn(rest, v) = [v EXCEPT !.stage = "read"]
        BY <2>1, <2>2, <2>5 DEF Turn
      <3>2. [v EXCEPT !.stage = "read"].stage = "read"
        BY DEF Turns
      <3> QED BY <3>1, <3>2
    <2>9. u.stage = "reading"
      BY <2>2, <2>5, <2>6
    <2>10. Turn(code, u).names = u.names
      <3>1. \/ Turn(code, u) = [u EXCEPT !.stage = "read"]
            \/ Turn(code, u) = [u EXCEPT !.stage = "refused"]
            \/ Turn(code, u).stage = "reading"
        BY <2>9 DEF Turn
      <3>2. [u EXCEPT !.stage = "read"].names = u.names /\ [u EXCEPT !.stage = "refused"].names = u.names
        BY DEF Turns
      <3> QED BY <2>7, <2>8, <3>1, <3>2
    <2>11. HeaderFrom(code, s)[n + 1] = Turn(code, u)
      BY <1>20, <2>4, HeaderRuns
    <2>12. HeaderFrom(code, s)[Len(code) + 1] = HeaderFrom(code, s)[n + 1]
      <3>1. HeaderFrom(code, s)[n + 1].stage # "reading"
        BY <2>7, <2>8, <2>11
      <3> QED BY <1>20, <3>1, EndedStays
    <2>13. HeaderFrom(code, s)[Len(code) + 1].stage = "read"
           /\ HeaderFrom(code, s)[Len(code) + 1].names = NamesTo(file, n)
      BY <1>9, <1>21, <2>4, <2>7, <2>8, <2>10, <2>11, <2>12
    <2>14. HeaderOf(text) = Read(NamesTo(file, n))
      BY <1>5, <1>6, <1>13, <2>1, <2>13, Answers
    <2> QED BY <1>2, <1>3, <1>22, <2>14
  <1>23. CASE ~file.tail.sound
    <2>1. Unclosed(tail) \/ HeaderFrom(rest, f)[Len(rest) + 1].stage = "refused"
      BY <1>10, <1>15, <1>18, <1>19, <1>23 DEF Follows
    <2>2. HeaderFrom(rest, f)[Len(rest) + 1].stage = "refused" => HeaderFrom(code, s)[Len(code) + 1].stage = "refused"
      BY <1>9, <1>16, <1>21, RefusedShifts
    <2>3. HeaderOf(text) = Refused
      BY <1>5, <1>6, <1>13, <2>1, <2>2, Answers
    <2> QED BY <1>3, <1>23, <2>3
  <1> QED BY <1>22, <1>23

\* The reader answers what the author of a well-written file meant.
THEOREM HeaderMeant ==
  ASSUME NEW file, Written(file) PROVE HeaderOf(Text(file)) = Meant(file)
  <1>1. /\ file \in FileType /\ file.gap.sound
        /\ DOMAIN file.imports = 1 .. Len(file.imports)
    BY HeaderTextRuns DEF Written
  <1>2. CASE ~file.lead.sound
    <2>1. Unclosed(Text(file))
      BY <1>2 DEF Written
    <2> QED BY <1>2, <2>1 DEF HeaderOf, Meant, Unclosed, Mode
  <1>3. CASE file.lead.sound /\ ~Sounds(file, Len(file.imports))
    <2>1. HeaderOf(Text(file)) = Refused
      BY <1>3, UnsoundImport
    <2> QED BY <1>1, <1>3, <2>1 DEF Meant, Sounds
  <1>4. CASE file.lead.sound /\ Sounds(file, Len(file.imports))
    <2>1. HeaderOf(Text(file)) = IF file.tail.sound THEN Read(NamesTo(file, Len(file.imports))) ELSE Refused
      BY <1>4, SoundImports
    <2>2. NamesTo(file, Len(file.imports)) = [k \in DOMAIN file.imports |-> file.imports[k].name]
      BY <1>1 DEF NamesTo
    <2>3. \A k \in DOMAIN file.imports : file.imports[k].after.sound
      BY <1>1, <1>4 DEF Sounds
    <2> QED BY <1>1, <1>4, <2>1, <2>2, <2>3 DEF Meant
  <1> QED BY <1>2, <1>3, <1>4

-----------------------------------------------------------------------------
\* The files are there before a gate runs, and the graph is what was read of them.
FilesRead ==
  /\ \A m \in Local : Written(files[m])
  /\ graph = [m \in Local |-> HeaderRead(m)]

\* Every header is read as its author wrote it, through both gates: comments,
\* strings and qualifiers hide no import and invent none, and a file is refused
\* exactly when it holds what the reader does not support (lean_imports.py:5).
THEOREM HeadersRead == SourceSpec => []HeadersExact
  <1>1. SourceInit => FilesRead
    <2>1. SUFFICES ASSUME SourceInit PROVE FilesRead
      OBVIOUS
    <2>2. files \in Files \cup Trees /\ graph = [m \in Local |-> HeaderRead(m)]
      BY <2>1 DEF SourceInit, BoundaryAlone, StratificationAlone, ReadFiles
    <2>3. \A m \in Local : files[m] \in {f[l] : f \in Files \cup Trees, l \in Local}
      BY <2>2
    <2> QED BY <2>2, <2>3, FilesAssumption DEF FilesRead
  <1>2. FilesRead /\ [SourceNext]_<<vars, files, strata>> => FilesRead'
    <2>1. SUFFICES ASSUME FilesRead, [SourceNext]_<<vars, files, strata>> PROVE FilesRead'
      OBVIOUS
    <2>2. files' = files
      BY <2>1 DEF SourceNext
    <2>3. graph' = graph
      <3>1. CASE Next
        BY <3>1 DEF Next, ReadRow, EndManifest, RefuseHeaders, StartWalk, Visit,
                    MeetForbidden, MeetLocal, SkipImport, Accept, boundary
      <3>2. CASE UNCHANGED vars
        BY <3>2 DEF vars
      <3> QED BY <2>1, <3>1, <3>2 DEF SourceNext
    <2> QED BY <2>1, <2>2, <2>3 DEF FilesRead, HeaderRead
  <1>3. FilesRead => HeadersExact
    <2>1. SUFFICES ASSUME FilesRead, NEW m \in Local
                   PROVE  graph[m] = IF Meant(files[m]).ok THEN Meant(files[m]).names ELSE Unreadable
      BY DEF HeadersExact
    <2>2. HeaderOf(Text(files[m])) = Meant(files[m])
      BY <2>1, HeaderMeant DEF FilesRead
    <2>3. graph[m] = HeaderRead(m)
      BY <2>1 DEF FilesRead
    <2> QED BY <2>2, <2>3 DEF HeaderRead
  <1> QED BY <1>1, <1>2, <1>3, PTL DEF SourceSpec
=============================================================================
