--------------------------- MODULE Stratification ---------------------------
(***************************************************************************)
(* The stratification gate (scripts/check-stratification.sh): every        *)
(* production module is listed with a stratum, the listing is compared     *)
(* with the files, every import met from any module is compared with the   *)
(* strata of both ends, and no module may be out of reach of the public    *)
(* roots.  A stratum is a letter, a rank of the agents or a rank of the    *)
(* machines.                                                               *)
(***************************************************************************)
EXTENDS Naturals, SequencesExt

CONSTANTS
  Sources,      \* production modules git may list: sets of names
  Tests,        \* the names under Tests
  PublicRoots,  \* sequence of names
  Inventories,  \* the rows scripts/stratification.tsv may hold
  Imported,     \* the names a header may hold
  Unread        \* a header the reader refuses

ASSUME PublicRootsAssumption == PublicRoots \in Seq(ToSet(PublicRoots))

VARIABLES
  sources,    \* production modules that have a file
  headers,    \* what the files import
  inventory,  \* rows still to read
  layer,      \* stratum of every module listed
  pending,    \* modules the walk has still to start from
  worklist, place,   \* the modules to walk, and the next import of the first
  seen,
  stage       \* "inventory", "walk", "reach", or how the gate ended

tables == <<sources, headers, layer>>
walking == <<worklist, place, seen>>

Letter(name) == [group |-> "letter", of |-> name]
Agent(rank) == [group |-> "agent", of |-> rank]
Machine(rank) == [group |-> "machine", of |-> rank]

Letters == <<"U", "F", "G", "S", "B", "E", "M", "R", "X", "P", "K", "D", "Q", "N">>

Strata ==
  {Letter(l) : l \in ToSet(Letters)} \cup {Agent(n) : n \in 0 .. 17} \cup {Machine(n) : n \in 0 .. 19}

Reads ==
  [U |-> {"U"},
   F |-> {"U", "F"},
   G |-> {"U", "G"},
   S |-> {"U", "G", "S"},
   B |-> {"U", "F", "G", "S", "B"},
   E |-> {"U", "G", "S", "B", "E"},
   M |-> {"U", "G", "S", "B", "E", "M"},
   R |-> {"U", "F", "G", "S", "B", "E", "R"},
   X |-> {"U", "G", "S", "R", "X"},
   P |-> {"U", "G", "S", "E", "R", "X", "P"},
   K |-> {"U", "K"},
   D |-> {"U", "G", "S", "E", "R", "X", "P", "K", "D"},
   Q |-> ToSet(Letters) \ {"N"},
   N |-> ToSet(Letters) \ {"F"}]

\* Fault: a machine stratum may read itself.
AllowedWithin(from, to) ==
  CASE to.group = "letter"  -> from.group = "letter" => to.of \in Reads[from.of]
    [] to.group = "agent"   -> \/ from.group = "machine"
                               \/ from.group = "agent" /\ to.of < from.of
    [] to.group = "machine" -> from.group = "machine" /\ to.of <= from.of

\* Agents and machines read every letter, and the ranks below their own; only
\* machines read machines.
Allowed(from, to) ==
  CASE to.group = "letter"  -> from.group = "letter" => to.of \in Reads[from.of]
    [] to.group = "agent"   -> \/ from.group = "machine"
                               \/ from.group = "agent" /\ to.of < from.of
    [] to.group = "machine" -> from.group = "machine" /\ to.of < from.of
-----------------------------------------------------------------------------
StrataInit ==
  /\ sources \in Sources
  /\ inventory \in Inventories
  /\ layer = << >>
  /\ pending = {} /\ worklist = << >> /\ place = 1 /\ seen = {}
  /\ stage = "inventory"

EntryFailure(row) ==
  CASE row.kind = "malformed"      -> "malformed"
    [] row.module \in DOMAIN layer -> "duplicate"
    [] row.stratum \notin Strata   -> "unknown stratum"
    [] ~ row.enforced              -> "not enforced"
    [] OTHER                       -> "none"

ReadEntry ==
  /\ stage = "inventory"
  /\ inventory # << >>
  /\ inventory' = Tail(inventory)
  /\ LET row == Head(inventory) IN
       \/ /\ row.kind = "note"
          /\ UNCHANGED <<layer, stage>>
       \/ /\ row.kind # "note" /\ EntryFailure(row) = "none"
          /\ layer' = [m \in DOMAIN layer \cup {row.module} |->
                          IF m = row.module THEN row.stratum ELSE layer[m]]
          /\ UNCHANGED stage
       \/ /\ row.kind # "note" /\ EntryFailure(row) # "none"
          /\ stage' = EntryFailure(row)
          /\ UNCHANGED layer
  /\ UNCHANGED <<sources, headers, pending, walking>>

FileFailures(m) ==
  IF headers[m] = Unread THEN {"unreadable"}
  ELSE IF ToSet(headers[m]) \cap Tests # {} THEN {"test imported"} ELSE {}

\* Files are read in the order of their names, and the first that fails is reported.
RefuseFiles ==
  /\ stage = "inventory"
  /\ inventory = << >>
  /\ stage' \in UNION {FileFailures(m) : m \in sources}
  /\ UNCHANGED <<tables, inventory, pending, walking>>

Compared ==
  IF sources \ DOMAIN layer # {} THEN "unclassified"
  ELSE IF DOMAIN layer \ sources # {} THEN "without source" ELSE "walk"

StartWalks ==
  /\ stage = "inventory"
  /\ inventory = << >>
  /\ \A m \in sources : FileFailures(m) = {}
  /\ stage' = Compared
  /\ pending' = IF Compared = "walk" THEN DOMAIN layer ELSE {}
  /\ UNCHANGED <<tables, inventory, walking>>
-----------------------------------------------------------------------------
\* The next root is whichever the shell enumerates next.
WalkFrom(root) ==
  /\ stage = "walk"
  /\ worklist = << >>
  /\ root \in pending
  /\ pending' = pending \ {root}
  /\ worklist' = <<root>> /\ seen' = {root}
  /\ UNCHANGED <<tables, inventory, place, stage>>

AtHead(m) == worklist # << >> /\ m = Head(worklist)

Looking(m) == AtHead(m) /\ place <= Len(headers[m])

Looked(m) == headers[m][place]

\* Imports of modules that are not listed are libraries, and passed over.
Forbids(m) == Looked(m) \in DOMAIN layer /\ ~ Allowed(layer[m], layer[Looked(m)])

PassOver(m) ==
  /\ Looking(m)
  /\ Looked(m) \notin DOMAIN layer \ seen
  /\ place' = place + 1
  /\ UNCHANGED <<tables, inventory, pending, worklist, seen, stage>>

MeetListed(m) ==
  /\ Looking(m)
  /\ Looked(m) \in DOMAIN layer \ seen
  /\ worklist' = Append(worklist, Looked(m))
  /\ seen' = seen \cup {Looked(m)}
  /\ place' = place + 1
  /\ UNCHANGED <<tables, inventory, pending, stage>>

LeaveModule(m) ==
  /\ stage \in {"walk", "reach"}
  /\ AtHead(m) /\ place > Len(headers[m])
  /\ worklist' = Tail(worklist) /\ place' = 1
  /\ UNCHANGED <<tables, inventory, pending, seen, stage>>

LookAllowed(m) ==
  /\ stage = "walk"
  /\ PassOver(m) \/ MeetListed(m)
  /\ ~ Forbids(m)

LookForbidden(m) ==
  /\ stage = "walk"
  /\ Looking(m) /\ Forbids(m)
  /\ stage' = "forbidden"
  /\ UNCHANGED <<tables, inventory, pending, walking>>

StartReach ==
  /\ stage = "walk"
  /\ worklist = << >> /\ pending = {}
  /\ IF ToSet(PublicRoots) \subseteq DOMAIN layer
       THEN stage' = "reach" /\ worklist' = PublicRoots /\ seen' = ToSet(PublicRoots)
       ELSE stage' = "missing root" /\ UNCHANGED <<worklist, seen>>
  /\ UNCHANGED <<tables, inventory, pending, place>>

LookReached(m) == stage = "reach" /\ (PassOver(m) \/ MeetListed(m))

EndReach ==
  /\ stage = "reach"
  /\ worklist = << >>
  /\ stage' = IF DOMAIN layer \subseteq seen THEN "ok" ELSE "orphans"
  /\ UNCHANGED <<tables, inventory, pending, walking>>

StrataNext ==
  \/ ReadEntry \/ RefuseFiles \/ StartWalks \/ StartReach \/ EndReach
  \/ \E m \in DOMAIN layer :
       WalkFrom(m) \/ LeaveModule(m) \/ LookAllowed(m) \/ LookForbidden(m) \/ LookReached(m)
-----------------------------------------------------------------------------
StrataEnded == stage \notin {"inventory", "walk", "reach"}

\* The modules that the import chains of m lead to: the least set that holds the
\* production modules m imports and follows their imports.
Holds(m, S) == ToSet(headers[m]) \cap sources \subseteq S
Dependencies(m) ==
  {d \in sources : \A S \in SUBSET sources :
     Holds(m, S) /\ (\A x \in S : Holds(x, S)) => d \in S}

\* What the public roots lead to, themselves included.
PublicTree == UNION {{r} \cup Dependencies(r) : r \in ToSet(PublicRoots) \cap sources}

\* The order of the strata as they are listed (line 48): letters, agents, machines.
Height(s) ==
  CASE s.group = "letter"  -> CHOOSE i \in DOMAIN Letters : Letters[i] = s.of
    [] s.group = "agent"   -> Len(Letters) + 1 + s.of
    [] s.group = "machine" -> Len(Letters) + 19 + s.of

(* An accepted listing is a stratification of the whole tree, although the  *)
(* gate compares only the two ends of an import and its relation is not     *)
(* transitive: no chain of imports climbs, none leads from a rank of the    *)
(* agents or the machines back to that rank ("Machine layers cannot depend  *)
(* on themselves or later machine layers", line 81), no chain ends in a     *)
(* test, and every file is listed and reached from a public root.           *)
AcceptStratified ==
  stage = "ok" =>
    /\ DOMAIN layer = sources
    /\ \A m \in sources, d \in sources :
         d \in Dependencies(m) =>
           \/ Height(layer[d]) < Height(layer[m])
           \/ layer[d] = layer[m] /\ layer[m].group = "letter"
    /\ \A m \in sources : ToSet(headers[m]) \cap Tests = {}
    /\ sources \subseteq PublicTree
-----------------------------------------------------------------------------
\* The gate by itself, on headers as the reader gives them.
HeadersTyped == \A m \in sources : headers[m] = Unread \/ headers[m] \in Seq(Imported)

StrataSpec ==
  /\ StrataInit /\ HeadersTyped
  /\ [][StrataNext]_<<tables, inventory, pending, walking, stage>>

Accepting == stage \in {"walk", "reach", "ok"}

StrataTypeOK ==
  /\ HeadersTyped
  /\ \A m \in DOMAIN layer : layer[m] \in Strata
  /\ stage = "inventory" => worklist = << >>
  /\ worklist = << >> => place = 1
  /\ Accepting =>
       /\ DOMAIN layer = sources
       /\ \A m \in sources : headers[m] \in Seq(Imported) /\ ToSet(headers[m]) \cap Tests = {}
       /\ worklist \in Seq(sources) /\ place \in Nat \ {0}

\* Both ends of every import have been compared, or its module waits for its own
\* walk, or the walk has still to come to it.
Respects(m, i) == headers[m][i] \in sources => Allowed(layer[m], layer[headers[m][i]])

Ahead(m, i) == \E k \in DOMAIN worklist : worklist[k] = m /\ (k = 1 => place <= i)

EndsCompared ==
  /\ stage = "walk" =>
       \A m \in sources \ pending : \A i \in DOMAIN headers[m] : Respects(m, i) \/ Ahead(m, i)
  /\ stage \in {"reach", "ok"} => \A m \in sources : \A i \in DOMAIN headers[m] : Respects(m, i)

\* The last walk meets nothing that the public roots do not lead to.
ReachReal ==
  /\ stage \in {"reach", "ok"} => ToSet(worklist) \subseteq seen /\ seen \subseteq PublicTree
  /\ stage = "ok" => sources \subseteq seen

\* The invariant of the gate's two walks (lines 128 to 164).
StrataInductive == StrataTypeOK /\ EndsCompared /\ ReachReal
=============================================================================
