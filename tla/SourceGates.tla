----------------------------- MODULE SourceGates -----------------------------
(***************************************************************************)
(* The two gates that read the imports of the source tree: the import      *)
(* boundary and the stratification.  They are separate programs on one     *)
(* tree, each started by itself, and what each walks is what the shared    *)
(* reader of Lean headers makes of the files.                              *)
(***************************************************************************)
EXTENDS ImportBoundary, Stratification, LeanHeader

CONSTANTS
  Files,     \* what the local modules may hold
  Trees      \* the trees that are stratified, among Files

\* What a file means is said by how it is written.
ASSUME FilesAssumption ==
  \A file \in {f[m] : f \in Files \cup Trees, m \in Local} : Written(file)

VARIABLE files

HeaderRead(m) ==
  LET header == HeaderOf(Text(files[m]))
  IN IF header.ok THEN header.names ELSE Unreadable

ReadFiles ==
  /\ graph = [m \in Local |-> HeaderRead(m)]
  /\ headers = graph

strata == <<tables, inventory, pending, walking, stage>>

BoundaryAlone ==
  /\ files \in Files
  /\ ReadFiles
  /\ GateInit
  /\ sources = {} /\ inventory = << >> /\ layer = << >>
  /\ pending = {} /\ worklist = << >> /\ place = 1 /\ seen = {}
  /\ stage = "not run"

StratificationAlone ==
  /\ files \in Trees
  /\ ReadFiles
  /\ StrataInit
  /\ rows = << >> /\ root = NoModule /\ forbidden = {}
  /\ queue = << >> /\ paths = << >> /\ current = NoModule /\ at = 1
  /\ verdict = "not run"

SourceInit == BoundaryAlone \/ StratificationAlone

SourceNext ==
  \/ Next /\ UNCHANGED <<files, strata>>
  \/ StrataNext /\ UNCHANGED <<vars, files>>

\* Both are sequential programs that nothing interrupts.
SourceSpec == SourceInit /\ [][SourceNext]_<<vars, files, strata>> /\ WF_<<vars, files, strata>>(SourceNext)
-----------------------------------------------------------------------------
(* No edge of the graph is lost or invented: every header is read as its    *)
(* author wrote it, whatever comments and strings stand around, and a file  *)
(* is refused exactly when it holds what the reader does not support        *)
(* (lean_imports.py:5, "Unsupported import syntax fails closed instead of   *)
(* silently dropping an edge").                                             *)
HeadersExact ==
  \A m \in Local :
    graph[m] = IF Meant(files[m]).ok THEN Meant(files[m]).names ELSE Unreadable

\* Each gate decides every tree, cyclic ones included.
GatesTerminate == <>(Ended /\ StrataEnded)
=============================================================================
