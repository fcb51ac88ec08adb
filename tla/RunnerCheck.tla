----------------------------- MODULE RunnerCheck ----------------------------
(***************************************************************************)
(* The paired-runner check of scripts/integrated_machine_checks.py (method *)
(* runner) on the paths of an emitted runner run(s, m, qs): it reads the   *)
(* memory m, and for the first request of qs performs one transition and   *)
(* runs the rest on the successor.  A frame is the view, the event, the    *)
(* frame of the rest and, in a scalar slot, the admission.                 *)
(***************************************************************************)
EXTENDS FlowProvenance

RunnerKeys == {"reducedRun", "masterRun"}
ScalarSlots == {3}
Parameter(i) == <<"parameter", i>>

\* path of the analysis, on a frozen value
At(frozen, slot) ==
  IF frozen[1] = "record"
    THEN IF slot \in DOMAIN frozen[5] THEN frozen[5][slot] ELSE Unknown
    ELSE <<"field", IF frozen[1] = "object" THEN frozen[2] ELSE frozen, slot>>

Named(path, name) == SelectSeq(path.calls, LAMBDA c : c.name = name)
One(path, name) == Len(Named(path, name)) = 1
The(path, name) == Named(path, name)[1]
TagOf(frozen) == IF frozen[1] = "record" THEN frozen[2]
                 ELSE IF frozen[1] = "object" THEN frozen[3] ELSE -1

\* The master decides admission on its memory too.
AdmissionOf(key) == IF key = "masterRun" THEN "masterEnabled" ELSE "enabled"
AdmissionArgs(key) ==
  IF key = "masterRun" THEN <<Parameter(1), At(Parameter(2), 1), At(Parameter(3), 0)>>
                       ELSE <<Parameter(1), At(Parameter(3), 0)>>

EmptyFrame(path) ==
  /\ TagOf(path.value) = 0
  /\ Named(path, Entry) = <<>>
  /\ At(path.value, 0) = The(path, "read").result

StepFrameUnpaired(path) ==   \* the results compared, the arguments not
  /\ One(path, "perform") /\ One(path, Entry) /\ One(path, AdmissionOf(body.key))
  /\ TagOf(path.value) = 1
  /\ At(path.value, 0) = The(path, "read").result
  /\ At(path.value, 1) = At(The(path, "perform").result, 1)
  /\ At(path.value, 2) = The(path, Entry).result

StepFrame(path) ==
  /\ One(path, "perform") /\ One(path, Entry) /\ One(path, AdmissionOf(body.key))
  /\ LET transition == The(path, "perform")
         recursion == The(path, Entry)
         admission == The(path, AdmissionOf(body.key)) IN
     /\ transition.args = <<Parameter(1), Parameter(2), At(Parameter(3), 0)>>
     /\ recursion.args = <<Parameter(1), At(transition.result, 0), At(Parameter(3), 1)>>
     /\ admission.args = AdmissionArgs(body.key)
     /\ TagOf(path.value) = 1
     /\ At(path.value, 0) = The(path, "read").result
     /\ At(path.value, 1) = At(transition.result, 1)
     /\ At(path.value, 2) = recursion.result
     /\ \E s \in ScalarSlots : At(path.value, s) = admission.result

PathOk(path) ==
  /\ One(path, "read")
  /\ The(path, "read").args = <<Parameter(2)>>
  /\ IF Named(path, "perform") = <<>> THEN EmptyFrame(path) ELSE StepFrame(path)

RunnerAccepts ==
  /\ body.key \in RunnerKeys
  /\ Accepted
  /\ \A i \in DOMAIN analysis.paths : PathOk(analysis.paths[i])
  /\ \E i \in DOMAIN analysis.paths : Named(analysis.paths[i], "perform") = <<>>
  /\ \E i \in DOMAIN analysis.paths : Named(analysis.paths[i], "perform") # <<>>

-----------------------------------------------------------------------------
Child(tree, slot) == IF tree[1] = "obj" /\ slot \in DOMAIN tree[4] THEN tree[4][slot] ELSE Unknown
Argument(i) == Tree(input.heap, input.args[i])
Ran(name) == SelectSeq(Seen, LAMBDA c : c.name = name)
AdmittedOn(key) ==
  IF key = "masterRun" THEN <<Argument(1), Child(Argument(2), 1), Child(Argument(3), 0)>>
                       ELSE <<Argument(1), Child(Argument(3), 0)>>

(* A runner that passes the check shows what it did: the frame it returns   *)
(* holds the memory it read, and, if there was a request, the event of the  *)
(* only transition performed, on that memory and that request, and the rest *)
(* is the run of the remaining requests on the successor of that same       *)
(* transition; the admission it holds was decided for that request          *)
(* (integrated_machine_checks.py:188-218).                                  *)
FrameFaithful ==
  RunnerAccepts /\ Executed =>
    /\ Len(Ran("read")) = 1
    /\ Ran("read")[1].args = <<Argument(2)>>
    /\ Child(run.value, 0) = Ran("read")[1].result
    /\ IF IsPtr(input.args[3])
         THEN /\ Len(Ran("perform")) = 1 /\ Len(Ran(Entry)) = 1
              /\ Len(Ran(AdmissionOf(body.key))) = 1
              /\ Ran("perform")[1].args = <<Argument(1), Argument(2), Child(Argument(3), 0)>>
              /\ Child(run.value, 1) = Child(Ran("perform")[1].result, 1)
              /\ Ran(Entry)[1].args = <<Argument(1), Child(Ran("perform")[1].result, 0),
                                        Child(Argument(3), 1)>>
              /\ Child(run.value, 2) = Ran(Entry)[1].result
              /\ Ran(AdmissionOf(body.key))[1].args = AdmittedOn(body.key)
              /\ Child(run.value, 3) = Ran(AdmissionOf(body.key))[1].result
         ELSE Ran("perform") = <<>> /\ Ran(Entry) = <<>>
=============================================================================
