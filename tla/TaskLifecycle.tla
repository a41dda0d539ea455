---------------------------- MODULE TaskLifecycle ----------------------------
(***************************************************************************)
(* What the dashboard promises about one task, whatever the list, the      *)
(* streams and the timers do: it runs once, a cancel request is remembered *)
(* until the run ends, the outcome follows from it and never changes.      *)
(***************************************************************************)
CONSTANT TaskId

VARIABLE status

TypeOK == status \in [TaskId -> {"none", "running", "canceling", "succeeded", "failed", "canceled"}]

Init == status = [t \in TaskId |-> "none"]

Start(t) == status[t] = "none" /\ status' = [status EXCEPT ![t] = "running"]

RequestCancel(t) == status[t] = "running" /\ status' = [status EXCEPT ![t] = "canceling"]

End(t) ==
  \/ status[t] = "running" /\ \E o \in {"succeeded", "failed"} : status' = [status EXCEPT ![t] = o]
  \/ status[t] = "canceling" /\ status' = [status EXCEPT ![t] = "canceled"]

Next == \E t \in TaskId : Start(t) \/ RequestCancel(t) \/ End(t)

Spec == Init /\ [][Next]_status

\* A started task ends.
FairSpec == Spec /\ \A t \in TaskId : WF_status(End(t))
=============================================================================
