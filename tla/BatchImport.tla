---------------------------- MODULE BatchImport ----------------------------
(***************************************************************************)
(* `ldev portal batch import`: one file of items is submitted to the Batch *)
(* Engine, whose task runs on its own, and polled until it ends or the     *)
(* time is up; then the items are looked up by ERC.  The task goes on when *)
(* the command has ended, and a second run submits a second task.          *)
(***************************************************************************)
EXTENDS Integers, FiniteSets, Sequences, TLC

CONSTANTS BatchCases, BatchFaults,   \* bound: requests refused or answers lost
          BatchRuns, BatchPolls      \* bound: runs; polls before the time is up

(* items: sequences of [erc, good]; lookup: whether the class can be read   *)
(* back by ERC; known: whether it is a batch item at all.                   *)
ASSUME BatchAssumption ==
  /\ \A c \in BatchCases :
       /\ DOMAIN c = {"items", "insert", "continue", "check", "lookup", "known", "existing"}
       /\ Len(c.items) \in Nat /\ DOMAIN c.items = 1 .. Len(c.items)
       /\ \A i \in DOMAIN c.items : DOMAIN c.items[i] = {"erc", "good"}
  /\ {BatchFaults, BatchRuns, BatchPolls} \subseteq Nat

VARIABLES batch,       \* the case
          written,     \* run that wrote the item of each ERC, 0 for before
          tasks,       \* of the portal: [at, failed, status] by run
          batchPc,
          answer,      \* the task as it was polled last
          batchPolls, batchRuns, batchFaults

batchVars == <<batch, written, tasks, batchPc, answer, batchPolls, batchRuns, batchFaults>>
Ercs == {batch.items[i].erc : i \in DOMAIN batch.items} \ {""}
Present_ == {e \in Ercs : e \in DOMAIN written}
NoTask == [at |-> 0, failed |-> {}, status |-> "none"]

BatchStart(pc) ==
  /\ batch \in BatchCases
  /\ written = [e \in batch.existing |-> 0] /\ tasks = <<>>
  /\ batchPc = pc /\ answer = NoTask /\ batchPolls = 0 /\ batchRuns = 0 /\ batchFaults = 0
BatchInit == BatchStart("start")
BatchFault == batchFaults < BatchFaults /\ batchFaults' = batchFaults + 1

(* Only a check reads back before it submits: INSERT of what exists fails.  *)
CheckBatch ==
  /\ batchPc = "start" /\ batch.check
  /\ batchPc' = IF batch.insert /\ batch.lookup /\ Present_ # {} THEN "failed" ELSE "checked"
  /\ UNCHANGED <<batch, written, tasks, answer, batchPolls, batchRuns, batchFaults>>

Submitted == Append(tasks, [at |-> 0, failed |-> {}, status |-> "INITIAL"])
SubmitBatch ==
  /\ batchPc = "start" /\ ~batch.check
  /\ batchRuns' = batchRuns + 1 /\ batchPolls' = 0
  /\ IF batch.known THEN tasks' = Submitted /\ batchPc' = "poll"
     ELSE tasks' = Append(tasks, NoTask) /\ batchPc' = "failed"
  /\ UNCHANGED <<batch, written, answer, batchFaults>>
SubmitFails ==      \* refused, or accepted with the answer lost
  /\ batchPc = "start" /\ ~batch.check /\ BatchFault
  /\ batchRuns' = batchRuns + 1 /\ batchPc' = "failed"
  /\ tasks' \in {Append(tasks, NoTask)} \cup IF batch.known THEN {Submitted} ELSE {}
  /\ UNCHANGED <<batch, written, answer, batchPolls>>

(* The task writes item after item; items written before a failure stay.    *)
Task == tasks[batchRuns]
Ended(t) == t.status \in {"COMPLETED", "FAILED"}
ItemFails(i) == \/ ~batch.items[i].good
                \/ batch.insert /\ batch.items[i].erc \in DOMAIN written
TaskStep(r) ==
  /\ r \in DOMAIN tasks /\ tasks[r].status \in {"INITIAL", "STARTED"}
  /\ LET i == tasks[r].at + 1
     IN  IF i > Len(batch.items) THEN tasks' = [tasks EXCEPT ![r].status = "COMPLETED"] /\ UNCHANGED written
         ELSE IF ItemFails(i)
           THEN /\ tasks' = [tasks EXCEPT ![r].at = i,
                                ![r].failed = IF batch.continue THEN @ \cup {i} ELSE @,
                                ![r].status = IF batch.continue THEN "STARTED" ELSE "FAILED"]
                /\ UNCHANGED written
           ELSE /\ tasks' = [tasks EXCEPT ![r].at = i, ![r].status = "STARTED"]
                /\ written' = [e \in DOMAIN written \cup {batch.items[i].erc} |->
                                IF e = batch.items[i].erc THEN r ELSE written[e]]
  /\ UNCHANGED <<batch, batchPc, answer, batchPolls, batchRuns, batchFaults>>

PollBatch ==
  /\ batchPc = "poll" /\ answer' = Task /\ batchPolls' = batchPolls + 1
  /\ batchPc' = IF Ended(Task) THEN "readBack" ELSE IF batchPolls + 1 = BatchPolls THEN "timeout" ELSE "poll"
  /\ UNCHANGED <<batch, written, tasks, batchRuns, batchFaults>>

BugApplied == answer.status = "COMPLETED" /\ (batch.lookup => Ercs \subseteq Present_)
Applied == answer.status # "FAILED" /\ answer.failed = {} /\ (batch.lookup => Ercs \subseteq Present_)
ReadBackBatch ==
  /\ batchPc = "readBack" /\ batchPc' = IF Applied THEN "completed" ELSE "failed"
  /\ UNCHANGED <<batch, written, tasks, answer, batchPolls, batchRuns, batchFaults>>
BatchRequestFails ==
  /\ batchPc \in {"poll", "readBack"} /\ BatchFault /\ batchPc' = "failed"
  /\ UNCHANGED <<batch, written, tasks, answer, batchPolls, batchRuns>>

BatchAgain ==
  /\ batchPc \in {"completed", "failed", "timeout"} /\ ~batch.check /\ batchRuns < BatchRuns
  /\ batchPc' = "start"
  /\ UNCHANGED <<batch, written, tasks, answer, batchPolls, batchRuns, batchFaults>>

BatchStep == CheckBatch \/ SubmitBatch \/ PollBatch \/ ReadBackBatch
BatchNext == \/ BatchStep \/ SubmitFails \/ BatchRequestFails \/ BatchAgain
             \/ \E r \in DOMAIN tasks : TaskStep(r)

-----------------------------------------------------------------------------
(* An import that completed had all of its items written by its own task,   *)
(* which has ended: a later run may only have written them again, and no    *)
(* item is left to be written by it.                                        *)
BatchIsFaithful ==
  /\ batchPc = "completed" => /\ \A i \in DOMAIN batch.items : batch.items[i].good
                              /\ tasks[batchRuns].status = "COMPLETED"
                              /\ \A e \in Ercs : e \in DOMAIN written
                              /\ batch.insert => \A e \in Ercs : written[e] = batchRuns
  /\ batchPc = "checked" /\ batch.insert /\ batch.lookup => Ercs \cap batch.existing = {}
=============================================================================
