--------------------------- MODULE DashboardTasks ---------------------------
(***************************************************************************)
(* The dashboard's in-memory task manager (dashboard-tasks.ts), with the   *)
(* admission rule every queueing route goes through                        *)
(* (dashboard-task-commands.ts) and the event streams that watch it        *)
(* (dashboard-task-routes.ts).                                             *)
(*                                                                         *)
(* The program is single-threaded: a synchronous stretch of code is one    *)
(* action.  What interleaves is the promise chain of each task (the run    *)
(* settles, then the finally handler runs), the requests, the 50 ms notify *)
(* timer, and the streams that open and close.                             *)
(***************************************************************************)
EXTENDS Naturals, Sequences

CONSTANTS
  TaskId,       \* the ids randomUUID() can return; each is used once
  Kind,         \* the kinds of task the routes queue
  Worktree,     \* worktree names
  NoWorktree,   \* worktreeName null: the task is not about one worktree
  Request,      \* the (kind, worktreeName) pairs the routes can queue
  MaxTasks,     \* MAX_TASKS
  MaxTaskLogs,  \* MAX_TASK_LOGS
  Stream        \* the event streams a browser may hold open

ASSUME DashboardAssumption ==
  /\ NoWorktree \notin Worktree
  /\ Request \subseteq [kind : Kind, worktreeName : Worktree \union {NoWorktree}]
  /\ MaxTasks \in Nat \ {0}
  /\ MaxTaskLogs \in Nat \ {0}

VARIABLES
  tasks,        \* ids of the listed tasks, newest first
  request,      \* what each task was started for
  status,       \* status of each task object, "none" before it exists
  logs,         \* the log of each task object
  controllers,  \* ids with an entry in the controllers map
  aborted,      \* ids whose AbortSignal has fired
  chain,        \* progress of the promise chain startTask leaves behind
  notifyTimer,  \* whether the debounce timer is armed
  subscribers,  \* the open streams
  view          \* the last list written to each stream

vars == <<tasks, request, status, logs, controllers, aborted, chain, notifyTimer, subscribers, view>>

ActiveStatus   == {"running", "canceling"}
TerminalStatus == {"succeeded", "failed", "canceled"}
Status         == {"none"} \union ActiveStatus \union TerminalStatus
Message        == {"started", "output", "cancel requested", "completed", "canceled", "error"}
Chain          == {"idle", "running", "settled", "done"}
Entry          == [id : TaskId, status : Status, logs : Seq(Message)]
NoRequest      == [kind |-> "none", worktreeName |-> NoWorktree]

-----------------------------------------------------------------------------
(* The list, the logs and the notifications.                               *)

Listed == {tasks[i] : i \in DOMAIN tasks}

Active(t) == status[t] \in ActiveStatus

\* Bug: the list is never cut.
BugUnshiftUncapped(t) == <<t>> \o tasks

\* tasks.unshift(task) followed by tasks.splice(MAX_TASKS)
UnshiftCapped(t) ==
  SubSeq(<<t>> \o tasks, 1, IF Len(tasks) < MaxTasks THEN Len(tasks) + 1 ELSE MaxTasks)

\* task.logs.push(entry) followed by the splice that keeps the newest entries
PushCapped(log, m) ==
  IF Len(log) < MaxTaskLogs THEN Append(log, m) ELSE Append(Tail(log), m)

\* listTasks copies the entries, so what a stream was sent does not change later
Snapshot ==
  [i \in 1 .. Len(tasks) |-> [id |-> tasks[i], status |-> status[tasks[i]], logs |-> logs[tasks[i]]]]

\* Bug: a list of unchanged length is taken for an unchanged list.
BugNotifyOnGrowth ==
  view' = [s \in Stream |-> IF s \in subscribers /\ Len(view[s]) # Len(tasks') THEN Snapshot' ELSE view[s]]

Notify == view' = [s \in Stream |-> IF s \in subscribers THEN Snapshot' ELSE view[s]]

\* Bug: the entry is added without arming the timer.
BugAppendLogSilently(t, m) ==
  /\ logs' = IF t \in Listed THEN [logs EXCEPT ![t] = PushCapped(@, m)] ELSE logs
  /\ UNCHANGED notifyTimer

\* appendLog finds the task by id in the list: an evicted task logs nothing and
\* arms no timer.
AppendLog(t, m) ==
  IF t \in Listed
  THEN logs' = [logs EXCEPT ![t] = PushCapped(@, m)] /\ notifyTimer' = TRUE
  ELSE UNCHANGED <<logs, notifyTimer>>

-----------------------------------------------------------------------------
Init ==
  /\ tasks = <<>>
  /\ request = [t \in TaskId |-> NoRequest]
  /\ status = [t \in TaskId |-> "none"]
  /\ logs = [t \in TaskId |-> <<>>]
  /\ controllers = {}
  /\ aborted = {}
  /\ chain = [t \in TaskId |-> "idle"]
  /\ notifyTimer = FALSE
  /\ subscribers = {}
  /\ view = [s \in Stream |-> <<>>]

FindRunningTask(r) == {t \in Listed : Active(t) /\ request[t] = r}

FindActiveWorktreeTask(w) == {t \in Listed : Active(t) /\ request[t].worktreeName = w}

\* The new task heads the list, the oldest entry beyond MAX_TASKS falls off
\* whatever its status, and 'Task started' is logged before the promise chain
\* exists.  MAX_TASKS >= 1, so the new task is listed when it logs.
StartTask(t, r) ==
  /\ chain[t] = "idle"
  /\ tasks' = UnshiftCapped(t)
  /\ request' = [request EXCEPT ![t] = r]
  /\ status' = [status EXCEPT ![t] = "running"]
  /\ logs' = [logs EXCEPT ![t] = <<"started">>]
  /\ controllers' = controllers \union {t}
  /\ chain' = [chain EXCEPT ![t] = "running"]
  /\ notifyTimer' = TRUE
  /\ Notify
  /\ UNCHANGED <<aborted, subscribers>>

\* Bug: only a task of the same kind stands in the way.
BugQueueTaskOncePerKind(t, r) == FindRunningTask(r) = {} /\ StartTask(t, r)

\* A request that finds the same active task is answered with it (202,
\* duplicate), one that finds its worktree taken with 409; neither changes
\* anything, so only the third outcome is an action.
QueueTaskOnce(t, r) ==
  /\ FindRunningTask(r) = {}
  /\ r.worktreeName # NoWorktree => FindActiveWorktreeTask(r.worktreeName) = {}
  /\ StartTask(t, r)

\* What the run prints between its start and its end.
PrinterWrites(t) ==
  /\ chain[t] = "running"
  /\ AppendLog(t, "output")
  /\ UNCHANGED <<tasks, request, status, controllers, aborted, chain, subscribers, view>>

\* 404 unless the task is listed and active.  The abort and the notification
\* happen on a repeated request too, the log entry does not.
CancelTask(t) ==
  /\ t \in Listed
  /\ Active(t)
  /\ status' = [status EXCEPT ![t] = "canceling"]
  /\ IF status[t] # "canceling" THEN AppendLog(t, "cancel requested") ELSE UNCHANGED <<logs, notifyTimer>>
  /\ aborted' = IF t \in controllers THEN aborted \union {t} ELSE aborted
  /\ UNCHANGED <<tasks, request, controllers, chain, subscribers>>
  /\ Notify

\* Bug: a run that resolves has succeeded.
BugRunResolvesSucceeds(t) ==
  /\ chain[t] = "running"
  /\ chain' = [chain EXCEPT ![t] = "settled"]
  /\ status' = [status EXCEPT ![t] = "succeeded"]
  /\ AppendLog(t, "completed")
  /\ UNCHANGED <<tasks, request, controllers, aborted, subscribers, view>>

\* The run's promise resolves.  A run that does not look at its signal resolves
\* after a cancel request as well.
RunResolves(t) ==
  /\ chain[t] = "running"
  /\ chain' = [chain EXCEPT ![t] = "settled"]
  /\ IF status[t] = "canceling"
     THEN status' = [status EXCEPT ![t] = "canceled"] /\ AppendLog(t, "canceled")
     ELSE status' = [status EXCEPT ![t] = "succeeded"] /\ AppendLog(t, "completed")
  /\ UNCHANGED <<tasks, request, controllers, aborted, subscribers, view>>

\* Bug: a rejection is a failure, aborted or not.
BugRunRejectsFails(t) ==
  /\ chain[t] = "running"
  /\ chain' = [chain EXCEPT ![t] = "settled"]
  /\ status' = [status EXCEPT ![t] = "failed"]
  /\ AppendLog(t, "error")
  /\ UNCHANGED <<tasks, request, controllers, aborted, subscribers, view>>

\* The run's promise rejects, because of the abort or for any other reason.
RunRejects(t) ==
  /\ chain[t] = "running"
  /\ chain' = [chain EXCEPT ![t] = "settled"]
  /\ IF t \in aborted \/ status[t] = "canceling"
     THEN status' = [status EXCEPT ![t] = "canceled"] /\ AppendLog(t, "canceled")
     ELSE status' = [status EXCEPT ![t] = "failed"] /\ AppendLog(t, "error")
  /\ UNCHANGED <<tasks, request, controllers, aborted, subscribers, view>>

\* Bug: the controller stays in the map.
BugChainEndsKeepsController(t) ==
  /\ chain[t] = "settled"
  /\ chain' = [chain EXCEPT ![t] = "done"]
  /\ UNCHANGED <<tasks, request, status, logs, controllers, aborted, notifyTimer, subscribers>>
  /\ Notify

\* The .finally handler, some microtasks later.
ChainEnds(t) ==
  /\ chain[t] = "settled"
  /\ chain' = [chain EXCEPT ![t] = "done"]
  /\ controllers' = controllers \ {t}
  /\ UNCHANGED <<tasks, request, status, logs, aborted, notifyTimer, subscribers>>
  /\ Notify

NotifyTimerFires ==
  /\ notifyTimer
  /\ notifyTimer' = FALSE
  /\ UNCHANGED <<tasks, request, status, logs, controllers, aborted, chain, subscribers>>
  /\ Notify

\* handleTaskStream sends the list and subscribes (which sends it again).
OpenStream(s) ==
  /\ s \notin subscribers
  /\ subscribers' = subscribers \union {s}
  /\ view' = [view EXCEPT ![s] = Snapshot]
  /\ UNCHANGED <<tasks, request, status, logs, controllers, aborted, chain, notifyTimer>>

CloseStream(s) ==
  /\ s \in subscribers
  /\ subscribers' = subscribers \ {s}
  /\ view' = [view EXCEPT ![s] = <<>>]
  /\ UNCHANGED <<tasks, request, status, logs, controllers, aborted, chain, notifyTimer>>

RunSettles(t) == RunResolves(t) \/ RunRejects(t)

Next ==
  \/ \E t \in TaskId, r \in Request : QueueTaskOnce(t, r)
  \/ \E t \in TaskId : PrinterWrites(t)
  \/ \E t \in TaskId : CancelTask(t)
  \/ \E t \in TaskId : RunResolves(t)
  \/ \E t \in TaskId : RunRejects(t)
  \/ \E t \in TaskId : ChainEnds(t)
  \/ NotifyTimerFires
  \/ \E s \in Stream : OpenStream(s)
  \/ \E s \in Stream : CloseStream(s)

Spec == Init /\ [][Next]_vars

\* The event loop runs a settled promise's handlers and an expired timer.  That
\* a run settles at all is an assumption about the operation, kept apart.
LoopFairness ==
  /\ \A t \in TaskId : WF_vars(ChainEnds(t))
  /\ WF_vars(NotifyTimerFires)

RunsTerminate == \A t \in TaskId : WF_vars(RunSettles(t))

FairSpec == Spec /\ LoopFairness /\ RunsTerminate

-----------------------------------------------------------------------------
TypeOK ==
  /\ tasks \in Seq(TaskId)
  /\ Len(tasks) <= MaxTasks
  /\ request \in [TaskId -> Request \union {NoRequest}]
  /\ status \in [TaskId -> Status]
  /\ logs \in [TaskId -> Seq(Message)]
  /\ controllers \subseteq TaskId
  /\ aborted \subseteq TaskId
  /\ chain \in [TaskId -> Chain]
  /\ notifyTimer \in BOOLEAN
  /\ subscribers \subseteq Stream
  /\ view \in [Stream -> Seq(Entry)]

\* What the 409 of queueDashboardTaskOnce is for, as far as it holds: two tasks can only share a worktree
\* when one of them has been evicted from the list while it was still active.
ListedExclusion ==
  \A t, u \in Listed :
    (/\ t # u
     /\ Active(t)
     /\ Active(u)
     /\ request[t].worktreeName # NoWorktree) => request[t].worktreeName # request[u].worktreeName

\* A cancel request that was accepted (202) decides the outcome, whatever the
\* run does afterwards; and no task is reported canceled that nobody canceled.
CancelDecides ==
  \A t \in TaskId : t \in aborted <=> status[t] \in {"canceling", "canceled"}

\* A task the manager would accept a cancel for can still be aborted: its
\* controller outlives its activity, and no controller outlives its chain.
AbortReachesActive ==
  /\ \A t \in TaskId : Active(t) => t \in controllers
  /\ \A t \in controllers : chain[t] \in {"running", "settled"}

\* Every change of the list is either on every open stream already or about to be
\* written by the armed timer: no appendLog, eviction or status change is missed.
NoLostUpdate ==
  notifyTimer \/ \A s \in subscribers : view[s] = Snapshot

\* The strengthening that makes the invariants above inductive: what the promise
\* chain of a task has done agrees with the status it shows, and only tasks that
\* were started are listed.
ChainMatchesStatus ==
  /\ \A t \in TaskId : chain[t] = "idle" <=> status[t] = "none"
  /\ \A t \in TaskId : chain[t] = "running" <=> Active(t)
  /\ \A t \in Listed : chain[t] # "idle"

IndInv ==
  /\ TypeOK
  /\ ChainMatchesStatus
  /\ AbortReachesActive
  /\ CancelDecides
  /\ ListedExclusion
  /\ NoLostUpdate

\* The page shows how each task ended: a task that reached an outcome is on every
\* open stream with that outcome, unless it has left the list or the stream closed.
OutcomeIsShown ==
  \A t \in TaskId, s \in Stream :
    (status[t] \in TerminalStatus /\ s \in subscribers) ~>
      \/ s \notin subscribers
      \/ t \notin Listed
      \/ \E i \in DOMAIN view[s] : view[s][i].id = t /\ view[s][i].status = status[t]

\* The manager implements the life of a task that TaskLifecycle promises.
Lifecycle == INSTANCE TaskLifecycle WITH status <- status

ImplementsLifecycle == Lifecycle!FairSpec
=============================================================================
