------------------------ MODULE DashboardTasksProofs ------------------------
(***************************************************************************)
(* Invariance proofs for DashboardTasks, for every set of tasks, requests  *)
(* and streams and every MAX_TASKS and MAX_TASK_LOGS.                      *)
(***************************************************************************)
EXTENDS DashboardTasks, TLAPS

(***************************************************************************)
(* The list, the logs and the snapshot keep their types.                   *)
(***************************************************************************)

\* Starting a task keeps the list within MAX_TASKS and adds no other task to it.
LEMMA UnshiftCappedKeepsList ==
  ASSUME TypeOK, NEW t \in TaskId
  PROVE  /\ UnshiftCapped(t) \in Seq(TaskId)
         /\ Len(UnshiftCapped(t)) <= MaxTasks
         /\ \A i \in DOMAIN UnshiftCapped(t) : UnshiftCapped(t)[i] \in Listed \union {t}
<1> DEFINE longer == <<t>> \o tasks
           n == IF Len(tasks) < MaxTasks THEN Len(tasks) + 1 ELSE MaxTasks
<1>1. tasks \in Seq(TaskId) /\ Len(tasks) \in Nat /\ Len(tasks) <= MaxTasks /\ MaxTasks \in Nat \ {0}
  BY DashboardAssumption DEF TypeOK
<1>2. longer \in Seq(TaskId) /\ Len(longer) = Len(tasks) + 1
  BY <1>1
<1>3. n \in 1 .. Len(longer) /\ n <= MaxTasks
  BY <1>1, <1>2
<1>4. \A i \in 1 .. Len(longer) : longer[i] \in Listed \union {t}
  BY <1>1 DEF Listed
<1> HIDE DEF longer, n
<1>5. SubSeq(longer, 1, n) \in Seq(TaskId) /\ Len(SubSeq(longer, 1, n)) = n
  BY <1>2, <1>3
<1>6. \A i \in 1 .. n : SubSeq(longer, 1, n)[i] = longer[i]
  BY <1>2, <1>3
<1>7. \A i \in 1 .. n : SubSeq(longer, 1, n)[i] \in Listed \union {t}
  BY <1>2, <1>3, <1>4, <1>6
<1>8. DOMAIN SubSeq(longer, 1, n) = 1 .. n
  BY <1>5
<1> QED
  BY <1>3, <1>5, <1>7, <1>8 DEF UnshiftCapped, longer, n

\* A capped log is a log.
LEMMA PushCappedIsLog ==
  ASSUME NEW log \in Seq(Message), NEW m \in Message
  PROVE  PushCapped(log, m) \in Seq(Message)
<1>1. MaxTaskLogs \in Nat \ {0}
  BY DashboardAssumption
<1>2. CASE Len(log) < MaxTaskLogs
  BY <1>2 DEF PushCapped
<1>3. CASE ~ (Len(log) < MaxTaskLogs)
  <2>1. log # <<>>
    BY <1>1, <1>3
  <2>2. Tail(log) \in Seq(Message)
    BY <2>1
  <2> QED
    BY <1>3, <2>2 DEF PushCapped
<1> QED
  BY <1>2, <1>3

\* What a stream is sent is a list of entries; stated for the state after a step
\* by listing the three variables a snapshot is made of.
LEMMA EntriesFromParts ==
  ASSUME tasks' \in Seq(TaskId), status' \in [TaskId -> Status], logs' \in [TaskId -> Seq(Message)]
  PROVE  Snapshot' \in Seq(Entry)
<1>1. Len(tasks') \in Nat /\ \A i \in 1 .. Len(tasks') : tasks'[i] \in TaskId
  OBVIOUS
<1>2. \A i \in 1 .. Len(tasks') :
         [id |-> tasks'[i], status |-> status'[tasks'[i]], logs |-> logs'[tasks'[i]]] \in Entry
  BY <1>1 DEF Entry
<1> QED
  BY <1>1, <1>2 DEF Snapshot

LEMMA SnapshotIsEntries ==
  ASSUME TypeOK
  PROVE  Snapshot \in Seq(Entry)
<1>1. Len(tasks) \in Nat /\ \A i \in 1 .. Len(tasks) : tasks[i] \in TaskId
  BY DEF TypeOK
<1>2. \A i \in 1 .. Len(tasks) :
         [id |-> tasks[i], status |-> status[tasks[i]], logs |-> logs[tasks[i]]] \in Entry
  BY <1>1 DEF TypeOK, Entry
<1> QED
  BY <1>1, <1>2 DEF Snapshot

\* So is the view after a notification.
LEMMA NotifyKeepsType ==
  ASSUME TypeOK, Snapshot' \in Seq(Entry), Notify
  PROVE  view' \in [Stream -> Seq(Entry)]
BY DEF TypeOK, Notify

\* The log and timer after an appendLog.
LEMMA AppendLogKeepsType ==
  ASSUME TypeOK, NEW t \in TaskId, NEW m \in Message, AppendLog(t, m)
  PROVE  logs' \in [TaskId -> Seq(Message)] /\ notifyTimer' \in BOOLEAN
<1>1. PushCapped(logs[t], m) \in Seq(Message)
  BY PushCappedIsLog DEF TypeOK
<1> QED
  BY <1>1 DEF TypeOK, AppendLog

(***************************************************************************)
(* Type correctness.                                                       *)
(***************************************************************************)

\* Every handler keeps every variable in its type, MAX_TASKS included.
LEMMA TypeStep == TypeOK /\ [Next]_vars => TypeOK'
<1> SUFFICES ASSUME TypeOK, [Next]_vars
             PROVE  TypeOK'
  OBVIOUS
<1> USE DEF Status, ActiveStatus, TerminalStatus, Message, Chain
<1>1. ASSUME NEW t \in TaskId, NEW r \in Request, QueueTaskOnce(t, r)
      PROVE  TypeOK'
  <2>1. /\ tasks' \in Seq(TaskId)
        /\ Len(tasks') <= MaxTasks
    BY <1>1, UnshiftCappedKeepsList DEF QueueTaskOnce, StartTask
  <2>a. <<"started">> \in Seq(Message)
    OBVIOUS
  <2>b. logs' \in [TaskId -> Seq(Message)]
    BY <1>1, <2>a DEF TypeOK, QueueTaskOnce, StartTask
  <2>2. /\ request' \in [TaskId -> Request \union {NoRequest}]
        /\ status' \in [TaskId -> Status]
        /\ controllers' \subseteq TaskId
        /\ aborted' \subseteq TaskId
        /\ chain' \in [TaskId -> Chain]
        /\ notifyTimer' \in BOOLEAN
        /\ subscribers' \subseteq Stream
    BY <1>1 DEF TypeOK, QueueTaskOnce, StartTask
  <2>3. Snapshot' \in Seq(Entry)
    BY <2>1, <2>b, <2>2, EntriesFromParts
  <2>4. view' \in [Stream -> Seq(Entry)]
    BY <1>1, <2>3, NotifyKeepsType DEF QueueTaskOnce, StartTask
  <2> QED
    BY <2>1, <2>b, <2>2, <2>4 DEF TypeOK
<1>2. ASSUME NEW t \in TaskId, PrinterWrites(t)
      PROVE  TypeOK'
  BY <1>2, AppendLogKeepsType DEF TypeOK, PrinterWrites
<1>3. ASSUME NEW t \in TaskId, CancelTask(t)
      PROVE  TypeOK'
  <2>1. logs' \in [TaskId -> Seq(Message)] /\ notifyTimer' \in BOOLEAN
    BY <1>3, AppendLogKeepsType DEF TypeOK, CancelTask
  <2>2. status' \in [TaskId -> Status] /\ aborted' \subseteq TaskId
    BY <1>3 DEF TypeOK, CancelTask
  <2>3. Snapshot' \in Seq(Entry)
    BY <1>3, <2>1, <2>2, EntriesFromParts DEF TypeOK, CancelTask
  <2>4. view' \in [Stream -> Seq(Entry)]
    BY <1>3, <2>3, NotifyKeepsType DEF CancelTask
  <2> QED
    BY <1>3, <2>1, <2>2, <2>4 DEF TypeOK, CancelTask
<1>4. ASSUME NEW t \in TaskId, RunResolves(t)
      PROVE  TypeOK'
  <2>1. logs' \in [TaskId -> Seq(Message)] /\ notifyTimer' \in BOOLEAN
    BY <1>4, AppendLogKeepsType DEF RunResolves
  <2> QED
    BY <1>4, <2>1 DEF TypeOK, RunResolves
<1>5. ASSUME NEW t \in TaskId, RunRejects(t)
      PROVE  TypeOK'
  <2>1. logs' \in [TaskId -> Seq(Message)] /\ notifyTimer' \in BOOLEAN
    BY <1>5, AppendLogKeepsType DEF RunRejects
  <2> QED
    BY <1>5, <2>1 DEF TypeOK, RunRejects
<1>6. ASSUME NEW t \in TaskId, ChainEnds(t)
      PROVE  TypeOK'
  <2>1. Snapshot' \in Seq(Entry)
    BY <1>6, EntriesFromParts DEF TypeOK, ChainEnds
  <2>2. view' \in [Stream -> Seq(Entry)]
    BY <1>6, <2>1, NotifyKeepsType DEF ChainEnds
  <2> QED
    BY <1>6, <2>2 DEF TypeOK, ChainEnds
<1>7. ASSUME NotifyTimerFires
      PROVE  TypeOK'
  <2>1. Snapshot' \in Seq(Entry)
    BY <1>7, EntriesFromParts DEF TypeOK, NotifyTimerFires
  <2>2. view' \in [Stream -> Seq(Entry)]
    BY <1>7, <2>1, NotifyKeepsType DEF NotifyTimerFires
  <2> QED
    BY <1>7, <2>2 DEF TypeOK, NotifyTimerFires
<1>8. ASSUME NEW s \in Stream, OpenStream(s) \/ CloseStream(s)
      PROVE  TypeOK'
  <2>1. Snapshot \in Seq(Entry) /\ <<>> \in Seq(Entry)
    BY SnapshotIsEntries
  <2> QED
    BY <1>8, <2>1 DEF TypeOK, OpenStream, CloseStream
<1>9. CASE UNCHANGED vars
  BY <1>9 DEF TypeOK, vars
<1> QED
  BY <1>1, <1>2, <1>3, <1>4, <1>5, <1>6, <1>7, <1>8, <1>9 DEF Next

\* The manager starts well typed.
LEMMA InitIsTyped ==
  ASSUME Init
  PROVE  TypeOK
<1>1. tasks \in Seq(TaskId) /\ Len(tasks) <= MaxTasks
  BY DashboardAssumption DEF Init
<1>2. <<>> \in Seq(Message) /\ <<>> \in Seq(Entry)
  OBVIOUS
<1>3. logs \in [TaskId -> Seq(Message)] /\ view \in [Stream -> Seq(Entry)]
  BY <1>2 DEF Init
<1>4. /\ request \in [TaskId -> Request \union {NoRequest}]
      /\ status \in [TaskId -> Status]
      /\ chain \in [TaskId -> Chain]
  BY DEF Init, Status, Chain
<1> QED
  BY <1>1, <1>3, <1>4 DEF Init, TypeOK

\* In every reachable state the list fits in MAX_TASKS and every view is a list of
\* entries.
THEOREM TypeCorrect == Spec => []TypeOK
<1>1. Init => TypeOK
  BY InitIsTyped
<1> QED
  BY <1>1, TypeStep, PTL DEF Spec

(***************************************************************************)
(* Cancellation.                                                           *)
(***************************************************************************)

\* The list only changes when a task starts, and then only by that task and by what
\* falls off.
LEMMA ListedAfterStep ==
  ASSUME TypeOK, [Next]_vars
  PROVE  \/ Listed' = Listed
         \/ \E t \in TaskId, r \in Request : QueueTaskOnce(t, r) /\ Listed' \subseteq Listed \union {t}
<1>1. ASSUME NEW t \in TaskId, NEW r \in Request, QueueTaskOnce(t, r)
      PROVE  Listed' \subseteq Listed \union {t}
  <2>1. tasks' = UnshiftCapped(t)
    BY <1>1 DEF QueueTaskOnce, StartTask
  <2>2. \A i \in DOMAIN tasks' : tasks'[i] \in Listed \union {t}
    BY <2>1, UnshiftCappedKeepsList
  <2> QED
    BY <2>2 DEF Listed
<1>2. CASE tasks' = tasks
  BY <1>2 DEF Listed
<1>3. CASE tasks' # tasks
  <2>1. PICK t \in TaskId, r \in Request : QueueTaskOnce(t, r)
    BY <1>3 DEF Next, vars, PrinterWrites, CancelTask, RunResolves, RunRejects, ChainEnds,
                NotifyTimerFires, OpenStream, CloseStream
  <2> QED
    BY <1>1, <2>1
<1> QED
  BY <1>2, <1>3

\* The facts about one task's chain, status, controller and signal that every
\* handler keeps together.
LEMMA ChainStep ==
  ASSUME TypeOK, ChainMatchesStatus, AbortReachesActive, CancelDecides, [Next]_vars
  PROVE  ChainMatchesStatus' /\ AbortReachesActive' /\ CancelDecides'
<1> USE DEF Active, Status, ActiveStatus, TerminalStatus, Chain
<1>2. ASSUME NEW t \in TaskId, NEW r \in Request, QueueTaskOnce(t, r)
      PROVE  ChainMatchesStatus' /\ AbortReachesActive' /\ CancelDecides'
  <2>1. Listed' \subseteq Listed \union {t}
    <3>1. tasks' = UnshiftCapped(t)
      BY <1>2 DEF QueueTaskOnce, StartTask
    <3> QED
      BY <3>1, UnshiftCappedKeepsList DEF Listed
  <2> QED
    BY <1>2, <2>1 DEF TypeOK, ChainMatchesStatus, AbortReachesActive, CancelDecides, QueueTaskOnce, StartTask
<1>3. ASSUME NEW t \in TaskId, PrinterWrites(t)
      PROVE  ChainMatchesStatus' /\ AbortReachesActive' /\ CancelDecides'
  BY <1>3 DEF ChainMatchesStatus, AbortReachesActive, CancelDecides, PrinterWrites, Listed
<1>4. ASSUME NEW t \in TaskId, CancelTask(t)
      PROVE  ChainMatchesStatus' /\ AbortReachesActive' /\ CancelDecides'
  <2>1. Listed' = Listed
    BY <1>4 DEF CancelTask, Listed
  <2>2. t \in controllers
    BY <1>4 DEF CancelTask, AbortReachesActive
  <2> QED
    BY <1>4, <2>1, <2>2 DEF TypeOK, ChainMatchesStatus, AbortReachesActive, CancelDecides, CancelTask
<1>5. ASSUME NEW t \in TaskId, NEW o \in TerminalStatus,
             chain[t] = "running",
             o = "canceled" <=> t \in aborted,
             chain' = [chain EXCEPT ![t] = "settled"],
             status' = [status EXCEPT ![t] = o],
             UNCHANGED <<tasks, controllers, aborted>>
      PROVE  ChainMatchesStatus' /\ AbortReachesActive' /\ CancelDecides'
  <2>1. Listed' = Listed
    BY <1>5 DEF Listed
  <2>2. /\ \A u \in TaskId : chain'[u] = IF u = t THEN "settled" ELSE chain[u]
        /\ \A u \in TaskId : status'[u] = IF u = t THEN o ELSE status[u]
    BY <1>5 DEF TypeOK
  <2>3. ChainMatchesStatus'
    BY <1>5, <2>1, <2>2 DEF TypeOK, ChainMatchesStatus, Listed
  <2>4. AbortReachesActive'
    BY <1>5, <2>2 DEF TypeOK, AbortReachesActive
  <2>5. CancelDecides'
    BY <1>5, <2>2 DEF CancelDecides, ChainMatchesStatus
  <2> QED
    BY <2>3, <2>4, <2>5
<1>6. ASSUME NEW t \in TaskId, RunSettles(t)
      PROVE  ChainMatchesStatus' /\ AbortReachesActive' /\ CancelDecides'
  <2>1. /\ chain[t] = "running"
        /\ chain' = [chain EXCEPT ![t] = "settled"]
        /\ UNCHANGED <<tasks, controllers, aborted>>
    BY <1>6 DEF RunSettles, RunResolves, RunRejects
  <2>2. status[t] = "canceling" <=> t \in aborted
    BY <2>1 DEF ChainMatchesStatus, CancelDecides
  <2>3. \E o \in TerminalStatus : status' = [status EXCEPT ![t] = o] /\ (o = "canceled" <=> t \in aborted)
    <3>1. CASE t \in aborted
      <4>1. status' = [status EXCEPT ![t] = "canceled"]
        BY <1>6, <2>2, <3>1 DEF RunSettles, RunResolves, RunRejects
      <4> QED
        BY <3>1, <4>1
    <3>2. CASE t \notin aborted
      <4>1. \/ status' = [status EXCEPT ![t] = "succeeded"]
            \/ status' = [status EXCEPT ![t] = "failed"]
        BY <1>6, <2>2, <3>2 DEF RunSettles, RunResolves, RunRejects
      <4> QED
        BY <3>2, <4>1
    <3> QED
      BY <3>1, <3>2
  <2> QED
    BY <1>5, <2>1, <2>3
<1>7. ASSUME NEW t \in TaskId, ChainEnds(t)
      PROVE  ChainMatchesStatus' /\ AbortReachesActive' /\ CancelDecides'
  <2>1. Listed' = Listed
    BY <1>7 DEF ChainEnds, Listed
  <2> QED
    BY <1>7, <2>1 DEF TypeOK, ChainMatchesStatus, AbortReachesActive, CancelDecides, ChainEnds
<1>8. ASSUME UNCHANGED <<tasks, status, controllers, aborted, chain>>
      PROVE  ChainMatchesStatus' /\ AbortReachesActive' /\ CancelDecides'
  BY <1>8 DEF ChainMatchesStatus, AbortReachesActive, CancelDecides, Listed
<1>9. CASE \/ NotifyTimerFires
           \/ \E s \in Stream : OpenStream(s) \/ CloseStream(s)
           \/ UNCHANGED vars
  BY <1>8, <1>9 DEF NotifyTimerFires, OpenStream, CloseStream, vars
<1> QED
  BY <1>2, <1>3, <1>4, <1>6, <1>7, <1>9 DEF Next, RunSettles

(***************************************************************************)
(* Exclusion among listed tasks.                                           *)
(***************************************************************************)

\* Only the admission check can break it, and the admission check sees every
\* listed task.
LEMMA ExclusionStep ==
  ASSUME TypeOK, ChainMatchesStatus, ListedExclusion, [Next]_vars
  PROVE  ListedExclusion'
<1> USE DEF Active, ActiveStatus
<1>1. ASSUME NEW t \in TaskId, NEW r \in Request, QueueTaskOnce(t, r), Listed' \subseteq Listed \union {t}
      PROVE  ListedExclusion'
  <2>1. t \notin Listed
    BY <1>1 DEF QueueTaskOnce, StartTask, ChainMatchesStatus
  <2>2. Listed \subseteq TaskId
    BY DEF Listed, TypeOK
  <2>3. /\ \A u \in Listed : status'[u] = status[u] /\ request'[u] = request[u]
        /\ request'[t] = r
    BY <1>1, <2>1, <2>2 DEF QueueTaskOnce, StartTask, TypeOK
  <2>4. \A u \in Listed : Active(u) /\ r.worktreeName # NoWorktree => request[u].worktreeName # r.worktreeName
    BY <1>1 DEF QueueTaskOnce, FindActiveWorktreeTask
  <2>5. SUFFICES ASSUME NEW u \in Listed', NEW v \in Listed', u # v,
                        Active(u)', Active(v)', request'[u].worktreeName # NoWorktree
                 PROVE  request'[u].worktreeName # request'[v].worktreeName
    BY DEF ListedExclusion
  <2>6. CASE u = t
    <3>1. v \in Listed /\ Active(v) /\ request'[v] = request[v]
      BY <1>1, <2>3, <2>5, <2>6
    <3> QED
      BY <2>3, <2>4, <2>5, <2>6, <3>1
  <2>7. CASE v = t
    <3>1. u \in Listed /\ Active(u) /\ request'[u] = request[u]
      BY <1>1, <2>3, <2>5, <2>7
    <3> QED
      BY <2>3, <2>4, <2>5, <2>7, <3>1
  <2>8. CASE u # t /\ v # t
    <3>1. u \in Listed /\ Active(u) /\ v \in Listed /\ Active(v)
      BY <1>1, <2>3, <2>5, <2>8
    <3> QED
      BY <2>3, <2>5, <3>1 DEF ListedExclusion
  <2> QED
    BY <2>6, <2>7, <2>8
<1>2. ASSUME UNCHANGED <<tasks, request>>, \A t \in TaskId : Active(t)' => Active(t)
      PROVE  ListedExclusion'
  <2>1. Listed' = Listed /\ Listed \subseteq TaskId
    BY <1>2 DEF Listed, TypeOK
  <2> QED
    BY <1>2, <2>1 DEF ListedExclusion
<1>3. ASSUME NEW t \in TaskId, CancelTask(t) \/ RunSettles(t)
      PROVE  ListedExclusion'
  <2>1. UNCHANGED <<tasks, request>>
    BY <1>3 DEF CancelTask, RunSettles, RunResolves, RunRejects
  <2>2. Active(t) /\ \A u \in TaskId : u # t => status'[u] = status[u]
    BY <1>3 DEF CancelTask, RunSettles, RunResolves, RunRejects, ChainMatchesStatus, TypeOK
  <2> QED
    BY <1>2, <2>1, <2>2
<1>4. CASE UNCHANGED <<tasks, request, status>>
  BY <1>2, <1>4
<1>5. CASE \E t \in TaskId, r \in Request : QueueTaskOnce(t, r)
  <2>1. PICK t \in TaskId, r \in Request : QueueTaskOnce(t, r)
    BY <1>5
  <2>2. tasks' = UnshiftCapped(t)
    BY <2>1 DEF QueueTaskOnce, StartTask
  <2>3. Listed' \subseteq Listed \union {t}
    BY <2>2, UnshiftCappedKeepsList DEF Listed
  <2> QED
    BY <1>1, <2>1, <2>3
<1> QED
  BY <1>3, <1>4, <1>5 DEF Next, vars, RunSettles, PrinterWrites, ChainEnds, NotifyTimerFires, OpenStream, CloseStream

(***************************************************************************)
(* The update stream.                                                      *)
(***************************************************************************)

\* A step that touches no listed task leaves the snapshot as it is.
LEMMA SnapshotOfListed ==
  ASSUME TypeOK, UNCHANGED tasks,
         \A t \in Listed : status'[t] = status[t] /\ logs'[t] = logs[t]
  PROVE  Snapshot' = Snapshot
<1>1. Len(tasks) \in Nat /\ DOMAIN tasks = 1 .. Len(tasks)
  BY DEF TypeOK
<1>2. \A i \in 1 .. Len(tasks) : status'[tasks[i]] = status[tasks[i]] /\ logs'[tasks[i]] = logs[tasks[i]]
  BY <1>1 DEF Listed
<1> QED
  BY <1>2 DEF Snapshot

\* Every handler either sends the list, arms the timer or changes nothing that is sent.
LEMMA UpdateStep ==
  ASSUME TypeOK, NoLostUpdate, [Next]_vars
  PROVE  NoLostUpdate'
<1>1. ASSUME Notify, UNCHANGED subscribers
      PROVE  NoLostUpdate'
  BY <1>1 DEF Notify, NoLostUpdate, TypeOK
<1>2. ASSUME UNCHANGED <<subscribers, view, notifyTimer>>, Snapshot' = Snapshot
      PROVE  NoLostUpdate'
  BY <1>2 DEF NoLostUpdate
<1>4. ASSUME NEW t \in TaskId, PrinterWrites(t) \/ RunSettles(t)
      PROVE  NoLostUpdate'
  <2>1. CASE t \in Listed
    BY <1>4, <2>1 DEF PrinterWrites, RunSettles, RunResolves, RunRejects, AppendLog, NoLostUpdate
  <2>2. CASE t \notin Listed
    <3>1. UNCHANGED <<tasks, logs, notifyTimer, subscribers, view>>
      BY <1>4, <2>2 DEF PrinterWrites, RunSettles, RunResolves, RunRejects, AppendLog
    <3>2. \A u \in Listed : status'[u] = status[u]
      <4>1. \A u \in TaskId : u # t => status'[u] = status[u]
        BY <1>4 DEF PrinterWrites, RunSettles, RunResolves, RunRejects, TypeOK
      <4>2. Listed \subseteq TaskId
        BY DEF Listed, TypeOK
      <4> QED
        BY <2>2, <4>1, <4>2
    <3>3. Snapshot' = Snapshot
      BY <3>1, <3>2, SnapshotOfListed
    <3> QED
      BY <1>2, <3>1, <3>3
  <2> QED
    BY <2>1, <2>2
<1>5. ASSUME NEW s \in Stream, OpenStream(s) \/ CloseStream(s)
      PROVE  NoLostUpdate'
  <2>1. Snapshot' = Snapshot
    BY <1>5, SnapshotOfListed DEF OpenStream, CloseStream
  <2> QED
    BY <1>5, <2>1 DEF OpenStream, CloseStream, NoLostUpdate, TypeOK
<1>6. CASE UNCHANGED vars
  <2>1. Snapshot' = Snapshot
    BY <1>6, SnapshotOfListed DEF vars
  <2> QED
    BY <1>2, <1>6, <2>1 DEF vars
<1>7. ASSUME NEW t \in TaskId, NEW r \in Request, QueueTaskOnce(t, r)
      PROVE  NoLostUpdate'
  BY <1>7 DEF QueueTaskOnce, StartTask, NoLostUpdate
<1>8. ASSUME NEW t \in TaskId, CancelTask(t) \/ ChainEnds(t)
      PROVE  NoLostUpdate'
  BY <1>1, <1>8 DEF CancelTask, ChainEnds
<1>9. CASE NotifyTimerFires
  BY <1>1, <1>9 DEF NotifyTimerFires
<1> QED
  BY <1>4, <1>5, <1>6, <1>7, <1>8, <1>9 DEF Next, RunSettles

(***************************************************************************)
(* The theorems.                                                           *)
(***************************************************************************)

\* The inductive invariant holds in every reachable state.
THEOREM Inductive == Spec => []IndInv
<1>1. Init => IndInv
  <2> SUFFICES ASSUME Init PROVE IndInv
    OBVIOUS
  <2>1. TypeOK
    BY InitIsTyped
  <2>2. Listed = {}
    BY DEF Init, Listed
  <2>3. ChainMatchesStatus /\ AbortReachesActive /\ CancelDecides
    BY <2>2 DEF Init, ChainMatchesStatus, AbortReachesActive, CancelDecides, Active, ActiveStatus
  <2>4. ListedExclusion /\ NoLostUpdate
    BY <2>2 DEF Init, ListedExclusion, NoLostUpdate
  <2> QED
    BY <2>1, <2>3, <2>4 DEF IndInv
<1>2. IndInv /\ [Next]_vars => IndInv'
  BY TypeStep, ChainStep, ExclusionStep, UpdateStep DEF IndInv
<1> QED
  BY <1>1, <1>2, PTL DEF Spec

\* Two listed active tasks never work on one worktree: queueDashboardTaskOnce.
THEOREM Exclusion == Spec => []ListedExclusion
<1>1. IndInv => ListedExclusion
  BY DEF IndInv
<1> QED
  BY <1>1, Inductive, PTL

\* An accepted cancel decides how the task ends: cancelTask against startTask's
\* handlers.
THEOREM CancelIsFinal == Spec => []CancelDecides
<1>1. IndInv => CancelDecides
  BY DEF IndInv
<1> QED
  BY <1>1, Inductive, PTL

\* A task that still accepts a cancel still has the controller to abort it.
THEOREM AbortIsPossible == Spec => []AbortReachesActive
<1>1. IndInv => AbortReachesActive
  BY DEF IndInv
<1> QED
  BY <1>1, Inductive, PTL

\* No change of the list is missed by notify and scheduleNotify.
THEOREM UpdatesAreDelivered == Spec => []NoLostUpdate
<1>1. IndInv => NoLostUpdate
  BY DEF IndInv
<1> QED
  BY <1>1, Inductive, PTL

\* The manager implements the safety part of TaskLifecycle: every step of the
\* program starts one task, marks one as canceling, ends one, or leaves all as they are.
THEOREM Refinement == Spec => Lifecycle!Spec
<1>1. Init => Lifecycle!Init
  BY DEF Init, Lifecycle!Init
<1>2. IndInv /\ [Next]_vars => [Lifecycle!Next]_status
  <2> SUFFICES ASSUME IndInv, [Next]_vars
               PROVE  Lifecycle!Next \/ UNCHANGED status
    OBVIOUS
  <2> USE DEF IndInv, ActiveStatus, Active
  <2>1. ASSUME NEW t \in TaskId, NEW r \in Request, QueueTaskOnce(t, r)
        PROVE  Lifecycle!Next
    <3>1. Lifecycle!Start(t)
      BY <2>1 DEF QueueTaskOnce, StartTask, ChainMatchesStatus, Lifecycle!Start
    <3> QED
      BY <3>1 DEF Lifecycle!Next
  <2>2. ASSUME NEW t \in TaskId, CancelTask(t)
        PROVE  Lifecycle!Next \/ UNCHANGED status
    <3>1. CASE status[t] = "canceling"
      BY <2>2, <3>1 DEF CancelTask, TypeOK
    <3>2. CASE status[t] = "running"
      <4>1. Lifecycle!RequestCancel(t)
        BY <2>2, <3>2 DEF CancelTask, Lifecycle!RequestCancel
      <4> QED
        BY <4>1 DEF Lifecycle!Next
    <3> QED
      BY <2>2, <3>1, <3>2 DEF CancelTask
  <2>3. ASSUME NEW t \in TaskId, RunSettles(t)
        PROVE  Lifecycle!Next
    <3>1. status[t] = "running" \/ status[t] = "canceling"
      BY <2>3 DEF RunSettles, RunResolves, RunRejects, ChainMatchesStatus
    <3>2. status[t] = "canceling" <=> t \in aborted
      BY <3>1 DEF CancelDecides
    <3>3. Lifecycle!End(t)
      BY <2>3, <3>1, <3>2 DEF RunSettles, RunResolves, RunRejects, Lifecycle!End
    <3> QED
      BY <3>3 DEF Lifecycle!Next
  <2> QED
    BY <2>1, <2>2, <2>3 DEF Next, RunSettles, vars, PrinterWrites, ChainEnds, NotifyTimerFires, OpenStream, CloseStream
<1> QED
  BY <1>1, <1>2, Inductive, PTL DEF Spec, Lifecycle!Spec
=============================================================================
