----------------------------- MODULE FolderWalk -----------------------------
(***************************************************************************)
(* The statistics of a site's folders: a walk over the folder tree in      *)
(* which every folder is asked for through one limiter shared by the whole *)
(* walk, and its children are then walked by a pool of its own             *)
(* (mapConcurrent).  A folder waits for its children after it has given    *)
(* its place in the limiter back.                                          *)
(*                                                                         *)
(* A request that fails rejects the pool of its folder and those above it; *)
(* the other workers of these pools go on until the process exits.         *)
(***************************************************************************)
EXTENDS Integers, FiniteSets, Sequences, FiniteSetsExt, SequencesExt

CONSTANTS Walks,        \* trees: [children : folder -> sequence, contents : folder -> Nat]
          WalkRoot,     \* the folder above the roots
          Limit,        \* JOURNAL_FOLDER_CONCURRENCY, of the limiter and of every pool
          WalkFaults    \* bound: requests that fail

\* Every folder below the root is listed once, in the folder above it.
IsTree(kids, folders) ==
  /\ WalkRoot \in folders /\ kids \in [folders -> Seq(folders \ {WalkRoot})]
  /\ \A m, n \in folders : \A i \in DOMAIN kids[m], j \in DOMAIN kids[n] :
        kids[m][i] = kids[n][j] => m = n /\ i = j
  /\ \A S \in SUBSET folders :
        WalkRoot \in S /\ (\A n \in S : \A i \in DOMAIN kids[n] : kids[n][i] \in S) => S = folders

ASSUME WalkAssumption ==
  /\ Limit \in Nat \ {0} /\ WalkFaults \in Nat
  /\ \A w \in Walks : IsFiniteSet(DOMAIN w.children) /\ IsTree(w.children, DOMAIN w.children)

VARIABLES walk,         \* the tree
          state,        \* what the walk of each folder is doing
          queue,        \* folders waiting in the limiter, in order
          next,         \* index of the next child of each folder's pool
          stats,        \* the result of each folder that is done
          walkFaults
walkVars == <<walk, state, queue, next, stats, walkFaults>>

Nodes == DOMAIN walk.children
Kids(n) == walk.children[n]
Pool(n) == IF Len(Kids(n)) < Limit THEN Len(Kids(n)) ELSE Limit
ActiveNodes == {n \in Nodes : state[n] = "active"}
WalkOver == state[WalkRoot] \in {"done", "failed"}

(* runLimited: a task that finds a free place starts at once, the others    *)
(* wait in a queue; runNext starts the first of them when a place is free.  *)
Enqueue(s, ns) == [n \in DOMAIN s |-> IF n \in ns THEN "queued" ELSE s[n]]
BugRunNextHoldsPlace(s, q, more) ==
  LET held  == Cardinality({n \in DOMAIN s : s[n] \in {"active", "children"}})
      all   == q \o more
      start == SubSeq(all, 1, IF held + Len(all) <= Limit THEN Len(all) ELSE Limit - held)
  IN  /\ state' = [n \in DOMAIN s |-> IF n \in Range(start) THEN "active" ELSE s[n]]
      /\ queue' = SubSeq(all, Len(start) + 1, Len(all))
RunNext(s, q, more) ==
  LET free  == Limit - Cardinality({n \in DOMAIN s : s[n] = "active"})
      all   == q \o more
      start == SubSeq(all, 1, IF Len(all) < free THEN Len(all) ELSE free)
  IN  /\ state' = [n \in DOMAIN s |-> IF n \in Range(start) THEN "active" ELSE s[n]]
      /\ queue' = SubSeq(all, Len(start) + 1, Len(all))

WalkStart(root) ==
  /\ walk \in Walks
  /\ state = [n \in Nodes |-> IF n = WalkRoot THEN root ELSE "waiting"]
  /\ queue = <<>> /\ next = [n \in Nodes |-> 1] /\ walkFaults = 0
  /\ stats = [n \in Nodes |-> <<>>]
WalkInit == WalkStart("active")

(* The folder's own request is answered: its place goes to the queue, and   *)
(* the workers of its pool take the first children.                         *)
FolderAnswered(n) ==
  /\ ~WalkOver /\ state[n] = "active"
  /\ LET first == SubSeq(Kids(n), 1, Pool(n))
     IN  /\ RunNext(Enqueue([state EXCEPT ![n] = "children"], Range(first)), queue, first)
         /\ next' = [next EXCEPT ![n] = Pool(n) + 1]
  /\ UNCHANGED <<walk, stats, walkFaults>>

FolderFails(n) ==
  /\ ~WalkOver /\ state[n] = "active" /\ walkFaults < WalkFaults
  /\ walkFaults' = walkFaults + 1
  /\ RunNext([state EXCEPT ![n] = "failed"], queue, <<>>)
  /\ UNCHANGED <<walk, next, stats>>

(* buildJournalFolderStats, once every child has its own result.            *)
StatsOf(n) ==
  LET kids == Range(Kids(n)) IN
  [contents  |-> walk.contents[n] + MapThenSumSet(LAMBDA c : stats[c].contents, kids),
   folders   |-> Cardinality(kids) + MapThenSumSet(LAMBDA c : stats[c].folders, kids),
   listItems |-> walk.contents[n] + Cardinality(kids)
                 + MapThenSumSet(LAMBDA c : stats[c].listItems, kids),
   ids       |-> {n} \cup UNION {stats[c].ids : c \in kids}]

(* A worker whose child is done takes the next one, also after another       *)
(* worker has failed; the worker of a failed child is gone.                 *)
Occupied(p) == {c \in Range(Kids(p)) : state[c] \notin {"waiting", "done"}}
BugWorkerTakesNext(p) ==
  /\ ~WalkOver /\ state[p] \in {"children", "failed"}
  /\ next[p] \in 2 .. Len(Kids(p)) - 1 /\ Cardinality(Occupied(p)) < Pool(p)
  /\ RunNext(Enqueue(state, {Kids(p)[next[p]]}), queue, <<Kids(p)[next[p]]>>)
  /\ next' = [next EXCEPT ![p] = @ + 1]
  /\ UNCHANGED <<walk, stats, walkFaults>>
WorkerTakesNext(p) ==
  /\ ~WalkOver /\ state[p] \in {"children", "failed"}
  /\ next[p] \in 2 .. Len(Kids(p)) /\ Cardinality(Occupied(p)) < Pool(p)
  /\ RunNext(Enqueue(state, {Kids(p)[next[p]]}), queue, <<Kids(p)[next[p]]>>)
  /\ next' = [next EXCEPT ![p] = @ + 1]
  /\ UNCHANGED <<walk, stats, walkFaults>>

FolderDone(n) ==
  /\ ~WalkOver /\ state[n] = "children"
  /\ \A c \in Range(Kids(n)) : state[c] = "done"
  /\ state' = [state EXCEPT ![n] = "done"]
  /\ stats' = [stats EXCEPT ![n] = StatsOf(n)]
  /\ UNCHANGED <<walk, queue, next, walkFaults>>

PoolRejects(n) ==
  /\ ~WalkOver /\ state[n] = "children"
  /\ \E c \in Range(Kids(n)) : state[c] = "failed"
  /\ state' = [state EXCEPT ![n] = "failed"]
  /\ UNCHANGED <<walk, queue, next, stats, walkFaults>>

WalkStep(n) == FolderAnswered(n) \/ WorkerTakesNext(n) \/ FolderDone(n) \/ PoolRejects(n)
WalkNext == \E n \in Nodes : WalkStep(n) \/ FolderFails(n)

AllFolders == UNION {DOMAIN w.children : w \in Walks}
WalkFairness == \A n \in AllFolders : WF_walkVars(n \in Nodes /\ WalkStep(n))
WalkSpec == WalkInit /\ [][WalkNext]_walkVars /\ WalkFairness

-----------------------------------------------------------------------------
(* The pools of nested folders multiply, the limiter is what bounds their   *)
(* requests; and no folder waits in it while there is a place.              *)
LimitIsKept ==
  /\ Cardinality(ActiveNodes) <= Limit
  /\ queue # <<>> => Cardinality(ActiveNodes) = Limit

(* A walk that ends well has been in every folder.                          *)
EveryFolderSeen == state[WalkRoot] = "done" => stats[WalkRoot].ids = Nodes

(* It counted every folder and every content below each folder once.        *)
WalkIsComplete ==
  /\ LimitIsKept /\ EveryFolderSeen
  /\ state[WalkRoot] = "done" =>
       /\ stats[WalkRoot].folders = Cardinality(Nodes) - 1
       /\ stats[WalkRoot].contents = MapThenSumSet(LAMBDA n : walk.contents[n], Nodes)
       /\ stats[WalkRoot].listItems = stats[WalkRoot].contents + stats[WalkRoot].folders

(* Such a walk always ends, with a result or an error: no folder keeps a    *)
(* place in the limiter while it waits for children that need one.          *)
WalkCompletes == []WalkIsComplete /\ <>WalkOver
=============================================================================
