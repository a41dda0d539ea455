--------------------------- MODULE WorktreeState ---------------------------
(***************************************************************************)
(* The runtime state of worktrees: runs of `worktree setup --with-env`,    *)
(* `start` inside a worktree, `worktree clean`, `worktree gc --apply` and  *)
(* `worktree btrfs-refresh-base`, interleaved step by step with the main   *)
(* environment, with their failures and with a kill between two steps      *)
(* (src/features/worktree, src/features/env).                              *)
(*                                                                         *)
(* What a storage holds is abstracted to where it came from: nothing, an   *)
(* empty directory, half a copy, a version of main's data, or what an      *)
(* environment of the worktree's n-th incarnation wrote.  Main's data has  *)
(* one version over all its storages, so a clone is one snapshot exactly   *)
(* when its storages hold the same version.                                *)
(***************************************************************************)
EXTENDS Naturals, Sequences, FiniteSets

CONSTANTS
  Proc,         \* concurrent ldev processes (or dashboard tasks)
  Worktree,
  Subdirs,      \* WORKTREE_STATE_SUBDIRS and the deploy cache, in copy order
  Sites,        \* the machines: which storages are Docker volumes, and is there a Btrfs base
  Handoffs,     \* the <<stop-main-for-clone, restart-main-after-clone>> flags given to setup
  Ops,          \* the commands that are run
  Faults,       \* the steps that may fail: subset of FaultNames
  UserActions,  \* what the user does meanwhile: subset of UserNames
  OneRunPerWorktree, \* the dashboard's admission rule
  MaxLaunches,  \* bound: commands in a behaviour
  MaxVersion    \* bound: writes to main's data

FaultNames == {"crash", "git", "copy", "remove", "docker", "start"}
UserNames == {"startMain", "stopMain", "stopEnv", "edit"}
OpNames == {"setup", "start", "clean", "gc", "refresh"}

Storage == {Subdirs[i] : i \in DOMAIN Subdirs}

ASSUME ConstantsAssumption ==
  /\ Worktree # {} /\ Subdirs \in Seq(Storage) /\ Subdirs # <<>>
  /\ \A i, j \in DOMAIN Subdirs : Subdirs[i] = Subdirs[j] => i = j
  /\ Sites \subseteq [btrfs : BOOLEAN, volumes : SUBSET Storage]
  /\ \A m \in Sites : m.volumes # Storage   \* the deploy cache is always a bind mount
  /\ OneRunPerWorktree \in BOOLEAN
  /\ Handoffs \subseteq (BOOLEAN \X BOOLEAN)
  /\ \A h \in Handoffs : h[2] => h[1]   \* restart requires stop, worktree-setup.ts:67
  /\ Ops \subseteq OpNames /\ Faults \subseteq FaultNames /\ UserActions \subseteq UserNames
  /\ MaxLaunches \in Nat /\ MaxVersion \in Nat

VARIABLES
  site,                     \* the machine; it never changes
  mainRunning, mainVersion, \* the main environment and the version of its data
  base,                     \* BTRFS_BASE: [Storage -> Content]
  registered,               \* git's list of linked worktrees
  dirs,                     \* the worktree directories that exist
  gen,                      \* how many times each worktree was added
  data,                     \* [Worktree -> [Storage -> Content]], under ENV_DATA_ROOT or in volumes
  envRunning,               \* the worktrees whose containers exist
  booted,                   \* what each incarnation's first boot found, {} before it
  dirty,                    \* the worktrees with uncommitted changes
  proc,                     \* the running commands
  launches

vars == <<site, mainRunning, mainVersion, base, registered, dirs, gen, data, envRunning, booted, dirty, proc, launches>>
main == <<mainRunning, mainVersion, base>>
tree == <<registered, dirs, gen, dirty>>
runtime == <<data, envRunning, booted>>
rest == <<site, launches>>

Btrfs == site.btrfs
Volumes == site.volumes

Content == [kind : {"absent", "empty", "torn", "main", "own"}, v : 0..(MaxVersion + MaxLaunches)]
Absent == [kind |-> "absent", v |-> 0]
Empty == [kind |-> "empty", v |-> 0]
Torn == [kind |-> "torn", v |-> 0]
FromMain(v) == [kind |-> "main", v |-> v]
Own(g) == [kind |-> "own", v |-> g]

Idle == [pc |-> "idle", op |-> "none", w |-> CHOOSE w \in Worktree : TRUE, stop |-> FALSE,
         restart |-> FALSE, next |-> 1, seen |-> Absent, known |-> FALSE, stopped |-> FALSE,
         tried |-> FALSE, todo |-> {}, outcome |-> "none"]

Init ==
  /\ site \in Sites
  /\ mainRunning \in BOOLEAN /\ mainVersion = 0
  /\ base = [s \in Storage |-> FromMain(0)]
  /\ registered = {} /\ dirs = {} /\ dirty = {} /\ envRunning = {}
  /\ gen = [w \in Worktree |-> 0]
  /\ data = [w \in Worktree |-> [s \in Storage |-> Absent]]
  /\ booted = [w \in Worktree |-> {}]
  /\ proc = [p \in Proc |-> Idle]
  /\ launches = 0

W(p) == proc[p].w
At(p, pc) == proc[p].pc = pc
InOp(p, ops) == proc[p].op \in ops
Goto(p, pc) == proc' = [proc EXCEPT ![p].pc = pc]
Ended(r, why) == [r EXCEPT !.pc = "idle", !.outcome = why, !.next = 1, !.seen = Absent,
                           !.known = FALSE, !.todo = {}]
End(p, why) == proc' = [proc EXCEPT ![p] = Ended(@, why)]
Fallible(fault) == IF fault \in Faults THEN BOOLEAN ELSE {TRUE}
HasState(w) == \E s \in Storage : data[w][s] # Absent
Current(p) == Subdirs[proc[p].next]

-----------------------------------------------------------------------------
(* A command starts.  The dashboard refuses a second active task of the same worktree. *)
Launch(p, op, w, handoff) ==
  /\ At(p, "idle") /\ launches < MaxLaunches
  /\ OneRunPerWorktree /\ op \notin {"gc", "refresh"} =>
       \A q \in Proc : ~(~At(q, "idle") /\ ~InOp(q, {"gc", "refresh"}) /\ W(q) = w)
  /\ proc' = [proc EXCEPT ![p] =
       [Idle EXCEPT !.op = op, !.w = w, !.stop = handoff[1], !.restart = handoff[2],
                    !.pc = CASE op = "setup" -> "preflight"
                             [] op = "start" -> "enter"
                             [] op = "clean" -> "list"
                             [] op = "gc" -> "scan"
                             [] op = "refresh" -> "empty"]]
  /\ launches' = launches + 1
  /\ UNCHANGED <<site, main, tree, runtime>>

LaunchAny(p) ==
  \/ \E w \in Worktree, h \in Handoffs : "setup" \in Ops /\ Launch(p, "setup", w, h)
  \/ \E w \in Worktree, op \in Ops \cap {"start", "clean"} : Launch(p, op, w, <<FALSE, FALSE>>)
  \/ \E op \in Ops \cap {"gc", "refresh"} : Launch(p, op, Idle.w, <<FALSE, FALSE>>)

BugSafeMainEnvCloneNever == TRUE

(* assertSafeMainEnvClone refuses to clone a running main without Btrfs. *)
SafeMainEnvClone == Btrfs \/ ~mainRunning

(* setup: the first check, before anything is created; stopMainForClone turns a *)
(* refusal into an automatic stop.                                               *)
Preflight(p) ==
  /\ At(p, "preflight")
  /\ IF SafeMainEnvClone THEN Goto(p, "list")
     ELSE IF proc[p].stop THEN Goto(p, "stopMain")
     ELSE End(p, "mainRunning")
  /\ UNCHANGED <<main, tree, runtime, rest>>

(* runEnvStop on main: compose stop, then down; either may fail, and then setup throws. *)
StopMain(p) ==
  /\ At(p, "stopMain")
  /\ \E ok \in Fallible("docker") :
       IF ok THEN /\ mainRunning' = FALSE
                  /\ proc' = [proc EXCEPT ![p].pc = "list", ![p].stopped = TRUE]
             ELSE /\ mainRunning' \in {mainRunning, FALSE}
                  /\ End(p, "error")
  /\ UNCHANGED <<mainVersion, base, tree, runtime, rest>>

(* setup and clean both read git's list once, and decide on that reading. *)
ListWorktrees(p) ==
  /\ At(p, "list")
  /\ proc' = [proc EXCEPT ![p].known = W(p) \in registered, ![p].pc = "target"]
  /\ UNCHANGED <<main, tree, runtime, rest>>

(* setup: an existing directory is reused if git knows it. *)
ResolveTarget(p) ==
  /\ At(p, "target") /\ InOp(p, {"setup"})
  /\ IF W(p) \notin dirs THEN Goto(p, "add")
     ELSE IF proc[p].known THEN Goto(p, "env")
     ELSE End(p, "pathConflict")
  /\ UNCHANGED <<main, tree, runtime, rest>>

(* `git worktree add` refuses a path that exists or is still registered, and may fail *)
(* for reasons of its own (a branch checked out elsewhere, an unknown base).          *)
AddGitWorktree(p) ==
  LET w == W(p) IN
  /\ At(p, "add")
  /\ \E ok \in Fallible("git") :
       IF ok /\ w \notin dirs \cup registered
       THEN /\ registered' = registered \cup {w} /\ dirs' = dirs \cup {w}
            /\ gen' = [gen EXCEPT ![w] = @ + 1]
            /\ booted' = [booted EXCEPT ![w] = {}]
            /\ dirty' = dirty \ {w}
            /\ Goto(p, "env")
       ELSE /\ End(p, "git")
            /\ UNCHANGED <<tree, booted>>
  /\ UNCHANGED <<main, data, envRunning, rest>>

-----------------------------------------------------------------------------
(* runWorktreeEnv, reached from setup and from every start inside a worktree. *)

(* runEnvStart needs the worktree's configuration, hence its directory. *)
EnterWorktree(p) ==
  /\ At(p, "enter")
  /\ IF W(p) \in dirs THEN Goto(p, "env") ELSE End(p, "error")
  /\ UNCHANGED <<main, tree, runtime, rest>>

BugEnvFailsWithoutFinally(p) == End(p, "envError")

(* A failed preparation reaches setup's finally block; a start just fails. *)
EnvFails(p) ==
  IF InOp(p, {"setup"})
  THEN proc' = [proc EXCEPT ![p].pc = "restart", ![p].outcome = "envError", ![p].seen = Absent]
  ELSE End(p, "envError")

(* ensureDir(target.dockerDir) creates the directory when it is missing; any storage *)
(* that exists counts as the worktree's state, and then nothing is cloned.           *)
WorktreeEnvHasState(p) ==
  /\ At(p, "env")
  /\ dirs' = dirs \cup {W(p)}
  /\ proc' = [proc EXCEPT ![p].next = 1, ![p].pc = IF HasState(W(p)) THEN "layout" ELSE "guard"]
  /\ UNCHANGED <<main, registered, gen, dirty, runtime, rest>>

(* cloneInitialWorktreeState checks main a second time, right before it copies. *)
AssertSafeMainEnvClone(p) ==
  /\ At(p, "guard")
  /\ IF SafeMainEnvClone THEN Goto(p, "copy") ELSE EnvFails(p)
  /\ UNCHANGED <<main, tree, runtime, rest>>

BugSourceLive(s) == FromMain(mainVersion)

(* Bind storages are cloned from the Btrfs base when there is one, volumes always from main. *)
Source(s) == IF Btrfs /\ s \notin Volumes THEN base[s] ELSE FromMain(mainVersion)

BugNextIndexRunsOn(p) == proc[p].next + 1
NextIndex(p) == IF proc[p].next = Len(Subdirs) THEN 1 ELSE proc[p].next + 1
AfterCopy(p) == IF proc[p].next = Len(Subdirs) THEN "layout" ELSE "copy"

(* Writing under the worktree creates the directories above it, also when a clean has *)
(* just removed them.                                                                 *)
Within(w, s) == IF Btrfs \/ s \in Volumes THEN dirs ELSE dirs \cup {w}

(* cloneDataSubdir clears the target and starts copying; a missing source is skipped. *)
BeginCopy(p) ==
  LET s == Current(p) IN
  /\ At(p, "copy")
  /\ IF Source(s) = Absent
     THEN /\ proc' = [proc EXCEPT ![p].pc = AfterCopy(p), ![p].next = NextIndex(p)]
          /\ UNCHANGED <<data, dirs>>
     ELSE /\ data' = [data EXCEPT ![W(p)][s] = Torn]
          /\ dirs' = Within(W(p), s)
          /\ proc' = [proc EXCEPT ![p].pc = "copying", ![p].seen = Source(s)]
  /\ UNCHANGED <<main, registered, gen, dirty, envRunning, booted, rest>>

(* The copy is whole when its source did not change meanwhile. *)
EndCopy(p) ==
  LET s == Current(p) IN
  /\ At(p, "copying")
  /\ \E ok \in Fallible("copy") :
       IF ok THEN /\ data' = [data EXCEPT ![W(p)][s] = IF Source(s) = proc[p].seen THEN proc[p].seen ELSE Torn]
                  /\ proc' = [proc EXCEPT ![p].pc = AfterCopy(p), ![p].seen = Absent, ![p].next = NextIndex(p)]
                  /\ dirs' = Within(W(p), s)
             ELSE EnvFails(p) /\ UNCHANGED <<data, dirs>>
  /\ UNCHANGED <<main, registered, gen, dirty, envRunning, booted, rest>>

(* ensureLocalEnvDataLayout creates every bind directory that is missing. *)
LaidOut(w) == [s \in Storage |-> IF s \notin Volumes /\ data[w][s] = Absent THEN Empty ELSE data[w][s]]

EnsureLayout(p) ==
  /\ At(p, "layout")
  /\ data' = [data EXCEPT ![W(p)] = LaidOut(W(p))]
  /\ dirs' = dirs \cup {W(p)}
  /\ IF InOp(p, {"setup"})
     THEN proc' = [proc EXCEPT ![p].pc = "restart", ![p].outcome = "ok"]
     ELSE Goto(p, "up")
  /\ UNCHANGED <<main, registered, gen, dirty, envRunning, booted, rest>>

(* setup's finally block: whatever the preparation did, main is started again. *)
RestartMain(p) ==
  /\ At(p, "restart")
  /\ IF proc[p].stopped /\ proc[p].restart
     THEN /\ \E ok \in Fallible("start") : mainRunning' = (ok \/ mainRunning)
          /\ proc' = [proc EXCEPT ![p] = [Ended(@, @.outcome) EXCEPT !.tried = TRUE]]
     ELSE /\ End(p, proc[p].outcome)
          /\ UNCHANGED mainRunning
  /\ UNCHANGED <<mainVersion, base, tree, runtime, rest>>

(* docker compose up: the environment boots on whatever its storages hold, and owns it. *)
ComposeUp(p) ==
  LET w == W(p) IN
  /\ At(p, "up")
  /\ \E ok \in Fallible("start") :
       IF ok /\ w \in dirs
       THEN /\ envRunning' = envRunning \cup {w}
            /\ booted' = [booted EXCEPT ![w] = IF @ = {} THEN {data[w]} ELSE @]
            /\ data' = [data EXCEPT ![w] = [s \in Storage |-> Own(gen[w])]]
            /\ End(p, "ok")
       ELSE End(p, "error") /\ UNCHANGED runtime
  /\ UNCHANGED <<main, tree, rest>>

-----------------------------------------------------------------------------
(* runWorktreeClean *)

Cleaning(p) == InOp(p, {"clean", "gc"})

BugCleanableIfKnown(p) == proc[p].known \/ Btrfs

(* The only refusal: nothing is registered, no directory, and no Btrfs root to look in *)
(* (isOwnedBtrfsWorktreeDataRoot only compares paths, so with Btrfs it always holds).  *)
Cleanable(p) == proc[p].known \/ W(p) \in dirs \/ Btrfs

CleanTarget(p) ==
  /\ At(p, "target") /\ Cleaning(p)
  /\ IF Cleanable(p) THEN Goto(p, "docker") ELSE End(p, "notRegistered")
  /\ UNCHANGED <<main, tree, runtime, rest>>

(* compose down, then docker rm -f: neither result is looked at. *)
CleanContainers(p) ==
  /\ At(p, "docker")
  /\ \E ok \in Fallible("docker") : envRunning' = IF ok THEN envRunning \ {W(p)} ELSE envRunning
  /\ Goto(p, "volumes")
  /\ UNCHANGED <<main, tree, data, booted, rest>>

(* docker volume rm, one by one: a volume in use, or a failing docker, is only counted later. *)
CleanVolumes(p) ==
  LET w == W(p) IN
  /\ At(p, "volumes")
  /\ \E removed \in IF w \in envRunning THEN {{}}
                    ELSE IF "docker" \in Faults THEN SUBSET Volumes ELSE {Volumes} :
       data' = [data EXCEPT ![w] = [s \in Storage |-> IF s \in removed THEN Absent ELSE @[s]]]
  /\ Goto(p, "files")
  /\ UNCHANGED <<main, tree, envRunning, booted, rest>>

BugWithoutBindsKept(w, lost) == data
WithoutBinds(w, lost) == [data EXCEPT ![w] = [s \in Storage |-> IF s \in lost \ Volumes THEN Absent ELSE @[s]]]

(* The directory goes, then git prunes every registration without one; clean throws when *)
(* either is still there.  A removal that fails leaves part of the directory, with or    *)
(* without the .git file that keeps its registration alive.                              *)
RemoveDir(p, removed) ==
  LET w == W(p) IN
  /\ dirs' = IF removed THEN dirs \ {w} ELSE dirs
  /\ dirty' = IF removed THEN dirty \ {w} ELSE dirty
  /\ \E lost \in IF Btrfs THEN {{}} ELSE IF removed THEN {Storage} ELSE SUBSET Storage :
       data' = WithoutBinds(w, lost)

Prune(p, pruned) ==
  IF pruned THEN registered' \in {registered \cap dirs', (registered \cap dirs') \ {W(p)}}
            ELSE UNCHANGED registered

CleanFiles(p) ==
  LET w == W(p) IN
  /\ At(p, "files")
  /\ \E ok \in Fallible("remove") : RemoveDir(p, ok \/ w \notin dirs)
  /\ \E ok \in Fallible("git") : Prune(p, proc[p].known /\ ok)
  /\ IF proc[p].known /\ w \in registered' THEN End(p, "gitStale")
     ELSE IF w \in dirs' THEN End(p, "filesRemain")
     ELSE Goto(p, "roots")
  /\ UNCHANGED <<main, gen, envRunning, booted, rest>>

(* The data root under BTRFS_ENVS is outside the worktree and is removed on its own. *)
CleanDataRoots(p) ==
  /\ At(p, "roots")
  /\ IF ~Btrfs THEN Goto(p, "check") /\ UNCHANGED data
     ELSE \/ data' = WithoutBinds(W(p), Storage) /\ Goto(p, "check")
          \/ /\ "remove" \in Faults
             /\ \E lost \in SUBSET Storage : data' = WithoutBinds(W(p), lost)
             /\ End(p, "rootsRemain")
  /\ UNCHANGED <<main, tree, envRunning, booted, rest>>

(* The last step counts the volumes that are still there. *)
VolumesRemain(w) == \E s \in Volumes : data[w][s] # Absent

CleanCheck(p) ==
  /\ At(p, "check")
  /\ IF VolumesRemain(W(p)) THEN End(p, "volumesRemain")
     ELSE IF InOp(p, {"gc"}) THEN Goto(p, "gcNext")
     ELSE End(p, "ok")
  /\ UNCHANGED <<main, tree, runtime, rest>>

-----------------------------------------------------------------------------
(* runWorktreeGc: the candidates are picked first (registered, on disk, not running, *)
(* old, no uncommitted changes), then cleaned one after the other.                   *)
GcScan(p) ==
  /\ At(p, "scan")
  /\ \E old \in SUBSET Worktree :
       proc' = [proc EXCEPT ![p].pc = "gcNext", ![p].todo = ((old \cap registered \cap dirs) \ envRunning) \ dirty]
  /\ UNCHANGED <<main, tree, runtime, rest>>

GcNext(p) ==
  /\ At(p, "gcNext")
  /\ IF proc[p].todo = {} THEN End(p, "ok")
     ELSE \E w \in proc[p].todo :
            proc' = [proc EXCEPT ![p].w = w, ![p].todo = @ \ {w}, ![p].pc = "list"]
  /\ UNCHANGED <<main, tree, runtime, rest>>

(* refreshBtrfsBaseFromMain empties each subdirectory of the base and copies main's into *)
(* it, whether main runs or not.                                                         *)
EmptyBase(p) ==
  /\ At(p, "empty")
  /\ IF Btrfs
     THEN /\ base' = [base EXCEPT ![Current(p)] = Torn]
          /\ proc' = [proc EXCEPT ![p].pc = "fill", ![p].seen = FromMain(mainVersion)]
     ELSE End(p, "error") /\ UNCHANGED base
  /\ UNCHANGED <<mainRunning, mainVersion, tree, runtime, rest>>

FillBase(p) ==
  LET last == proc[p].next = Len(Subdirs) IN
  /\ At(p, "fill")
  /\ base' = [base EXCEPT ![Current(p)] = IF proc[p].seen = FromMain(mainVersion) THEN proc[p].seen ELSE Torn]
  /\ IF last THEN End(p, "ok")
     ELSE proc' = [proc EXCEPT ![p].pc = "empty", ![p].next = @ + 1, ![p].seen = Absent]
  /\ UNCHANGED <<mainRunning, mainVersion, tree, runtime, rest>>

-----------------------------------------------------------------------------
(* A command is killed between two steps: no finally block runs. *)
Kill(p) ==
  /\ "crash" \in Faults /\ ~At(p, "idle")
  /\ End(p, "killed")
  /\ UNCHANGED <<main, tree, runtime, rest>>

(* Main writes while it runs. *)
MainWrites ==
  /\ mainRunning /\ mainVersion < MaxVersion
  /\ mainVersion' = mainVersion + 1
  /\ UNCHANGED <<mainRunning, base, tree, runtime, proc, rest>>

UserStartsMain ==
  /\ "startMain" \in UserActions /\ ~mainRunning /\ mainRunning' = TRUE
  /\ UNCHANGED <<mainVersion, base, tree, runtime, proc, rest>>

UserStopsMain ==
  /\ "stopMain" \in UserActions /\ mainRunning /\ mainRunning' = FALSE
  /\ UNCHANGED <<mainVersion, base, tree, runtime, proc, rest>>

UserStopsEnv(w) ==
  /\ "stopEnv" \in UserActions /\ w \in envRunning /\ envRunning' = envRunning \ {w}
  /\ UNCHANGED <<main, tree, data, booted, proc, rest>>

UserEdits(w) ==
  /\ "edit" \in UserActions /\ w \in dirs /\ dirty' = dirty \cup {w}
  /\ UNCHANGED <<main, registered, dirs, gen, runtime, proc, rest>>

SetupStep(p) == Preflight(p) \/ StopMain(p) \/ ListWorktrees(p) \/ ResolveTarget(p) \/ AddGitWorktree(p) \/ RestartMain(p)
EnvStep(p) == EnterWorktree(p) \/ WorktreeEnvHasState(p) \/ AssertSafeMainEnvClone(p) \/ BeginCopy(p)
              \/ EndCopy(p) \/ EnsureLayout(p) \/ ComposeUp(p)
CleanStep(p) == CleanTarget(p) \/ CleanContainers(p) \/ CleanVolumes(p) \/ CleanFiles(p)
                \/ CleanDataRoots(p) \/ CleanCheck(p) \/ GcScan(p) \/ GcNext(p)
BaseStep(p) == EmptyBase(p) \/ FillBase(p)
UserStep == MainWrites \/ UserStartsMain \/ UserStopsMain \/ \E w \in Worktree : UserStopsEnv(w) \/ UserEdits(w)

Next ==
  \/ \E p \in Proc : LaunchAny(p) \/ SetupStep(p) \/ EnvStep(p) \/ CleanStep(p) \/ BaseStep(p) \/ Kill(p)
  \/ UserStep

Spec == Init /\ [][Next]_vars

-----------------------------------------------------------------------------
PCs == {"idle", "preflight", "stopMain", "list", "target", "add", "restart", "enter", "env", "guard",
        "copy", "copying", "layout", "up", "docker", "volumes", "files", "roots", "check", "scan",
        "gcNext", "empty", "fill"}
Outcomes == {"none", "ok", "mainRunning", "error", "pathConflict", "git", "envError", "notRegistered",
             "filesRemain", "gitStale", "rootsRemain", "volumesRemain", "killed"}

(* Every variable keeps its type; a storage never holds a version that main has not written. *)
TypeOK ==
  /\ site \in Sites
  /\ mainRunning \in BOOLEAN /\ mainVersion \in 0..MaxVersion
  /\ base \in [Storage -> Content]
  /\ registered \subseteq Worktree /\ dirs \subseteq Worktree /\ dirty \subseteq Worktree
  /\ gen \in [Worktree -> 0..MaxLaunches]
  /\ data \in [Worktree -> [Storage -> Content]]
  /\ envRunning \subseteq Worktree
  /\ \A w \in Worktree : booted[w] \subseteq [Storage -> Content] /\ Cardinality(booted[w]) \leq 1
  /\ proc \in [Proc -> [pc : PCs, op : OpNames \cup {"none"}, w : Worktree, stop : BOOLEAN, restart : BOOLEAN,
                        next : 1..Len(Subdirs), seen : Content, known : BOOLEAN, stopped : BOOLEAN,
                        tried : BOOLEAN, todo : SUBSET Worktree, outcome : Outcomes]]
  /\ launches \in 0..MaxLaunches
  /\ \A w \in Worktree, s \in Storage : data[w][s].kind = "main" => data[w][s].v \leq mainVersion

(* A setup that stopped main and was asked to restart it has tried to, whether the *)
(* preparation of the worktree succeeded or failed (worktree-setup.ts:146).        *)
HandoffRestored ==
  \A p \in Proc : At(p, "idle") /\ proc[p].stopped /\ proc[p].restart
                   /\ InOp(p, {"setup"}) /\ proc[p].outcome \in {"ok", "envError"} => proc[p].tried

(* The same of every setup that was not killed: docs/commands/advanced.md:50 states it *)
(* of the flag, without a condition.                                                   *)
MainComesBack ==
  \A p \in Proc : At(p, "idle") /\ proc[p].stopped /\ proc[p].restart
                   /\ proc[p].outcome # "killed" => proc[p].tried

(* The first boot of a worktree finds one whole snapshot: all its storages come from *)
(* the same version of main, none is half copied and none is missing.                *)
OneSnapshot ==
  \A w \in Worktree : \A b \in booted[w] : \A s, t \in Storage : b[s] = b[t] /\ b[s].kind # "torn"

(* Without Btrfs, whose data roots lie outside the worktrees, a worktree never holds *)
(* what an environment of an earlier incarnation of it wrote.                        *)
FreshIncarnation ==
  ~Btrfs => \A w \in registered \cap dirs : \A s \in Storage : data[w][s].kind = "own" => data[w][s].v = gen[w]

(* clean refuses a name only when nothing of it is left, so that a clean that stopped *)
(* half way can always be run again.                                                  *)
RefusalMeansGone ==
  [][\A p \in Proc : At(p, "target") /\ Cleaning(p) /\ proc'[p].outcome = "notRegistered"
        => \A s \in Storage : data[W(p)][s] = Absent]_vars

(* A clean that reports success has removed the directory, its registration and all data. *)
CleanLeavesNothing ==
  [][\A p \in Proc : At(p, "check") /\ proc'[p].pc \in {"idle", "gcNext"} /\ proc'[p].outcome \in {"ok", "none"}
        => W(p) \notin dirs \cup registered /\ ~HasState(W(p))]_vars

=============================================================================
