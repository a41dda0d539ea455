---------------------------- MODULE DeployCache ----------------------------
(***************************************************************************)
(* The deploy cache of one checkout: runs of `deploy all`, `prepare`,      *)
(* `module` (and `theme`, and each redeploy of `watch`), `cache-update`,   *)
(* and the restores that `start` and `env recreate` make, interleaved step *)
(* by step over the build directory, the cache directory, its lock file    *)
(* and the two .prepare-commit markers (src/features/deploy).              *)
(*                                                                         *)
(* An artifact is abstracted to the sources it was compiled from: a commit *)
(* and whether the module had uncommitted changes.  Every commit is taken  *)
(* to change every module.  The cache is always a bind mount               *)
(* (resolveRuntimeStorage), so the volume branches are dead code.          *)
(***************************************************************************)
EXTENDS Naturals, FiniteSets

CONSTANTS
  None,        \* no file, no marker, nobody
  Stale,       \* a lock file whose process was killed
  Proc,        \* concurrent ldev processes
  Module,
  Zips,        \* the modules whose artifact is a client extension .zip
  Worlds,      \* the sets of liberties the users may take, see LibertyNames
  Cmds,        \* the commands that are run
  Attempts,    \* CACHE_LOCK_ATTEMPTS
  MaxLaunches, \* bound: commands in a behaviour of each world
  MaxCommit    \* bound: commits

LibertyNames == {"together", "midrun", "checkout", "edit", "wipe", "kill", "unprepared"}
CmdNames == {"all", "prepare", "module", "update", "clean", "recreate", "start", "env"}

ASSUME ConstantsAssumption ==
  /\ None \notin Proc /\ Stale \notin Proc \cup {None} /\ None \notin Nat
  /\ None \notin [commit : Nat, edited : BOOLEAN]
  /\ Module # {} /\ Zips \subseteq Module /\ Cmds \subseteq CmdNames
  /\ Worlds \subseteq SUBSET LibertyNames
  /\ Attempts \in Nat \ {0} /\ MaxLaunches \in [Worlds -> Nat] /\ MaxCommit \in Nat

Commit == 0..MaxCommit

VARIABLES
  world,    \* the liberties taken in this behaviour; it never changes
  head,     \* git HEAD
  edited,   \* the modules with uncommitted changes
  dist,     \* [Module -> Artifact]: the modules' own build/libs or dist
  build,    \* [Module -> Artifact]: build/docker/deploy
  marker,   \* build/docker/.prepare-commit
  cache,    \* [Module -> Artifact]: liferay-deploy-cache
  cached,   \* liferay-deploy-cache/.prepare-commit
  lock,     \* .ldev-cache.lock: None, Stale or the process that created it
  proc,
  launches

vars == <<world, head, edited, dist, build, marker, cache, cached, lock, proc, launches>>
sources == <<world, head, edited>>
built == <<dist, build, marker>>
store == <<cache, cached>>

Artifact == [commit : Commit, edited : BOOLEAN] \cup {None}
Mark == Commit \cup {None}
Tree(m) == [commit |-> head, edited |-> m \in edited]
Files(dir) == {m \in Module : dir[m] # None}

(* What runDeployAll reads concurrently before it decides; "seen" is what it has so far. *)
Reads == {"marker", "head", "list"}

Idle == [cmd |-> "none", m |-> CHOOSE m \in Module : TRUE, pc |-> "idle", done |-> {},
         mark |-> None, target |-> None, todo |-> {}, copied |-> FALSE, tries |-> 0, quiet |-> FALSE]

Init ==
  /\ world \in Worlds
  /\ head = 0 /\ edited = {}
  /\ dist = [m \in Module |-> None] /\ build = dist /\ cache = dist
  /\ marker = None /\ cached = None /\ lock = None
  /\ proc = [p \in Proc |-> Idle]
  /\ launches = 0

At(p, pc) == proc[p].pc = pc
Ran(p, cmds) == proc[p].cmd \in cmds
Goto(p, pc) == proc' = [proc EXCEPT ![p].pc = pc]
GotoWith(p, pc, todo) == proc' = [proc EXCEPT ![p].pc = pc, ![p].todo = todo]
End(p) == proc' = [proc EXCEPT ![p] = Idle]
AllIdle == \A p \in Proc : At(p, "idle")

-----------------------------------------------------------------------------
FirstStep(cmd) ==
  CASE cmd = "all" -> "read"
    [] cmd \in {"prepare", "module"} -> "gradle"
    [] cmd \in {"update", "clean"} -> "list"
    [] cmd \in {"recreate", "env"} -> "listCache"
    [] cmd = "start" -> "look"

(* A command starts. *)
Launch(p) ==
  /\ At(p, "idle") /\ launches < MaxLaunches[world]
  /\ AllIdle \/ "together" \in world
  /\ \E cmd \in Cmds, m \in Module :
       /\ cmd \in {"module", "update", "clean"} => marker # None \/ "unprepared" \in world
       /\ cmd # "module" => m = Idle.m
       /\ proc' = [proc EXCEPT ![p] =
            [Idle EXCEPT !.cmd = cmd, !.m = m, !.pc = FirstStep(cmd), !.quiet = TRUE]]
  /\ launches' = launches + 1
  /\ UNCHANGED <<sources, built, store, lock>>

(* deploy all: the three reads of its Promise.all, in any order, none under the lock. *)
ReadMarker(p) ==
  /\ At(p, "read") /\ "marker" \notin proc[p].done
  /\ proc' = [proc EXCEPT ![p].done = @ \cup {"marker"}, ![p].mark = cached]

ReadHead(p) ==
  /\ At(p, "read") /\ "head" \notin proc[p].done
  /\ proc' = [proc EXCEPT ![p].done = @ \cup {"head"}, ![p].target = head]

ReadList(p) ==
  /\ At(p, "read") /\ "list" \notin proc[p].done
  /\ proc' = [proc EXCEPT ![p].done = @ \cup {"list"}, ![p].todo = Files(cache)]

BugCacheHitAnyCommit(r) == r.mark # None /\ r.todo # {}

(* The compile is skipped when the cache names the commit of HEAD and holds anything at all. *)
CacheHit(r) == r.mark # None /\ r.mark = r.target /\ r.todo # {}

Decide(p) ==
  /\ At(p, "read") /\ proc[p].done = Reads
  /\ proc' = [proc EXCEPT ![p].pc = IF CacheHit(proc[p]) THEN "restore" ELSE "gradle",
                          ![p].done = {}, ![p].mark = None, ![p].target = None,
                          ![p].todo = IF CacheHit(proc[p]) THEN @ ELSE {}]

AllReads(p) ==
  /\ ReadMarker(p) \/ ReadHead(p) \/ ReadList(p) \/ Decide(p)
  /\ UNCHANGED <<sources, built, store, lock, launches>>

(* syncArtifactsToDirectory from the cache: one artifact, skipped when it is gone. *)
RestoreOne(p) ==
  /\ At(p, "restore")
  /\ \E m \in proc[p].todo :
       /\ build' = IF cache[m] = None THEN build ELSE [build EXCEPT ![m] = cache[m]]
       /\ GotoWith(p, "restore", proc[p].todo \ {m})
  /\ UNCHANGED <<sources, dist, marker, store, lock, launches>>

RestoreDone(p) ==
  /\ At(p, "restore") /\ proc[p].todo = {}
  /\ Goto(p, IF Ran(p, {"all"}) THEN "head" ELSE "readCached")
  /\ UNCHANGED <<sources, built, store, lock, launches>>

(* dockerDeploy compiles every module, or the one that was asked for; when it fails some are built. *)
Compiled(p) == IF Ran(p, {"module"}) THEN {proc[p].m} ELSE Module

Gradle(p) ==
  /\ At(p, "gradle")
  /\ \E done \in SUBSET Compiled(p) :
       /\ dist' = [m \in Module |-> IF m \in done THEN Tree(m) ELSE dist[m]]
       /\ build' = [m \in Module |-> IF m \in done THEN Tree(m) ELSE build[m]]
       /\ IF done # Compiled(p) THEN End(p)
          ELSE Goto(p, IF Ran(p, {"module"}) THEN "toBuild" ELSE "head")
  /\ UNCHANGED <<sources, marker, store, lock, launches>>

(* deploy module: its own artifacts are copied to the build directory and then to the cache. *)
ToBuild(p) ==
  /\ At(p, "toBuild")
  /\ build' = [build EXCEPT ![proc[p].m] = dist[proc[p].m]]
  /\ GotoWith(p, "acquire", {proc[p].m})
  /\ UNCHANGED <<sources, dist, marker, store, lock, launches>>

(* all and prepare: HEAD is read, then written to the build marker. *)
TargetCommit(p) ==
  /\ At(p, "head")
  /\ proc' = [proc EXCEPT ![p].target = head, ![p].pc = "stamp"]
  /\ UNCHANGED <<sources, built, store, lock, launches>>

Stamp(p) ==
  /\ At(p, "stamp")
  /\ marker' = proc[p].target
  /\ proc' = [proc EXCEPT ![p].target = None, ![p].pc = "list"]
  /\ UNCHANGED <<sources, dist, build, store, lock, launches>>

(* The artifacts of the build directory go to the cache; cache-update refuses an empty one. *)
List(p) ==
  /\ At(p, "list")
  /\ IF Files(build) = {} /\ Ran(p, {"update", "clean"}) THEN End(p)
     ELSE GotoWith(p, "acquire", Files(build))
  /\ UNCHANGED <<sources, built, store, lock, launches>>

-----------------------------------------------------------------------------
(* syncArtifactsToDeployCache, under the lock. *)
Critical == {"clear", "copy", "commit", "stampCache", "release"}

BugFreeAlways == TRUE

(* fs.open(lockPath, 'wx') succeeds only when there is no lock file, whoever left it. *)
Free == lock = None

BugTimedOutNever(p) == FALSE
BugTimedOutLate(p) == proc[p].tries = Attempts
TimedOut(p) == proc[p].tries = Attempts - 1

Acquire(p) ==
  /\ At(p, "acquire") /\ Free
  /\ lock' = p
  /\ Goto(p, IF Ran(p, {"clean"}) THEN "clear" ELSE "copy")
  /\ UNCHANGED <<sources, built, store, launches>>

BugRetryThenProceed(p) ==
  /\ At(p, "acquire") /\ ~Free
  /\ IF TimedOut(p) THEN Goto(p, "copy")
     ELSE proc' = [proc EXCEPT ![p].tries = @ + 1]
  /\ UNCHANGED <<sources, built, store, lock, launches>>

(* EEXIST: another attempt later, or the lock timeout. *)
Retry(p) ==
  /\ At(p, "acquire") /\ ~Free
  /\ IF TimedOut(p) THEN End(p)
     ELSE proc' = [proc EXCEPT ![p].tries = IF @ < Attempts THEN @ + 1 ELSE @]
  /\ UNCHANGED <<sources, built, store, lock, launches>>

(* clearCachedDeployArtifacts: the artifacts one by one, then the marker. *)
ClearOne(p) ==
  /\ At(p, "clear")
  /\ \E m \in Files(cache) : cache' = [cache EXCEPT ![m] = None]
  /\ UNCHANGED <<sources, built, cached, lock, proc, launches>>

ClearDone(p) ==
  /\ At(p, "clear") /\ Files(cache) = {}
  /\ cached' = None
  /\ Goto(p, "copy")
  /\ UNCHANGED <<sources, built, cache, lock, launches>>

(* The file an artifact path names: the module's own output, or the build directory. *)
Source(p) == IF Ran(p, {"module"}) THEN dist ELSE build

CopyOne(p) ==
  /\ At(p, "copy")
  /\ \E m \in proc[p].todo :
       LET file == Source(p)[m]
       IN /\ cache' = IF file = None THEN cache ELSE [cache EXCEPT ![m] = file]
          /\ proc' = [proc EXCEPT ![p].todo = @ \ {m}, ![p].copied = @ \/ file # None]
  /\ UNCHANGED <<sources, built, cached, lock, launches>>

NothingCopied(p) == proc[p].todo = {} /\ ~proc[p].copied

CopyDone(p) ==
  /\ At(p, "copy") /\ proc[p].todo = {}
  /\ Goto(p, IF NothingCopied(p) THEN "release" ELSE "commit")
  /\ UNCHANGED <<sources, built, store, lock, launches>>

BugArtifactCommitHead == head

(* currentArtifactCommit: the build marker, or HEAD when there is none. *)
ArtifactCommit == IF marker # None THEN marker ELSE head

ReadArtifactCommit(p) ==
  /\ At(p, "commit")
  /\ proc' = [proc EXCEPT ![p].target = ArtifactCommit, ![p].pc = "stampCache"]
  /\ UNCHANGED <<sources, built, store, lock, launches>>

StampCache(p) ==
  /\ At(p, "stampCache")
  /\ cached' = proc[p].target
  /\ Goto(p, "release")
  /\ UNCHANGED <<sources, built, cache, lock, launches>>

(* A removal, a copy or a write of the marker throws part of the way through. *)
SyncFails(p) ==
  /\ "kill" \in world /\ proc[p].pc \in Critical \ {"release"}
  /\ GotoWith(p, "release", {})
  /\ UNCHANGED <<sources, built, store, lock, launches>>

(* The finally: the lock file is removed whether the copy worked or threw. *)
Release(p) ==
  /\ At(p, "release")
  /\ lock' = None
  /\ End(p)
  /\ UNCHANGED <<sources, built, store, launches>>

-----------------------------------------------------------------------------
(* start restores from the cache when the build directory has no artifact; it does not count zips. *)
Look(p) ==
  /\ At(p, "look")
  /\ IF Files(build) \ Zips = {} THEN Goto(p, "listCache") ELSE End(p)
  /\ UNCHANGED <<sources, built, store, lock, launches>>

(* restoreArtifactsFromDeployCache leaves the marker alone when there was nothing to copy; the *)
(* restore of a worktree's environment does not, and takes no zips.                            *)
ListCache(p) ==
  /\ At(p, "listCache")
  /\ IF Ran(p, {"env"}) THEN GotoWith(p, "restore", Files(cache) \ Zips)
     ELSE IF Files(cache) = {} THEN End(p)
     ELSE GotoWith(p, "restore", Files(cache))
  /\ UNCHANGED <<sources, built, store, lock, launches>>

ReadCached(p) ==
  /\ At(p, "readCached")
  /\ IF cached = None THEN End(p)
     ELSE proc' = [proc EXCEPT ![p].target = cached, ![p].pc = "stampBuild"]
  /\ UNCHANGED <<sources, built, store, lock, launches>>

StampBuild(p) ==
  /\ At(p, "stampBuild")
  /\ marker' = proc[p].target
  /\ End(p)
  /\ UNCHANGED <<sources, dist, build, store, lock, launches>>

-----------------------------------------------------------------------------
(* The users: each liberty is taken only in a world that allows it. *)
Took(p) == [proc[p] EXCEPT !.quiet = FALSE]
Disturb == proc' = [p \in Proc |-> IF At(p, "idle") THEN proc[p] ELSE Took(p)]

CommitAll ==
  /\ (AllIdle \/ "midrun" \in world)
  /\ head < MaxCommit
  /\ head' = head + 1 /\ edited' = {}
  /\ Disturb
  /\ UNCHANGED <<world, built, store, lock, launches>>

Checkout ==
  /\ "checkout" \in world /\ (AllIdle \/ "midrun" \in world)
  /\ head' \in Commit \ {head} /\ edited' = {}
  /\ Disturb
  /\ UNCHANGED <<world, built, store, lock, launches>>

Edit ==
  /\ "edit" \in world
  /\ \E m \in Module \ edited : edited' = edited \cup {m}
  /\ Disturb
  /\ UNCHANGED <<world, head, built, store, lock, launches>>

(* gradlew clean, or rm -rf build. *)
Wipe ==
  /\ "wipe" \in world
  /\ build' = [m \in Module |-> None] /\ marker' = None
  /\ dist' = build'
  /\ Disturb
  /\ UNCHANGED <<sources, store, lock, launches>>

(* A killed process leaves its lock file behind; the world of kills is also that of failing I/O. *)
Kill(p) ==
  /\ "kill" \in world /\ ~At(p, "idle")
  /\ lock' = IF lock = p THEN Stale ELSE lock
  /\ End(p)
  /\ UNCHANGED <<sources, built, store, launches>>

Sync(p) ==
  \/ Acquire(p) \/ Retry(p) \/ ClearOne(p) \/ ClearDone(p) \/ CopyOne(p) \/ CopyDone(p)
  \/ ReadArtifactCommit(p) \/ StampCache(p) \/ SyncFails(p) \/ Release(p)

Restore(p) == Look(p) \/ ListCache(p) \/ RestoreOne(p) \/ RestoreDone(p) \/ ReadCached(p) \/ StampBuild(p)

Step(p) ==
  \/ AllReads(p) \/ Gradle(p) \/ ToBuild(p) \/ TargetCommit(p) \/ Stamp(p) \/ List(p)
  \/ Sync(p) \/ Restore(p)

Users == CommitAll \/ Checkout \/ Edit \/ Wipe

Next == (\E p \in Proc : Launch(p) \/ Step(p) \/ Kill(p)) \/ Users

Spec == Init /\ [][Next]_vars

(* A process that is not killed goes on to its next step: nothing in it waits without a bound. *)
FairSpec == Spec /\ \A p \in Proc : WF_vars(Step(p))

-----------------------------------------------------------------------------
PCs == {"idle", "read", "restore", "gradle", "toBuild", "head", "stamp", "list", "acquire",
        "look", "listCache", "readCached", "stampBuild"} \cup Critical

Run == [cmd : CmdNames \cup {"none"}, m : Module, pc : PCs, done : SUBSET Reads, mark : Mark,
        target : Mark, todo : SUBSET Module, copied : BOOLEAN, tries : 0..(Attempts - 1), quiet : BOOLEAN]

(* Type correctness; in particular the attempts on the lock stay below CACHE_LOCK_ATTEMPTS. *)
TypeOK ==
  /\ world \in Worlds /\ head \in Commit /\ edited \subseteq Module
  /\ dist \in [Module -> Artifact] /\ build \in [Module -> Artifact] /\ cache \in [Module -> Artifact]
  /\ marker \in Mark /\ cached \in Mark
  /\ lock \in Proc \cup {None, Stale}
  /\ proc \in [Proc -> Run]
  /\ launches \in 0..MaxLaunches[world]

(* A process is between open('wx') and the finally exactly while the lock file is its own: two  *)
(* deploys never write the cache together, and a deploy that failed or timed out holds nothing. *)
LockExclusive == \A p \in Proc : proc[p].pc \in Critical <=> lock = p

(* The cache changes only by a step of the process whose lock file it is. *)
WritesUnderLock ==
  [][store' # store => \E p \in Proc : lock = p /\ \A q \in Proc \ {p} : proc'[q] = proc[q]]_vars

(* When users only commit, and only between commands run one at a time after a first full        *)
(* build, the cache's commit tells the truth: if it is HEAD, every module is there as HEAD has it. *)
CacheHonest ==
  world = {} /\ AllIdle /\ cached = head => \A m \in Module : cache[m] = Tree(m)

(* deploy all ends well: its last step, with something copied to the cache. *)
DeployedAll(p) == Ran(p, {"all"}) /\ At(p, "release") /\ proc[p].copied /\ proc'[p].pc = "idle"
                  /\ lock' = None

(* "Rebuild and deploy every module in the repo": when deploy all ends well and nobody touched the *)
(* sources meanwhile, every module in the build directory was compiled from them.                  *)
DeployAllRebuilds ==
  [][\A p \in Proc : DeployedAll(p) /\ proc[p].quiet => \A m \in Module : build[m] = Tree(m)]_vars

(* The same for users who keep to the discipline, whether the compile was skipped or not. *)
DisciplinedDeployAllRebuilds ==
  [][\A p \in Proc : world = {} /\ DeployedAll(p) => \A m \in Module : build[m] = Tree(m)]_vars

(* Every command ends, whoever holds the lock, a dead process included: it gives up. *)
EveryCommandEnds == \A p \in Proc : ~At(p, "idle") ~> At(p, "idle")
=============================================================================
