---------------------------- MODULE Environment ----------------------------
(***************************************************************************)
(* One local environment, of the main checkout or of a worktree: `start`,  *)
(* `stop`, `env restart`, `recreate`, `restore` and `clean`, `db import`   *)
(* and `db sync`, step by step over its containers, its data and the       *)
(* downloaded backup (src/features/env, src/features/db).                  *)
(*                                                                         *)
(* A storage is abstracted to where its content came from.  The database   *)
(* is a storage of its own; "liferay-data" stands for the RESTORE_SUBDIRS, *)
(* which one loop treats alike (the deploy cache is in DeployCache).       *)
(***************************************************************************)
EXTENDS Naturals, Sequences, FiniteSets

CONSTANTS
  Proc,      \* concurrent ldev processes and dashboard tasks
  Sites,     \* the checkouts, their storage and what may happen there
  Commands,  \* the commands that are run
  MaxRuns    \* bound: commands in a behaviour of each site

Liberties == {"together", "kill", "docker", "copy", "cancel", "main", "worktree", "download", "files"}
Kinds == {"start", "stop", "restart", "recreate", "restore", "clean", "import", "sync"}
Site == [main : BOOLEAN, volume : BOOLEAN, base : BOOLEAN, inside : BOOLEAN, gzip : BOOLEAN,
         may : SUBSET Liberties]
Command == [kind : Kinds, wait : BOOLEAN, force : BOOLEAN, task : BOOLEAN]

ASSUME ConstantsAssumption ==
  /\ Sites \subseteq Site /\ Commands \subseteq Command
  /\ \A s \in Sites : "main" \in s.may => ~s.main
  /\ \A c \in Commands : c.kind = "clean" => ~c.task   \* the dashboard has no such action
  /\ MaxRuns \in [Sites -> Nat]

VARIABLES
  site,       \* main checkout or worktree, database in a volume, Btrfs base; it never changes
  store,      \* [Storage -> Content]
  postgres,   \* the container: "orphan" when the directory it has mounted was removed
  liferay,    \* the container
  others,     \* which other environments run: "main", and "worktree" for another worktree
  doclib,     \* the device of the Docker volume DOCLIB_VOLUME_NAME, which all of them share
  doclibPath, \* the device that DOCLIB_PATH asks for
  backup,     \* the database backup in docker/backups
  proc,
  ended,      \* the command that ended last, unless another was launched since
  runs

vars == <<site, store, postgres, liferay, others, doclib, doclibPath, backup, proc, ended, runs>>
containers == <<postgres, liferay>>
library == <<doclib, doclibPath>>
outside == <<site, others, doclibPath, runs>>

Storage == {"postgres-data", "liferay-data"}
(* init: postgres is creating its cluster; fresh: a cluster without tables; own: written *)
(* by this environment; part: half an import; torn: half a copy, or two things mixed.    *)
Content == {"absent", "empty", "init", "fresh", "own", "main", "base", "backup", "part", "torn"}
Precious == {"own", "main", "base", "backup"}
Database == store["postgres-data"]
With(s, c) == [store EXCEPT ![s] = c]
WithDatabase(c) == With("postgres-data", c)

May(liberty) == liberty \in site.may
Alone == ~May("together")
MainUp == "main" \in others

Nothing == [kind |-> "stop", wait |-> FALSE, force |-> FALSE, task |-> FALSE]
Found == [database |-> Database, postgres |-> postgres, liferay |-> liferay]
NotLooked == [database |-> "absent", postgres |-> "none", liferay |-> "none"]
Idle == [cmd |-> Nothing, todo |-> <<>>, canceled |-> FALSE, found |-> NotLooked]
None == [cmd |-> Nothing, outcome |-> "none", at |-> "none", found |-> NotLooked]

Init ==
  /\ site \in Sites
  /\ store \in {[s \in Storage |-> "absent"], [s \in Storage |-> "own"]}
  /\ postgres = "none" /\ liferay = "none"
  /\ others \in SUBSET ({"main", "worktree"} \cap site.may)
  /\ doclib = (IF others = {} THEN "absent" ELSE "default") /\ doclibPath = "default"
  /\ backup \in {"none", "whole"}
  /\ proc = [p \in Proc |-> Idle]
  /\ ended = None
  /\ runs = 0

Active(p) == proc[p].todo # <<>>
At(p, step) == Active(p) /\ Head(proc[p].todo) = step
HasState == \E s \in Storage : store[s] # "absent"

-----------------------------------------------------------------------------
(* What a command does, as the sequence of its awaited steps. *)
Start(wait) == <<"prepare", "doclib", "up">> \o (IF wait THEN <<"health">> ELSE <<>>)
Import == <<"check", "upPostgres", "ready", "stream", "imported", "postImport">>

Reset == IF site.volume THEN <<"rmPostgres", "rmVolume">> ELSE <<"wipe">>

Plan(c) ==
  CASE c.kind = "start" -> Start(c.wait)
    [] c.kind = "stop" -> <<"stop", "down">>
    [] c.kind = "restart" -> <<"stop", "down">> \o Start(c.wait)
    [] c.kind = "recreate" -> <<"stopLiferay", "upLiferay">> \o (IF c.wait THEN <<"health">> ELSE <<>>)
    [] c.kind = "restore" -> <<"source", "downQuietly", "dropPostgres", "copyPostgres", "dropData", "copyData">>
                             \o (IF c.task THEN Start(TRUE) ELSE <<>>)
    [] c.kind = "clean" -> <<"downVolumes", "cleanDoclib", "cleanVolume", "cleanData">>
    [] c.kind = "import" -> Import
    [] c.kind = "sync" -> <<"download">> \o Import

BugCancelableAlways(c) == TRUE

(* Only a dashboard task has a signal, and runEnvClean and runEnvRestore take none. *)
Cancelable(c) == c.task

Launch(p, c) ==
  /\ ~Active(p) /\ runs < MaxRuns[site]
  /\ Alone => \A q \in Proc : ~Active(q)
  /\ proc' = [proc EXCEPT ![p] = [Idle EXCEPT !.cmd = c, !.todo = Plan(c), !.found = Found]]
  /\ ended' = None /\ runs' = runs + 1
  /\ UNCHANGED <<site, store, containers, others, library, backup>>

Cancel(p) ==
  /\ May("cancel") /\ Active(p) /\ Cancelable(proc[p].cmd) /\ ~proc[p].canceled
  /\ proc' = [proc EXCEPT ![p].canceled = TRUE]
  /\ UNCHANGED <<outside, store, containers, doclib, backup, ended>>

(* What is recorded of a task whose signal was aborted, whether its run resolves or rejects. *)
Recorded(p, outcome) == IF proc[p].canceled THEN "canceled" ELSE outcome

Finish(p, outcome) ==
  /\ proc' = [proc EXCEPT ![p] = Idle]
  /\ ended' = [cmd |-> proc[p].cmd, outcome |-> Recorded(p, outcome), at |-> Head(proc[p].todo),
               found |-> proc[p].found]

Then(p, steps) == proc' = [proc EXCEPT ![p].todo = steps] /\ UNCHANGED ended
Rest(p) == Tail(proc[p].todo)
Proceed(p) == IF Rest(p) = <<>> THEN Finish(p, "ok") ELSE Then(p, Rest(p))

(* A killed process leaves everything as it is. *)
Kill(p) ==
  /\ May("kill") /\ Active(p)
  /\ proc' = [proc EXCEPT ![p] = Idle] /\ ended' = None
  /\ UNCHANGED <<outside, store, containers, doclib, backup>>

(* A docker command that is given the signal is killed with it; any may fail. *)
Aborted(p) == proc[p].canceled
DockerFails(p) == Aborted(p) \/ May("docker")

-----------------------------------------------------------------------------
(* The containers, as docker compose treats them. *)

(* Docker keeps a container that runs and creates what a bind mount names. *)
Created(c, cluster) == IF c \in {"absent", "empty"} THEN cluster ELSE c
PostgresUp(cluster) ==
  IF postgres \in {"live", "orphan"} THEN UNCHANGED <<postgres, store>>
  ELSE postgres' = "live" /\ store' = WithDatabase(Created(Database, cluster))
LiferayUp == liferay' = IF liferay = "healthy" THEN "healthy" ELSE "starting"

(* An `up` that is killed or fails half way. *)
PartlyUp ==
  \/ UNCHANGED <<store, containers>>
  \/ PostgresUp("init") /\ (UNCHANGED liferay \/ (Database # "init" /\ LiferayUp))

(* A cluster whose creation is interrupted stays half made. *)
Interrupted == IF Database = "init" THEN WithDatabase("torn") ELSE store
Stopped(c) == IF c = "none" THEN "none" ELSE IF c \in {"live", "orphan"} THEN "stopped" ELSE c
PostgresStops == postgres' = Stopped(postgres) /\ store' = Interrupted
LiferayStops == liferay' = IF liferay = "none" THEN "none" ELSE "exited"
AllStop == PostgresStops /\ LiferayStops
AllRemoved == postgres' = "none" /\ liferay' = "none" /\ store' = Interrupted
(* The portal boots on a database that is there, and fills what it finds empty. *)
Boot ==
  /\ liferay = "starting" /\ postgres = "live" /\ Database # "init"
  /\ liferay' = "healthy"
  /\ store' = [s \in Storage |-> IF store[s] \in {"absent", "empty", "fresh"} THEN "own" ELSE store[s]]
  /\ UNCHANGED <<outside, postgres, doclib, backup, proc, ended>>

PostgresInitialised ==
  /\ postgres = "live" /\ Database = "init"
  /\ store' = WithDatabase("fresh")
  /\ UNCHANGED <<outside, containers, doclib, backup, proc, ended>>

-----------------------------------------------------------------------------
(* runEnvStart.  In a worktree without any state it first clones main's, which is refused *)
(* while main runs (WorktreeState has the steps of the clone); then it creates what is    *)
(* missing of the directories.                                                            *)
LaidOut(s) == [x \in Storage |-> IF s[x] = "absent" /\ ~(site.volume /\ x = "postgres-data") THEN "empty" ELSE s[x]]
Cloned == [x \in Storage |-> IF site.base THEN "base" ELSE "main"]

Prepare(p) ==
  /\ At(p, "prepare")
  /\ IF site.main \/ HasState THEN store' = LaidOut(store) /\ Proceed(p)
     ELSE IF MainUp /\ ~site.base THEN UNCHANGED store /\ Finish(p, "refused")
     ELSE store' = LaidOut(Cloned) /\ Proceed(p)
  /\ UNCHANGED <<outside, containers, doclib, backup>>

(* The worktrees use main's volume of documents. *)
DoclibInUse == liferay # "none" \/ others # {}

SameDevice == doclib = doclibPath

(* ensureDoclibVolume: a `volume inspect` and a `volume rm` that fail are ignored, and      *)
(* `volume create` finds a volume of that name, which it may take as it is.               *)
EnsureDoclibVolume(p) ==
  /\ At(p, "doclib")
  /\ \/ SameDevice /\ UNCHANGED doclib /\ Proceed(p)
     \/ ~SameDevice /\ (doclib = "absent" \/ ~DoclibInUse) /\ doclib' = doclibPath /\ Proceed(p)
     \/ /\ doclib # "absent" /\ ((~SameDevice /\ DoclibInUse) \/ May("docker"))
        /\ UNCHANGED doclib /\ (Proceed(p) \/ Finish(p, "failed"))
     \/ May("docker") /\ (doclib = "absent" \/ ~DoclibInUse) /\ doclib' = "absent" /\ Finish(p, "failed")
  /\ UNCHANGED <<outside, store, containers, backup>>

BugRollbackNothing(p) == Finish(p, "failed")

(* rollbackStartedEnvironment is runEnvStop without the signal; the start then rejects. *)
Rollback(p) == Then(p, <<"rollbackStop", "rollbackDown">>)

(* `docker compose up -d` waits for the database to be healthy before it starts the portal; *)
(* a cancel is noticed when it fails and when it returns.                                   *)
Up(p) ==
  /\ At(p, "up")
  /\ \/ ~Aborted(p) /\ ~(postgres = "live" /\ Database = "init") /\ PostgresUp("fresh") /\ LiferayUp /\ Proceed(p)
     \/ Aborted(p) /\ PartlyUp /\ Rollback(p)
     \/ ~Aborted(p) /\ May("docker") /\ PartlyUp /\ Finish(p, "failed")
  /\ UNCHANGED <<outside, doclib, backup>>

(* waitForServiceHealthy, with a deadline and without the signal; what follows it in a  *)
(* start, waitForPortalReady, returns at its deadline too.                               *)
Health(p) ==
  /\ At(p, "health")
  /\ \/ liferay = "healthy" /\ Proceed(p)
     \/ liferay # "healthy" /\ Finish(p, "failed")
  /\ UNCHANGED <<outside, store, containers, doclib, backup>>

-----------------------------------------------------------------------------
(* runEnvStop: compose stop, then down. *)
Stop(p) ==
  /\ \/ At(p, "stop") /\ ~Aborted(p) /\ AllStop /\ Proceed(p)
     \/ At(p, "rollbackStop") /\ AllStop /\ Proceed(p)
     \/ /\ (At(p, "stop") /\ DockerFails(p)) \/ (At(p, "rollbackStop") /\ May("docker"))
        /\ UNCHANGED <<store, containers>> \/ (LiferayStops /\ UNCHANGED <<store, postgres>>) \/ AllStop
        /\ Finish(p, "failed")
  /\ UNCHANGED <<outside, doclib, backup>>

RemoveContainers(p) ==
  /\ \/ At(p, "down") /\ ~Aborted(p) /\ AllRemoved /\ Proceed(p)
     \/ At(p, "rollbackDown") /\ AllRemoved /\ Finish(p, "failed")
     \/ /\ (At(p, "down") /\ DockerFails(p)) \/ (At(p, "rollbackDown") /\ May("docker"))
        /\ UNCHANGED <<store, containers>> \/ AllRemoved
        /\ Finish(p, "failed")
  /\ UNCHANGED <<outside, doclib, backup>>

(* runEnvRecreate: the portal's container only; its database is started when it is not up. *)
StopLiferay(p) ==
  /\ At(p, "stopLiferay")
  /\ \/ ~Aborted(p) /\ LiferayStops /\ Proceed(p)
     \/ DockerFails(p) /\ (LiferayStops \/ UNCHANGED liferay) /\ Finish(p, "failed")
  /\ UNCHANGED <<outside, store, postgres, doclib, backup>>

UpLiferay(p) ==
  /\ At(p, "upLiferay")
  /\ \/ /\ ~Aborted(p) /\ ~(postgres = "live" /\ Database = "init")
        /\ PostgresUp("fresh") /\ liferay' = "starting" /\ Proceed(p)
     \/ DockerFails(p) /\ PartlyUp /\ Finish(p, "failed")
  /\ UNCHANGED <<outside, doclib, backup>>

-----------------------------------------------------------------------------
(* runEnvRestore: main's data come from the Btrfs base, a worktree's from the base or from *)
(* main, but the database always from main's own storage.                                  *)
RestoreSource(p) ==
  /\ At(p, "source")
  /\ IF site.main /\ ~site.base THEN Finish(p, "refused") ELSE Proceed(p)
  /\ UNCHANGED <<outside, store, containers, doclib, backup>>

(* compose down, and a failure of it does not reject. *)
DownQuietly(p) ==
  /\ At(p, "downQuietly")
  /\ AllRemoved \/ (May("docker") /\ UNCHANGED <<store, containers>>)
  /\ Proceed(p)
  /\ UNCHANGED <<outside, doclib, backup>>

(* What a process has mounted stays mounted when its directory is removed. *)
Orphaned == IF postgres = "live" THEN "orphan" ELSE postgres

(* removePathRobust, then the copy over what is there by then; a portal that runs while it *)
(* is copied gives half a copy.                                                             *)
Copied(s, c) == IF store[s] \in {"absent", "empty"} THEN c ELSE "torn"
FromMain == IF MainUp THEN "torn" ELSE "main"
CopyFails(p, s) == May("copy") /\ store' = With(s, "torn") /\ Finish(p, "failed")

BugDropPostgresVolume == UNCHANGED <<store, postgres>>

(* `volume rm` fails on a volume in use, and `volume create` then keeps it. *)
DropPostgresVolume ==
  /\ store' = IF postgres = "none" THEN WithDatabase("empty") ELSE store
  /\ UNCHANGED postgres
DropPostgresDirectory == store' = WithDatabase("absent") /\ postgres' = Orphaned

DropPostgres(p) ==
  /\ At(p, "dropPostgres")
  /\ \/ site.volume /\ DropPostgresVolume /\ Proceed(p)
     \/ ~site.volume /\ site.main /\ Database = "absent" /\ UNCHANGED <<store, postgres>> /\ Then(p, Tail(Rest(p)))
     \/ ~site.volume /\ (site.main => Database # "absent") /\ DropPostgresDirectory /\ Proceed(p)
     \/ ~site.volume /\ CopyFails(p, "postgres-data") /\ UNCHANGED postgres
  /\ UNCHANGED <<outside, liferay, doclib, backup>>

(* In main the source of the database is its target: the directory has just been removed, *)
(* and the volume is copied over itself, which may fail.                                  *)
CopyPostgres(p) ==
  /\ At(p, "copyPostgres")
  /\ \/ ~site.main /\ store' = WithDatabase(Copied("postgres-data", FromMain)) /\ Proceed(p)
     \/ site.main /\ site.volume /\ UNCHANGED store /\ Proceed(p)
     \/ site.main /\ UNCHANGED store /\ Finish(p, "failed")
     \/ ~site.main /\ CopyFails(p, "postgres-data")
  /\ UNCHANGED <<outside, containers, doclib, backup>>

DropData(p) ==
  /\ At(p, "dropData")
  /\ \/ store' = With("liferay-data", "absent") /\ Proceed(p)
     \/ CopyFails(p, "liferay-data")
  /\ UNCHANGED <<outside, containers, doclib, backup>>

CopyData(p) ==
  /\ At(p, "copyData")
  /\ \/ store' = With("liferay-data", Copied("liferay-data", IF site.base THEN "base" ELSE FromMain)) /\ Proceed(p)
     \/ CopyFails(p, "liferay-data")
  /\ UNCHANGED <<outside, containers, doclib, backup>>

-----------------------------------------------------------------------------
(* runEnvClean --force: an error of docker stops it unless the resource is missing, and a *)
(* data root outside the repository is kept.                                              *)

(* assertCleanupSucceeded. *)
CleanFailed(p) == Finish(p, "failed")

DownVolumes(p) ==
  /\ At(p, "downVolumes")
  /\ \/ AllRemoved /\ Proceed(p)
     \/ May("docker") /\ UNCHANGED <<store, containers>> /\ CleanFailed(p)
  /\ UNCHANGED <<outside, doclib, backup>>

CleanDoclib(p) ==
  /\ At(p, "cleanDoclib")
  /\ \/ (doclib = "absent" \/ ~DoclibInUse) /\ doclib' = "absent" /\ Proceed(p)
     \/ doclib # "absent" /\ (DoclibInUse \/ May("docker")) /\ UNCHANGED doclib /\ CleanFailed(p)
  /\ UNCHANGED <<outside, store, containers, backup>>

CleanVolume(p) ==
  /\ At(p, "cleanVolume")
  /\ \/ ~site.volume /\ UNCHANGED store /\ Proceed(p)
     \/ site.volume /\ (Database = "absent" \/ postgres = "none") /\ store' = WithDatabase("absent") /\ Proceed(p)
     \/ site.volume /\ Database # "absent" /\ (postgres # "none" \/ May("docker")) /\ UNCHANGED store /\ CleanFailed(p)
  /\ UNCHANGED <<outside, containers, doclib, backup>>

CleanData(p) ==
  /\ At(p, "cleanData")
  /\ IF ~site.inside THEN UNCHANGED <<store, postgres>> /\ Proceed(p)
     ELSE \/ /\ store' = [s \in Storage |-> IF site.volume /\ s = "postgres-data" THEN store[s] ELSE "absent"]
             /\ postgres' = (IF site.volume THEN postgres ELSE Orphaned)
             /\ Proceed(p)
          \/ CopyFails(p, "liferay-data") /\ UNCHANGED postgres
  /\ UNCHANGED <<outside, liferay, doclib, backup>>

-----------------------------------------------------------------------------
(* db sync: a backup with the wanted id is used as it is, whole or not. *)
Download(p) ==
  /\ At(p, "download")
  /\ \/ backup # "none" /\ UNCHANGED backup /\ Proceed(p)
     \/ backup = "none" /\ ~Aborted(p) /\ backup' = "whole" /\ Proceed(p)
     \/ /\ backup = "none" /\ (Aborted(p) \/ May("download"))
        /\ backup' \in {"none", "partial"} /\ Finish(p, "failed")
  /\ UNCHANGED <<outside, store, containers, doclib>>

BugHasContentsOfDirectory(s) == s["postgres-data"] \notin {"absent", "empty"} /\ ~site.volume

(* hasPostgresStorageContents: of a directory its entries count, of a volume its existence. *)
HasContents(s) == s["postgres-data"] \notin (IF site.volume THEN {"absent"} ELSE {"absent", "empty"})

(* runDbImport up to its decision, which comes after the directories were created. *)
CheckImport(p) ==
  /\ At(p, "check")
  /\ store' = LaidOut(store)
  /\ IF backup = "none" THEN Finish(p, "failed")
     ELSE IF ~HasContents(store') THEN Proceed(p)
     ELSE IF proc[p].cmd.force THEN Then(p, Reset \o Rest(p))
     ELSE Finish(p, "refused")
  /\ UNCHANGED <<outside, containers, doclib, backup>>

(* --force on a directory: it is removed and created again, whoever has it mounted. *)
Wipe(p) ==
  /\ At(p, "wipe")
  /\ \/ store' = WithDatabase("empty") /\ postgres' = Orphaned /\ Proceed(p)
     \/ CopyFails(p, "postgres-data") /\ UNCHANGED postgres
  /\ UNCHANGED <<outside, liferay, doclib, backup>>

(* --force on a volume: the container is stopped and removed, and a failure of that only *)
(* shows when the volume cannot be removed.                                              *)
RemovePostgres(p) ==
  /\ At(p, "rmPostgres")
  /\ \/ ~Aborted(p) /\ postgres' = "none" /\ store' = Interrupted
     \/ DockerFails(p) /\ UNCHANGED <<store, postgres>>
  /\ Proceed(p)
  /\ UNCHANGED <<outside, liferay, doclib, backup>>

RemoveVolume(p) ==
  /\ At(p, "rmVolume")
  /\ \/ ~Aborted(p) /\ postgres = "none" /\ store' = WithDatabase("absent") /\ Proceed(p)
     \/ (postgres # "none" \/ DockerFails(p)) /\ UNCHANGED store /\ Finish(p, "failed")
  /\ UNCHANGED <<outside, containers, doclib, backup>>

(* `up -d postgres` does not wait, and starts nothing when the container runs. *)
UpPostgres(p) ==
  /\ At(p, "upPostgres")
  /\ \/ ~Aborted(p) /\ PostgresUp("init") /\ Proceed(p)
     \/ DockerFails(p) /\ (PostgresUp("init") \/ UNCHANGED <<store, postgres>>) /\ Finish(p, "failed")
  /\ UNCHANGED <<outside, liferay, doclib, backup>>

(* waitForPostgresReady: the server that creates the cluster may answer already, and one *)
(* whose directory is gone may still answer.                                             *)
PostgresReady(p) ==
  /\ At(p, "ready")
  /\ \/ ~Aborted(p) /\ postgres \in {"live", "orphan"} /\ Proceed(p)
     \/ (postgres # "live" \/ DockerFails(p)) /\ Finish(p, "failed")
  /\ UNCHANGED <<outside, store, containers, doclib, backup>>

(* The stream into psql begins.  The server that created the cluster restarts under it. *)
Stream(p) ==
  /\ At(p, "stream")
  /\ CASE postgres = "live" /\ Database = "fresh" -> store' = WithDatabase("part") /\ Proceed(p)
       [] postgres = "live" /\ Database = "init" -> store' = WithDatabase("part") /\ Finish(p, "failed")
       [] postgres = "live" /\ Database \notin {"fresh", "init"} -> store' = WithDatabase("torn") /\ Proceed(p)
       [] postgres = "orphan" -> UNCHANGED store /\ Proceed(p)
       [] OTHER -> UNCHANGED store /\ Finish(p, "failed")
  /\ UNCHANGED <<outside, containers, doclib, backup>>

(* psql runs without ON_ERROR_STOP and only a broken gzip stream fails: a cut plain file *)
(* counts as imported.                                                                   *)
Imported(p) ==
  /\ At(p, "imported")
  /\ \/ /\ ~Aborted(p) /\ postgres \in {"live", "orphan"} /\ (backup = "partial" => ~site.gzip)
        /\ store' = (IF postgres = "live" /\ Database = "part" /\ backup = "whole" THEN WithDatabase("backup") ELSE store)
        /\ Proceed(p)
     \/ /\ DockerFails(p) \/ postgres \notin {"live", "orphan"} \/ (backup = "partial" /\ site.gzip)
        /\ UNCHANGED store /\ Finish(p, "failed")
  /\ UNCHANGED <<outside, containers, doclib, backup>>

PostImport(p) ==
  /\ At(p, "postImport")
  /\ \/ ~Aborted(p) /\ Proceed(p)
     \/ (DockerFails(p) \/ postgres \notin {"live", "orphan"}) /\ Finish(p, "failed")
  /\ UNCHANGED <<outside, store, containers, doclib, backup>>

-----------------------------------------------------------------------------
(* Another environment starts, with the device that its own DOCLIB_PATH asks for, or stops. *)
OtherStarts(o) ==
  /\ May(o) /\ o \notin others /\ others' = others \cup {o}
  /\ doclib' \in IF doclib # "absent" /\ DoclibInUse THEN {doclib}
                ELSE IF o = "main" THEN {"default"} ELSE {"default", "own"}
  /\ UNCHANGED <<site, store, containers, doclibPath, backup, proc, ended, runs>>

OtherStops(o) ==
  /\ o \in others /\ others' = others \ {o}
  /\ UNCHANGED <<site, store, containers, library, backup, proc, ended, runs>>

(* db files-detect and files-download write DOCLIB_PATH. *)
ConfigureDoclib ==
  /\ May("files") /\ \A p \in Proc : ~Active(p)
  /\ doclibPath' \in {"default", "own"} \ {doclibPath}
  /\ ended' = None
  /\ UNCHANGED <<site, store, containers, others, doclib, backup, proc, runs>>

StartStep(p) == Prepare(p) \/ EnsureDoclibVolume(p) \/ Up(p) \/ Health(p)
StopStep(p) == Stop(p) \/ RemoveContainers(p) \/ StopLiferay(p) \/ UpLiferay(p)
RestoreStep(p) ==
  RestoreSource(p) \/ DownQuietly(p) \/ DropPostgres(p) \/ CopyPostgres(p) \/ DropData(p) \/ CopyData(p)
CleanStep(p) == DownVolumes(p) \/ CleanDoclib(p) \/ CleanVolume(p) \/ CleanData(p)
ImportStep(p) ==
  \/ Download(p) \/ CheckImport(p) \/ Wipe(p) \/ RemovePostgres(p) \/ RemoveVolume(p)
  \/ UpPostgres(p) \/ PostgresReady(p) \/ Stream(p) \/ Imported(p) \/ PostImport(p)
Step(p) == StartStep(p) \/ StopStep(p) \/ RestoreStep(p) \/ CleanStep(p) \/ ImportStep(p)

Next ==
  \/ \E p \in Proc : Step(p) \/ Cancel(p) \/ Kill(p) \/ \E c \in Commands : Launch(p, c)
  \/ Boot \/ PostgresInitialised
  \/ \E o \in {"main", "worktree"} : OtherStarts(o) \/ OtherStops(o)
  \/ ConfigureDoclib

Spec == Init /\ [][Next]_vars

-----------------------------------------------------------------------------
Steps == {"prepare", "doclib", "up", "health", "stop", "down", "rollbackStop", "rollbackDown", "stopLiferay",
          "upLiferay", "source", "downQuietly", "dropPostgres", "copyPostgres", "dropData", "copyData",
          "downVolumes", "cleanDoclib", "cleanVolume", "cleanData", "download", "check", "wipe", "rmPostgres",
          "rmVolume", "upPostgres", "ready", "stream", "imported", "postImport"}
Looked == [database : Content, postgres : {"none", "stopped", "live", "orphan"},
           liferay : {"none", "starting", "healthy", "exited"}]

(* Every variable has its type; only a task is ever canceled, and no volume is removed *)
(* under a container.                                                                  *)
TypeOK ==
  /\ site \in Sites
  /\ store \in [Storage -> Content]
  /\ Found \in Looked /\ (site.volume => postgres # "orphan")
  /\ others \subseteq {"main", "worktree"}
  /\ doclib \in {"absent", "default", "own"} /\ doclibPath \in {"default", "own"}
  /\ backup \in {"none", "partial", "whole"}
  /\ proc \in [Proc -> [cmd : Command, todo : Seq(Steps), canceled : BOOLEAN, found : Looked]]
  /\ \A p \in Proc : proc[p].canceled => proc[p].cmd.task
  /\ ended \in [cmd : Command, outcome : {"none", "ok", "failed", "refused", "canceled"},
               at : Steps \cup {"none"}, found : Looked]
  /\ runs \in 0..MaxRuns[site]

Ran(kinds, outcome) == Alone /\ ended.cmd.kind \in kinds /\ ended.outcome = outcome

(* env restore: a restore that reports success in a worktree, after whatever killed or  *)
(* failed commands, leaves the whole of its sources: the database of main and the other *)
(* data of the base, or of main when there is none.  (A failed `down` of a database in a *)
(* volume is not noticed, and the copy then goes over a used volume.)                    *)
RestoreIsWhole ==
  Ran({"restore"}, "ok") /\ ~site.main /\ ~May("main") /\ ~(site.volume /\ May("docker")) =>
    /\ Database = "main"
    /\ store["liferay-data"] = IF site.base THEN "base" ELSE "main"

(* env start: a task that is recorded as canceled leaves no container when the cancel was *)
(* seen by `docker compose up` or after it, and before that nothing that did not run when  *)
(* the task was launched, whatever ran before.  (A rollback may fail as docker may, and in *)
(* the wait for health nobody looks at the signal: canceled is recorded there as well.)    *)
PortalUp(state) == state \in {"starting", "healthy"}
PostgresIsUp(state) == state \in {"live", "orphan"}
StartedNothing(found) ==
  /\ PortalUp(liferay) => PortalUp(found.liferay)
  /\ PostgresIsUp(postgres) => PostgresIsUp(found.postgres)

CanceledStartLeavesNothing ==
  Ran({"start", "restart", "restore"}, "canceled") /\ ~May("docker") =>
    IF ended.at \in {"up", "rollbackStop", "rollbackDown"} THEN postgres = "none" /\ liferay = "none"
    ELSE ended.at = "health" \/ StartedNothing(ended.found)

(* A database worth keeping is only replaced by a command that says so: restore, clean   *)
(* and an import with --force; never by a start, a cancel, a rollback or a clone.  (An   *)
(* import that is not alone may find a database that came after its check: of another    *)
(* command, or of a portal that was running without one.)                                *)
Replaces(r) ==
  \/ r.cmd.kind \in {"restore", "clean"}
  \/ r.cmd.kind \in {"import", "sync"} /\ (r.cmd.force \/ ~Alone \/ PortalUp(r.found.liferay))

OnlyForceReplaces ==
  [][(Database \in Precious /\ Database' # Database) => \E p \in Proc : Active(p) /\ Replaces(proc[p])]_vars

(* db import: when it reports success for a whole backup and the environment did not run, *)
(* the database is that backup, whatever earlier imports left half done.                  *)
ImportIsWhole ==
  /\ Ran({"import", "sync"}, "ok") /\ backup = "whole"
  /\ ended.found.postgres \in {"none", "stopped"} /\ ~PortalUp(ended.found.liferay)
  => Database = "backup"

(* env clean: after a success nothing of the environment is left that it said it removes, *)
(* whatever an earlier clean left.                                                        *)
CleanRemovesAll ==
  Ran({"clean"}, "ok") =>
    /\ postgres = "none" /\ liferay = "none"
    /\ ~May("main") /\ ~May("worktree") => doclib = "absent"
    /\ site.volume \/ site.inside => Database = "absent"
    /\ site.inside => store["liferay-data"] = "absent"

(* env start: a start that succeeds has a volume of documents, and the one that DOCLIB_PATH *)
(* names, unless a container may hold the volume (of this environment, from before, or of   *)
(* another one) or docker fails: the code starts with the old device then.                  *)
StartMountsDoclib ==
  Ran({"start", "restart"}, "ok") =>
    /\ doclib # "absent"
    /\ /\ ended.cmd.kind = "restart" \/ ended.found.liferay = "none"
       /\ site.may \cap {"main", "worktree", "docker"} = {}
       => doclib = doclibPath

(* What the reports of success say, of a restore, an import, a clean and a start.        *)
SuccessMeansDone == RestoreIsWhole /\ ImportIsWhole /\ CleanRemovesAll /\ StartMountsDoclib

(* docs/commands/runtime.md:174 and docs/commands/advanced.md:80: restore replaces the data *)
(* from its source.  A restore never leaves an environment without the database it had.     *)
RestoreKeepsADatabase ==
  ended.cmd.kind = "restore" /\ Alone /\ ended.found.database \in Precious => Database \in Precious
=============================================================================
