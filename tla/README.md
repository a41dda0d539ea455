# A verification of ldev

ldev (`src/README.md`, `src/CONTEXT.md`) is a TypeScript command line tool for developing on Liferay:
it runs local Liferay environments in Docker, gives every git worktree an environment of its own,
builds and deploys modules, and imports, exports and migrates portal resources over HTTP. A local
dashboard serves the same operations to a browser.

This directory holds TLA+ models of the parts of ldev that keep state across steps, processes or
failures, the TLC configurations that check them on small instances, and TLAPS proofs for every
instance. `PROJECT.json` maps every definition to the lines it models and lists the runs, the known
hazards and the findings.

Contents: [1 The system](#1-the-system) · [2 Plan](#2-plan) · [3 The modules](#3-the-modules) ·
[4 The runs](#4-the-runs) · [5 The proofs](#5-the-proofs) · [6 What the models say about the
code](#6-what-the-models-say-about-the-code) · [7 What is not modelled](#7-what-is-not-modelled) ·
[8 Running it](#8-running-it)

Paths in this file are relative to `src/src/` unless they begin with `docs/` or `tests/`, which are
relative to `src/`.

## 1 The system

The layers are `cli` → `commands` → `features` → `core`, with `entrypoints/dashboard` beside the
command line (docs/architecture/layers.md, docs/adr/0002). Every command is a process of its own: two
terminals, the dashboard and an agent can all run ldev on one checkout at once, and what they share
is on disk, in Docker, in git and in the portal. Inside a process everything runs on one event loop.

### Components with state worth a model

**Dashboard task manager** (`entrypoints/dashboard/dashboard-tasks.ts`, `dashboard-task-commands.ts`,
`dashboard-task-routes.ts`).
State: the list of the thirty newest tasks with status and log, a map of AbortControllers, one notify
timer, the subscribed event streams. Operations: start, cancel, subscribe, and the callbacks of each
task's promise chain. It calls the features and passes them an AbortSignal.
Hard: a cancel request against a task that is just ending; eviction from a list that the admission
rule (409 when the worktree is busy) searches; throttled notifications that must not lose the last
change.
Correct means: two listed operations never work on one worktree; an accepted cancel decides the
outcome; an active task can be aborted; every outcome reaches every open page.

**Worktree runtime state** (`features/worktree`, with `features/env/env-start.ts` and `env-stop.ts`).
State: git's list of worktrees, their directories, the environment data of each (bind mounts, Docker
volumes or Btrfs subvolumes), the Btrfs base, whether main and each environment runs.
Operations: setup, the clone of main's data, start, clean, gc, refresh of the base.
Hard: some ten steps in several systems with no transaction around them; kills between any two; a
main environment that must be stopped while it is copied and started again afterwards; two commands
on one worktree.
Correct means: main gets its restart, a first boot finds one whole snapshot of main's data, no
worktree inherits data of an earlier one of the same name, and a clean that stopped half way can be
run again.

**Deploy cache** (`features/deploy`, `features/env/env-start.ts`, `env-recreate.ts`).
State: the modules' own build output, `build/docker/deploy`, the cache directory with one artifact per
module, a `.prepare-commit` marker beside each, and a lock file.
Operations: `deploy all|prepare|module|theme|watch|cache-update`, the restores by `start` and
`env recreate`.
Hard: the lock is a file that a killed process leaves behind; the cache is read without it; the
marker is one commit for a directory that several commands fill one module at a time.
Correct means: writers exclude each other, everybody gets an answer, and when the cache claims a
commit its artifacts are of that commit.

**Structure import and content migration** (`features/liferay/resource`: `import-engine.ts`,
`import-strategies`, `migration`).
State: in the portal, the definition of a structure and the values of its contents; in the command,
the stage of the pipeline, a snapshot of source values, the contents migrated so far.
Operations: import with and without a plan, the pre and post parts, per-content migration and
cleanup, the introduce and cleanup stages.
Hard: a field of the definition can only be removed after every content has been moved; each request
can fail, time out, or take effect after the command gave up; a failed command is run again.
Correct means: no value that the plan maps is ever lost, targets are never overwritten, the scope is
respected, and "updated" means what it says.

**Portal client and tokens** (`features/liferay/liferay-gateway.ts`, `core/http`,
`lookup-cache.ts`, `core/concurrency.ts`).
State: an OAuth token in memory and one in a file that all ldev processes of a user share, caches of
looked-up ids. Operations: request with retries, refresh after a 401, a limiter and a fail-fast pool.
Hard: several requests refresh at once; the token in the file may be revoked or half written; a
connection that broke is tried again. Correct means: a stale token never makes a command fail, a
request is carried out once unless its connection broke, a pool ends and loses nothing.

**Environment lifecycle and database** (`features/env`, `features/db`).
State: the two containers and their health, the database and the other data, the Docker volume with
the documents that all worktrees share, the downloaded backup.
Operations: start with rollback, stop, restart, recreate, restore, clean, `db import`, `db sync`.
Hard: a cancel during a wait of minutes; docker steps whose failure is ignored; directories that are
replaced while a container may have them mounted; kills between a removal and the copy after it.
Correct means: a canceled start leaves nothing running, a success means that the data are whole, and
a database is only replaced by a command that says so.

**Content prune and stats** (`features/liferay/content`). State: the folders and articles in scope,
a plan of what is kept, the deletions done so far; for the stats a walk over the tree of folders.
Hard: deletions run in parallel and each may fail or be carried out unanswered, editors work
meanwhile, folders are removed on counts read earlier; a walk needs one limiter at every level.
Correct means: what the limits keep survives, the report and the dry run are true, every walk ends.

**Imports and exports of resources** (`features/liferay/resource`): templates and ADTs, fragments,
object definitions and picklists, style books. State: local directories and the portal. Operations:
export, single and bulk import with find, create or update, publish, verify; for fragments a zip that
the portal installs on its own time. Hard: several names may mean one template; a runtime cache of
ids; several requests per artifact, any of which may be refused or lose its answer; the command is
given again. Correct means: a success brought every file to its artifact, a repetition makes no
second one, nothing else is changed, and an export imported again changes nothing.

**Commands on a site** (`features/liferay/redirects`, `batch`, `site-initializer`, `features/oauth`):
redirects, batch import, site initializer, OAuth2 installation. State: the portal's redirects, tasks,
sites and applications; the profile of credentials. Hard: tasks outlive the command, a recreated site
is deleted first, an installation makes credentials, tries them and saves them while the bundle starts
on its own time. Correct means: what the report says was created, updated or verified is so.

**Checkouts** (`core/config`, `core/runtime`, `worktree-env.ts`, `features/env/env-setup.ts`): the env
files of main and its worktrees, the local configuration, and the ports, names, directories and
volumes that follow from them. Correct means: a command given in a worktree acts on that worktree, and
two checkouts share no port, name, directory or volume.

**Discovery** (`features/liferay/inventory`): site lookup over five endpoints with a
cache, the inspection of a page by some fifteen requests, where-used with its candidates and its pool
of workers, reports over many sites. State: lists read page by page while the portal changes, the
work of the pool. Correct means: what is found is what was asked for, a use is not missed without a
word, and every site or page is counted once.

**Workspace** (`features/db/db-files-*`, `features/project`, `features/client-extension`,
`entrypoints/dashboard` log streams, migration descriptors). State: pid files, volumes, the files of a
project and its commit, the log of the portal, processes that follow a container. Correct means: a
download runs once, a project said to be ready is whole, a deployment said to be well is, a follower
ends with its client, and a descriptor fits its structure.

### Components that are functions of their input

Single reads of the portal, database queries, doctor, verify, reindex, OSGi, agent files, contracts,
platform, command line, dashboard pages. Each reads something, computes and reports, or performs one
external step; section 7 gives the reason for each.

### How they interact

- The dashboard starts features as tasks; each run of a feature by the dashboard is a process of
  `WorktreeState` with the rule that a worktree has one run at a time (`OneRunPerWorktree`).
- `worktree setup` clones the deploy cache along with the database (it is one of the storages
  `WorktreeState` copies); `env start` restores artifacts from it (`start`, `env` and `recreate` in
  `DeployCache`).
- `env start` in a worktree without state clones main's data: one step (`Prepare`) of `Environment`,
  whose own steps and faults are those of `WorktreeState`. The dashboard's cancel (`DashboardTasks`)
  is the `Cancel` of `Environment`, which says what a feature makes of the signal.
- The migration talks to the portal through the portal client; in `StructureMigration` and the
  resource imports the client's retries appear as a request that is answered, refused, carried out
  with its answer lost, or carried out late. `RequestOutcome` states that interface, and
  `PortalClient` is shown to implement it.
- Where-used inspects pages with the same code as the page inventory: `WhereUsed` extends
  `PageInventory` and runs its inspections inside the pool.
- `Checkouts` has what `worktree setup` writes into the files of a worktree and what every later
  command resolves from them; `WorktreeState` has the steps of the clone between the two.
- Commands share nothing but disk and portal, so those that touch different things are checked side
  by side in one run: a behaviour runs one of them, chosen in the initial state.

## 2 Plan

Order of work, most important behaviour first. All of the modules are written.

| # | module | composes | run | theorems |
|---|--------|----------|-----|----------|
| 1 | `DashboardTasks`, abstract `TaskLifecycle` | manager, routes, streams | `dashboard_tasks` | type, four invariants, refinement |
| 2 | `WorktreeState` | setup, clone, start, clean, gc, base, git, docker | 3 runs | types, handoff, clean, fresh data, refusal, one snapshot |
| 3 | `DeployCache` | all deploy commands and restores | 2 runs | types, exclusion, writes, cache honesty, `deploy all` |
| 4 | `StructureMigration` | import, migration, pipeline, portal | `structure_migration` | types, scope, targets, values, reports |
| 5 | `Environment` | start with rollback and cancel, stop, restart, recreate, restore, clean, import, sync | 2 runs | types, cancel, reports, nothing replaced unasked |
| 6 | `PortalClient`, abstract `RequestOutcome` | gateway, token file, retries | `portal_commands` | type and invariant, no stale refusal, refinement |
| 7 | `ContentPrune`, `FolderWalk` | prune with plan and execution; limiter and pool | `portal_commands` | the prune's promises, the limit, every folder seen |
| 8 | `ResourceImport`, `FragmentImport`, `ObjectImport`, `StyleBookImport` | exports and imports, with the import engine | `commands` | all four |
| 9 | `RedirectImport`, `BatchImport`, `SiteInitializer`, `OAuthInstall` | commands on a site | `commands`, `oauth_install_again` | all four |
| 10 | `Checkouts` | env files, local configuration, ports, names, volumes | `commands` | all of it |
| 11 | `SiteLookup`, `PageInventory`, `WhereUsed`, `SiteReports` | discovery | `commands` | the reports, the folders and pages counted, the lookups |
| 12 | `DocumentLibrary`, `Scaffold`, `ClientExtension`, `LogStream`, `MigrationFiles` | files and processes of a project | `commands` | all but `MigrationFiles` |

What would come next: the conditions on a portal under which where-used misses no use and reports no
other, with the proofs, and an abstract life of a worktree's data (absent, whole snapshot, own, absent) with a
refinement of `WorktreeState`.
All modules are written to be proved about: parameters are CONSTANTS with named assumptions, one
action per step, no RECURSIVE operator.

## 3 The modules

A synchronous stretch of code is one action; what is separated by an `await`, a request or a file
operation another process can observe is a step of its own. Definitions named `Bug...` are faulty
variants of the definition that follows them; nothing in the specifications uses them, they serve to
show that each property can be broken by a mistake in the code.

### DashboardTasks, TaskLifecycle

`tasks` is the list, newest first; `status`, `logs` and `request` belong to task objects and survive
their eviction, as the closures in `startTask` do. `controllers` is the map, `aborted` the signals
that fired, `chain` how far the promise chain has come (running → settled → done: the `finally`
callback is a later turn of the event loop than the one that sets the status). `notifyTimer` is the
50 ms timer, `view` the last list written to each stream. Actions: the queueing route with its
admission check and `startTask` in one synchronous stretch; output of the run; the end of the run
with its outcome; the finally handler; the cancel request; the timer; a stream that opens or closes.
Left out: labels, timestamps, and the content of log lines beyond their order and kind.
`TaskLifecycle` is the promise about one task: it runs once, a cancel request is remembered, the
outcome follows from it and never changes. `status` maps to `status`.

### WorktreeState

One process per command, its step in `proc[p].pc`. What a storage holds is abstracted to where it
came from: absent, empty, a torn copy, version `v` of main's data, or written by an environment of
incarnation `n` of the worktree (`gen` counts `git worktree add`). A snapshot is whole exactly when
all storages have the same version. `site` is the machine: which storages are Docker volumes and
whether there is a Btrfs base. `Faults` names the steps that may fail (kill, git, copy, remove,
docker, start), `UserActions` what the user does meanwhile, `Handoffs` the flags
`--stop-main-for-clone` and `--restart-main-after-clone`. Left out: setup without an environment,
deletion of the branch, ports, and the files copied into the worktree.

### DeployCache

An artifact is the sources it was compiled from: a commit and whether the module had uncommitted
changes. Directories map modules to artifacts. Every commit is taken to change every module, the
hardest case for a marker that claims a commit. A `world` is a set of liberties that users take in one
behaviour (commands together, commits during a command, checkouts, edits, wipes of the build
directory, kills, `deploy module` without an earlier full build), so one run checks the disciplined
and the undisciplined use side by side and properties say which world they are about. The Docker
volume branches of `deploy-cache.ts` are dead code, since `resolveRuntimeStorage` binds this storage
on every platform, and are not modelled. The compile is one step: Gradle keeps its own lock.

### StructureMigration

The portal is `def` (the shape of each field: gone, or one of two shapes), `content` (a value per
content, locale and field, abstracted to the field it was first entered in) and `late`, the
definition updates that timed out and may still take effect. The portal shows nothing of a value
whose field is gone or has another shape. `run` is the one command: its stage, the part before or
after the final update, what it read (`remote`, `before`, `snap`), the contents to do and done.
`world` again holds the liberties: an editor at work, contents created meanwhile, scoped plans, dry
runs. A PUT of a content takes effect before the command goes on or never: the command reads each
content back up to eight times, and that wait is one step. Left out: `--allow-breaking-change`,
dependent structures, nested fields, the read-only validation at the end of the pipeline.

### Environment

A command is the sequence of its awaited steps: `proc[p].todo` is what is left of it, `Plan` the
sequence it begins with, and each step is an action that goes on (`Proceed`), ends the command
(`Finish`) or changes what is left (`Then`): the rollback of a canceled start, the reset of a forced
import. A storage is abstracted to where its content came from, as in `WorktreeState`; the database
is one, `liferay-data` stands for the others, which one loop of the restore treats alike. A
container is `orphan` when the directory it has mounted was removed under it. `doclib` is the device
of the shared volume of documents, `doclibPath` the one that DOCLIB_PATH asks for, and `others` the other
environments that run and may hold the volume: main's and another worktree's. `ended` is the
last command with its outcome, the step it ended at and what it found when it was launched (a history
variable: it decides nothing); the outcome of a task whose signal was aborted is "canceled" however its
run ended (`Recorded`). `site` is the checkout: main or worktree, database in a directory or in a volume
(POSTGRES_DATA_MODE), a Btrfs base, a data root in or outside the repository, a backup that is
compressed or not, and the liberties of the behaviour: kills, failing docker commands, failing
copies, cancels, broken downloads, a main and another worktree that start and stop, edits of DOCLIB_PATH, commands
together. Only a task of the dashboard has a signal. Left out: the activation key, the copied
configuration files, the deploy cache (`DeployCache`), a CIFS volume of documents, and volumes for
the data other than the database.

### PortalClient, RequestOutcome

A token is the number of its issue; it lives `Lifetime` ticks and is revoked by a restart of the
portal. Each request is a small machine: choose a token (from memory, from the file, or ask), send,
be answered, refused (401, then a second round with a forced token), or broken and tried again up to
`MaxAttempts`. `memory` belongs to a process, `disk` to all of them; a file that is being written may
be read torn. `carried` counts what the portal did. `RequestOutcome` is what a command may rely on:
pending until answered or given up, done once unless the connection broke, and it ends.

### ContentPrune, FolderWalk

`ContentPrune` has the scope of folders, the listing of the articles, the plan (keep the newest of a
folder or of a structure), two workers that delete, the removal of folders, each a request that is
answered, refused, or broken with or without effect, and an editor who adds or deletes meanwhile. A
folder is given by its parent, and `Up` is what lies above it; a folder that exists has its parents.
`FolderWalk` has the limiter shared by the whole walk and the fail-fast pool of each folder; a folder
gives its place back before it waits for its children. The tree does not change during a walk, and each
folder is in one other (`IsTree`).

### ResourceImport, FragmentImport, ObjectImport, StyleBookImport

A case is a command line over a state of disk and portal; bodies and scripts are opaque, names and
keys are what the code compares. Each has the export, the lookup with its fallbacks, the writes in
their order, the read-back, the refused request and the lost answer, and the command given again.
`ResourceImport` has the lists that a refusal leaves empty: of templates, which are then found without
their structure (`FindBlind`), and of ADTs, for which the import then chooses the site and searches
(`FindAdtBlind`); `home` is the site it has chosen.
`FragmentImport` has in addition the runtime cache of ids, the portal's refusal of a key it has and the
creation without one that follows, and the zip that the portal installs later,
`ObjectImport` the guards against removals and another user who adds parts, `StyleBookImport` the two
requests of an update. In `ObjectImport` fields and relationships have an external reference code (ERC) beside their
name: the command compares by name, puts the ERC of the portal into what has none (`WithErc`), and the
portal matches by ERC and deletes what the body lacks (`ByErc`, `KeptParts`); entries of a picklist go by key.

### RedirectImport, BatchImport, SiteInitializer, OAuthInstall

The check of a redirect map against its own loops and against what the portal serves (an answer that ends
with the destination will do: `ends` has these pairs), and the upserts;
the Batch Engine's task, which goes on after the command has timed out and may be overtaken by a
second one; a site that is created, recreated or refused and then read back; and the installation,
whose bundle is modelled from its Java template (`src/templates/modules`): its configuration, its
start, the Gogo command, the credentials that are made up, tried and sanitized.

### Checkouts

`envFile`, `localUrl` and `services` per checkout, `told` (what `worktree env` last reported) and the
Docker volumes. An env file is the value of each of its keys (of two lines with one key `readEnvFile` takes
the last, and `upsertEnvFileValues` leaves one); a value is a sequence of words, so that prefixes and
suffixes are what the code makes them, and a port is its number. Operations: setup of the environment,
preparation of a worktree, start, stop and clean, from any directory, with edits by the user in between.
A command of the environment acts on the checkout that it finds from its directory (`WorksOn`): with a
branch that has no `liferay/`, ldev finds main from a worktree, so the command is one of main's, which
the model has already, and nothing is promised of such a worktree (`ContextIsOwn` says so).
`CheckoutAssumption` is what the properties need of the names: the name of a worktree is a word of its own,
which no name that main's file, its example or its user gives has in it, and no storage of main is called
as its volume of documents is. The code checks neither; a user who names a volume of main after a
worktree does share it.

### SiteLookup, PageInventory, WhereUsed, SiteReports

`SiteLookup` has five endpoints with their refusals and faults, lists in pages, companies, and the cache
with its age. `PageInventory` is a function of a portal and the requests that fail: the evidence of a page.
`WhereUsed` has the catalogs, the choice of sites, the candidates of each source, and the pool of
workers that inspects them while the portal changes. `SiteReports` has the three reports with their
units of work, pages and places in the pool.

The assumptions say what the portal sees to: one site of each URL in a company, a global site in the
command's own, which no step of the model renames or deletes and which is below no other, folders of which
each is below one that is there, and finite lists. Nothing is assumed of what is refused, of the order in
which lists come, or of how many sites, folders, pages and workers there are.

### DocumentLibrary, Scaffold, ClientExtension, LogStream, MigrationFiles

`DocumentLibrary`: downloads as processes with a pid file, complete or not, and the volume that is
removed and created; a mount takes a directory that exists, whether a library is in it or not (`dirs` are
those without), then the NAS, then the default, which it reports also when it leaves a NAS volume as it is. `Scaffold`: the files of a project one by one, a run that stops at any of them,
env file, connectors and commit. `ClientExtension`: the lines of the portal's log, which the command
reads from one second before its start, and the portal working through deployments in turn; that second may
hold any earlier lines (`logFrom`), more than it can in fact. A shell that cannot be asked for the bundle, and
a read-back that is refused, are faults that end in an error (`ReadBundle`, `ReadBackFails`). `LogStream`: client,
follower, response. `MigrationFiles`: definitions as forests of fields, the descriptor derived from
them, and the definition and layout without the cleaned-up fields.

### The MC modules

`MCPortal` and `MCCommands` put modules side by side that share no state: a behaviour runs one of them,
the others stand at their end. `MCCommands` extends `MCResources`, `MCSites` and `MCWorkspace`,
which hold the cases of their families, and has those of discovery itself. This keeps one question per run ("is what the
command says true?") and gives the parts one property each, a conjunction of the named properties in
their modules.

## 4 The runs

Every run ends with all reachable states of its instance. Where a run has `CHECK_DEADLOCK FALSE`, the
system may really stop: the commands of the bound are all used up, or every task has ended.

| run | states | what it shows |
|-----|--------|---------------|
| `dashboard_tasks` | 615,026 | types, `ListedExclusion`, `CancelDecides`, `AbortReachesActive`, `NoLostUpdate`, `OutcomeIsShown`; `ImplementsLifecycle`: the manager implements `TaskLifecycle!FairSpec` |
| `worktree_recovery` | 2,801,177 | types, `HandoffRestored`, `FreshIncarnation`, `RefusalMeansGone` under every fault and kill |
| `worktree_snapshots` | 284,672 | `OneSnapshot`, `CleanLeavesNothing` on three kinds of machine |
| `worktree_main_down` | | main stays down after a git failure (finding) |
| `deploy_cache` | 595,152 | types, `LockExclusive`, `WritesUnderLock`, `CacheHonest`, `DisciplinedDeployAllRebuilds`, `EveryCommandEnds` |
| `deploy_all_partial` | | `deploy all` deploys one module only (finding) |
| `structure_migration` | 5,316,842 | types, `ValuesSurvive`, `TargetsKept`, `ScopeRespected`, `ReportsAreTrue` ("updated" without `--skip-update` means applied, success means migrated) |
| `environment` | 2,896,437 | types, `CanceledStartLeavesNothing`, `OnlyForceReplaces`, `SuccessMeansDone` (of a restore, an import, a clean and a start) |
| `environment_restore` | | a restore of main from a Btrfs base loses its database (finding) |
| `portal_commands` | 230,612 | `PruneIsHonest` (what is kept survives, the report and the dry run are true), `PruneEnds`, `UnauthorizedMeansRevoked`, `ImplementsOutcome`: the client implements `RequestOutcome!FairSpec`, `WalkCompletes` |
| `commands` | 481,684 | `ImportIsFaithful`, `FragmentsAreFaithful`, `DefinitionsAreFaithful`, `SiteCommandsAreFaithful`, `CheckoutsAreApart`, `DiscoveryIsFaithful`, `WorkspaceIsFaithful` |
| `oauth_install_again` | | a second installation rotates the secret and saves nothing (finding) |

Every property of a passing run has a faulty variant of the code that breaks it (`mutants` in
`PROJECT.json`). A module may hold more `Bug...` definitions than are listed there: those break
another conjunct of a property that is a conjunction.

### Bounds, and why they are enough

- **Dashboard.** Three tasks through a list of two: a task can be evicted while active, while another
  task of its worktree is listed, and after it ended. One worktree with two kinds of task, and a kind
  that names none. One stream and one log line suffice for the timer: the properties relate one stream
  and one task.
- **Worktree.** `worktree_recovery`: two processes on one worktree, four commands, any fault at any
  step, on disk and on Btrfs. Four commands are a setup, an interrupted clean, a second setup and
  whatever the first left running. `worktree_snapshots`: two worktrees that clone from one main, with
  two versions of main's data, so that a copy can be torn between versions. Two storages: the
  database, which may be a volume, and the deploy cache, which never is. A property about the
  storages relates at most two of them.
- **Deploy.** Two modules, one a client extension zip, which `start` does not count; two commits, two
  processes, two attempts on the lock, so that a waiter waits and times out. Five commands in a row
  for the disciplined world (build, module, commit, deploy, restore), three for races and kills, two
  for everything else.
- **Migration.** Two mappings to one target, of which only one source is to be cleaned; the local
  file keeps, drops or reshapes the sources; two contents, one possibly bilingual; three commands in a
  row, which is a failed run, its repetition and a cleanup. Symmetry over the contents.
- **Environment.** Ten checkouts with one to three liberties each: kills, failing commands, failing
  copies, cancels and commands together meet main and a worktree; edits of DOCLIB_PATH meet failing
  commands, failing copies and another worktree; broken downloads and a main that comes and goes meet
  one kind of checkout each; four commands one after another (a start, something that is killed or fails,
  its repetition, a clean), three when two run together or another worktree comes and goes, two when two
  run together with the database in a volume. The code never
  loops over commands or processes, so what a command finds depends on its predecessors only
  through the containers and the data. Symmetry over the two processes.
- **Portal.** Three folders in two levels with four articles, the last of which may come late, one
  fault and one edit; all options of the command line that change its course. Two requests of two
  processes, a lifetime of two ticks, one revocation, one broken connection, two attempts: a token can
  be stale in memory, in the file, or both. Three trees of seven folders with a limiter of two places,
  so that at every level more folders wait than have a place.
- **Commands.** Each command is given up to twice with one refused request or lost answer (OAuth: two;
  checkouts: four commands), over the smallest inputs that have the cases the code tells apart: two
  names that clash, two sites of which one has no directory, a company fallback, a definition with
  every kind of drift, four refusals of the site lookup, lists of more than one page, two workers,
  more candidates than workers, an earlier deployment still under way. The cases are written out in
  the MC modules. No command loops over its own results, so a third repetition finds what the
  second found.

### Fairness

- **Dashboard**: the event loop. The finally handler of a settled promise and an armed timer are run
  in the end (`ChainEnds`, `NotifyTimerFires`). That a run settles at all is the assumption
  `RunsTerminate`: it depends on Docker and git and is needed for the end of a task only.
- **Deploy**: a live process takes its next step. Nothing in the code waits without a bound (the lock
  gives up after its attempts), so weak fairness of each process is enough; a kill ends a process at
  any point.
- **Portal**: a command takes its next step (`PruneStep`), a request that has a next step takes it
  (`ClientStep(r)`), and each folder's request and each worker of a pool goes on (`WalkFairness`): HTTP
  requests have a timeout, so each is answered or fails. Nothing is assumed of the portal's restarts,
  of editors or of broken connections.
- **Worktree**, **Environment**, **Migration**, **Commands**: only safety is stated.

### The shape of the properties

Some properties hold only under a condition, which is part of their statement: `CacheHonest` and
`DisciplinedDeployAllRebuilds` for users who take no liberty, `ValuesSurvive` and the part of
`ReportsAreTrue` about a finished migration for plans without scope and nobody editing meanwhile,
these and `TargetsKept` for a plan that fits the structures (`PlanFits`), and `ReportsAreTrue` for imports
that were not told to skip the update,
`OneSnapshot` in a run where nobody starts main during a copy and no copy fails, `FreshIncarnation`
without Btrfs, the part of `SuccessMeansDone` about a restore for a worktree whose main is down.
`KeptSurvive` excuses articles that an editor deleted, that share a folder above them with one added
meanwhile, or whose place among the newest one added meanwhile takes;
`ImportIsFaithful` excuses entries that share a template, templates that a refused list left
without their structure, and ADTs whose lists were refused in that run (`Misled`);
`DefinitionsAreFaithful` excuses relationships to which the file gives another ERC (`Replaced`), and what
another user added after the command had read the definition;
`FragmentsAreFaithful` holds as long as no key of a local fragment or collection is the file name made of
the name of another one (`Ambiguous`), counts a fragment once per collection where a collection had to
be created without its key, and excuses the report of a zip when two collections share a title;
`StyleBooksAreFaithful` holds as long as no other style book goes by the ERC of the file;
`DeploymentIsTrue` excuses lines of an earlier deployment (`Overlap`); `LibraryIsFaithful` allows a saved
path without a library that the user asked for, and a NAS volume that is left under a report of the default; the lookups are exact for what is not
refused. What happens outside these conditions is in section 6.

## 5 The proofs

Eight modules of proofs (`DashboardTasksProofs`, `WorktreeStateProofs`, `DeployCacheProofs`,
`EnvironmentProofs`, `StructureMigrationProofs`, `PortalProofs`, `ImportProofs`,
`CommandProofs`) are checked by TLAPS for every value of the constants under the assumptions in the
modules: for any number of tasks, streams, processes, worktrees, storages, machines, modules, commits,
contents, locales, fields, mappings, folders, articles, launches, requests, ticks, attempts, templates,
files to import, sites, companies, pages, workers, redirects, batch items, parts of a definition, style books, downloads, log lines,
files of a project and runs. Where a theorem needs more it says so in an ASSUME with a name, or the
property begins with that name, and the condition is one outside which the property fails:

| condition | theorems | what it says | why it is needed |
|-----------|----------|--------------|------------------|
| `OneRun` | `CleanIsComplete` | the dashboard's admission rule, and no gc | a setup beside a clean adds what it removes |
| `NoStaleVolumes` | `NoEarlierData`, `RefusalIsHonest` | no Docker volumes outside Btrfs, or docker does what it is asked and one command works on a worktree | a volume that could not be removed outlives its worktree |
| `Calm` | `FirstBootIsOneSnapshot` | no kill, failed copy or removal, gc, start of main or refresh of the base under a clone, no volumes beside a Btrfs base | each alone leaves or makes a mixed clone |
| `PlanFits` | `StructureTargetsKept`, `StructureValuesSurvive`, the second half of `StructureReports` | no field is a source and a target of the plan, the local file has every target, the portal has it in that shape or not at all | `parseMigrationPlan` checks none of it: a chain A to B, B to C copies A into B and then blanks it there, and an update takes a target away that the file lacks (section 6) |
| `RootsInOrder` | `PruneKeepsItsWord` | no root folder is listed before a root above it | the child goes first, then the parent goes with what is kept (section 6) |

**Dashboard.** `IndInv` is inductive: it is the five invariants of `dashboard_tasks` with
`ChainMatchesStatus`, without which neither `AbortReachesActive` nor `CancelDecides` is preserved: a
step of the chain must know that the status it overwrites is still active, and that a finished chain
has no controller left. `ListedExclusion` needs that only started tasks are listed. `Inductive` shows
`Spec => []IndInv` with one case per action; `TypeCorrect`, `Exclusion`, `CancelIsFinal`,
`AbortIsPossible` and `UpdatesAreDelivered` are its conjuncts. `Refinement` shows that the manager
implements `TaskLifecycle!Spec`: the initial states map to initial states, and every step is a step
of one task's life or leaves it alone; `IndInv` supplies that a chain that settles belongs to an
active task.

**Deploy.** `Types` proves the type invariant; the attempts on the lock staying below
`CACHE_LOCK_ATTEMPTS` is the one part of it that depends on the guard. `Exclusion` proves
`LockExclusive`: a process is between `open('wx')` and the finally exactly while the lock file is
its own, whoever is killed, throws or gives up. The equivalence is what makes it inductive: the
direction the exclusion needs does not hold inductively without the other.
`OnlyTheHolderWrites` derives the action property `WritesUnderLock` from it.
`DisciplineInv` is about users who take no liberty: one command at a time, commits only in between.
Then between two commands the markers of cache and build directory agree, and if they are HEAD, both
directories are whole (`Agreed`); inside a command this is broken and mended, and `Stage` says position
by position what has been made true. `CacheTellsTheTruth` is `Agreed` read off; `DeployAllKeepsItsWord`
needs the stage before its last step, since a `deploy all` that skips the compile relies on the word of
commands that ran before it.

**Worktrees.** The types need more than types: incarnations stay within the number of launches because
each setup adds its worktree at most once (`Counted`), and a storage never holds a version that main has
not written (`Versions`). Then, in order of the conditions they need:
- `HandoffInv`, without any: a setup that stopped main has either restarted it or still has the finally
  block before it. `MainIsRestarted` holds with every kill, failure and command beside it.
- `FreshInv`: without Btrfs the bind directories lie inside the worktree, so what they hold belongs to
  its present incarnation, however a clean ended. Volumes do not lie inside it, hence `NoStaleVolumes`.
- `Exclusive` and `CleanInv`: only one command is on a worktree, so what a clean has read and removed stays
  as it left it.
- `VolumesInv`: where docker does not fail, a clean has stopped the environment and removed the volumes.
- `SnapInv`: how far a clone has come. What lies before the storage at hand is main's present version (or
  the base's), what lies after it is absent, and main does not write meanwhile (`SnapAt`, `BaseKept`);
  outside a clone every worktree is uniform (`Whole`), and so was every first boot.

**Environment.** The list of steps of a command is a path: `Follows` has the steps that may follow one
another and `Ends` where a command may end, so that an invariant can speak of the step a command is at
instead of the sequence it was given (`Paths`). `AloneInv` holds where commands do not overlap: at most one
is at work, what it has made true before each of its steps (`StageAt`, with one formula for starts,
restores, imports and cleans), and what the last one promised when it ended. From it follow
`ReportsAreTrue` for the four kinds of success, and `NothingReplacedUnasked`: the only steps that change a
database worth keeping belong to commands that said so, which for an import rests on what its check
found and on nobody having filled the directory since. `CanceledLeavesNothing` needs a second invariant
on top of it: up to `docker compose up` the steps of a start only take containers down, so that nothing
runs that did not run when the task was launched (`CalmInv`), and from there a cancel that is seen leads to
the rollback, which is a path of its own.

**Content prune.** `PruneInv` relates what was read to the site while an editor changes it: a folder had
at least the articles that were there from the start or have been listed in it (`Reading`); the plan
contains no kept article that the editor has not upset (`Planned`); every article is planned, at hand,
done or failed, each exactly once, which is what makes the report's numbers true; a folder that is to
be removed has nothing kept below it (`Kept`), because its count equals the planned articles below it and
a finite set has no proper subset of its size (`RemovableIsEmpty`). `UpIsAChain` (two folders above one
folder are one above the other) is what makes the scope of a folder and the order of roots well-behaved.
`CountedOnce` states the sum over folders as one bijection.

**Folder statistics.** `WalkInv`: the limiter holds each folder once, as "queued"; the children that a pool
has not reached are "waiting" (`NotReached`), so a folder is never asked for twice; and the result of a
folder that is done is closed under children (`SeenBelow`), so that of the root is the whole tree.
`JoiningKeeps` is the one step behind three actions: a folder gives its place back and its next children
join the queue. `RequestsAreLimited` is the limit, and that nobody waits while there is a place, on which
the liveness rests.

**Discovery.** Four theorems in `PortalProofs` about the specifications of `SiteReports`, `WhereUsed` and
`SiteLookup`. The run `commands` checks their properties as parts of `DiscoveryIsFaithful`.
- `ReportsAreWhole` (`ReportInv`). For a count of contents: each site is waiting, at hand, counted or
  skipped, and the skipped ones are listed once each (`SitesPart`). For rows of folders: the units of work that wait for
  a place wait once, no more have one than the pool allows, and as long as a folder stays, what was read
  of it is the first pages of what it has (`RowsPart`). For an inventory: a site that is left out
  refused, and what is collected of the others is what they have (`InventoryPart`).
- `FoldersCounted` (`FoldersInv`): a folder that nobody moved, nor one above it, is listed at most once, waits
  on at most one stack and only when it is listed, and is listed exactly when its parent is and waits
  no more (`ToldOnce`). So when the stacks are empty, a folder that is not listed has a parent that is not, up to a
  root, which is: such a set of folders is empty (`WalkHolds`).
- `PagesAreCounted` (`HuntInv`): no two workers have one page (`HuntPool`); candidates have no URL twice, which
  is what the removal of repetitions is for (`DedupeIs`); a page that was handed out and is still "waiting" is
  with a worker, and a worker with none means that there is none left (`HuntPages`); so the report of
  a site has one outcome for each of its candidates. The sites chosen are apart as well, and one report is
  added for each.
- `LookupsHold` (`LookInv`): what the cache has of a URL was so at a time that is no further back than
  the life of an entry (`LookWas`, `LookKnown`); what the endpoints asked so far have not shown they refused, or the
  site has been changed meanwhile (`LookMissed`); the chain so far follows the parents and never meets a
  site twice (`LookChain`).

**Commands.** `CommandProofs` has an inductive invariant for each of thirteen modules of the run `commands`,
those of `ResourceImport` and `FragmentImport` from `ImportProofs`.
`CommandInv` is all of them; `Init` and `Next` of `MCCommands` compose the modules, and a step of one
command leaves the variables of the others alone, so `CommandInvariant` is `Spec => []CommandInv`.
`ImportsHold`, `FragmentsHold`, `SiteCommandsHold`, `DefinitionsHold`, `CheckoutsStayApart` and `WorkspaceHolds` read
the properties of the run off it.
The assumptions on the constants are about the shape of the inputs only (records have their fields,
lists are lists, no two style books share an ERC, which the portal sees to).

*Templates and ADTs* (`ImportsHold`, and `ImportFaithful` of the import by itself): `ImportInv` has six parts.
- `ImportRows`: a row that was in the portal has its site, key and ERC still, and differs only in what an entry
  that it goes by the name of has brought (`OldRow`); a row that was not is one entry's (`NewRow`); and
  two new rows stand for different entries, unless the first is bound to no structure. That is why
  repeating an import makes nothing twice: `CreatedOnce` maps the new rows one to one to the entries. Rows
  made by an import of ADTs after a refused list are left out of the count (`MisledNames`).
- `ImportPlace`: every entry of a run is pending, processed, failed or at hand. `ImportTarget`: what the first
  search told is still so when the write is sent; nothing else was written in between.
- `ImportWritten`: what was written is found again and still has its script, or another entry came down on the
  same row. It rests on what the searches find when a row is added or changed (`FoundAppended`,
  `AdtAppended`, `FoundAlike`): a created row is the last of its site and hides none that was found, and an
  update changes no name that another entry goes by (`UpdateFinds`, which needs `OneNameEach`).
- `ImportBack`: in an export that is imported again every file finds the row it was made of (`BackFinds`).

*Fragments* (`FragmentsHold`, and `FragmentsFaithful` of them by themselves): `FragmentInv` has six parts.
- `KeysOnce`: the portal has no key twice in a site or in a collection, except those it makes up. It
  refuses a key that it has, so a creation whose answer was lost is found by the next attempt.
- `FragmentPlace`: every fragment of the site being done is left to do or has a result, every one of a site
  that is done is reported. `NoSecondImport`: the zip follows only a site whose every result is a failure.
- `FragmentNames` ties the rows of the portal, the cache and the results to the local files: a collection is
  the one that was there or was made for a local one (`CollectionRow`); an entry is as it was unless a
  fragment of its own key wrote it (`EntryRow`); what the cache tells of a token is the local collection
  (`FoundAs`), or an entry of the collection that has that token (`TokenOf`); the collection being done is
  the right one (`RightCollection`); and a result without an error has its body in the portal
  (`FragmentImported`). `OwnEntry` is why that stays: a fragment is written over its own entry or becomes
  a new one, so no later fragment takes its body away. It needs that no names are ambiguous (`TokensApart`),
  and the part is conditional on that, as the property is.
- `FragmentsBack`: in an export that is imported again every row is in the cache under its key (`AllKnown`), so
  each fragment is found and written as it was (`OwnBack`), and nothing fails (`NothingFails`).

*On a site* (`SiteCommandsHold`):
- `RedirectInv`: of the rows of a map, those that are no longer to do match what is stored, and those
  to be created have a source that is not stored, so writing one never touches a redirect of others.
  It rests on the check of the map, which refuses two rows with one source (`SourcesDiffer`).
- `BatchInv`: an ended task without failures has written every item it has passed (`WrittenBy`), and what a
  run that completed has read last is that task, as it ended.
- `SiteInv`: the portal has the site it had, none, or one this command made. A site is deleted only
  under `--recreate` and created only where there is none.
- `OauthInv` follows one pair of credentials from the configuration file through the bundle to the
  application. A pair is accepted while it is taken (`TokenHeld`); without a configuration file the
  command raises no flag; after a verification the flags are down again.

*Definitions* (`DefinitionsHold`):
- `StyleInv`: at each place of the import, how much of the file the style book has (`StylePlaces`), while the
  others are as they were (`Untouched`). It is conditional, as the property is, on no other style book
  that goes by the ERC of the file.
- `ObjectInv` has five parts for the five things said of an import: where the command is
  (`ObjectPlaces`), nothing is lost that the user did not announce (`LosesNothing`), a run without a fault
  ends with the definition in line with the file (`GetsThere`), one that says ok has nothing left to
  change (`Ends`), and an export that is imported where it came from changes nothing (`AsExported`). Each has a
  lemma of its own over the actions. What another user adds in between is counted (`added`, `spent`),
  which is what `GetsThere` excuses. That relationships stay the same ones rests on `CompleteParts`: what
  the file does not rename by ERC goes back with the ERC it was read with, and `ByErc` keeps it.

*Checkouts* (`CheckoutsStayApart`): `CheckoutInv` says what is in the files. Main's file gives each name only
what main may give it (`MainFile`); the file of a worktree that was prepared has what is its own, with
its name in its project, its storages and its data root, its offset in its ports (`OwnFile`), and is what
was reported of it; the name of a volume tells whose it is (`NameTells`); a saved profile stays in
the file (`Saved`). `InheritedIsOwn` and `OwnKept` are the reason: what is a worktree's own is written over
whatever the file, the example and main say, and no later completion or profile touches those keys. That
no two checkouts share a name then follows from the words (`WorktreeWords`, `MainWords`: a name of a
worktree has that worktree's name in it and no other, a name of main has none), and that a clean
removes no volume of another from `NamesAreOwn`. `RepoIsOwn` is the search upwards from a directory.

*In a workspace* (`WorkspaceHolds`):
- `ExtensionInv`: what was read of the log is a stretch of it (`ExtensionTypes`); as long as the portal met
  no error and no line in reach is of an earlier deployment (`Excused`), a line in that stretch says what was
  done (`LineHolds`); so when the command has read the lines it waits for, the items are there (`DeployPlaces`).
- `LibraryInv`, for any number of clients: a download that ended well has filled its directory, no
  client in the foreground is told of a download that is not whole, and the saved path has a library or was
  asked for in a mount and is there (`PathIsSound`, `ClientsInv`).
  For one client: what its mount has done so far (`Mounting`), and, unless a download is killed, that
  each download that goes on is in the pid file or about to be written there (`Loading`).
- `ScaffoldInv`: the steps to come and the files there together have what each directory and each
  service needs (`TodoInv`, `ServicesInv`, `WholeInv`), except for a directory of the user's or one that
  a run was stopped in, which the next run takes for complete. The lemmas `DockerStepsAre`,
  `DockerenvStepsAre` and `LiferayStepsAre` say what the lists of steps bring. Nothing of the user's is put,
  staged or committed (`MineInv`).
- `StreamInv`: a stream is open exactly while its follower runs, a listened-to client of an open stream
  is there, and nothing follows an end. `StreamsAreEnded` is this part as a theorem of its own module.

**Portal client.** `UnauthorizedMeansRevoked` is about a step, and what it needs of the state before is
`AskedFor`: the token of a request in its second round was issued since it was asked for, and was
revoked only if the portal revoked tokens since; so a refusal of it means just that, or that a whole
lifetime passed. `IndInv` is that and the type invariant (`ClientTypeOK`, with the records of the requests and
both caches). `KeepsInv` has one step per action; the cases that matter are `ChooseToken`, where a
forced request never takes a token from memory or from the file, and `IssueToken`.
`TokensAreAskedFor` is `Spec => []IndInv`, and `NoStaleRefusal` derives the action property from it:
only the refusal of a second round makes a request unauthorized. `ClientImplementsOutcome` shows that
the client implements `RequestOutcome!Spec`: `MapOne` relates the three mapped functions to a change of
one request, and every action is a step of that request's outcome or leaves it alone.

**Structure migration.** All five properties of `structure_migration` are proved, each invariant with
the ones before it:
- `TypeInv`, the types with `AtHand`: a content is at hand with what was read of it, or nothing is
  (`StructureTypeCorrect`). That the first of some mappings exists rests on the well-foundedness of
  intervals, `FirstOfSome`.
- `InScope`: what is selected or at hand is in the scope of the descriptor, and so is what introduce has
  migrated, which is the scope of cleanup (`StructureScope`).
- `PortalInv`: when the plan fits, the local file never loses a target, and no definition that the portal has, had or may
  still get gives a target another shape, so an update never blanks one (`TargetShapes`); a content
  shows only what the definition has (`Showing`); the content at hand, in the locales still to be
  written, holds in its targets what was read (`Current`). Hence a write goes only to an empty target
  (`TargetsStay`, `StructureTargetsKept`).
- `ReportInv` adds where a command stands: no outcome before it ends (`Flow`), and no report before the
  label of the definition is the local file's, since polling is only tried where the shapes tell old and
  new apart (`Labelled`).
- `Survival` is the strengthening for `StructureValuesSurvive`. A definition is *harmless* when each source
  that it removes or reshapes has been moved in every content. All that was read, sent or may still
  take effect is harmless (`PortalSafe`, `Courses`); the definition of the import is put only after
  everything is moved, or when it breaks nothing (`Putting`), as is cleanup (`Introduced`). The
  migration makes it so: what it has read or kept in a snapshot still has what it is to move
  (`ReadSafe`, `SnapSafe`), and what it is through with is moved unless it has failed (`Progress`). Moving is
  stable by `TargetsStay`, which is why harmless stays harmless (`HarmlessKept`) although commands
  are killed and updates come late. `StructureReports` takes its second half from the same invariant.

**Only model-checked**: the sums of `WalkIsComplete`, and these parts of `DiscoveryIsFaithful`:
- `EveryUseIsReported` and `OnlyUsesAreReported` are about portals like those of the run, not about every
  portal: a widget asked for by the id of one of its instances is found on a page on which only the
  widget's name counts as used, and a page that was renamed may be found by the URL another one has in a language.
- `LargestAreShown`: the numbers it compares are sums over sorted lists.
- `SitesListed` is not true of every portal: where the list of the own company is empty and several
  companies have a global site, a list made from the groups has no more of them than one. The run has no
  such portal.
- `MigrationFilesAreTrue`: the layout of a cleaned-up definition is filtered with `SelectSeq`, whose
  definition is recursive, and is said to be what filtering all of its names at once gives.
What sums and filters give for every input would need an induction over data, for which there is no prover.

All liveness is beyond the prover (`OutcomeIsShown`, `EveryCommandEnds`, `PruneEnds`, the fair parts of
`ImplementsLifecycle`, `ImplementsOutcome` and `WalkCompletes`). The findings are runs by nature.

## 6 What the models say about the code

### Findings, each shown by a run

1. `worktree-setup.ts:139`: the restart of main is in a finally that does not cover the git steps; when
   `git worktree add` fails after the automatic stop, main stays down (`worktree_main_down`).
2. `deploy-all.ts:54`: `deploy module` in a checkout without a build marker stamps the cache with HEAD;
   the next `deploy all` restores that one module, skips the compile and reports success
   (`deploy_all_partial`).
3. `env-restore.ts:66`: with a Btrfs base, `env restore` in main takes the database from main itself: it
   removes the directory and then cannot copy it, or copies an emptied volume over itself.
   docs/commands/runtime.md:174 says that restore replaces data from the base (`environment_restore`).
4. `oauth-install.ts:204`: a second `oauth install` rotates the secret of the application, then tries
   a fresh client id that the installer has not adopted, and saves nothing, so the credentials of the
   profile stop working. docs/core-concepts/oauth.md:29 says that the command creates or refreshes the
   application and writes its credentials (`oauth_install_again`).

### Limits the code does not claim to remove

Dashboard:
- After thirty newer tasks an active task is off the list, and a second task may be started on its
  worktree (`dashboard-tasks.ts:153`); `ListedExclusion` is about listed tasks.
- A client that leaves while its container is looked for is never listened to: its `docker logs -f`
  and its keepalive timer go on.

Worktrees:
- A main that somebody starts between the check and the last copy makes a torn clone
  (`worktree-state.ts:104`), and refreshing the Btrfs base reads a running main (`:201`).
- A half-made clone is taken for existing state by the next setup (`worktree-state.ts:73`).
- A Docker volume that cannot be removed outlives its worktree, and clean reports it as a warning; the
  name can then not be cleaned again (`worktree-clean.ts:129`).
- gc decides on a reading of git status that may be minutes old (`worktree-gc.ts:66`).
- A failing `docker compose ps` counts as a main that is not running (`worktree-state.ts:391`), so a clone may
  then copy a running main. This is read from the code, not modelled: `SafeMainEnvClone` sees main as it is.
- On Btrfs an interrupted clean may leave the data root for the next incarnation: the property
  `FreshIncarnation` excludes that machine.

Deploys:
- A killed deploy leaves its lock file, and every later deploy times out until it is removed by hand;
  no command removes it.
- Each liberty alone (races, commits during a command, checkout, uncommitted edits, a wiped build
  directory, kills, `deploy module` before a full build) is enough to make the cache claim a commit
  that its artifacts are not of.
- `deploy all` ignores uncommitted edits when the cache names HEAD.

Migration:
- Nothing checks that a plan fits the structures (`structure-content-plan.ts:26`). In a chain, A to B
  and B to C with the sources cleaned, the value of A is copied into B and blanked there, and is in neither; a
  target that the local file lacks goes with the next update; `PlanFits` excludes both.
- `--skip-update` reports "updated" (`import-engine.ts:214`, `liferay-resource-import-structure.ts:78`)
  although it is a validation (docs/commands/resources.md:89): the report of an update means one only
  without that option.
- `--migration-dry-run` without `--check-only` still updates the definition
  (`structure-import-strategy.ts:259`), so values of the fields it drops are gone although
  docs/commands/resources.md:86 says that nothing is persisted.
- Nothing guards a content between its read and its write, so an editor's change in between is
  overwritten; contents created meanwhile lose the fields the final definition drops.
- A scoped plan whose local file removes a field removes it for all contents, in scope or not.
- A timed-out update that arrives after the poll gave up undoes nothing, but replaces what a later
  command wrote.
- Cleanup blanks a source whose target already held something else: the source value is given up by
  design of "kept" targets.
- Running the pipeline again with `--run-cleanup` after everything has been migrated always ends with
  "Cleanup stage unsafe", because nothing was migrated in that run.

Environments:
- A cancel while the health of the portal is waited for is not looked at (`env-start.ts:98`): the start
  goes on to its end and leaves the environment running, and the dashboard records the task as canceled
  (`dashboard-tasks.ts:162`, `:174`), as it does when the rollback's own `stop` or `down` fails. So
  `CanceledStartLeavesNothing` excepts a cancel that ended in the health wait, and the checkouts where
  docker commands fail. A failed `up` without a cancel is not rolled
  back, and `waitForPortalReady` returns at its deadline as if the portal were ready.
- A restore whose `down` fails goes on (`env-restore.ts:58`): a database in a volume that is still in use
  is not removed and the copy goes over it; one in a directory is replaced under its container.
- A killed restore leaves a worktree that has some state, so the next start clones nothing and boots
  on what is there. The same holds after an import that found no backup: it has laid out the
  directories by then (`db-import.ts:56`).
- `db import --force` removes a database directory while a container may have it mounted
  (`db-import.ts:109`); for a volume it stops the container first (`:79`). The import into the removed
  directory can then report success.
- An import does not stop the portal, which may fill the new database while the backup is streamed
  into it. The server that answers the readiness query may be the one that creates the cluster and
  restarts. psql runs without ON_ERROR_STOP, and a broken download is only noticed when it is
  compressed (`db-download.ts:137`).
- In a worktree `env clean` fails while main runs, which holds the shared volume of documents. A changed
  DOCLIB_PATH has no effect as long as a container of any environment holds the volume, or when its
  removal fails: `env-doclib-volume.ts:62` ignores that, `volume create` takes the volume that is there,
  and the start succeeds on the old device. `StartMountsDoclib` says that a start has some volume, and
  the configured one where neither can happen.
- With the other data in volumes as well (the default on Windows), restore looks for them in main's
  data root only and skips what it does not find there. This is read from the code, not modelled.

Portal client and content:
- A token read from the file is kept in memory for a whole lifetime from then
  (`liferay-gateway.ts:20`); the second round repairs that at the cost of one refusal.
- The removal of folders in a prune relies on counts read before. An article added meanwhile can go
  with its folder, and a prune of nested roots, with the inner one listed first, removes a folder whose
  articles are kept under the other root (`RootsInOrder` excludes it;
  docs/commands/data-and-deploy.md:102 says folders are only removed when they end up empty).
- A folder moved during a walk is counted twice or not at all. Root folders that do not say their site
  are dropped when another one does; rows are deduplicated within a page only; after a failed root
  the requests of the other roots go on.

Imports of resources:
- A refused list of ADTs counts as an empty one (`template-queries.ts:215`): an import into a site that has the
  ADT then updates the global one and reports "updated", or, with `--create-missing`, makes a second one
  (`FindAdtBlind`).
- A refused list of templates counts as an empty one too: what is then found is updated without its
  structure (`FindBlind`). The first template in the list that matches wins, not the order of
  identifiers that `liferay-identifiers.ts:7` states. Two sites whose files fall back to the company
  write the same template. An update renames the template to the key of its file; keys that are made
  the same name lose one file. An export of a site with no template removes its local directory.
  An update of a template whose structure the command does not know, because a list was refused,
  leaves it without one, and an entry may then make a second template beside it. Two files of
  one name in two directories of a site may land on one template after a refused list.
  `--widget-type` imports every file as that type.
- A collection whose creation fails is created again without its key
  (`liferay-resource-import-fragments-api.ts:118`), also when only the answer was lost: the site then has
  a second one, under a key the portal made up, and the fragment may come to be in both.
- Two fragments whose names make one token overwrite one another; a failed rename of a collection is
  not reported; an export of one fragment removes the whole local directory; the zip's report
  compares names only (docs/commands/resources.md:172).
- Keys and slugs of fragments are looked up in lower case (`liferay-resource-fragments-runtime-cache.ts:26`,
  `:63`, `liferay-resource-fragments-api.ts:52`, `:88`), so two keys that differ only in case are one to the
  import. The model compares names as they are, and has no such pair.
- The PUT of an object goes by ERC (`object-definition-import-strategy.ts:111`) where the comparison and the
  guard go by name: a relationship to which the file gives another ERC than the portal's is deleted with its
  links and made anew, and no guard says so (`object-definition-payload.ts:44` keeps the ERC of the file).
- A field or relationship that another user adds between the read and the PUT of an object is deleted. So is
  an entry of a picklist added between the guard and the second list of entries
  (`picklist-import-strategy.ts:124`), without `--allow-breaking-change`, although the comment at `:132` says that
  the deletion is "Only reachable with --allow-breaking-change". docs/commands/resources.md:120 says that
  relationships are created or updated by name, and that those only the portal has are never deleted.
- A read-back that answers 404 counts as verified. Of the style books the first that answers to the
  ERC by ERC, key, id or name wins, and one with another key gets its tokens before the mismatch is
  reported.

Commands on a site:
- Loops over several redirects are not detected, and a CSV whose first source begins with "source"
  loses that row as a header.
- A batch that timed out goes on, and may overwrite what a later run wrote; "already written" lists
  items that merely existed.
- With `--recreate` the site is deleted before the zip is built and posted: a failure leaves none.
- A kill between enabling and sanitizing leaves a secret in the OAuth configuration; without
  `--write-env` rotated credentials are printed only; with an unreachable portal and an existing
  application an id is saved that the portal never adopts.

Checkouts:
- Ports come from a hash into 800 offsets and overlap across services; a URL in a copied
  `.liferay-cli.local.yml` wins over the worktree's own; an unprepared worktree in volume mode shares
  main's volumes, which `env clean --force` then removes (`env-clean.ts:50`); a branch without
  `liferay/` inside main makes the commands act on main. `setup --with` may name a compose file that is
  not there. `.liferay-cli.yml` never supplies the URL or credentials that
  docs/reference/configuration.md:10 lists for it.

Discovery:
- The fuzzy search of a site takes the first match of a part before an exact one; a refused page of a
  list is skipped; lists shift while they are read; another company's site of the same URL may be
  found when the headless API is refused.
- Where-used skips sources that answer 403 or 404 without a word (`where-used-candidates.ts:256`), pages
  below depth 12, and parts of a page whose request fails; ADTs of widget pages are never found.
  src/README.md:94 says that it traces every use.

Workspace:
- A background download reports success as soon as any directory of an earlier download is there
  (`db-files-download.ts:241`), a pid used again makes every later one "pending", and a mount may take
  a half-downloaded library. A volume that was removed and then cannot be created is gone.
- A `project init` that stops while it fills docker/ or liferay/ leaves it half made, and the next one
  says "Project ready"; files added to an existing docker/ are not committed, the commit takes whatever
  the user had staged, and the packaged .gitignore makes `git add` of docker/ fail; a rerun without
  `--services elasticsearch` updates the server's version but not its connector.
- A client extension whose file failed and was then imported ends the wait and leaves other files
  "pending" in a result said to be well; lines of an earlier deployment are taken for this one's.
- The log is read from one second before the deployment (`client-extension-deploy.ts:82`): lines that the last
  deployment wrote in that second settle this one too early, well or as a failure that is not its own.
- `files-mount` without a path over a NAS volume leaves that volume and reports the default directory
  (`db-files-mount.ts:85`, `:116`); any directory that is there is mounted and saved as DOCLIB_PATH, with a
  library or without one (`:42`).
- Migration targets inside a fieldset of a fieldset are written at the wrong place; the layout goes on
  naming the fields of a cleaned-up fieldset.

## 7 What is not modelled

Components with no model, each a function of what it reads or a single external step:

- Other resource exports and reads: one read of the portal, printed or written to one file. The
  exports that rewrite directories are in `ResourceImport` and `FragmentImport`.
- Page layouts: a page is looked up as in `PageInventory`; export and comparison of two page
  definitions are comparisons of JSON documents.
- Dashboard pages and read-only routes: rendering. The merge of a pushed list with the answer to a POST
  in the browser (`client/lib/tasks.ts:58`) may show an older task for a moment; the next pushed list
  replaces it.
- Environment reports and database queries: one docker or psql call, or a comparison of snapshots.
- Portal search, theme check, API discovery, reindex, OSGi: single requests put into a report, or one
  call and a poll that nothing acts on. Doctor and verify: independent probes.
- Agent files, contracts, outputs: files copied, schemas, formatting.
- Platform and command line: child processes and arguments; their outcomes are the nondeterministic
  results of the modelled steps.

Inside modelled components, what is left out is named in section 3 and in the notes of `PROJECT.json`:
texts, values and times (an abstraction), the `client_secret_post` and scope fallbacks of a token
request (one step), templates and dependent structures of a structure import, `--allow-breaking-change`,
nested fields of a migration, reverse relationships of one name, `project add-workspace`, the
detection of a local document library, the CIFS volume of an environment, several backup ids,
YAML parsing, and setup of a worktree without an environment.

`PROJECT.json` lists each of these components with its source files, and under `hazards` the line at
which each hazard bites and the properties that cover it. Four hazards have no property because the
code lets them happen and says nothing to the contrary: a half-made clone taken for existing state, gc
acting on a stale reading, an editor's change overwritten by a migration, and the fields that a scoped
plan removes for contents out of scope. They are listed in section 6.

## 8 Running it

```
tlc -workers 2 -config DashboardTasks.cfg MCDashboardTasks.tla
tlc -workers 2 -config Portal.cfg MCPortal.tla
tlc -workers 2 -config Commands.cfg MCCommands.tla
tlapm WorktreeStateProofs.tla
tlapm EnvironmentProofs.tla
tlapm StructureMigrationProofs.tla
tlapm ImportProofs.tla
tlapm PortalProofs.tla
tlapm CommandProofs.tla
```

The configuration of a run is named in `PROJECT.json`; the community modules must be on the path. The
longest runs are `structure_migration`, `environment`, `deploy_cache` and `commands`, one to three
minutes each; the proofs take one to five minutes per module, `PortalProofs` ten and `CommandProofs` twenty.
