------------------------- MODULE StructureMigration -------------------------
(***************************************************************************)
(* The import of a journal structure with a migration plan, and the        *)
(* migration pipeline that runs it twice (introduce, then cleanup):        *)
(* src/features/liferay/resource/import-engine.ts, import-strategies and   *)
(* migration.  One ldev process talks to a portal whose definition and     *)
(* contents others may change meanwhile; a request may fail before or      *)
(* after it took effect, or take effect after ldev stopped waiting.        *)
(*                                                                         *)
(* A value is abstracted to the field it was first entered in.  What the   *)
(* portal stores is what its API shows: a field that leaves the definition *)
(* or changes its shape shows nothing any more.                            *)
(***************************************************************************)
EXTENDS Naturals, Sequences, FiniteSets

CONSTANTS
  Article, Locale, Field,
  Empty, Edited, \* no value, and what an editor entered
  None,        \* no content at hand
  Mappings,    \* introduce.mappings: sequence of [source, target, cleanupSource]
  Runtimes,    \* the field shapes the portal may start with
  Locals,      \* the field shapes of the local structure file
  Starts,      \* the contents at first in each world, and availableLanguages of all, see StartType
  Entered,     \* what the fields may hold at first: set of [Field -> BOOLEAN]
  Commands,    \* the commands that are run in each world, see CommandType
  Worlds,      \* the sets of liberties others may take: subsets of LibertyNames
  Polls,       \* maxAttempts of pollStructureUpdateRecovery
  MaxLaunches  \* bound: commands in a behaviour of each world

Value == {Empty, Edited} \cup Field
Content == [Locale -> [Field -> Value]]

Gone == 0
Shape == 0..2
LibertyNames == {"edit", "create", "scoped", "dry"}
Phases == {"", "pre", "post", "both"}

Rule == [source : Field, target : Field, cleanupSource : BOOLEAN]
Sources == {Mappings[i].source : i \in DOMAIN Mappings}
Targets == {Mappings[i].target : i \in DOMAIN Mappings}

CommandType ==
  [pipeline : BOOLEAN, runCleanup : BOOLEAN, checkOnly : BOOLEAN, skipUpdate : BOOLEAN,
   createMissing : BOOLEAN, plan : BOOLEAN, phase : Phases, dryRun : BOOLEAN,
   cleanup : BOOLEAN, scope : SUBSET Article]

StartType == [articles : SUBSET Article, langs : [Article -> (SUBSET Locale) \ {{}}]]

ASSUME ConstantsAssumption ==
  /\ Empty # Edited /\ {Empty, Edited} \cap Field = {}
  /\ None \notin Article /\ None \notin Content
  /\ Mappings \in Seq(Rule) /\ Mappings # <<>>
  /\ Runtimes \subseteq [Field -> Shape] /\ Locals \subseteq [Field -> Shape]
  /\ Starts \in [Worlds -> SUBSET StartType]
  /\ Entered \subseteq [Field -> BOOLEAN]
  /\ Commands \in [Worlds -> SUBSET CommandType]
  /\ \A w \in Worlds : \A c \in Commands[w] :
       /\ c.scope # Article => "scoped" \in w
       /\ c.dryRun => c.checkOnly \/ "dry" \in w
       /\ c.pipeline => c.plan /\ c.phase = "post" /\ ~(c.cleanup \/ c.createMissing \/ c.skipUpdate)
       /\ c.runCleanup => c.pipeline
  /\ Worlds \subseteq SUBSET LibertyNames
  /\ Polls \in Nat \ {0} /\ MaxLaunches \in [Worlds -> Nat]

(* What a plan needs to be safe, and nothing validates: no field is both a source and a target, *)
(* the local file has every target, and the portal has it in that shape or not at all.          *)
PlanFits ==
  /\ Sources \cap Targets = {}
  /\ \A d \in Locals, t \in Targets : d[t] # Gone /\ \A r \in Runtimes : r[t] \in {Gone, d[t]}


VARIABLES
  world,     \* the liberties taken in this behaviour; it never changes
  local,     \* the local structure file; it never changes
  langs,     \* the locales of each content; they never change
  orig,      \* the contents at first; it never changes
  def,       \* the definition in the portal
  late,      \* the definition updates that timed out and may still take effect
  articles,  \* the contents that exist
  content,   \* [Article -> Content]
  run,       \* the running command
  launches

vars == <<world, local, langs, orig, def, late, articles, content, run, launches>>
rigid == <<world, local, langs, orig>>
portal == <<def, late, articles, content>>

Definition == [shape : [Field -> Shape], label : {"was", "is"}]
Missing(d) == \A f \in Field : d.shape[f] = Gone

NoCommand == [pipeline |-> FALSE, runCleanup |-> FALSE, checkOnly |-> FALSE, skipUpdate |-> FALSE,
              createMissing |-> FALSE, plan |-> FALSE, phase |-> "", dryRun |-> FALSE,
              cleanup |-> FALSE, scope |-> Article]

Idle(why) ==
  [pc |-> "idle", cmd |-> NoCommand, stage |-> "introduce", part |-> "pre",
   remote |-> [shape |-> [f \in Field |-> Gone], label |-> "was"], todo |-> {}, item |-> None,
   before |-> None, locales |-> {}, snap |-> [a \in Article |-> None], touched |-> FALSE,
   migrated |-> {}, failed |-> FALSE, polls |-> 0, outcome |-> why]

Blank == [f \in Field |-> Empty]
Shown(entered) == [f \in Field |-> IF entered[f] /\ def.shape[f] # Gone THEN f ELSE Empty]

Init ==
  /\ world \in Worlds
  /\ \E s \in Locals : local = [shape |-> s, label |-> "is"]
  /\ \E s \in Runtimes : def = [shape |-> s, label |-> "was"]
  /\ \E s \in Starts[world] :
       langs = s.langs /\ articles = IF Missing(def) THEN {} ELSE s.articles
  /\ orig \in {o \in [Article -> [Locale -> {Shown(e) : e \in Entered} \cup {Blank}]] :
               \A a \in Article : \A l \in Locale :
                 a \notin articles \/ l \notin langs[a] => o[a][l] = Blank}
  /\ content = orig
  /\ late = {}
  /\ run = Idle("none")
  /\ launches = 0

At(pc) == run.pc = pc
Goto(pc) == run' = [run EXCEPT !.pc = pc]
End(why) == run' = Idle(why)

-----------------------------------------------------------------------------
(* What the options of the stage that runs come to.                         *)

Cleanup == run.stage = "cleanup"
Phase == IF Cleanup THEN "pre" ELSE run.cmd.phase
RunsPre == run.cmd.plan /\ Phase \in {"pre", "both"}
RunsPost == run.cmd.plan /\ Phase \in {"", "post", "both"}
DryRun == run.cmd.dryRun \/ run.part = "preview"
CleansSource == Cleanup \/ run.cmd.cleanup

(* The cleanup stage keeps the mappings whose source is to be cleaned, and the articles that *)
(* introduce has just migrated, whatever scope the descriptor declares.                      *)
Rules == {i \in DOMAIN Mappings : Cleanup => Mappings[i].cleanupSource}
Scope == IF Cleanup /\ run.migrated # {} THEN run.migrated ELSE run.cmd.scope
Unscoped(cmd) == cmd.scope = Article
CleanupSources == {Mappings[i].source : i \in {j \in DOMAIN Mappings : Mappings[j].cleanupSource}}

(* writeDerivedCleanupStructureFile: the local file without the sources to be cleaned. *)
Payload ==
  IF Cleanup THEN [local EXCEPT !.shape = [f \in Field |-> IF f \in CleanupSources THEN Gone ELSE @[f]]]
  ELSE local

Removed(from, to) == {f \in Field : from.shape[f] # Gone /\ to.shape[f] = Gone}
Reshaped(from, to) == {f \in Field : Gone \notin {from.shape[f], to.shape[f]} /\ from.shape[f] # to.shape[f]}

BugBreakingRemovalOnly(from, to) == Reshaped(from, to) # {}
Breaking(from, to) == Removed(from, to) \cup Reshaped(from, to) # {}

BugTransition(from, to) == to

(* buildTransitionPayload: everything of the local file, but the portal's fields stay as they are. *)
Transition(from, to) ==
  [to EXCEPT !.shape = [f \in Field |-> IF from.shape[f] # Gone THEN from.shape[f] ELSE to.shape[f]]]

AutoTransition(r) == RunsPost /\ Breaking(r.remote, Payload)

-----------------------------------------------------------------------------
(* The portal.                                                              *)

(* A definition takes effect: a field that is gone or has another shape shows nothing. *)
Applied(d) ==
  /\ def' = d
  /\ content' = [a \in Article |-> [l \in Locale |-> [f \in Field |->
                   IF d.shape[f] = def.shape[f] THEN content[a][l][f] ELSE Empty]]]

(* An update that ldev saw fail has taken effect, will take effect, or never does. *)
LostAnswer(d) ==
  \/ UNCHANGED <<def, content, late>>
  \/ Applied(d) /\ UNCHANGED late
  \/ late' = late \cup {d} /\ UNCHANGED <<def, content>>

LateUpdate ==
  /\ \E d \in late : Applied(d) /\ late' = late \ {d}
  /\ UNCHANGED <<rigid, articles, run, launches>>

(* Editors change a field, or add an article. *)
Edit ==
  /\ "edit" \in world
  /\ \E a \in articles, f \in Field : \E l \in langs[a] :
       def.shape[f] # Gone /\ content' = [content EXCEPT ![a][l][f] = Edited]
  /\ UNCHANGED <<rigid, def, late, articles, run, launches>>

Create ==
  /\ "create" \in world /\ ~Missing(def)
  /\ \E a \in Article \ articles : articles' = articles \cup {a}
  /\ UNCHANGED <<rigid, def, late, content, run, launches>>

-----------------------------------------------------------------------------
(* runImportArtifactDetailed and the upsert of structureImportStrategy.      *)

Launch ==
  /\ At("idle") /\ launches < MaxLaunches[world]
  /\ \E c \in Commands[world] : run' = [run EXCEPT !.pc = "find", !.cmd = c, !.outcome = "none"]
  /\ launches' = launches + 1
  /\ UNCHANGED <<rigid, portal>>

(* An import returns; the pipeline goes on to the templates, or is over. *)
Return(r, why) ==
  IF r.cmd.pipeline /\ r.stage = "introduce"
  THEN run' = [r EXCEPT !.pc = "templates", !.part = "pre"]
  ELSE End(why)

Migrate(r, part) == run' = [r EXCEPT !.pc = "select", !.part = part]

(* What follows the migration of phase pre. *)
AfterPre(r) ==
  run' = [r EXCEPT !.part = "pre",
                   !.pc = IF Missing(r.remote) THEN "create"
                          ELSE IF AutoTransition(r) THEN "list" ELSE "put"]

(* Only a check says so: an import that was told to skip the update reports one all the same. *)
NothingPut == IF run.cmd.checkOnly THEN "checked" ELSE "updated"

(* findRemote, and every decision upsert takes on what it found. *)
FindRemote ==
  LET r == [run EXCEPT !.remote = def] IN
  /\ At("find")
  /\ CASE Missing(def) /\ ~run.cmd.createMissing -> End("missing")
       [] Missing(def) /\ run.cmd.createMissing /\ run.cmd.checkOnly -> Return(r, "checkedMissing")
       [] ~Missing(def) /\ Breaking(def, Payload) /\ ~run.cmd.plan -> End("blocked")
       [] run.cmd.skipUpdate /\ Missing(def) -> End("error")
       [] OTHER ->
            IF run.cmd.checkOnly \/ run.cmd.skipUpdate
            THEN IF RunsPost THEN Migrate(r, "preview") ELSE Return(r, NothingPut)
            ELSE IF RunsPre THEN Migrate(r, "pre") ELSE AfterPre(r)
  /\ UNCHANGED <<rigid, portal, launches>>

BugSelected == articles

(* listStructureContents: the contents in the scope of the plan. *)
Selected == Scope \cap articles

(* autoTransition: the sources of every selected content are kept before the definition changes. *)
ListSources ==
  /\ At("list")
  /\ run' = [run EXCEPT !.pc = "snapshot", !.todo = Selected]
  /\ UNCHANGED <<rigid, portal, launches>>

SnapshotSource ==
  /\ At("snapshot")
  /\ IF run.todo = {} THEN Goto("transition")
     ELSE \E a \in run.todo : run' = [run EXCEPT !.snap[a] = content[a], !.todo = @ \ {a}]
  /\ UNCHANGED <<rigid, portal, launches>>

(* The transition is not retried: a failure ends the command, whatever the portal did. *)
PutTransition ==
  LET d == Transition(run.remote, Payload) IN
  /\ At("transition")
  /\ \/ Applied(d) /\ UNCHANGED late /\ Migrate(run, "auto")
     \/ LostAnswer(d) /\ End("error")
  /\ UNCHANGED <<rigid, articles, launches>>

PostStructure ==
  /\ At("create")
  /\ \/ /\ Applied(Payload) /\ UNCHANGED late
        /\ IF RunsPost THEN Migrate(run, "post") ELSE Return(run, "created")
     \/ LostAnswer(Payload) /\ End("error")
  /\ UNCHANGED <<rigid, articles, launches>>

(* The definition is in the portal, by its own answer or by the poll. *)
Updated ==
  IF RunsPost /\ ~AutoTransition(run) THEN Migrate(run, "post") ELSE Return(run, "updated")

(* Polling can only tell the update from what was there before when their shapes differ. *)
Pollable == Payload.shape # run.remote.shape

(* updateStructureWithRecovery: an error is final, a timeout is polled for. *)
PutStructure ==
  /\ At("put")
  /\ \/ Applied(Payload) /\ UNCHANGED late /\ Updated
     \/ UNCHANGED <<def, content, late>> /\ End("error")
     \/ LostAnswer(Payload) /\ IF Pollable THEN Goto("poll") ELSE End("timeout")
  /\ UNCHANGED <<rigid, articles, launches>>

BugLastPoll == run.polls = Polls
LastPoll == run.polls = Polls - 1

PollRecovery ==
  /\ At("poll")
  /\ IF def.shape = Payload.shape THEN Updated
     ELSE IF LastPoll THEN End("timeout")
     ELSE run' = [run EXCEPT !.polls = @ + 1]
  /\ UNCHANGED <<rigid, portal, launches>>

-----------------------------------------------------------------------------
(* runStructureMigration, content by content and locale by locale.           *)

SelectContents ==
  /\ At("select")
  /\ IF Missing(def) THEN End("error")
     ELSE run' = [run EXCEPT !.pc = "items", !.todo = Selected, !.failed = FALSE,
                             !.migrated = IF Cleanup THEN @ ELSE {}]
  /\ UNCHANGED <<rigid, portal, launches>>

(* A content is read in all its locales before any of them is written. *)
ReadContent ==
  /\ At("items") /\ run.item = None
  /\ \E a \in run.todo :
       \/ run' = [run EXCEPT !.item = a, !.before = content[a], !.locales = langs[a], !.touched = FALSE, !.todo = @ \ {a}]
       \/ run' = [run EXCEPT !.failed = TRUE, !.todo = @ \ {a}]
  /\ UNCHANGED <<rigid, portal, launches>>

Source(l) ==
  IF run.part = "auto" /\ run.snap[run.item] # None THEN run.snap[run.item][l] ELSE run.before[l]

(* The mappings that write a field, in the order of the plan. *)
Writers(source, f) == {i \in Rules : Mappings[i].target = f /\ source[Mappings[i].source] # Empty}
First(S) == CHOOSE i \in S : \A j \in S : i \leq j

BugKept(v) == FALSE

(* setSimpleTarget leaves a target alone that holds something. *)
Kept(v) == v # Empty

(* The mappings that blank a field: with cleanupSource, those whose source held something. *)
Cleaners(source, f) ==
  IF CleansSource /\ source[f] # Empty THEN {i \in Rules : Mappings[i].source = f} ELSE {}

(* applyMappings goes through the plan once: a field that is blanked on the way loses what was  *)
(* copied to it before, and takes what comes later; any other field takes the first that comes, *)
(* if it was empty.  A source is blanked whether it was copied or not.                          *)
Mapped(item, source) ==
  [f \in Field |->
     LET blanked == Cleaners(source, f) # {}
         later == {i \in Writers(source, f) : \A j \in Cleaners(source, f) : j < i}
     IN IF later # {} /\ (blanked \/ ~Kept(item[f])) THEN source[Mappings[First(later)].source]
        ELSE IF blanked THEN Empty ELSE item[f]]

(* The portal refuses fields that the definition does not have. *)
Accepts(item) == \A f \in Field : item[f] # Empty => def.shape[f] # Gone

NextLocale(l) == run' = [run EXCEPT !.locales = @ \ {l}, !.touched = TRUE]
ItemFails == run' = [run EXCEPT !.failed = TRUE, !.item = None, !.before = None, !.locales = {}, !.touched = FALSE]

(* A locale that the mappings leave as it is is skipped; otherwise it is written and read  *)
(* back.  A write that fails, or is not read back as written, ends the content and only it. *)
WriteLocale ==
  /\ At("items")
  /\ \E l \in run.locales :
       LET after == Mapped(run.before[l], Source(l))
           written == [content EXCEPT ![run.item][l] = after]
       IN IF after = run.before[l] THEN UNCHANGED content /\ run' = [run EXCEPT !.locales = @ \ {l}]
          ELSE IF DryRun THEN UNCHANGED content /\ NextLocale(l)
          ELSE \/ Accepts(after) /\ content' = written /\ NextLocale(l)
               \/ Accepts(after) /\ content' = written /\ ItemFails
               \/ UNCHANGED content /\ ItemFails
  /\ UNCHANGED <<rigid, def, late, articles, launches>>

ContentDone ==
  /\ At("items") /\ run.item # None /\ run.locales = {}
  /\ run' = [run EXCEPT !.item = None, !.before = None, !.touched = FALSE,
                        !.migrated = IF run.touched /\ ~Cleanup THEN @ \cup {run.item} ELSE @]
  /\ UNCHANGED <<rigid, portal, launches>>

BugEnoughMigrated == run.todo = {}

(* The failures are only collected: the migration as a whole fails at its end. *)
AllMigrated == ~run.failed

MigrationDone ==
  /\ At("items") /\ run.item = None /\ run.todo = {}
  /\ IF ~AllMigrated THEN End("failed")
     ELSE CASE run.part = "preview" -> Return(run, NothingPut)
            [] run.part = "pre" -> AfterPre(run)
            [] run.part = "auto" -> Goto("put")
            [] run.part = "post" -> Return(run, "updated")
  /\ UNCHANGED <<rigid, portal, launches>>

-----------------------------------------------------------------------------
(* The rest of the pipeline: the templates are external, and only may fail.  *)
Templates ==
  /\ At("templates")
  /\ Goto(IF run.cmd.runCleanup THEN "plan" ELSE "end")
  /\ UNCHANGED <<rigid, portal, launches>>

(* buildCleanupPlanNode refuses to clean every content of an unscoped descriptor. *)
CleanupPlan ==
  /\ At("plan")
  /\ IF CleanupSources = {} THEN End("error")
     ELSE IF run.migrated = {} /\ Unscoped(run.cmd) THEN End("unsafe")
     ELSE run' = [run EXCEPT !.stage = "cleanup", !.pc = "find", !.polls = 0]
  /\ UNCHANGED <<rigid, portal, launches>>

PipelineEnds ==
  /\ At("end")
  /\ End(IF run.cmd.checkOnly THEN "checked" ELSE "updated")
  /\ UNCHANGED <<rigid, portal, launches>>

(* A request that only reads fails, or the command is killed between two steps. *)
Abort ==
  /\ ~At("idle")
  /\ End("error")
  /\ UNCHANGED <<rigid, portal, launches>>

Step ==
  \/ FindRemote \/ ListSources \/ SnapshotSource \/ PutTransition \/ PostStructure
  \/ PutStructure \/ PollRecovery \/ SelectContents \/ ReadContent \/ WriteLocale \/ ContentDone
  \/ MigrationDone \/ Templates \/ CleanupPlan \/ PipelineEnds \/ Abort

Next == Launch \/ Step \/ LateUpdate \/ Edit \/ Create

Spec == Init /\ [][Next]_vars

(* A command goes on for as long as it can. *)
FairSpec == Spec /\ WF_vars(Step)

-----------------------------------------------------------------------------
Parts == {"pre", "auto", "post", "preview"}
PCs == {"idle", "find", "list", "snapshot", "transition", "create", "put", "poll", "select", "items",
        "templates", "plan", "end"}
Outcomes == {"none", "missing", "checkedMissing", "blocked", "error", "checked", "created", "updated",
             "timeout", "failed", "unsafe"}

(* Every variable keeps its type; in particular the polls stay below their number. *)
TypeOK ==
  /\ world \in Worlds /\ langs \in [Article -> SUBSET Locale] /\ local \in Definition /\ def \in Definition
  /\ orig \in [Article -> Content] /\ content \in [Article -> Content]
  /\ late \subseteq Definition /\ articles \subseteq Article
  /\ run \in [pc : PCs, cmd : Commands[world] \cup {NoCommand}, stage : {"introduce", "cleanup"}, part : Parts, remote : Definition,
               todo : SUBSET Article, item : Article \cup {None}, before : Content \cup {None},
               locales : SUBSET Locale, snap : [Article -> Content \cup {None}], touched : BOOLEAN,
               migrated : SUBSET Article, failed : BOOLEAN, polls : 0..(Polls - 1), outcome : Outcomes]
  /\ launches \in 0..MaxLaunches[world]

Command == run' # run /\ ~At("idle")

(* "Preserving or cleaning up existing content": when the plan fits the structures, nobody edits     *)
(* meanwhile, and plans are neither scoped nor dry, a value that the plan maps is at any time in its source or its target is filled,  *)
(* whatever failed, timed out, was killed and run again, in whatever order.                          *)
ValuesSurvive ==
  PlanFits /\ world = {} => \A a \in articles, l \in Locale, i \in DOMAIN Mappings :
    LET m == Mappings[i] IN
    orig[a][l][m.source] # Empty => content[a][l][m.source] # Empty \/ content[a][l][m.target] # Empty

(* A target that holds something keeps it when the plan fits: no migration, and no second run, *)
(* writes over it.                                                                             *)
TargetsKept ==
  [][PlanFits /\ ~("edit" \in world) => \A a \in Article, l \in Locale, t \in Targets :
       content[a][l][t] # Empty => content'[a][l][t] = content[a][l][t]]_vars

(* No content outside the scope of the descriptor is written, in the cleanup stage either. *)
ScopeRespected ==
  [][Command /\ def' = def => \A a \in Article : content'[a] # content[a] => a \in run.cmd.scope]_vars

(* An import that reports an update, and was not told to skip it, has brought this version of *)
(* the local file to the portal, also when the answer was lost and the poll had to tell.      *)
UpdatedMeansApplied ==
  [][Command /\ ~(run.cmd.pipeline \/ run.cmd.skipUpdate) /\ run'.outcome \in {"created", "updated"} => def'.label = local.label]_vars

(* A migration that ends well, by a plan that fits and with its update, has filled the target of *)
(* every selected content.                                                                       *)
SuccessMeansMigrated ==
  [][PlanFits /\ world = {} /\ Command /\ run'.outcome = "updated" /\ run.cmd.plan /\ ~run.cmd.skipUpdate =>
       \A a \in articles, l \in Locale, i \in DOMAIN Mappings :
         LET m == Mappings[i] IN orig[a][l][m.source] # Empty => content'[a][l][m.target] # Empty]_vars

(* What the reports of an import and of a migration say.                        *)
ReportsAreTrue == UpdatedMeansApplied /\ SuccessMeansMigrated
=============================================================================
