------------------------------ MODULE Scaffold ------------------------------
(***************************************************************************)
(* ldev project init: the files of a project are put where they are        *)
(* missing, docker/.env and the search connector are set for the release   *)
(* and the services asked for, and what was created may be committed.  A   *)
(* run may stop at any file, and be repeated with other options.           *)
(***************************************************************************)
EXTENDS Integers, Sequences, SequencesExt, FiniteSets, TLC

CONSTANTS Projects, ScaffoldFaults      \* bound: runs that stop before their end

VARIABLES project,      \* the case: runs, mine (files the user had), dotenv, staged, ignored
          there,        \* file or directory -> "mine" or "asset"
          dotenv,       \* docker/.env: [compose, image, es], when there is one
          scaffoldPc, scaffoldRun,
          scaffoldTodo, \* steps of the phase still to take
          createdNow,   \* directories and files this run created
          staged, committed,
          halted,       \* directories that were being filled when a run stopped
          scaffoldFaults

scaffoldVars == <<project, there, dotenv, scaffoldPc, scaffoldRun, scaffoldTodo, createdNow,
                  staged, committed, scaffoldFaults, halted>>
Options == project.runs[scaffoldRun]
Exists(f) == f \in DOMAIN there

\* A file is put whatever is there, or added when it is missing; a directory comes with its first file.
PutFile(f, dir) == [how |-> "put", file |-> f, dir |-> dir]
AddFile(f, dir) == [how |-> "add", file |-> f, dir |-> dir]
DockerFiles == {"docker", "compose", "sql", "scripts", ".env", "postgres", "postgres.volume", "es", "es.volume",
                "Dockerfile", "full7", "full8"}
EnvFiles == {"dockerenv", "portal-ext", "store", "gitkeep", "connector7", "connector8"}
LiferayFiles == {"liferay", "workspace", "gradle.properties", "common", "modules"} \cup EnvFiles
UnderDir(d) == CASE d = "docker"    -> DockerFiles
                 [] d = "liferay"   -> LiferayFiles
                 [] d = "dockerenv" -> EnvFiles
                 [] OTHER           -> {d}

\* A file of the user lies in a directory of the user.
MineOK(mine) == \A d \in {"docker", "liferay", "dockerenv"} : UnderDir(d) \cap mine # {} => d \in mine
ASSUME ScaffoldAssumption ==
  /\ ScaffoldFaults \in Nat
  /\ \A p \in Projects :
       /\ MineOK(p.mine) /\ DOMAIN p.dotenv = {"compose", "image", "es"} /\ Len(p.runs) \in Nat /\ DOMAIN p.runs = 1 .. Len(p.runs)
       /\ \A r \in ToSet(p.runs) : ToSet(r.services) \subseteq {"postgres", "elasticsearch"}

Asked(s) == s \in ToSet(Options.services)
Given(b, steps) == IF b THEN steps ELSE <<>>
DockerSteps ==
  LET new == ~Exists("docker")
  IN  Given(new, <<PutFile("compose", "docker"), AddFile("sql", "docker")>>)
      \o Given(Asked("postgres"), <<AddFile("postgres", "docker"), AddFile("postgres.volume", "docker")>>)
      \o Given(Asked("elasticsearch"), <<AddFile("es", "docker"), AddFile("es.volume", "docker"),
                                         AddFile("Dockerfile", "docker")>>)
      \o Given(new, <<PutFile("full7", "docker"), PutFile("scripts", "docker"), PutFile(".env", "docker")>>)
DockerenvSteps ==
  LET new == ~Exists("dockerenv")
  IN  Given(new, <<PutFile("portal-ext", "dockerenv"), PutFile("store", "dockerenv")>>)
      \o Given(Asked("elasticsearch"), <<AddFile("connector7", "dockerenv")>>)
      \o Given(new, <<AddFile("gitkeep", "dockerenv")>>)
LiferaySteps ==
  IF Exists("liferay") THEN DockerenvSteps
  ELSE <<PutFile("workspace", "liferay"), PutFile("gradle.properties", "liferay"), PutFile("common", "liferay")>>
       \o DockerenvSteps \o <<AddFile("modules", "liferay")>>
FileSteps == <<AddFile(".liferay-cli.yml", ""), AddFile(".gitignore", ""), AddFile(".gitattributes", "")>>

StepsOf(phase) == CASE phase = "docker" -> DockerSteps [] phase = "liferay" -> LiferaySteps [] OTHER -> FileSteps
Enter(phase) == scaffoldPc' = phase /\ scaffoldTodo' = StepsOf(phase)
StartScaffold ==
  /\ scaffoldPc \in {"start", "ready", "failed"} /\ scaffoldRun < Len(project.runs)
  /\ scaffoldRun' = scaffoldRun + 1 /\ createdNow' = {} /\ scaffoldPc' = "git" /\ scaffoldTodo' = <<>>
  /\ UNCHANGED <<project, there, dotenv, staged, committed, scaffoldFaults, halted>>
EnterPhase ==
  /\ scaffoldTodo = <<>>
  /\ \E p \in {<<"git", "docker">>, <<"docker", "liferay">>, <<"liferay", "files">>} : scaffoldPc = p[1] /\ Enter(p[2])
  /\ UNCHANGED <<project, there, dotenv, scaffoldRun, createdNow, staged, committed,
                 scaffoldFaults, halted>>
ExampleEnv == [compose |-> {}, image |-> "8", es |-> "8"]
CopyFile ==
  /\ scaffoldTodo # <<>> /\ scaffoldTodo' = Tail(scaffoldTodo)
  /\ LET s == Head(scaffoldTodo)
         dirs == ({s.dir} \cup IF s.dir = "dockerenv" THEN {"liferay"} ELSE {}) \ {""}
         new == ({s.file} \cup dirs) \ DOMAIN there
         made == new \cup IF s.how = "put" THEN {s.file} ELSE {}
     IN  /\ there' = [f \in DOMAIN there \cup made |-> IF f \in made THEN "asset" ELSE there[f]]
         /\ createdNow' = createdNow \cup new
         /\ dotenv' = IF s.file = ".env" /\ s.how = "put" THEN ExampleEnv ELSE dotenv
  /\ UNCHANGED <<project, scaffoldPc, scaffoldRun, staged, committed, scaffoldFaults, halted>>

(* What is generated is then set for the options: services replace those   *)
(* there, and the search engine follows the image.                         *)
ConfigureEnv ==
  /\ scaffoldPc = "files" /\ scaffoldTodo = <<>> /\ scaffoldPc' = "search"
  /\ dotenv' = IF Exists(".env")
               THEN [dotenv EXCEPT !.image = IF Options.image # "" THEN Options.image ELSE @,
                                   !.compose = IF Options.services # <<>> THEN ToSet(Options.services) ELSE @]
               ELSE dotenv
  /\ UNCHANGED <<project, there, scaffoldRun, scaffoldTodo, createdNow, staged, committed,
                 scaffoldFaults, halted>>
BugConfigureSearch ==
  /\ scaffoldPc = "search" /\ scaffoldPc' = "commit" /\ dotenv' = IF Exists(".env") THEN [dotenv EXCEPT !.es = dotenv.image] ELSE dotenv
  /\ UNCHANGED <<project, there, scaffoldRun, scaffoldTodo, createdNow, staged, committed,
                 scaffoldFaults, halted>>
ConfigureSearch ==
  /\ scaffoldPc = "search"
  /\ IF Exists(".env") THEN dotenv' = [dotenv EXCEPT !.es = dotenv.image] ELSE UNCHANGED dotenv
  /\ scaffoldPc' = IF Exists(".env") /\ Asked("elasticsearch") THEN "connectors" ELSE "commit"
  /\ UNCHANGED <<project, there, scaffoldRun, scaffoldTodo, createdNow, staged, committed,
                 scaffoldFaults, halted>>
\* The connector of the image is written, the other one removed.
WriteConnectors ==
  /\ scaffoldPc = "connectors" /\ scaffoldPc' = "commit"
  /\ LET right == IF dotenv.image = "8" THEN {"connector8", "full8"} ELSE {"connector7", "full7"}
         wrong == {"connector7", "connector8", "full7", "full8"} \ right
     IN  /\ there' = [f \in right \cup (DOMAIN there \ wrong) |-> IF f \in right THEN "asset" ELSE there[f]]
         /\ createdNow' = createdNow \cup (right \ DOMAIN there)
  /\ UNCHANGED <<project, dotenv, scaffoldRun, scaffoldTodo, staged, committed, scaffoldFaults, halted>>

(* What the run created is staged, directories whole; git refuses a path   *)
(* that is ignored, the others being staged.  The commit takes whatever is *)
(* staged.                                                                 *)
Touched ==
  (createdNow \cap {".liferay-cli.yml", ".gitignore", ".gitattributes", "docker", "liferay"})
  \cup IF "liferay" \notin createdNow THEN createdNow \cap {"dockerenv"} ELSE {}
Stageable == (UNION {UnderDir(d) \cap DOMAIN there : d \in Touched \ project.ignored}) \ {"docker", "liferay", "dockerenv", ".env"}
CommitScaffold ==
  /\ scaffoldPc = "commit"
  /\ CASE ~Options.commit -> scaffoldPc' = "ready" /\ UNCHANGED <<staged, committed>>
       [] Options.commit /\ Touched \cap project.ignored # {} ->
            scaffoldPc' = "failed" /\ staged' = staged \cup Stageable /\ UNCHANGED committed
       [] OTHER -> scaffoldPc' = "ready" /\ staged' = {} /\ committed' = committed \cup staged \cup Stageable
  /\ UNCHANGED <<project, there, dotenv, scaffoldRun, scaffoldTodo, createdNow, scaffoldFaults, halted>>

StopScaffold ==
  /\ scaffoldPc \in {"git", "docker", "liferay", "files", "search", "connectors"}
  /\ scaffoldFaults < ScaffoldFaults
  /\ scaffoldFaults' = scaffoldFaults + 1 /\ scaffoldPc' = "failed" /\ scaffoldTodo' = <<>>
  /\ halted' = halted \cup IF scaffoldTodo # <<>> THEN {Head(scaffoldTodo).dir} ELSE {}
  /\ UNCHANGED <<project, there, dotenv, scaffoldRun, createdNow, staged, committed>>

ScaffoldStart(pc, faults) ==
  /\ project \in Projects
  /\ there = [f \in project.mine |-> "mine"] /\ dotenv = project.dotenv /\ scaffoldPc = pc
  /\ scaffoldRun = 0
  /\ scaffoldTodo = <<>> /\ createdNow = {} /\ staged = project.staged /\ committed = {}
  /\ scaffoldFaults = faults /\ halted = {}
ScaffoldInit == ScaffoldStart("start", 0)
ScaffoldNext == \/ StartScaffold \/ EnterPhase \/ CopyFile \/ ConfigureEnv \/ ConfigureSearch \/ WriteConnectors
                \/ CommitScaffold \/ StopScaffold
ScaffoldSpec == ScaffoldInit /\ [][ScaffoldNext]_scaffoldVars

-----------------------------------------------------------------------------
(* A file of the user is never replaced, except the search connector.      *)
MineIsKept ==
  \A f \in project.mine \ {"connector7", "connector8", "full7", "full8"} :
    Exists(f) /\ there[f] = "mine"

(* A project said to be ready has the files of every service it names, even *)
(* when an earlier run stopped; and docker/ and liferay/ are whole, unless *)
(* they were the user's or a run stopped while it filled them.             *)
ServicesOf(s) == CASE s = "postgres" -> {"postgres", "postgres.volume"} [] OTHER -> {"es", "es.volume", "Dockerfile"}
ReadyIsWhole ==
  scaffoldPc = "ready" =>
    /\ \A s \in ToSet(Options.services) : ServicesOf(s) \subseteq DOMAIN there
    /\ "docker" \notin project.mine \cup halted =>
         /\ {"compose", "sql", "scripts", ".env"} \subseteq DOMAIN there
         /\ \A s \in dotenv.compose : ServicesOf(s) \subseteq DOMAIN there
    /\ "liferay" \notin project.mine \cup halted =>
         {"workspace", "gradle.properties", "common"} \subseteq DOMAIN there
    /\ {"dockerenv", "liferay"} \cap (project.mine \cup halted) = {} =>
         {"portal-ext", "store", "gitkeep", "modules"} \subseteq DOMAIN there

(* A run that asks for Elasticsearch leaves the one connector its image    *)
(* understands in both directories, and the server of that version, however*)
(* an earlier run, or the template, had set them.                          *)
SearchMatches ==
  scaffoldPc = "ready" /\ Asked("elasticsearch") /\ Exists(".env") =>
    /\ dotenv.es = dotenv.image
    /\ DOMAIN there \cap {"connector7", "connector8"} = {IF dotenv.image = "8" THEN "connector8" ELSE "connector7"}
    /\ DOMAIN there \cap {"full7", "full8"} = {IF dotenv.image = "8" THEN "full8" ELSE "full7"}

(* A commit takes no file of the user that was not staged already, and     *)
(* leaves out nothing of a directory the run created, docker/.env and what *)
(* is ignored apart.                                                       *)
CommitIsWhole ==
  /\ committed \cap project.mine \subseteq project.staged
  /\ scaffoldPc = "ready" /\ Options.commit =>
       /\ staged = {}
       /\ \A d \in createdNow \cap {"docker", "liferay"} :
            UnderDir(d) \cap DOMAIN there \subseteq committed \cup {d, "dockerenv", ".env"}

(* However often project init is stopped and given again: the files of the  *)
(* user stay, what is said to be ready is whole and fits together, and the  *)
(* commit is of what the run made.                                          *)
ScaffoldIsWhole == MineIsKept /\ ReadyIsWhole /\ SearchMatches /\ CommitIsWhole
=============================================================================
