------------------------------ MODULE Checkouts ------------------------------
(***************************************************************************)
(* The main checkout of a project and its worktrees: which of them a       *)
(* command finds from the directory it runs in, what is in docker/.env and *)
(* in .liferay-cli.local.yml of each, and the Docker volumes that follow   *)
(* from it (src/core/config, src/core/runtime/env-context.ts,              *)
(* src/features/worktree/worktree-env.ts, src/features/env).  Commands run *)
(* one after the other; WorktreeState has the steps of the clone.          *)
(*                                                                         *)
(* A value is a sequence of words: <<>> is the empty one, <<"liferay",     *)
(* "w">> is liferay-w, a path begins with "/" or with ".", and a port is   *)
(* its number.  An env file is the value of each of its keys.              *)
(***************************************************************************)
EXTENDS Naturals, Sequences, FiniteSets, SequencesExt

CONSTANTS
  CheckoutCases,  \* the project, its branch and what its user edits
  CheckoutRuns    \* bound: commands and edits

VARIABLES
  co,         \* the case; it never changes
  envFile,    \* docker/.env of a checkout, or NoFile
  localUrl,   \* liferay.url in its .liferay-cli.local.yml: <<>> when it has none, or NoFile
  volumes,    \* the Docker volumes and the checkout that created each
  running,         \* the checkouts that run
  cloned,     \* the worktrees with a copy of main's state
  told,       \* what `worktree env` reported of a worktree, until its .env is edited
  services,   \* the compose services `env setup --with` saved
  lost,       \* the volumes that another checkout removed: [name, prepared, documents]
  checkoutRuns

checkoutVars == <<co, envFile, localUrl, volumes, running, cloned, told, services, lost, checkoutRuns>>

NoFile == [absent |-> <<>>]
NoProfile == <<"none">>
NoReport == [project |-> <<>>, url |-> <<>>, dataRoot |-> <<>>]

Checkout == {"main"} \cup co.names

-----------------------------------------------------------------------------
(* The files. *)

\* readEnvFile: of several lines with one key the last counts, so a file has one value of it.
ReadEnv(file) == IF file = NoFile THEN [k \in {} |-> <<>>] ELSE file
Get(values, k) == IF k \in DOMAIN values THEN values[k] ELSE <<>>

\* The values of f, and of g what f does not say.
OrElse(f, g) == [k \in DOMAIN f \cup DOMAIN g |-> IF k \in DOMAIN f THEN f[k] ELSE g[k]]
\* upsertEnvFileValues: every line of a key goes, and its new value is written at the end.
Upserted(file, values) == OrElse(values, ReadEnv(file))

FirstGiven(v, default) == IF v = <<>> THEN default ELSE v

-----------------------------------------------------------------------------
(* What the main checkout may give a key, by its file, the example or an    *)
(* edit: project, volume of the documents, volumes of the storages, root.   *)
Storages == {"postgres-data", "liferay-data"}
ModeKey == [s \in Storages |-> IF s = "postgres-data" THEN "POSTGRES_DATA_MODE" ELSE "LIFERAY_DATA_MODE"]
VolumeKey == [s \in Storages |-> IF s = "postgres-data" THEN "POSTGRES_DATA_VOLUME_NAME" ELSE "LIFERAY_DATA_VOLUME_NAME"]
GivenIn(c, k) == {f[k] : f \in {g \in {c.env, c.example} : k \in DOMAIN g}}
                 \cup {e.v : e \in {x \in c.edits : x.in = "main" /\ x.k = k}}
ProjectsOf(c) == (GivenIn(c, "COMPOSE_PROJECT_NAME") \cup {<<"liferay">>}) \ {<<>>}
DoclibsOf(c) == (GivenIn(c, "DOCLIB_VOLUME_NAME") \cup {p \o <<"doclib">> : p \in ProjectsOf(c)}) \ {<<>>}
StoresOf(c) == UNION {(GivenIn(c, VolumeKey[s]) \cup {p \o <<s>> : p \in ProjectsOf(c)}) \ {<<>>} : s \in Storages}
RootsOf(c) == GivenIn(c, "ENV_DATA_ROOT")

\* No name that main gives has that of a worktree in it, and no storage of main's is called as its documents are.
IsWords(v) == Len(v) \in Nat /\ v = [i \in 1 .. Len(v) |-> v[i]]
IsFile(f) == f = NoFile \/ ("absent" \notin DOMAIN f /\ f = [k \in DOMAIN f |-> f[k]] /\ \A k \in DOMAIN f : IsWords(f[k]))
NamesApart(c) ==
  /\ c.names \cap (Storages \cup {"main", "none", "/", "data", "envs", "default"}) = {}
  /\ \A v \in ProjectsOf(c) \cup DoclibsOf(c) \cup StoresOf(c) \cup RootsOf(c) : ToSet(v) \cap c.names = {}
  /\ DoclibsOf(c) \cap StoresOf(c) = {}
CheckoutOK(c) ==
  /\ c.hash \in [c.names -> Nat] /\ IsFile(c.env) /\ IsFile(c.example)
  /\ \A e \in c.edits : e.in \in {"main"} \cup c.names /\ e.k # "absent" /\ IsWords(e.v)
  /\ \A with \in c.with : IsFiniteSet(with)
ASSUME CheckoutAssumption ==
  CheckoutRuns \in Nat /\ \A c \in CheckoutCases : CheckoutOK(c) /\ NamesApart(c)

-----------------------------------------------------------------------------
(* From the directory of the command to its checkout. *)

\* A directory is the root of a checkout, or somewhere below it.
Dir(c, root) == [in |-> c, root |-> root]

\* A worktree has what its branch has.
HasCompose(d) == d.root /\ (d.in = "main" \/ "docker" \in co.branch)
HasLiferay(d) == d.root /\ (d.in = "main" \/ "liferay" \in co.branch)
\* The nearest directory upwards with docker/ and liferay/: the root of the checkout, or that
\* of main when a worktree is inside it.
DetectRepo(d) ==
  LET found == HasCompose(Dir(d.in, TRUE)) /\ HasLiferay(Dir(d.in, TRUE))
  IN IF found THEN d.in ELSE IF d.in \in co.names /\ co.inside THEN "main" ELSE "none"
\* An ldev project anywhere above wins over a Blade workspace that is nearer.
DetectProject(d) ==
  IF DetectRepo(d) # "none" THEN "ldev-native" ELSE IF co.blade THEN "blade-workspace" ELSE "unknown"

\* The .git file of a linked worktree is looked for in the directory itself; a path with
\* .worktrees in it tells by its name.
LinkedAt(d) == IF d.in \in co.names /\ (d.root \/ co.inside) THEN d.in ELSE "none"

WorktreeOf(d) ==
  IF LinkedAt(d) # "none" \/ DetectRepo(d) = "none" THEN LinkedAt(d) ELSE LinkedAt(Dir(DetectRepo(d), TRUE))
IsOverlay(w) == w # "none" /\ HasLiferay(Dir(w, TRUE))
RepoOf(d) == IF IsOverlay(WorktreeOf(d)) THEN WorktreeOf(d) ELSE DetectRepo(d)
\* A command of the environment works on the checkout it is given in, which must have docker/.
WorksOn(c) == RepoOf(Dir(c, TRUE)) = c /\ HasCompose(Dir(c, TRUE))

-----------------------------------------------------------------------------
(* What a worktree is given of its own. *)
PortBase == [LIFERAY_HTTP_PORT |-> 8100, LIFERAY_DEBUG_PORT |-> 9000, GOGO_PORT |-> 12000,
             POSTGRES_PORT |-> 5400, ES_HTTP_PORT |-> 9201, GLOWROOT_PORT |-> 4001]
Offset(w) == co.hash[w] % 800
PortSet(w) == [k \in DOMAIN PortBase |-> <<PortBase[k] + Offset(w)>>]
Url(ip, port) == <<"http">> \o ip \o port

ProjectName(values) == FirstGiven(Get(values, "COMPOSE_PROJECT_NAME"), <<"liferay">>)
WorktreeProject(mainValues, w) == ProjectName(mainValues) \o <<w>>
WorktreeIp(values, mainValues) == FirstGiven(Get(values, "BIND_IP"), FirstGiven(Get(mainValues, "BIND_IP"), <<"127.0.0.1">>))
WorktreeRoot(w) == <<"/", w, "data", "envs", w>>

\* resolveDockerEnv: a worktree that was not prepared is computed from main's file, and its
\* own file wins.
DockerEnv(d) ==
  LET r == RepoOf(d)
      values == ReadEnv(IF r = "none" THEN NoFile ELSE envFile[r])
      mainValues == ReadEnv(envFile["main"])
      w == WorktreeOf(d)
      ip == WorktreeIp(values, mainValues)
  IN IF ~IsOverlay(w) THEN values
     ELSE OrElse(values, OrElse(PortSet(w), OrElse(
            [COMPOSE_PROJECT_NAME |-> WorktreeProject(mainValues, w), BIND_IP |-> ip,
             LIFERAY_CLI_URL |-> Url(ip, PortSet(w)["LIFERAY_HTTP_PORT"]), ENV_DATA_ROOT |-> WorktreeRoot(w)], mainValues)))

ResolvedIp(values) ==
  IF Get(values, "BIND_IP") \in {<<>>, <<"0.0.0.0">>, <<"127.0.0.1">>, <<"localhost">>} THEN <<"localhost">>
  ELSE values["BIND_IP"]
\* resolveLiferayConfig: the shell, the local profile, docker/.env, and what the ports say.
ResolvedUrl(values, local, shell) ==
  FirstGiven(shell, FirstGiven(IF local = NoProfile THEN <<>> ELSE local, FirstGiven(Get(values, "LIFERAY_CLI_URL"),
    Url(ResolvedIp(values), FirstGiven(Get(values, "LIFERAY_HTTP_PORT"), <<8080>>)))))

\* resolveProjectContext: what a command knows of the project it runs in.
Context(d, shell) ==
  LET r == RepoOf(d)
      values == DockerEnv(d)
      local == IF r = "none" THEN NoProfile ELSE localUrl[r]
  IN [type |-> DetectProject(d), root |-> r,
      env |-> IF r # "none" /\ envFile[r] # NoFile THEN r ELSE "none",
      local |-> IF local # NoProfile THEN r ELSE "none",
      shared |-> IF r \in co.shared THEN r
                 ELSE IF IsOverlay(WorktreeOf(d)) /\ "main" \in co.shared THEN "main" ELSE "none",
      project |-> ProjectName(values), url |-> ResolvedUrl(values, local, shell)]

-----------------------------------------------------------------------------
(* The environment of a checkout, as the Docker commands see it: its own file only. *)
DataRoot(c, configured) ==
  IF configured = <<>> THEN <<"/", c, "data", "default">>
  ELSE IF Head(configured) = "." THEN <<"/", c>> \o Tail(configured) ELSE configured

StorageMode(values, s) ==
  IF Get(values, ModeKey[s]) \in {<<"bind">>, <<"volume">>} THEN values[ModeKey[s]]
  ELSE IF co.windows THEN <<"volume">> ELSE <<"bind">>

VolumeName(values, s) == FirstGiven(Get(values, VolumeKey[s]), ProjectName(values) \o <<s>>)
InVolumes(values) == {s \in Storages : StorageMode(values, s) = <<"volume">>}
Doclib(values) == FirstGiven(Get(values, "DOCLIB_VOLUME_NAME"), ProjectName(values) \o <<"doclib">>)
Mounted(values) == {VolumeName(values, s) : s \in InVolumes(values)} \cup {Doclib(values)}

\* buildComposeEnv: the saved profile, and the override of each storage in a volume.
Override(values, s, chosen) ==
  /\ s \in InVolumes(values) /\ (s = "postgres-data" => "postgres" \in chosen)
  /\ (s \o ".volume") \in co.files
ComposeFiles(values, with) ==
  LET saved == FirstGiven(Get(values, "COMPOSE_FILE"), <<"liferay">>)
      chosen == IF with = {} THEN ToSet(saved) ELSE {"liferay"} \cup (with \cap co.files)
  IN chosen \cup {s \o ".volume" : s \in {t \in Storages : Override(values, t, chosen)}}

EnvContext(file, c) ==
  LET values == ReadEnv(file)
  IN [project |-> ProjectName(values), dataRoot |-> DataRoot(c, Get(values, "ENV_DATA_ROOT")),
      url |-> Url(FirstGiven(Get(values, "BIND_IP"), <<"localhost">>), FirstGiven(Get(values, "LIFERAY_HTTP_PORT"), <<8080>>))]
\* What `worktree list` shows of a checkout.
Listed(c) ==
  LET values == ReadEnv(envFile[c])
  IN [project |-> IF "COMPOSE_PROJECT_NAME" \in DOMAIN values THEN values["COMPOSE_PROJECT_NAME"]
                  ELSE IF c = "main" THEN ProjectName(ReadEnv(envFile["main"])) ELSE <<>>,
      port |-> IF "LIFERAY_HTTP_PORT" \in DOMAIN values THEN values["LIFERAY_HTTP_PORT"]
               ELSE IF c # "main" /\ envFile[c] # NoFile THEN PortSet(c)["LIFERAY_HTTP_PORT"] ELSE <<>>]

-----------------------------------------------------------------------------
CheckoutStart(at) ==
  /\ co \in CheckoutCases
  /\ envFile = [c \in Checkout |-> IF c = "main" THEN co.env ELSE NoFile]
  /\ localUrl = [c \in Checkout |-> NoProfile]
  /\ volumes = [n \in {} |-> "none"] /\ running = {} /\ cloned = {} /\ lost = {} /\ checkoutRuns = at
  /\ told = [c \in co.names |-> NoReport]
  /\ services = [c \in Checkout |-> {}]
CheckoutInit == CheckoutStart(0)

Counted == checkoutRuns < CheckoutRuns /\ checkoutRuns' = checkoutRuns + 1 /\ UNCHANGED co

BugInherited(values, mainValues, w) == OrElse(values, OrElse(PortSet(w), mainValues))

\* runWorktreeEnv: everything of main's that the worktree does not say otherwise, and what
\* has to be its own, whatever either says.
Inherited(values, mainValues, w) ==
  LET ip == WorktreeIp(values, mainValues)
      project == WorktreeProject(mainValues, w)
      own == [BIND_IP |-> ip, LIFERAY_CLI_URL |-> Url(ip, PortSet(w)["LIFERAY_HTTP_PORT"]), COMPOSE_PROJECT_NAME |-> project,
              DOCLIB_VOLUME_NAME |-> Doclib(mainValues), ENV_DATA_ROOT |-> WorktreeRoot(w),
              POSTGRES_DATA_VOLUME_NAME |-> project \o <<"postgres-data">>, LIFERAY_DATA_VOLUME_NAME |-> project \o <<"liferay-data">>]
  IN OrElse(own, OrElse(PortSet(w), OrElse(values, mainValues)))
Prepared(w) ==
  LET source == IF envFile["main"] # NoFile THEN envFile["main"] ELSE co.example
      file == IF envFile[w] = NoFile THEN source ELSE envFile[w]
  IN Upserted(file, Inherited(ReadEnv(file), ReadEnv(envFile["main"]), w))

\* The clone is refused while main runs, after the file was written.
CloneRefused(w) == w \notin cloned /\ "main" \in running
EnvReport(file, w) == EnvContext(file, w)
PrepareWorktree(w) ==
  /\ envFile' = [envFile EXCEPT ![w] = Prepared(w)]
  /\ told' = [told EXCEPT ![w] = EnvReport(Prepared(w), w)]
  /\ IF CloneRefused(w) THEN UNCHANGED <<localUrl, cloned>>
     ELSE /\ cloned' = cloned \cup {w}
          /\ localUrl' = [localUrl EXCEPT ![w] = IF @ = NoProfile THEN localUrl["main"] ELSE @]
Prepare(c) == IF c = "main" THEN UNCHANGED <<envFile, told, localUrl, cloned>> ELSE PrepareWorktree(c)
Refused(c) == c # "main" /\ CloneRefused(c)

\* ensureEnvFile: made of the example, or completed from it.
Completed(file) == OrElse(ReadEnv(file), ReadEnv(co.example))

\* `env init`, in a worktree `worktree env`.
InitEnv(c) ==
  /\ Counted /\ WorksOn(c) /\ UNCHANGED <<volumes, running, services, lost>>
  /\ IF c = "main" THEN envFile' = [envFile EXCEPT ![c] = Completed(@)] /\ UNCHANGED <<told, localUrl, cloned>>
     ELSE PrepareWorktree(c)

\* `env setup --with`: the profile is saved for the commands that come after.
SetupEnv(c, with) ==
  /\ Counted /\ WorksOn(c) /\ UNCHANGED <<volumes, running, lost>>
  /\ IF Refused(c) THEN PrepareWorktree(c) /\ UNCHANGED services
     ELSE LET file == Completed(IF c = "main" THEN envFile[c] ELSE Prepared(c))
          IN /\ IF c = "main" THEN UNCHANGED <<told, localUrl, cloned>>
                ELSE /\ told' = [told EXCEPT ![c] = EnvReport(Prepared(c), c)]
                     /\ cloned' = cloned \cup {c}
                     /\ localUrl' = [localUrl EXCEPT ![c] = IF @ = NoProfile THEN localUrl["main"] ELSE @]
             /\ envFile' = [envFile EXCEPT ![c] =
                  IF with = {} THEN file ELSE Upserted(file, [COMPOSE_FILE |-> <<"liferay">> \o SetToSeq(with)])]
             /\ services' = [services EXCEPT ![c] = IF with = {} THEN @ ELSE with]

\* `start`: the volumes that are missing are created.
StartEnv(c) ==
  /\ Counted /\ WorksOn(c) /\ Prepare(c) /\ UNCHANGED <<services, lost>>
  /\ IF Refused(c) THEN UNCHANGED <<volumes, running>>
     ELSE /\ volumes' = OrElse(volumes, [n \in Mounted(ReadEnv(envFile'[c])) |-> c])
          /\ running' = running \cup {c}

StopEnv(c) ==
  /\ Counted /\ c \in running /\ running' = running \ {c}
  /\ UNCHANGED <<envFile, localUrl, volumes, cloned, told, services, lost>>

\* `env clean --force`: the volumes by name, the documents first; one in use ends the command.
InUse(n, c) == \E x \in running \ {c} : n \in Mounted(ReadEnv(envFile[x]))
CleanedVolumes(c) ==
  LET values == ReadEnv(envFile[c])
      named == {VolumeName(values, s) : s \in InVolumes(values)}
  IN IF InUse(Doclib(values), c) THEN {}
     ELSE {Doclib(values)} \cup (IF \E n \in named : InUse(n, c) THEN {} ELSE named)
CleanEnv(c) ==
  /\ Counted /\ WorksOn(c)
  /\ running' = running \ {c} /\ cloned' = cloned \ {c}
  /\ volumes' = [n \in DOMAIN volumes \ CleanedVolumes(c) |-> volumes[n]]
  /\ lost' = lost \cup {[name |-> n, prepared |-> c = "main" \/ told[c] # NoReport, documents |-> n = Doclib(ReadEnv(envFile[c]))] :
                          n \in {m \in DOMAIN volumes \cap CleanedVolumes(c) : volumes[m] # c}}
  /\ UNCHANGED <<envFile, localUrl, told, services>>

\* The user edits a docker/.env, or writes a URL in a local profile.
EditEnv(e) ==
  /\ Counted /\ e \in co.edits
  /\ envFile' = [envFile EXCEPT ![e.in] = OrElse([k \in {e.k} |-> e.v], ReadEnv(@))]
  /\ told' = [w \in co.names |-> IF w = e.in THEN NoReport ELSE told[w]]
  /\ services' = [services EXCEPT ![e.in] = IF e.k = "COMPOSE_FILE" THEN {} ELSE @]
  /\ UNCHANGED <<localUrl, volumes, running, cloned, lost>>
EditProfile(c) ==
  /\ Counted /\ co.profiles /\ localUrl[c] = NoProfile
  /\ \E v \in {<<>>, Url(<<"localhost">>, <<8080>>)} : localUrl' = [localUrl EXCEPT ![c] = v]
  /\ UNCHANGED <<envFile, volumes, running, cloned, told, services, lost>>

CheckoutNext == \/ \E c \in Checkout : InitEnv(c) \/ StartEnv(c) \/ StopEnv(c) \/ CleanEnv(c)
                \/ \E c \in Checkout, with \in co.with : SetupEnv(c, with)
                \/ \E e \in co.edits : EditEnv(e)
                \/ EditProfile("main")

-----------------------------------------------------------------------------
(* A command in a checkout, at its root or below it, works on that checkout and with its *)
(* files: never main's environment from a worktree, whether docker/ is in the branch or  *)
(* the worktree is elsewhere (resolveProjectContext).                                    *)
ContextIsOwn ==
  \A c \in Checkout, root \in BOOLEAN :
    LET x == Context(Dir(c, root), <<>>)
    IN c = "main" \/ ("liferay" \in co.branch /\ (root \/ co.inside \/ "docker" \in co.branch))
         => x.root = c /\ x.env \in {c, "none"} /\ x.local \in {c, "none"}

(* What `worktree env` reports is what every later command finds, until the user edits the *)
(* file: Docker's commands, those of the portal, and the list, whatever main's file says.  *)
PreparedIsResolved ==
  \A w \in {x \in co.names : told[x] # NoReport} :
    LET x == Context(Dir(w, TRUE), <<>>)
    IN /\ EnvContext(envFile[w], w) = told[w]
       /\ x.project = told[w].project /\ Listed(w).project = told[w].project
       /\ localUrl[w] \in {NoProfile, <<>>} => x.url = told[w].url

(* Prepared worktrees share no project, no data and no volume with main or with each other, *)
(* and a port only when their names give the same one.                                      *)
OwnResources(c) ==
  LET values == ReadEnv(envFile[c])
  IN {ProjectName(values), DataRoot(c, Get(values, "ENV_DATA_ROOT"))} \cup {VolumeName(values, s) : s \in Storages}
WorktreesApart ==
  \A c \in Checkout, w \in {x \in co.names : told[x] # NoReport} :
    c # w /\ (c \in co.names => told[c] # NoReport) =>
      /\ OwnResources(c) \cap OwnResources(w) = {}
      /\ c \in co.names /\ Offset(c) # Offset(w) =>
           \A k \in DOMAIN PortBase : ReadEnv(envFile[c])[k] # ReadEnv(envFile[w])[k]

(* A prepared checkout removes no volume of another, but for the documents they share. *)
VolumesKept == \A l \in lost : l.prepared => l.documents

(* The services of `env setup --with` are those of every later command, however often the *)
(* worktree is prepared again.                                                            *)
ServicesKept ==
  \A c \in Checkout : services[c] \subseteq ComposeFiles(ReadEnv(envFile[c]), {})

(* A prepared worktree works on its own environment, ports, data and        *)
(* volumes, from wherever and how often its commands are given.             *)
CheckoutsAreApart == ContextIsOwn /\ PreparedIsResolved /\ WorktreesApart /\ VolumesKept /\ ServicesKept
=============================================================================
