----------------------------- MODULE MCWorkspace -----------------------------
(***************************************************************************)
(* Small instances of what ldev keeps in the files of a project, and of    *)
(* what it follows of its containers.                                      *)
(***************************************************************************)
EXTENDS Checkouts, DocumentLibrary, Scaffold, ClientExtension, LogStream, MigrationFiles

Example == [LIFERAY_HTTP_PORT |-> <<8080>>, COMPOSE_PROJECT_NAME |-> <<"liferay">>,
            DOCLIB_VOLUME_NAME |-> <<"liferay", "doclib">>, ENV_DATA_ROOT |-> <<".", "data", "default">>]
Edit(c, k, v) == [in |-> c, k |-> k, v |-> v]
Plain == [names |-> {"w"}, hash |-> "w" :> 799, branch |-> {"docker", "liferay"}, inside |-> TRUE, blade |-> FALSE,
          example |-> Example, env |-> Example, windows |-> TRUE, profiles |-> FALSE, shared |-> {"main"},
          files |-> {"postgres", "postgres-data.volume", "liferay-data.volume"}, with |-> {{}}, edits |-> {}]
Two == [Plain EXCEPT !.names = {"w", "x"}, !.hash = "w" :> 269 @@ "x" :> 270]
SomeCheckouts ==
  {[Plain EXCEPT !.branch = b, !.inside = i, !.blade = l, !.profiles = TRUE] :
      b \in {{"docker", "liferay"}, {"liferay"}}, i \in BOOLEAN, l \in BOOLEAN}
  \cup {[Plain EXCEPT !.env = e, !.example = x, !.with = {{}, {"postgres"}}, !.windows = n,
                      !.edits = {Edit("main", "COMPOSE_FILE", <<"liferay">>), Edit("w", "BIND_IP", <<"10.0.0.1">>)}] :
          e \in {Example, NoFile}, x \in {Example, NoFile}, n \in BOOLEAN}
  \cup {[Plain EXCEPT !.names = {}, !.hash = [n \in {} |-> 0]], Two, [Two EXCEPT !.hash = "w" :> 269 @@ "x" :> 1069],
        [Two EXCEPT !.edits = {Edit("main", "POSTGRES_DATA_VOLUME_NAME", <<"pg">>), Edit("w", "POSTGRES_DATA_VOLUME_NAME", <<"pg">>),
                               Edit("main", "LIFERAY_HTTP_PORT", <<8081>>), Edit("main", "COMPOSE_PROJECT_NAME", <<"demo">>)}]}

Fewest(cases) == CHOOSE c \in cases : \A d \in cases : Cardinality(c.names) <= Cardinality(d.names)
NoCheckout == co = Fewest(CheckoutCases) /\ CheckoutStart(CheckoutRuns)

\* Directories and backups named short: the library is downloaded "here", or lies in the default directory.
Down(background, backup) == [op |-> "download", background |-> background, backup |-> backup, dest |-> "here", path |-> ""]
MountAt(path) == [op |-> "mount", background |-> FALSE, backup |-> "", dest |-> "", path |-> path]
Shelf(clients) == [clients |-> clients, latest |-> "b2", nas |-> "none", inUse |-> FALSE, path |-> "", dirs |-> {}, volume |-> Nothing,
                   found |-> "default" :> {} @@ "here" :> {}]
SomeLibraries ==
  {Shelf(<<<<Down(b, ""), Down(TRUE, k), MountAt(p)>>>>) : b \in BOOLEAN, k \in {"", "b1"}, p \in {""}}
  \cup {[Shelf(<<<<MountAt(p), MountAt("here")>>>>) EXCEPT !.nas = n, !.inUse = u, !.volume = v, !.found = "default" :> {} @@ "here" :> {"b1"}] :
          p \in {"", "here"}, n \in {"none", "incomplete", "full"}, u \in BOOLEAN, v \in {Nothing, Nas, Bind("default"), Bind("here")}}
  \cup {[Shelf(<<<<MountAt(p), MountAt("")>>>>) EXCEPT !.dirs = {"bare"}, !.path = s, !.nas = n, !.volume = Nas] :
          p \in {"", "bare"}, s \in {"", "bare", "gone"}, n \in {"none", "full"}}
  \cup {Shelf(<<<<Down(TRUE, "b1"), MountAt("")>>, <<Down(TRUE, ""), MountAt("")>>>>), [Shelf(<<<<Down(FALSE, "")>>>>) EXCEPT !.latest = ""]}
NoLibrary == (library = CHOOSE l \in Libraries : TRUE) /\ LibraryStart("off", LibraryFaults, LibraryKills)

\* A project begun anew, or where the user has files, initialized twice.
RunInit(with, image, commit) == [services |-> with, image |-> image, commit |-> commit]
BothServices == <<"postgres", "elasticsearch">>
NewProject(runs) == [runs |-> runs, mine |-> {}, dotenv |-> ExampleEnv, staged |-> {}, ignored |-> {}]
SomeProjects ==
  {NewProject(<<RunInit(s, i, TRUE), RunInit(BothServices, j, TRUE)>>) : s \in {<<>>, <<"elasticsearch">>}, i \in {"", "7"}, j \in {"", "8"}}
  \cup {[NewProject(<<RunInit(<<"postgres">>, "7", c), RunInit(<<"elasticsearch">>, "", TRUE)>>) EXCEPT !.mine = m, !.staged = {"readme"}, !.ignored = g] :
          c \in BOOLEAN, g \in {{}, {"docker"}},
          m \in {{"readme", "notes"}, {"readme", "docker", ".env", "postgres", "full7"},
                 {"readme", "liferay", "workspace", ".gitignore"}, {"readme", "liferay", "dockerenv", "connector7"}}}
NoProject == (project = CHOOSE p \in Projects : TRUE) /\ ScaffoldStart("off", ScaffoldFaults)

OneExtension == [files |-> <<"a">>, running |-> TRUE, unreadable |-> {}, before |-> <<>>]
EarlierLines == <<[kind |-> "started", file |-> 0, run |-> 0], [kind |-> "batch-ok", file |-> 1, run |-> 0]>>
SomeExtensions == {OneExtension, [OneExtension EXCEPT !.running = FALSE], [OneExtension EXCEPT !.files = <<>>],
                   [OneExtension EXCEPT !.files = <<"a", "b">>, !.unreadable = {2}, !.before = EarlierLines],
                   [OneExtension EXCEPT !.before = <<[kind |-> "batch-failed", file |-> 1, run |-> 0]>>]}
NoExtension == (extension = CHOOSE x \in Extensions : TRUE) /\ ExtensionStart("off", ExtensionRuns)

SomeStreams == {<<"running", a>> : a \in {"unknown", "stopped", "running"}}
NoStream == stream = <<>> /\ StreamStart("off")

\* Every definition of three fields, the last below any other, with and without the field that the portal has.
FieldOf(ref, parent, type) == [ref |-> ref, parent |-> parent, type |-> type, key |-> IF type = "fieldset" THEN "block" ELSE ""]
SomeDefinitions == {<<FieldOf("a", 0, t), FieldOf(r, p, u), FieldOf("c", q, "text")>> :
                      t \in {"text", "fieldset"}, u \in {"text", "fieldset"}, r \in {"b", ""}, p \in {0, 1}, q \in {0, 1, 2}}
OldDefinition == <<FieldOf("a", 0, "text"), FieldOf("old", 0, "fieldset"), FieldOf("c", 2, "text")>>
Migrate(locals, layout, file) == [portal |-> OldDefinition, locals |-> locals, own |-> "own", file |-> file, layout |-> layout]
SomeMigrations ==
  {Migrate({d, Append(d, FieldOf("old", 0, "text"))},
           <<<<<<<<"a", "old">>>>, <<<<"b">>, <<"old">>>>>>, <<<<<<"old">>>>>>, <<<<<<"c">>>>>>>>, FALSE) : d \in SomeDefinitions}
  \cup {Migrate({SubSeq(OldDefinition, 1, 1), OldDefinition}, <<<<<<<<"a">>, <<"old">>>>>>>>, f) : f \in BOOLEAN}
NoMigrationFiles == /\ migration = Migrate({<<>>}, <<>>, FALSE) /\ local = <<>>
                    /\ MigrationFilesStart("off", DescriptorRuns)

fileVars == <<libraryVars, scaffoldVars, migrationVars>>
followVars == <<extensionVars, streamVars>>
workspaceVars == <<checkoutVars, fileVars, followVars>>
NoFiles == NoLibrary /\ NoProject /\ NoMigrationFiles
NoFollow == NoExtension /\ NoStream
NoWorkspace == NoCheckout /\ NoFiles /\ NoFollow
WorkspaceInit == \/ CheckoutInit /\ NoFiles /\ NoFollow
                 \/ NoCheckout /\ LibraryInit /\ NoProject /\ NoMigrationFiles /\ NoFollow
                 \/ NoCheckout /\ NoLibrary /\ ScaffoldInit /\ NoMigrationFiles /\ NoFollow
                 \/ NoCheckout /\ NoLibrary /\ NoProject /\ MigrationFilesInit /\ NoFollow
                 \/ NoCheckout /\ NoFiles /\ ExtensionInit /\ NoStream
                 \/ NoCheckout /\ NoFiles /\ NoExtension /\ StreamInit
WorkspaceNext == \/ CheckoutNext /\ UNCHANGED <<fileVars, followVars>>
                 \/ LibraryNext /\ UNCHANGED <<checkoutVars, scaffoldVars, migrationVars, followVars>>
                 \/ ScaffoldNext /\ UNCHANGED <<checkoutVars, libraryVars, migrationVars, followVars>>
                 \/ MigrationFilesNext /\ UNCHANGED <<checkoutVars, libraryVars, scaffoldVars, followVars>>
                 \/ ExtensionNext /\ UNCHANGED <<checkoutVars, fileVars, streamVars>>
                 \/ StreamNext /\ UNCHANGED <<checkoutVars, fileVars, extensionVars>>

\* What ldev leaves in a project, and says of what it follows, is true whenever a command stops.
WorkspaceIsFaithful == LibraryIsFaithful /\ ScaffoldIsWhole /\ DeploymentIsTrue /\ StreamsEnd
=============================================================================
