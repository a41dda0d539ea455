----------------------------- MODULE MCCommands -----------------------------
(***************************************************************************)
(* The commands that share no state: each behaviour runs one of them, or   *)
(* one family of them, chosen in the initial state, with the others at     *)
(* their end.  One run checks them all.  Small instances of what commands  *)
(* read of a portal come first; those of the others are in the MC modules  *)
(* it extends.                                                             *)
(***************************************************************************)
EXTENDS MCResources, MCSites, MCWorkspace, SiteLookup, WhereUsed, SiteReports

\* Sites 1 and 2, 3 below 2, the global site 4, and a site 5 of another company.
Group(url, name, parent, company, admin) ==
  [url |-> url, name |-> name, parent |-> parent, company |-> company, site |-> TRUE, admin |-> admin]
FiveSites == <<Group("guest", "Main", 0, 1, TRUE), Group("news", "News", 1, 1, TRUE),
               Group("newsroom", "Press", 2, 1, TRUE), Group("global", "Global", 0, 1, FALSE),
               Group("guest", "Other", 0, 2, TRUE)>>
Ask(op, slash, text) == [op |-> op, site |-> [slash |-> slash, text |-> text]]
LookAt(asked) == [sites |-> FiveSites, own |-> 1, companies |-> <<1, 2>>, refused |-> {}, tasks |-> asked,
                  numeric |-> "3" :> 3, within |-> {<<"news", "news">>, <<"news", "newsroom">>, <<"ress", "Press">>},
                  urls |-> {}]
Refusals == {{}, {"admin-list"}, {"admin-url", "user-url"}, {"admin-url", "admin-list", "companies"},
             {"user-url", "groups"}, {"group"}, {"by-id", "admin-url", "user-url", "admin-list", "count"}}
SomeLookups ==
  {[LookAt(<<t, u>>) EXCEPT !.urls = {"news", "moved"}] : t \in {Ask("resolve", TRUE, "news")},
     u \in {Ask("resolve", TRUE, "news"), Ask("chain", TRUE, "news")}}
  \cup {[LookAt(<<t>>) EXCEPT !.refused = r, !.companies = c] :
          t \in {Ask("resolve", s, x) : s \in BOOLEAN, x \in {"news", "ress", "3", "global", "none"}}
                \cup {Ask(o, TRUE, "newsroom") : o \in {"list", "sites", "chain", "company"}},
          r \in Refusals, c \in {<<2, 1>>}}
  \cup {[LookAt(<<t>>) EXCEPT !.refused = r, !.companies = <<1>>, !.sites = [g \in 1 .. 4 |-> [FiveSites[g] EXCEPT !.parent = IF g = 1 THEN 3 ELSE @]]] :
          t \in {Ask(o, TRUE, "news") : o \in {"list", "sites", "chain", "company"}}, r \in Refusals}

\* Pages 1 to 4 of the first site, page 3 being the master of page 1, page 2 private and page 4 made of portlets; page 5 of
\* the second site.  The article "a2" is only in the journal, below a folder.
Part(kind, key) == [kind |-> kind, key |-> key, templates |-> {}, structures |-> {}, adt |-> "", refs |-> <<>>]
Leaf(site, private, parent, url, type) ==
  [site |-> site, private |-> private, parent |-> parent, url |-> url, local |-> <<>>, type |-> type, master |-> 0,
   els |-> <<>>, links |-> <<>>, columns |-> {}, html |-> {}]
WebSite(url, id, parent, rank) == [url |-> url, id |-> id, parent |-> parent, byUrl |-> rank, byName |-> 3 - rank]
Content(site, url, folder, s) == [site |-> site, url |-> url, folder |-> folder, structure |-> s, approved |-> TRUE, headless |-> TRUE,
                                  template |-> "T1", rendered |-> "", display |-> ""]
JournalWidget == [Part("widget", "journal") EXCEPT !.adt = "style1", !.refs = <<Ref("a1", 1, "", TRUE, FALSE)>>]
SmallWeb ==
  [sites |-> <<WebSite("guest", "20", 0, 2), WebSite("news", "30", 1, 3), WebSite("global", "40", 0, 1)>>,
   layouts |-> <<[Leaf(1, FALSE, 0, "home", "content") EXCEPT !.master = 3, !.local = "es" :> "inicio",
                    !.els = <<[Part("fragment", "F1") EXCEPT !.templates = {"T1"}], JournalWidget>>,
                    !.links = <<[id |-> "journal_1", has |-> {"journal"}, refs |-> <<Ref("a1", 1, "T2", TRUE, FALSE)>>]>>],
                 [Leaf(1, TRUE, 0, "home", "content") EXCEPT !.els = <<[Part("fragment", "f1") EXCEPT !.refs = <<Ref("a3", 2, "", FALSE, TRUE)>>]>>],
                 [Leaf(1, FALSE, 1, "frame", "content") EXCEPT !.els = <<[Part("fragment", "HEAD") EXCEPT !.structures = {"S2"}]>>],
                 [Leaf(1, FALSE, 3, "apps", "portlet") EXCEPT !.columns = {[id |-> "journal_2", name |-> "journal"]}, !.html = {"a2"}],
                 Leaf(2, FALSE, 0, "home", "link")>>,
   articles |-> "a1" :> Content(1, "one", 0, "s1") @@ "a2" :> [Content(1, "two", 1, "s2") EXCEPT !.headless = FALSE, !.template = ""]
                @@ "a3" :> [Content(2, "three", 0, "s1") EXCEPT !.approved = FALSE, !.display = "D"],
   structures |-> "s1" :> [key |-> "S1"] @@ "s2" :> [key |-> "S2"], displays |-> "D" :> {"T2"},
   folders |-> <<0, 1>>, locales |-> <<"es", "en">>, counts |-> 1 :> 2,
   home |-> "guest" :> [PageUrl("guest", FALSE, FALSE, "home") EXCEPT !.locale = "es"],
   catalog |-> {[type |-> "adt", site |-> 3, id |-> "9", key |-> "k9", name |-> "Style", style |-> "style1", keyStyle |-> "style-k9"],
                [type |-> "fragment", site |-> 1, id |-> "", key |-> "f1", name |-> "First", style |-> "", keyStyle |-> ""],
                [type |-> "template", site |-> 1, id |-> "7", key |-> "T1", name |-> "News", style |-> "", keyStyle |-> ""]}]
Ask0(type, key) == [type |-> type, keys |-> {key}, sites |-> <<>>, excluded |-> {}, order |-> "site", limit |-> 0, private |-> TRUE,
                    maxDepth |-> 12, plan |-> FALSE]
Hunt(query, refused, edits) ==
  [web |-> SmallWeb, refused |-> refused, query |-> query, fold |-> "F1" :> "f1" @@ "First" :> "first" @@ "HEAD" :> "head", edits |-> edits]
Moved == [SmallWeb EXCEPT !.layouts[1].url = "start", !.layouts[1].html = {"a1", "a2"}]
Dropped == [SmallWeb EXCEPT !.articles = [a \in {"a1", "a3"} |-> SmallWeb.articles[a]], !.layouts[3].site = 2]
Sited(query, names) == [query EXCEPT !.sites = [i \in DOMAIN names |-> [text |-> names[i]]]]
SomeHunts ==
  {Hunt(q, {}, {Moved, Dropped}) : q \in {Ask0("structure", "S2"), Ask0("fragment", "First"), Ask0("widget", "journal")}}
  \cup {Hunt(q, {}, {}) : q \in {Ask0("structure", "S1"), Ask0("structure", "s2"), Ask0("template", "News"), Ask0("adt", "Style"),
          Ask0("adt", "none"), [Ask0("structure", "S2") EXCEPT !.maxDepth = 1, !.private = FALSE], [Ask0("structure", "S1") EXCEPT !.plan = TRUE],
          [Ask0("portlet", "journal") EXCEPT !.order = "content", !.limit = 2, !.excluded = {"global"}],
          [Ask0("template", "T2") EXCEPT !.order = "name"], Sited(Ask0("structure", "S1"), <<"news", "30", "guest">>),
          Sited(Ask0("fragment", "F1"), <<"other">>), [Ask0("structure", "S1") EXCEPT !.keys = {}]}}
  \cup {Hunt(Ask0("structure", "S2"), r, {}) : r \in {{"layouts"}, {"headless-api"}, {"headless-list"}, {"journal"}, {"element", "html"}}}

\* Three sites: in site 1 a tree of five folders, in site 2 roots that do not all say their site, in site 3 nothing.
Branch(site, says, parent, n) == [site |-> site, says |-> says, parent |-> parent, contents |-> n]
ReportOn(op) ==
  [op |-> op, sites |-> <<1, 2, 3>>, excluded |-> {}, refused |-> {}, limit |-> 2, order |-> "content", rank |-> <<3, 1, 1>>,
   tree |-> <<Branch(1, 1, 0, 1), Branch(1, 1, 1, 2), Branch(1, 1, 2, 1), Branch(1, 1, 0, 3), Branch(1, 1, 1, 0),
              Branch(2, 2, 0, 4), Branch(2, 0, 0, 1)>>,
   articles |-> <<<<"s1", "s2", "s3">>, <<"s2", "s2">>, <<>>, <<"s3">>, <<"s4">>, <<>>, <<>>>>,
   selected |-> <<1, 4>>, defined |-> {"s1"}, readable |-> {"s1", "s2", "s3"}, withTemplates |-> TRUE,
   structures |-> <<{"s1", "s2"}, {"s3"}, {}>>,
   templates |-> <<{[id |-> "t1", structure |-> "s1", headless |-> TRUE], [id |-> "t2", structure |-> "s2", headless |-> TRUE],
                    [id |-> "t5", structure |-> "s1", headless |-> FALSE]},
                   {[id |-> "t3", structure |-> "s3", headless |-> FALSE], [id |-> "t4", structure |-> "", headless |-> FALSE]}, {}>>]
SomeReports ==
  {ReportOn(o) : o \in {"sites", "folders", "structures"}}
  \cup {[ReportOn("sites") EXCEPT !.order = "name", !.limit = 1, !.refused = {2}, !.excluded = {1}],
        [ReportOn("structures") EXCEPT !.refused = {<<1, "templates">>, <<2, "definitions">>, <<3, "templates">>}],
        [ReportOn("structures") EXCEPT !.withTemplates = FALSE]}

NoSiteReport == report = ReportOn("sites") /\ ReportStart("off", ReportFaults, ReportEdits)
NoHunt == /\ hunt = Hunt([Ask0("widget", "none") EXCEPT !.plan = TRUE], {}, {})
          /\ HuntStart("off", HuntFaults, HuntEdits, HuntRuns)
NoLookup == look = LookAt(<<Ask("list", TRUE, "news")>>) /\ LookupStart("off", LookupFaults, LookupEdits, LookupClock)

discoveryVars == <<lookupVars, huntVars, reportVars>>
NoDiscovery == NoLookup /\ NoHunt /\ NoSiteReport
DiscoveryInit == \/ LookupInit /\ NoHunt /\ NoSiteReport
                 \/ NoLookup /\ HuntInit /\ NoSiteReport
                 \/ NoLookup /\ NoHunt /\ ReportInit
DiscoveryNext == \/ LookupNext /\ UNCHANGED <<huntVars, reportVars>>
                 \/ HuntNext /\ UNCHANGED <<lookupVars, reportVars>>
                 \/ ReportNext /\ UNCHANGED <<lookupVars, huntVars>>

\* What commands read of a portal is what the portal has, and the files of a migration are what they were made of.
DiscoveryIsFaithful == LookupsAreFaithful /\ UsesAreFound /\ ReportsAreFaithful /\ MigrationFilesAreTrue

\* Everything together.
Vars == <<resourceVars, siteCommandVars, workspaceVars, discoveryVars>>
Init == \/ ResourceInit /\ NoSiteCommand /\ NoWorkspace /\ NoDiscovery
        \/ NoResource /\ SiteCommandInit /\ NoWorkspace /\ NoDiscovery
        \/ NoResource /\ NoSiteCommand /\ WorkspaceInit /\ NoDiscovery
        \/ NoResource /\ NoSiteCommand /\ NoWorkspace /\ DiscoveryInit
Next == \/ ResourceNext /\ UNCHANGED <<siteCommandVars, workspaceVars, discoveryVars>>
        \/ SiteCommandNext /\ UNCHANGED <<resourceVars, workspaceVars, discoveryVars>>
        \/ WorkspaceNext /\ UNCHANGED <<resourceVars, siteCommandVars, discoveryVars>>
        \/ DiscoveryNext /\ UNCHANGED <<resourceVars, siteCommandVars, workspaceVars>>
Spec == Init /\ [][Next]_Vars
=============================================================================
