----------------------------- MODULE SiteLookup -----------------------------
(***************************************************************************)
(* How a command finds the sites of a portal: one by its id, its friendly  *)
(* URL or a part of its name, over five endpoints; all of them; and the    *)
(* chain of a site and its parents.  Lists come in pages.  A site, once    *)
(* found, is remembered by the process for a while.                        *)
(***************************************************************************)
EXTENDS Integers, Sequences, SequencesExt, FiniteSets, TLC

CONSTANTS LookupCases, LookupPage, SiteTtl,
          LookupClock, LookupEdits, LookupFaults    \* bounds: time, changes to sites, requests that fail

ASSUME LookupAssumption ==
  /\ {SiteTtl, LookupClock, LookupEdits, LookupFaults} \subseteq Nat /\ LookupPage \in Nat \ {0}
  /\ \A c \in LookupCases :
       /\ DOMAIN c = {"sites", "own", "companies", "refused", "tasks", "numeric", "within", "urls"}
       /\ c.tasks \in Seq([op : {"resolve", "company", "chain", "list", "sites"}, site : [slash : BOOLEAN, text : STRING]])
       /\ IsFiniteSet(DOMAIN c.sites) /\ c.companies \in Seq(Nat \ {0}) /\ c.own \in ToSet(c.companies)
       /\ \A g \in DOMAIN c.sites :
            /\ g \in Nat \ {0} /\ DOMAIN c.sites[g] = {"url", "name", "parent", "company", "site", "admin"}
            /\ c.sites[g].company \in ToSet(c.companies)
            \* A company has one site of each URL; its global site, which nobody renames, is below none.
            /\ \A h \in DOMAIN c.sites : c.sites[g].company = c.sites[h].company /\ c.sites[g].url = c.sites[h].url => g = h
            /\ c.sites[g].url = "global" => c.sites[g].parent = 0
       /\ "global" \notin c.urls /\ \E g \in DOMAIN c.sites : c.sites[g].url = "global" /\ c.sites[g].company = c.own

VARIABLES look,         \* the case
          sites,        \* the portal's groups by id
          known,        \* resolvedSiteCache: what was asked for -> [id, url, at]
          clock,
          lookPc,
          task,         \* index of the command of the process
          spot,         \* [company, total, start]: where a list is
          gathered,     \* rows of a list so far
          chain,        \* sites of a chain so far
          result,       \* id the lookup answers with, 0 for not found
          asOf,         \* when the last lookup was answered
          was,          \* <<id, url>> -> when the site last had that URL
          empty,        \* sawEmptyHeadlessResponse
          quiet,        \* nothing changed or failed during this command
          lookEdits, lookFaults

lookupPortal == <<sites, was>>
lookupVars == <<look, sites, known, clock, lookPc, task, spot, gathered, chain, result, asOf,
                empty, was, quiet, lookEdits, lookFaults>>

-----------------------------------------------------------------------------
(* The portal's side: what each list shows, in the order of ids.            *)
InOrder(ids) == [k \in 1 .. Cardinality(ids) |-> CHOOSE x \in ids : Cardinality({y \in ids : y <= x}) = k]
RowsAt(rows, is) == LET kept == InOrder(is) IN [k \in DOMAIN kept |-> rows[kept[k]]]
AdminSites == InOrder({g \in DOMAIN sites : sites[g].admin /\ sites[g].company = look.own})
CompanyGroups(c) == InOrder({g \in DOMAIN sites : sites[g].company = c})
ByUrl(u, gs) == {g \in gs : sites[g].company = look.own /\ sites[g].url = u}
SiteRows(s, from) == SubSeq(s, from + 1, IF from + LookupPage < Len(s) THEN from + LookupPage ELSE Len(s))
LastPage(s) == spot.start + LookupPage >= Len(s)

ListedSites(ids) == [i \in DOMAIN ids |-> [id |-> ids[i], url |-> sites[ids[i]].url]]
UrlsOf(rows) == {rows[i].url : i \in DOMAIN rows}
LastOfUrl(rows) == RowsAt(rows, {i \in DOMAIN rows : rows[i].url \notin UrlsOf(SubSeq(rows, i + 1, Len(rows)))})

(* What is asked for: a text with or without a slash before it.             *)
GlobalSite == [slash |-> TRUE, text |-> "global"]
Op == look.tasks[task].op
Wanted == IF Op = "sites" \/ chain # <<>> THEN GlobalSite ELSE look.tasks[task].site

(* A search takes the first row with the URL, or, without a slash, with the *)
(* text in its URL or its name.                                             *)
Hits(g) == \/ sites[g].url = Wanted.text
           \/ ~Wanted.slash /\ {<<Wanted.text, sites[g].url>>, <<Wanted.text, sites[g].name>>} \cap look.within # {}

Noting(f, xs, y) == [x \in xs \cup DOMAIN f |-> IF x \in xs THEN y ELSE f[x]]
Remembered(c) == clock - known[c].at <= SiteTtl
Admits(s) == s \notin look.refused     \* neither 403 nor 404 from this endpoint

-----------------------------------------------------------------------------
\* How a lookup ends, for each command that makes one.

Goes(pc) == lookPc' = pc /\ spot' = [company |-> 1, total |-> 0, start |-> 0]
AnswerWith(g, url) ==
  /\ result' = g /\ asOf' = clock
  /\ CASE Op = "resolve" -> Goes("done") /\ UNCHANGED <<gathered, chain>>
       [] Op = "sites" -> Goes("done") /\ gathered' = Append(gathered, [id |-> g, url |-> url]) /\ UNCHANGED chain
       [] Op = "chain" /\ chain # <<>> ->
            Goes("done") /\ chain' = (IF g \in ToSet(chain) THEN chain ELSE Append(chain, g)) /\ UNCHANGED gathered
       [] OTHER -> Goes(IF Op = "chain" THEN "parents" ELSE "company") /\ chain' = <<g>> /\ UNCHANGED gathered
FoundSite(g) ==
  /\ known' = Noting(known, {Wanted}, [id |-> g, url |-> sites[g].url, at |-> clock])
  /\ AnswerWith(g, sites[g].url)
FoundFirst(rows, hits) == \E i \in hits : (\A j \in hits : i <= j) /\ FoundSite(rows[i])
(* Nothing is found: a chain does without the global site, the others end.  *)
NotFound ==
  /\ Goes(IF Op = "chain" /\ chain # <<>> THEN "done" ELSE "notFound")
  /\ result' = 0 /\ UNCHANGED <<known, gathered, chain, asOf>>
NothingNew == UNCHANGED <<known, gathered, chain, result, asOf>>
NextStep(pc) == Goes(pc) /\ NothingNew
Continue(place) == spot' = place /\ UNCHANGED lookPc /\ NothingNew
Elsewhere == UNCHANGED <<look, lookupPortal, clock, task, empty, quiet, lookEdits, lookFaults>>

-----------------------------------------------------------------------------
(* Each endpoint is asked in turn, and answers or misses.                   *)
FromCache ==
  /\ lookPc = "cache" /\ Elsewhere
  /\ IF Wanted \in DOMAIN known /\ Remembered(Wanted)
     THEN AnswerWith(known[Wanted].id, known[Wanted].url) /\ UNCHANGED known
     ELSE NextStep("id")
ById ==
  /\ lookPc = "id" /\ Elsewhere
  /\ LET g == IF ~Wanted.slash /\ Wanted.text \in DOMAIN look.numeric THEN look.numeric[Wanted.text] ELSE 0
     IN  IF g \in DOMAIN sites /\ sites[g].admin /\ Admits("by-id") THEN FoundSite(g) ELSE NextStep("adminUrl")
ByFriendlyUrl(pc, endpoint, next, shown) ==
  /\ lookPc = pc /\ Elsewhere
  /\ LET gs == ByUrl(Wanted.text, shown)
     IN  IF gs # {} /\ Admits(endpoint) THEN \E g \in gs : FoundSite(g) ELSE NextStep(next)
ByAdminUrl == ByFriendlyUrl("adminUrl", "admin-url", "userUrl", {g \in DOMAIN sites : sites[g].admin})
ByUserUrl == ByFriendlyUrl("userUrl", "user-url", "search", DOMAIN sites)

SearchPage ==
  /\ lookPc = "search" /\ Elsewhere
  /\ LET rows == SiteRows(AdminSites, spot.start)
         hits == {i \in DOMAIN rows : Hits(rows[i])}
     IN  IF ~Admits("admin-list") THEN NextStep("companies")
         ELSE IF hits # {} THEN FoundFirst(rows, hits)
         ELSE IF ~LastPage(AdminSites) THEN Continue([spot EXCEPT !.start = @ + LookupPage])
         ELSE NextStep("companies")

(* The sites of every company, a page of groups at a time: a lookup stops   *)
(* at the first that hits, a list takes them all.                           *)
Listing == Op \in {"list", "sites"}
Companies ==
  /\ lookPc = "companies" /\ Elsewhere /\ NextStep(IF Admits("companies") THEN "count" ELSE "noMore")
CountGroups ==
  /\ lookPc = "count" /\ Elsewhere /\ NothingNew
  /\ LET n == Len(CompanyGroups(look.companies[spot.company]))
     IN  /\ spot' = [spot EXCEPT !.total = n, !.start = 0]
         /\ lookPc' = IF Admits("count") /\ n > 0 THEN "groups" ELSE "nextCompany"
GroupsPage ==
  /\ lookPc = "groups" /\ Elsewhere
  /\ LET rows == SiteRows(CompanyGroups(look.companies[spot.company]), spot.start)
         shown == {i \in DOMAIN rows : sites[rows[i]].site /\ Admits("groups")}
         hits == {i \in shown : Hits(rows[i])}
     IN  IF ~Listing /\ hits # {} THEN FoundFirst(rows, hits)
         ELSE /\ spot' = [spot EXCEPT !.start = @ + LookupPage]
              /\ lookPc' = IF spot.start + LookupPage < spot.total THEN "groups" ELSE "nextCompany"
              /\ gathered' = IF Listing THEN gathered \o ListedSites(RowsAt(rows, shown)) ELSE gathered
              /\ UNCHANGED <<known, chain, result, asOf>>
NextCompany ==
  /\ lookPc = "nextCompany" /\ Elsewhere /\ NothingNew
  /\ IF spot.company < Len(look.companies)
     THEN lookPc' = "count" /\ spot' = [spot EXCEPT !.company = @ + 1]
     ELSE Goes("noMore")

(* A list that is complete: with the global site, one of each URL is left.  *)
ListEnds(rows) ==
  /\ gathered' = IF Op = "sites" THEN LastOfUrl(rows) ELSE rows
  /\ Goes(IF Op = "sites" /\ "global" \notin UrlsOf(rows) THEN "cache" ELSE "done")
NoMoreGroups ==
  /\ lookPc = "noMore" /\ Elsewhere
  /\ CASE ~Listing -> NotFound
       [] Listing /\ gathered = <<>> /\ ~empty -> NextStep("error")
       [] OTHER -> ListEnds(gathered) /\ UNCHANGED <<known, chain, result, asOf>>

(* A list asks the headless endpoint first, page by page.                   *)
ListPage ==
  /\ lookPc = "list"
  /\ UNCHANGED <<look, lookupPortal, clock, task, quiet, lookEdits, lookFaults, known, chain, result, asOf>>
  /\ LET all == gathered \o ListedSites(SiteRows(AdminSites, spot.start))
         last == LastPage(AdminSites)
     IN  \/ ~Admits("admin-list") /\ Goes("companies") /\ UNCHANGED <<gathered, empty>>
         \/ Admits("admin-list") /\ last /\ all = <<>> /\ Goes("companies") /\ empty' = TRUE /\ UNCHANGED gathered
         \/ Admits("admin-list") /\ last /\ all # <<>> /\ ListEnds(all) /\ UNCHANGED empty
         \/ /\ Admits("admin-list") /\ ~last /\ spot' = [spot EXCEPT !.start = @ + LookupPage] /\ gathered' = all
            /\ UNCHANGED <<lookPc, empty>>

(* buildSiteChain: from a site to its parents, then the global site.        *)
Parent(g) == IF Admits("group") /\ g \in DOMAIN sites THEN sites[g].parent ELSE 0
ClimbChain ==
  /\ lookPc = "parents" /\ Elsewhere
  /\ LET p == Parent(Last(chain))
     IN  IF p \in ToSet(chain) \cup {0} \/ p \notin DOMAIN sites THEN NextStep("cache")
         ELSE chain' = Append(chain, p) /\ UNCHANGED <<lookPc, spot, known, gathered, result, asOf>>

(* enrichWithCompanyId: the company of the site, or the portal's first.     *)
CompanyOfSite ==
  /\ lookPc = "company" /\ Elsewhere
  /\ LET g == Last(chain)
         company == IF Admits("group") /\ g \in DOMAIN sites THEN sites[g].company
                    ELSE IF Admits("companies") THEN Head(look.companies) ELSE 0
     IN  Goes(IF company = 0 THEN "error" ELSE "done") /\ result' = company /\ UNCHANGED <<known, gathered, chain, asOf>>

-----------------------------------------------------------------------------
(* A request fails for another reason: a lookup ends, a list over groups    *)
(* goes on without what it asked for; a chain whose parent is not told stops *)
(* climbing and a company not told is the first of the portal, but a broken  *)
(* connection ends these two also.                                          *)
LookupFails ==
  /\ lookFaults < LookupFaults /\ lookFaults' = lookFaults + 1 /\ quiet' = FALSE
  /\ UNCHANGED <<look, lookupPortal, clock, task, empty, lookEdits, known, chain, asOf>>
  /\ \/ lookPc = "id" /\ ~Wanted.slash /\ Wanted.text \in DOMAIN look.numeric /\ Goes("error") /\ UNCHANGED gathered
     \/ lookPc \in {"adminUrl", "userUrl", "search", "parents", "company"} /\ Goes("error") /\ UNCHANGED gathered
     \/ lookPc \in {"companies", "count", "groups"} /\ ~Listing /\ Goes("error") /\ UNCHANGED gathered
     \/ lookPc = "list" /\ Goes("companies") /\ gathered' = <<>>
     \/ lookPc = "companies" /\ Listing /\ Goes("noMore") /\ UNCHANGED gathered
     \/ lookPc = "count" /\ Listing /\ lookPc' = "nextCompany" /\ UNCHANGED <<spot, gathered>>
     \/ /\ lookPc = "groups" /\ Listing /\ spot' = [spot EXCEPT !.start = @ + LookupPage] /\ UNCHANGED gathered
        /\ lookPc' = IF spot.start + LookupPage < spot.total THEN "groups" ELSE "nextCompany"
     \/ lookPc = "parents" /\ Goes("cache") /\ UNCHANGED gathered
     \/ lookPc = "company" /\ Admits("companies") /\ Goes("done") /\ UNCHANGED gathered
  /\ result' = IF lookPc = "company" /\ lookPc' = "done" THEN Head(look.companies) ELSE result

RunTask ==
  /\ lookPc \in {"start", "done", "notFound", "error"} /\ task < Len(look.tasks)
  /\ task' = task + 1 /\ Goes(IF look.tasks[task + 1].op \in {"list", "sites"} THEN "list" ELSE "cache")
  /\ gathered' = <<>> /\ chain' = <<>> /\ result' = 0 /\ empty' = FALSE
  /\ quiet' = \A k \in DOMAIN known : known[k].id \in DOMAIN sites /\ sites[known[k].id].url = known[k].url
  /\ UNCHANGED <<look, lookupPortal, known, clock, asOf, lookEdits, lookFaults>>

(* Someone renames a site, or deletes one; the portal keeps the global one. *)
EditSites ==
  /\ lookEdits < LookupEdits /\ lookEdits' = lookEdits + 1 /\ quiet' = FALSE
  /\ \E g \in {g \in DOMAIN sites : sites[g].url # "global"} :
       \/ \E u \in look.urls :
            /\ \A h \in DOMAIN sites : sites[h].company = sites[g].company => sites[h].url # u
            /\ sites' = [sites EXCEPT ![g].url = u] /\ was' = Noting(was, {<<g, u>>}, clock)
       \/ look.urls # {} /\ sites' = [h \in DOMAIN sites \ {g} |-> sites[h]] /\ UNCHANGED was
  /\ UNCHANGED <<look, known, clock, lookPc, task, spot, gathered, chain, result, asOf, empty,
                 lookFaults>>
PassTime ==
  /\ clock < LookupClock /\ look.urls # {} /\ clock' = clock + 1     \* time matters where sites change
  /\ was' = Noting(was, {<<g, sites[g].url>> : g \in DOMAIN sites}, clock + 1)
  /\ UNCHANGED <<look, sites, known, lookPc, task, spot, gathered, chain, result, asOf, empty,
                 quiet, lookEdits, lookFaults>>

LookupStart(pc, faults, edits, time) ==
  /\ sites = look.sites /\ known = <<>> /\ clock = time /\ lookPc = pc
  /\ task = IF pc = "off" THEN Len(look.tasks) ELSE 0
  /\ spot = [company |-> 1, total |-> 0, start |-> 0]
  /\ gathered = <<>> /\ chain = <<>> /\ result = 0 /\ asOf = 0 /\ empty = FALSE /\ quiet = TRUE
  /\ was = [p \in {<<g, look.sites[g].url>> : g \in DOMAIN look.sites} |-> 0]
  /\ lookEdits = edits /\ lookFaults = faults
LookupInit == look \in LookupCases /\ LookupStart("start", 0, 0, 0)
LookupStep == \/ RunTask \/ FromCache \/ ById \/ ByAdminUrl \/ ByUserUrl \/ SearchPage \/ Companies \/ CountGroups
              \/ GroupsPage \/ NextCompany \/ NoMoreGroups \/ ListPage \/ ClimbChain \/ CompanyOfSite
LookupNext == LookupStep \/ LookupFails \/ EditSites \/ PassTime
LookupSpec == LookupInit /\ [][LookupNext]_lookupVars

-----------------------------------------------------------------------------
(* A site asked for by its URL is one that had this URL at some time within *)
(* the life of the cache, whoever renamed or deleted sites meanwhile.       *)
ExactIsOwn ==
  lookPc = "done" /\ Op = "resolve" /\ Wanted.slash =>
    <<result, Wanted.text>> \in DOMAIN was /\ asOf - was[<<result, Wanted.text>>] <= SiteTtl

(* A site that is there and was not found is one no endpoint shows: each    *)
(* that would have shown it refused the request.                            *)
NotFoundMeansRefused ==
  lookPc = "notFound" /\ quiet /\ Op = "resolve" =>
    \A g \in ByUrl(Wanted.text, DOMAIN sites) :
      /\ "user-url" \in look.refused
      /\ sites[g].site => {"companies", "count", "groups"} \cap look.refused # {}
      /\ sites[g].admin => {"admin-url", "admin-list"} \subseteq look.refused

(* A chain has no site twice and ends, even among parents that form a cycle; *)
(* each site is followed by its parent, and the last is the global one if it *)
(* can be found.                                                             *)
ChainIsPath ==
  /\ IsInjective(chain)
  /\ lookPc = "done" /\ Op = "chain" /\ quiet /\ look.refused = {} =>
       LET global == ByUrl("global", DOMAIN sites)
       IN  /\ global \subseteq ToSet(chain)
           /\ \A i \in DOMAIN chain : i > 1 /\ chain[i] \notin global => chain[i] = sites[chain[i - 1]].parent
           /\ {sites[g].parent : g \in ToSet(chain)} \cap DOMAIN sites \subseteq ToSet(chain)

(* A list that nobody disturbed has every site once, also when it had to be *)
(* made from the groups.                                                    *)
SitesListed ==
  lookPc = "done" /\ Listing /\ quiet
  /\ (look.refused = {} \/ (look.refused = {"admin-list"} /\ Len(look.companies) = 1)) =>
    LET ids == [i \in DOMAIN gathered |-> gathered[i].id]
    IN  /\ IsInjective(ids)
        /\ {g \in ToSet(AdminSites) : sites[g].site} \subseteq ToSet(ids)
        /\ Op = "sites" => ByUrl("global", DOMAIN sites) \subseteq ToSet(ids)

(* The company of a site is its own, unless the portal hides the site's     *)
(* group and has several companies.                                         *)
CompanyIsOwn ==
  lookPc = "done" /\ Op = "company" /\ quiet /\ ("group" \notin look.refused \/ Len(look.companies) = 1) =>
    result = sites[chain[1]].company

(* What a lookup finds is what was asked for, and all of it.                *)
LookupsAreFaithful == ExactIsOwn /\ NotFoundMeansRefused /\ ChainIsPath /\ SitesListed /\ CompanyIsOwn
=============================================================================
