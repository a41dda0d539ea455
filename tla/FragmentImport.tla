--------------------------- MODULE FragmentImport ---------------------------
(***************************************************************************)
(* `ldev resource export-fragments` and `import-fragments`: one collection *)
(* after the other, and in each one fragment after the other, through the  *)
(* import engine and JSONWS; or all of a site in one zip that the portal's *)
(* autodeploy installs some time later.  With transport "auto" the zip is  *)
(* used when JSONWS could not take a single fragment.                      *)
(*                                                                         *)
(* A case is one command line over one state of disk and portal.  The four *)
(* files of a fragment are one opaque body; frag.stored[b] is what the     *)
(* portal makes of b, and frag.token[n] the file name made of a name.      *)
(* Sites, collections and fragments are sets: the order in which the code  *)
(* takes them, that of their names, is left open.                          *)
(***************************************************************************)
EXTENDS Integers, FiniteSets, Sequences, SequencesExt

CONSTANTS FragmentCases, FragmentFaults,  \* bound: requests refused or answers lost
          FragmentRuns,                   \* bound: times the command is given
          FragmentPolls                   \* polls before the deadline of 90 s

(* A directory has one fragment.json, and its collection one collection.json; *)
(* a key is the only one in its site, or in its collection.  The portal makes *)
(* keys up, all called "auto", that no directory has.                         *)
LocalFiles(fs) ==
  /\ fs \subseteq [collection : STRING, title : STRING, slug : STRING, name : STRING, body : STRING]
  /\ \A f, g \in fs : f.collection = g.collection => f.title = g.title /\ (f.slug = g.slug => f = g)
OnPortal(cs, es) ==
  /\ cs \in Seq([group : STRING, key : STRING, name : STRING])
  /\ es \in Seq([collection : DOMAIN cs, key : STRING, name : STRING, body : STRING])
  /\ \A i, j \in DOMAIN cs : cs[i].group = cs[j].group /\ cs[i].key = cs[j].key => i = j
  /\ \A i, j \in DOMAIN es : es[i].collection = es[j].collection /\ es[i].key = es[j].key => i = j
FragmentCaseOK(c) ==
  /\ OnPortal(c.collections, c.entries)
  /\ \A i \in DOMAIN c.collections : c.collections[i].key # "auto"
  /\ DOMAIN c.local \subseteq STRING /\ c.opt.site \in STRING
  /\ \A s \in DOMAIN c.local : LocalFiles(c.local[s]) /\ \A f \in c.local[s] : f.collection # "auto"
  /\ {e.body : e \in Range(c.entries)} \cup UNION {{f.body : f \in c.local[s]} : s \in DOMAIN c.local}
       \subseteq DOMAIN c.stored
  /\ \A b \in DOMAIN c.stored : c.stored[b] \in STRING
  /\ c.opt.transport \in {"auto", "jsonws", "deploy-zip"}

ASSUME FragmentAssumption ==
  /\ \A c \in FragmentCases : FragmentCaseOK(c)
  /\ {FragmentFaults, FragmentRuns, FragmentPolls} \subseteq Nat

VARIABLES frag,                   \* the case
          collections, entries,   \* of the portal; an id is an index
          projects,               \* site -> fragments in its local directory
          fragPc, sitesLeft, fragSite,        \* sites still to do, the one being done
          fragmentsLeft, collectionAt,        \* its fragments still to do, the collection being done
          cache,                  \* ids by token: of the collections at 0, of the fragments
                                  \* of a collection at its id
          collectionId,           \* what the collection was found or created as
          results,                \* of the site being done: [fragment, error]
          reported,               \* results of the sites done
          zips,                   \* [site, fragment] the autodeploy has not installed yet
          polls, fragmentRuns, fragmentFaults

fragmentVars == <<frag, collections, entries, projects, fragPc, sitesLeft, fragSite, fragmentsLeft, collectionAt,
                  cache, collectionId, results, reported, zips, polls, fragmentRuns, fragmentFaults>>
FragmentPortal == <<collections, entries>>
FragmentOpt == frag.opt

-----------------------------------------------------------------------------
(* readLocalFragmentsProject: with --fragment all fragments but those it    *)
(* names are left out, and a collection that has none with them.            *)
HasProject(s) == s \in DOMAIN projects
ProjectOf(s) == IF HasProject(s) THEN {f \in projects[s] : FragmentOpt.filter \in {"", f.slug, f.name}} ELSE {}
Project == ProjectOf(fragSite)
TargetSites == IF FragmentOpt.all THEN {s \in frag.sites : HasProject(s)} ELSE {FragmentOpt.site}
PutAt(f, ks, v) == [k \in ks \cup DOMAIN f |-> IF k \in ks THEN v ELSE f[k]]

(* The runtime cache: each row is entered under its key and under the token *)
(* of its name, later rows over earlier ones.                               *)
Tokens(row) == {row.key, frag.token[row.name]}
IdsOf(rows, own) ==
  [t \in UNION {Tokens(rows[i]) : i \in own} |-> Max({i \in own : t \in Tokens(rows[i])})]
Cached(ids, id, row) == PutAt(ids, Tokens(row), id)
Known(ids, slug) == IF slug \in DOMAIN ids THEN ids[slug] ELSE 0
NoneRead == [k \in {} |-> 0]

FragmentStart(pc) ==
  /\ frag \in FragmentCases
  /\ collections = frag.collections /\ entries = frag.entries /\ projects = frag.local
  /\ fragPc = pc /\ sitesLeft = {} /\ fragSite = FragmentOpt.site
  /\ fragmentsLeft = {} /\ collectionAt = ""
  /\ cache = NoneRead /\ collectionId = 0
  /\ results = {} /\ reported = {} /\ zips = {} /\ polls = 0
  /\ fragmentRuns = 0 /\ fragmentFaults = 0
FragmentInit == FragmentStart("start")

FragmentFault == fragmentFaults < FragmentFaults /\ fragmentFaults' = fragmentFaults + 1
\* A portal without the API refuses every request; another one may.
RequestRefused == IF frag.jsonws THEN FragmentFault ELSE UNCHANGED fragmentFaults

-----------------------------------------------------------------------------
(* Export of one site.  The local project is replaced by what is exported,  *)
(* unless that is nothing.                                                  *)
ExportedFragments ==
  {[collection |-> collections[e.collection].key, title |-> collections[e.collection].name,
    slug |-> e.key, name |-> e.name, body |-> e.body] :
      e \in {x \in Range(entries) : /\ collections[x.collection].group = FragmentOpt.site
                                    /\ FragmentOpt.only \in {"", x.key, x.name}}}
ExportFragments ==
  /\ fragPc = "start" /\ FragmentOpt.export
  /\ \E new \in SUBSET ExportedFragments :
       /\ projects' = IF new = {} THEN projects ELSE PutAt(projects, {FragmentOpt.site}, new)
       /\ \/ new = ExportedFragments /\ fragPc' = "ready" /\ UNCHANGED fragmentFaults
          \/ /\ FragmentFault /\ fragPc' = "error"    \* a list is refused, before or after some collections
             /\ \A f \in new, g \in ExportedFragments : f.collection = g.collection => g \in new
  /\ UNCHANGED <<frag, FragmentPortal, sitesLeft, fragSite, fragmentsLeft, collectionAt, cache, collectionId,
                 results, reported, zips, polls, fragmentRuns>>

StartFragments ==
  /\ \/ fragPc = "ready"
     \/ fragPc = "start" /\ ~FragmentOpt.export
  /\ fragmentRuns' = fragmentRuns + 1 /\ reported' = {}
  /\ IF FragmentOpt.all /\ FragmentOpt.filter # ""
       THEN fragPc' = "error" /\ UNCHANGED sitesLeft
       ELSE /\ fragPc' = "site"
            /\ sitesLeft' = TargetSites
  /\ UNCHANGED <<frag, FragmentPortal, projects, fragSite, fragmentsLeft, collectionAt, cache, collectionId,
                 results, zips, polls, fragmentFaults>>

EnterSite ==
  /\ fragPc = "site"
  /\ \E s \in sitesLeft : fragSite' = s /\ sitesLeft' = sitesLeft \ {s} /\ fragmentsLeft' = ProjectOf(s)
  /\ fragPc' = CASE fragmentsLeft' = {} -> "error"
                 [] FragmentOpt.transport = "deploy-zip" -> "zip"
                 [] OTHER -> "collection"
  /\ results' = {} /\ cache' = NoneRead
  /\ UNCHANGED <<frag, FragmentPortal, projects, collectionAt, collectionId, reported, zips, polls,
                 fragmentRuns, fragmentFaults>>

SitesDone ==
  /\ fragPc = "site" /\ sitesLeft = {}
  /\ fragPc' = IF \E r \in reported : r.error # "" THEN "failed" ELSE "ok"
  /\ UNCHANGED <<frag, FragmentPortal, projects, sitesLeft, fragSite, fragmentsLeft, collectionAt, cache,
                 collectionId, results, reported, zips, polls, fragmentRuns, fragmentFaults>>

-----------------------------------------------------------------------------
(* Where the import goes when it is done with some fragments of the         *)
(* collection.                                                              *)
Advance(left, c) ==
  /\ fragmentsLeft' = left
  /\ fragPc' = IF left = {} THEN "jsonws"
               ELSE IF \E f \in left : f.collection = c THEN "fragment" ELSE "collection"
Finished(done, c, error) ==
  /\ Advance(fragmentsLeft \ done, c)
  /\ results' = results \cup {[fragment |-> f, error |-> error] : f \in done}

(* A collection is found in the cache, which is filled on first use, and    *)
(* renamed, or created; a refused rename is ignored.                        *)
CollectionIds ==
  IF 0 \in DOMAIN cache THEN cache[0]
  ELSE IdsOf(collections, {i \in DOMAIN collections : collections[i].group = fragSite})
LocalRow(f) == [group |-> fragSite, key |-> f.collection, name |-> f.title]
Renamed(f, id) == [collections EXCEPT ![id].name = f.title]
RenameCollection(f, id) ==
  /\ collectionId' = id
  /\ \/ /\ frag.jsonws /\ UNCHANGED fragmentFaults
        /\ collections' = Renamed(f, id)
        /\ cache' = PutAt(cache, {0}, Cached(CollectionIds, id, LocalRow(f)))
     \/ /\ RequestRefused
        /\ collections' \in {collections} \cup IF frag.jsonws THEN {Renamed(f, id)} ELSE {}
        /\ cache' = PutAt(cache, {0}, CollectionIds)

(* It is created under its key; when the portal refuses that (it has the    *)
(* key, by the zip or by the request itself, whose answer it lost), then    *)
(* without one, and the portal makes up another.                            *)
KeyTaken(f) == \E c \in Range(collections) : c.group = fragSite /\ c.key = f.collection
WithKey(f) == Append(collections, LocalRow(f))
WithoutKey(cs, f) == Append(cs, [LocalRow(f) EXCEPT !.key = "auto"])
SecondTries(f) == {WithoutKey(cs, f) : cs \in {collections} \cup IF KeyTaken(f) THEN {} ELSE {WithKey(f)}}
CreateCollection(f) ==
  /\ frag.jsonws
  /\ \/ ~KeyTaken(f) /\ collections' = WithKey(f) /\ UNCHANGED fragmentFaults
     \/ /\ IF KeyTaken(f) THEN UNCHANGED fragmentFaults ELSE FragmentFault
        /\ collections' \in SecondTries(f)
  /\ collectionId' = Len(collections')
  /\ cache' = PutAt(cache, {0}, Cached(CollectionIds, Len(collections'), LocalRow(f)))
SyncCollection ==
  /\ fragPc = "collection"
  /\ \E f \in fragmentsLeft :
       LET id == Known(CollectionIds, f.collection)
       IN  /\ IF id = 0 THEN CreateCollection(f) ELSE RenameCollection(f, id)
           /\ collectionAt' = f.collection
  /\ fragPc' = "fragment"
  /\ UNCHANGED <<frag, entries, projects, sitesLeft, fragSite, fragmentsLeft, results, reported, zips, polls,
                 fragmentRuns>>

(* The list or the creation fails: every fragment of the collection counts  *)
(* as failed.  The message of a POST names its URL, that of a list only if  *)
(* its connection broke.                                                    *)
CollectionRefused(f, error) ==
  \/ /\ 0 \notin DOMAIN cache /\ FragmentFault
     /\ UNCHANGED <<collections, cache>>
  \/ /\ error = "url" /\ Known(CollectionIds, f.collection) = 0 /\ RequestRefused
     /\ collections' \in {collections} \cup
          IF frag.jsonws THEN SecondTries(f) \cup IF KeyTaken(f) THEN {} ELSE {WithKey(f)} ELSE {}
     /\ cache' = PutAt(cache, {0}, CollectionIds)
CollectionFails ==
  /\ fragPc = "collection"
  /\ \E f \in fragmentsLeft, error \in {"list", "url"} :
       /\ CollectionRefused(f, error)
       /\ collectionAt' = f.collection
       /\ Finished({g \in fragmentsLeft : g.collection = f.collection}, f.collection, error)
  /\ UNCHANGED <<frag, entries, projects, sitesLeft, fragSite, collectionId, reported, zips, polls, fragmentRuns>>

(* The same for a fragment, which is never created without its key: one     *)
(* that the collection has already is refused, and one that another         *)
(* collection of the site has may be.  It is compared with the answer of    *)
(* the request, which the cache now holds.                                  *)
EntryIds == IF collectionId \in DOMAIN cache THEN cache[collectionId]
            ELSE IdsOf(entries, {i \in DOMAIN entries : entries[i].collection = collectionId})
EntryTaken(f) == \E e \in Range(entries) : e.collection = collectionId /\ e.key = f.slug
TakenInSite(f) == \E e \in Range(entries) : collections[e.collection].group = fragSite /\ e.key = f.slug
FragmentRow(f) == [collection |-> collectionId, key |-> f.slug, name |-> f.name, body |-> frag.stored[f.body]]
Overwritten(i, f) == [entries EXCEPT ![i].name = f.name, ![i].body = frag.stored[f.body]]
WrittenEntries(id, f) == IF id = 0 THEN Append(entries, FragmentRow(f)) ELSE Overwritten(id, f)
SyncFragment ==
  /\ fragPc = "fragment" /\ frag.jsonws
  /\ \E f \in fragmentsLeft :
       LET id == Known(EntryIds, f.slug)
       IN  /\ f.collection = collectionAt /\ (id = 0 => ~EntryTaken(f))
           /\ entries' = WrittenEntries(id, f)
           /\ cache' = PutAt(cache, {collectionId},
                           Cached(EntryIds, IF id = 0 THEN Len(entries) + 1 ELSE id, FragmentRow(f)))
           /\ Finished({f}, f.collection, IF frag.stored[f.body] = f.body THEN "" ELSE "mismatch")
  /\ UNCHANGED <<frag, collections, projects, sitesLeft, fragSite, collectionAt, collectionId, reported, zips, polls,
                 fragmentRuns, fragmentFaults>>

FragmentRefused(f, error) ==
  \/ /\ collectionId \notin DOMAIN cache /\ FragmentFault
     /\ UNCHANGED <<entries, cache>>
  \/ /\ error = "url" /\ cache' = PutAt(cache, {collectionId}, EntryIds)
     /\ LET id == Known(EntryIds, f.slug)
        IN  \/ id = 0 /\ TakenInSite(f) /\ UNCHANGED <<entries, fragmentFaults>>
            \/ /\ RequestRefused
               /\ entries' \in {entries} \cup
                    IF frag.jsonws /\ (id = 0 => ~EntryTaken(f)) THEN {WrittenEntries(id, f)} ELSE {}
FragmentFails ==
  /\ fragPc = "fragment"
  /\ \E f \in fragmentsLeft, error \in {"list", "url"} :
       f.collection = collectionAt /\ FragmentRefused(f, error) /\ Finished({f}, f.collection, error)
  /\ UNCHANGED <<frag, collections, projects, sitesLeft, fragSite, collectionAt, collectionId, reported, zips, polls,
                 fragmentRuns>>

-----------------------------------------------------------------------------
(* All fragments of the site were tried: the zip is next if "auto" found    *)
(* that none could be imported, each for an error that names the API.       *)
BugUnsupported == \E r \in results : r.error = "url"
Unsupported == results # {} /\ \A r \in results : r.error = "url"
Report(rs) == {[site |-> fragSite, by |-> fragPc, fragment |-> r.fragment, error |-> r.error] : r \in rs}
JsonwsDone ==
  /\ fragPc = "jsonws"
  /\ IF FragmentOpt.transport = "auto" /\ Unsupported
       THEN fragPc' = "zip" /\ UNCHANGED reported
       ELSE fragPc' = "site" /\ reported' = reported \cup Report(results)
  /\ UNCHANGED <<frag, FragmentPortal, projects, sitesLeft, fragSite, fragmentsLeft, collectionAt, cache,
                 collectionId, results, zips, polls, fragmentRuns, fragmentFaults>>

CopyZip ==
  /\ fragPc = "zip"
  /\ IF frag.docker THEN fragPc' = "poll" /\ zips' = zips \cup {[site |-> fragSite, fragment |-> f] : f \in Project}
                    ELSE fragPc' = "error" /\ UNCHANGED zips
  /\ polls' = 0
  /\ UNCHANGED <<frag, FragmentPortal, projects, sitesLeft, fragSite, fragmentsLeft, collectionAt, cache,
                 collectionId, results, reported, fragmentRuns, fragmentFaults>>

(* Until every fragment is seen by its name in a collection of the site;    *)
(* each of these is taken for the first local one of its name or its key.   *)
LocalOf(i) == {f.collection : f \in {g \in Project : \/ g.title = collections[i].name
                                                     \/ g.collection = collections[i].key}}
FirstLocals == {first \in [DOMAIN collections -> {f.collection : f \in Project} \cup {""}] :
                  \A i \in DOMAIN collections : IF LocalOf(i) = {} THEN first[i] = "" ELSE first[i] \in LocalOf(i)}
Present(first) == {f \in Project : \E e \in Range(entries) :
                     /\ collections[e.collection].group = fragSite
                     /\ first[e.collection] = f.collection /\ e.name = f.name}
PollZip ==
  /\ fragPc = "poll" /\ polls' = polls + 1
  /\ \E first \in FirstLocals :
       IF Project \subseteq Present(first) \/ polls + 1 = FragmentPolls
         THEN /\ fragPc' = "site"
              /\ reported' = reported \cup
                   Report({[fragment |-> f, error |-> IF f \in Present(first) THEN "" ELSE "missing"] : f \in Project})
         ELSE UNCHANGED <<fragPc, reported>>
  /\ UNCHANGED <<frag, FragmentPortal, projects, sitesLeft, fragSite, fragmentsLeft, collectionAt, cache,
                 collectionId, results, zips, fragmentRuns, fragmentFaults>>

ZipFails ==
  /\ fragPc \in {"zip", "poll"} /\ FragmentFault
  /\ fragPc' = "error"
  /\ UNCHANGED <<frag, FragmentPortal, projects, sitesLeft, fragSite, fragmentsLeft, collectionAt, cache,
                 collectionId, results, reported, zips, polls, fragmentRuns>>

(* The autodeploy installs the fragments of a zip, collections and          *)
(* fragments by their keys, or logs why it does not.                        *)
Installed(s, f) ==
  LET own == {i \in DOMAIN collections : collections[i].group = s /\ collections[i].key = f.collection}
      row(c) == [collection |-> c, key |-> f.slug, name |-> f.name, body |-> frag.stored[f.body]]
      same == {i \in DOMAIN entries : entries[i].collection \in own /\ entries[i].key = f.slug}
  IN  IF own = {} THEN /\ collections' = Append(collections, [group |-> s, key |-> f.collection, name |-> f.title])
                       /\ entries' = Append(entries, row(Len(collections) + 1))
      ELSE /\ UNCHANGED collections
           /\ IF same = {} THEN \E c \in own : entries' = Append(entries, row(c))
                            ELSE \E i \in same : entries' = Overwritten(i, f)
Autodeploy(z) ==
  /\ \/ zips' = {y \in zips : y.site # z.site} /\ UNCHANGED FragmentPortal
     \/ frag.installs /\ zips' = zips \ {z} /\ Installed(z.site, z.fragment)
  /\ UNCHANGED <<frag, projects, fragPc, sitesLeft, fragSite, fragmentsLeft, collectionAt, cache, collectionId,
                 results, reported, polls, fragmentRuns, fragmentFaults>>

FragmentsAgain ==
  /\ fragPc \in {"ok", "failed", "error"} /\ 1 <= fragmentRuns /\ fragmentRuns < FragmentRuns
  /\ fragPc' = "ready"
  /\ UNCHANGED <<frag, FragmentPortal, projects, sitesLeft, fragSite, fragmentsLeft, collectionAt, cache,
                 collectionId, results, reported, zips, polls, fragmentRuns, fragmentFaults>>

FragmentStep == \/ ExportFragments \/ StartFragments \/ EnterSite \/ SitesDone \/ SyncCollection
                \/ CollectionFails \/ SyncFragment \/ FragmentFails \/ JsonwsDone \/ CopyZip \/ PollZip
FragmentNext == FragmentStep \/ ZipFails \/ FragmentsAgain \/ \E z \in zips : Autodeploy(z)
FragmentSpec == FragmentInit /\ [][FragmentNext]_fragmentVars /\ WF_fragmentVars(FragmentStep)

-----------------------------------------------------------------------------
(* Names that the tokens of the cache confuse: a local collection goes by   *)
(* the name of another one, or a fragment by that of another fragment of    *)
(* its collection, here or in the portal.                                   *)
LocalRows == UNION {{[site |-> s, collection |-> f.collection, title |-> f.title, key |-> f.slug, name |-> f.name] :
                        f \in ProjectOf(s)} : s \in DOMAIN projects}
PortalRows == {[site |-> frag.collections[e.collection].group, collection |-> frag.collections[e.collection].key,
                key |-> e.key, name |-> e.name] : e \in Range(frag.entries)}
CollectionRows == {[group |-> r.site, key |-> r.collection, name |-> r.title] : r \in LocalRows}
Ambiguous ==
  \/ \E r \in LocalRows, c \in CollectionRows \cup Range(frag.collections) :
        r.site = c.group /\ r.collection # c.key /\ r.collection \in Tokens(c)
  \/ \E r \in LocalRows, q \in LocalRows \cup PortalRows :
        /\ <<r.site, r.collection>> = <<q.site, q.collection>> /\ r.key # q.key
        /\ r.key \in Tokens(q)

(* A fragment that is reported as imported through JSONWS is in the portal  *)
(* with the local body, though others failed before it, an answer was lost, *)
(* the zip arrives late or the command is given again; it is there once,    *)
(* unless its collection had to be created without a key; an import that    *)
(* ends well reported all of them; and a fragment that no file stands for   *)
(* is left alone.                                                           *)
StandsFor(c, s, f) == c.group = s /\ (c.key = f.collection \/ (c.key = "auto" /\ c.name = f.title))
IsInPortal(s, f) == \E e \in Range(entries) :
                      StandsFor(collections[e.collection], s, f) /\ e.key = f.slug /\ e.body = f.body
OnceEach ==
  \A i, j \in DOMAIN entries :
    LET c == collections[entries[i].collection]  d == collections[entries[j].collection]
    IN  /\ <<c.group, c.key, entries[i].key>> = <<d.group, d.key, entries[j].key>>
        /\ c.key = "auto" => entries[i].collection = entries[j].collection
        => i = j
FragmentsLand ==
  ~Ambiguous =>
    /\ \A r \in reported : r.by = "jsonws" /\ r.error = "" => IsInPortal(r.site, r.fragment)
    /\ OnceEach
    /\ fragPc = "ok" => \A s \in TargetSites : \A f \in ProjectOf(s) : \E r \in reported : r.site = s /\ r.fragment = f
    /\ \A i \in DOMAIN frag.entries :
         LET c == frag.collections[frag.entries[i].collection]
         IN  entries[i] # frag.entries[i] => \E r \in LocalRows :
               <<r.site, r.collection, r.key>> = <<c.group, c.key, entries[i].key>>

(* An export that is imported again changes nothing.  A zip is not seen to  *)
(* arrive when two collections share a name.                                *)
FragmentsRoundTrip ==
  /\ fragPc \in {"ok", "failed"} /\ FragmentOpt.export /\ fragmentFaults = 0 /\ ~Ambiguous
  /\ DOMAIN frag.local = {} /\ frag.jsonws /\ \A b \in DOMAIN frag.stored : frag.stored[b] = b
  => /\ FragmentPortal = <<frag.collections, frag.entries>>
     /\ \/ \A r \in reported : r.error = ""
        \/ /\ FragmentOpt.transport = "deploy-zip"
           /\ \E r, q \in LocalRows : r.title = q.title /\ r.collection # q.collection

(* The zip is used for a site only when JSONWS changed no fragment of it    *)
(* whose answer arrived: what was imported is not imported twice.           *)
NoSecondImport ==
  fragPc \in {"zip", "poll"} => \A r \in results : r.error # ""

(* Import and export of fragments bring over what they say they do, once.   *)
FragmentsAreFaithful == FragmentsLand /\ FragmentsRoundTrip /\ NoSecondImport
=============================================================================
