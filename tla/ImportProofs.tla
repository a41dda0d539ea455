---------------------------- MODULE ImportProofs ----------------------------
(***************************************************************************)
(* Proofs about the import of templates and ADTs (ResourceImport), for any *)
(* portal, files and command line that the assumptions allow and any       *)
(* number of faults and of runs.                                           *)
(*                                                                         *)
(* The inductive invariant says of the rows of the portal what became of   *)
(* each that was there and which entry made each that was not; that no two *)
(* new ones stand for one entry unless the first came unbound or its       *)
(* search was misled, which is what makes a repeated import find what it   *)
(* made; what the first search told of the entry to write; that what was   *)
(* written stays; and that an export which is imported again finds the row *)
(* it was made of.                                                         *)
(*                                                                         *)
(* For fragments (FragmentImport) it says of each collection and entry     *)
(* whose it is and which local fragment wrote it; that what the cache and  *)
(* the collection being done stand for is the local one; that every        *)
(* fragment with a good result has its body in the portal; and that an     *)
(* export which is imported again finds every row under its key.           *)
(***************************************************************************)
EXTENDS ResourceImport, FragmentImport, TLAPS, WellFoundedInduction, FiniteSetTheorems, FunctionTheorems

\* Where an import is, and what it has done of its entries.
Importing == impPc \in {"find", "write", "verify"}
Now == IF Importing THEN {entry} ELSE {}
Tried == processed \cup failures \cup Now
\* What the variables hold.
ImportTypes ==
  /\ imp \in ImportCases /\ store \in Seq(Template) /\ Len(imp.portal) <= Len(store)
  /\ disk \subseteq ResourceFile /\ IsFiniteSet(disk) /\ \A f \in disk : f.key # "auto"
  /\ impPc \in {"start", "off", "ready", "next", "find", "write", "verify", "ok", "failed", "error"}
  /\ target \in Nat /\ blind \in BOOLEAN /\ impFaults \in Nat /\ (blind => impFaults > 0)
  /\ home \in STRING /\ (misled # {} => impFaults > 0)
\* Every entry of a run is pending, tried or being tried.
ImportPlace ==
  /\ impPc \in {"start", "off"} => store = imp.portal /\ disk = imp.files /\ pending \cup processed \cup failures = {}
  /\ pending \cup Tried \subseteq Entries /\ pending \cap Tried = {}
  /\ Importing => entry \notin processed \cup failures
  /\ impPc \in {"next", "find", "write", "verify", "ok", "failed"} => Entries = pending \cup Tried
  /\ impPc = "ok" => pending \cup failures = {}
  /\ impPc \in {"write", "verify"} => ~ImportOpt.check /\ entry.site \in imp.sites
  /\ ImportOpt.check => store = imp.portal

\* What became of a template of the portal, and what a new one is.
ClassOf(e) == IF ImportOpt.type = "adt" THEN Widget(e.file) ELSE ImportOpt.structure
NameOf(t, o) == t.name = o.name \/ \E e \in Entries : t.name = e.file.key /\ Matches(o, e.file.key)
Changed(t, o) == \E e \in Entries : /\ t.script = e.file.script /\ Matches(o, e.file.key)
                                    /\ t.group \in {e.site, Global, "company"}
OldRow(t, o) ==
  /\ t.group = o.group /\ t.key = o.key /\ t.erc = o.erc /\ NameOf(t, o)
  /\ t = o \/ Changed(t, o)
  /\ t.class = o.class \/ (Unbound(t) /\ impFaults > 0)
NewRow(t) ==
  /\ t.key = "auto" /\ t.name = t.erc
  /\ \E e \in Entries : /\ t.erc = e.file.key /\ (Unbound(t) \/ t.class = ClassOf(e))
                        /\ t.group = e.site \/ t.erc \in MisledNames
SameEntry(t, u) == t.group = u.group /\ t.erc = u.erc /\ t.class = u.class
\* Of all rows; two bound ones that are new stand for different entries, but of a misled name.
ImportRows ==
  /\ \A i \in 1 .. Len(imp.portal) : OldRow(store[i], imp.portal[i])
  /\ \A i \in Len(imp.portal) + 1 .. Len(store) : NewRow(store[i])
  /\ \A i, j \in Len(imp.portal) + 1 .. Len(store) :
       i # j /\ ~Unbound(store[i]) /\ store[i].erc \notin MisledNames => ~SameEntry(store[i], store[j])

\* What the first search tells of the entry to write.
Missing(e) == IF ImportOpt.type = "adt" THEN FindAdtIn(store, e.site, e.file) = 0 /\ FindAdtIn(store, Global, e.file) = 0
              ELSE ByKey(store, e.site, e.file.key) = 0 /\ InGroup(store, e.site, e.file.key) = 0
TellsTruth == IF target = 0 THEN ~blind /\ home = entry.site /\ Missing(entry) /\ (impFaults > 0 \/ Find(store, entry) = 0)
              ELSE target = Find(store, entry)
TellsWrong == /\ ImportOpt.type = "adt" /\ Misled(entry) /\ ~blind
              /\ home \in {entry.site, Global} /\ target \in {0, FindAdtIn(store, home, entry.file)}
ImportTarget == impPc = "write" => TellsTruth \/ TellsWrong

\* What was written stays, or another entry came down on it.
Landed(e) == Find(store, e) # 0 /\ store[Find(store, e)].script = e.file.script
SameTemplate(e, other) == Find(store, other) = Find(store, e) \/ (impFaults > 0 /\ other.file.key = e.file.key)
ImportWritten ==
  OneNameEach /\ ~ImportOpt.check /\ ~(\E t \in Range(store) : Unbound(t)) =>
    /\ impPc = "verify" => Misled(entry) \/ Landed(entry)
    /\ \A e \in processed : \/ Misled(e) \/ Landed(e)
                            \/ Find(store, e) # 0 /\ \E other \in Tried \ {e} : SameTemplate(e, other)

\* An export that is imported again.
OwnTemplates == {i \in DOMAIN imp.portal : imp.portal[i].group = ImportOpt.site}
\* An export without overrides, whose rows can be told apart.
PlainExport ==
  /\ ImportOpt.export /\ imp.files = {} /\ OwnTemplates # {} /\ impFaults = 0
  /\ ImportOpt.structure = "" /\ ImportOpt.widget = "" /\ ImportOpt.site \in imp.sites
  /\ \A i \in OwnTemplates :
       /\ \A n \in Identifiers(imp.portal[i]) : imp.clean[n] = n
       /\ ImportOpt.type = "adt" => imp.portal[i].class \in imp.classes
       /\ \A j \in OwnTemplates \ {i} : Identifiers(imp.portal[i]) \cap Identifiers(imp.portal[j]) = {}
FileKey(o) == IF ImportOpt.type = "adt" THEN o.key ELSE o.erc
FileOf(o) == [top |-> o.group, dir |-> IF ImportOpt.type = "adt" THEN o.class ELSE o.group, key |-> FileKey(o), script |-> o.script]
\* Only names change, and only those of the rows that were exported.
ImportBack ==
  PlainExport =>
    /\ impPc \notin {"start", "off"} => \A f \in disk : \E i \in OwnTemplates : f = FileOf(imp.portal[i])
    /\ Len(store) = Len(imp.portal) /\ failures = {}
    /\ \A i \in DOMAIN imp.portal :
         /\ store[i].class = imp.portal[i].class /\ store[i].script = imp.portal[i].script
         /\ store[i].name = imp.portal[i].name \/ (i \in OwnTemplates /\ store[i].name = FileKey(imp.portal[i]))
    /\ impPc \in {"write", "verify"} => \E i \in OwnTemplates : entry.file = FileOf(imp.portal[i]) /\ (impPc = "write" => target = i)
    /\ impPc = "write" => ~blind
    /\ impPc \in {"write", "verify"} => home = entry.site
\* The inductive invariant of the import.
ImportInv == ImportTypes /\ ImportPlace /\ ImportRows /\ ImportTarget /\ ImportWritten /\ ImportBack

-----------------------------------------------------------------------------
\* What each of the searches looks for the first of.
KeyHits(s, g, k) == {i \in Templates(s, g) : s[i].key = k}
GroupHits(s, g, k) == {i \in Templates(s, g) : Matches(s[i], k)}
AdtHits(s, g, f) == {i \in DOMAIN s : s[i].group = g /\ s[i].class = Widget(f) /\ Matches(s[i], f.key)}

\* The least of a set of natural numbers.
LEMMA LeastOf ==
  ASSUME NEW S, S \subseteq Nat, S # {}
  PROVE  Min(S) \in S /\ \A x \in S : Min(S) <= x
<1>1. PICK m \in S : \A x \in S : <<x, m>> \notin OpToRel(<, Nat)
  BY NatLessThanWellFounded, WFMin, Zenon
<1>2. ASSUME NEW x \in S, x < m PROVE FALSE
  <2>1. x \in Nat /\ m \in Nat
    OBVIOUS
  <2>2. <<x, m>> \in Nat \X Nat /\ <<x, m>>[1] = x /\ <<x, m>>[2] = m
    BY <2>1
  <2>3. <<x, m>> \in {p \in Nat \X Nat : p[1] < p[2]}
    BY <1>2, <2>2
  <2> QED BY <1>1, <2>3 DEF OpToRel
<1>3. \A x \in S : m <= x
  BY <1>2
<1> QED BY <1>3 DEF Min

\* What is searched does not change while the case does not.
LEMMA SameCase ==
  ASSUME imp' = imp
  PROVE  /\ \A t, k : Matches(t, k)' = Matches(t, k)
         /\ \A e : Find(store, e)' = Find(store', e)
         /\ \A g, k : ByKey(store, g, k)' = ByKey(store', g, k)
         /\ \A g, k : InGroup(store, g, k)' = InGroup(store', g, k)
         /\ \A g, f : FindAdtIn(store, g, f)' = FindAdtIn(store', g, f)
<1>0. ImportOpt' = ImportOpt
  BY DEF ImportOpt
<1>1. \A t, k : Matches(t, k)' = Matches(t, k)
  BY <1>0 DEF Matches
<1>2. \A g : Templates(store, g)' = Templates(store', g)
  BY <1>0 DEF Templates, OfStructure
<1>3. \A g, k : ByKey(store, g, k)' = ByKey(store', g, k)
  BY <1>2 DEF ByKey
<1>4. \A g, k : InGroup(store, g, k)' = InGroup(store', g, k)
  <2>. TAKE g, k
  <2>1. {i \in Templates(store, g)' : Matches(store[i], k)'} = {i \in Templates(store', g) : Matches(store'[i], k)}
    BY <1>2, <1>0 DEF Matches
  <2> QED BY <2>1 DEF InGroup
<1>5. \A g, f : FindAdtIn(store, g, f)' = FindAdtIn(store', g, f)
  <2>. TAKE g, f
  <2>1. Widget(f)' = Widget(f)
    BY <1>0 DEF Widget
  <2>2. {i \in DOMAIN store' : store'[i].group = g /\ store'[i].class = Widget(f)' /\ Matches(store[i], f.key)'}
        = {i \in DOMAIN store' : store'[i].group = g /\ store'[i].class = Widget(f) /\ Matches(store'[i], f.key)}
    BY <2>1, <1>0 DEF Matches
  <2> QED BY <2>2 DEF FindAdtIn
<1>6. \A e : Find(store, e)' = Find(store', e)
  BY <1>0, <1>3, <1>4, <1>5 DEF Find, FindIn, SiteFor, FindTemplate, AdtSite, Global
<1> QED BY <1>1, <1>3, <1>4, <1>5, <1>6

\* Nor do the entries, while the files do not.
LEMMA SameEntries ==
  ASSUME imp' = imp, disk' = disk
  PROVE  Entries' = Entries /\ OneNameEach' = OneNameEach
<1>0. ImportOpt' = ImportOpt
  BY DEF ImportOpt
<1>1. Tops' = Tops /\ \A g : FilesOf(g)' = FilesOf(g)
  BY <1>0 DEF Tops, FilesOf
<1>2. \A k : Lookup(k)' = Lookup(k)
  <2>. TAKE k
  <2>1. LookupAdt(k)' = LookupAdt(k)
    BY <1>0 DEF LookupAdt
  <2>2. LookupTemplate(k)' = LookupTemplate(k)
    <3>1. {f \in disk' : f.top = ImportOpt'.site /\ f.key = k} = {f \in disk : f.top = ImportOpt.site /\ f.key = k}
      BY <1>0
    <3>2. {f \in disk' : f.top = "global" /\ f.key = k} = {f \in disk : f.top = "global" /\ f.key = k}
      OBVIOUS
    <3>3. {f \in disk' : f.top = "none" /\ f.key = k} = {f \in disk : f.top = "none" /\ f.key = k}
      OBVIOUS
    <3>4. {f \in disk' : f.key = k} = {f \in disk : f.key = k}
      OBVIOUS
    <3> DEFINE Pick(O) == LET i == SelectInSeq(O, LAMBDA fs : fs # {}) IN IF i = 0 THEN {} ELSE O[i]
    <3>5. LookupTemplate(k)' = Pick(<<{f \in disk' : f.top = ImportOpt'.site /\ f.key = k},
                                     {f \in disk' : f.top = "global" /\ f.key = k},
                                     {f \in disk' : f.top = "none" /\ f.key = k}, {f \in disk' : f.key = k}>>)
      BY DEF LookupTemplate, Global, SelectInSeq
    <3>6. LookupTemplate(k) = Pick(<<{f \in disk : f.top = ImportOpt.site /\ f.key = k},
                                    {f \in disk : f.top = "global" /\ f.key = k},
                                    {f \in disk : f.top = "none" /\ f.key = k}, {f \in disk : f.key = k}>>)
      BY DEF LookupTemplate, Global
    <3> HIDE DEF Pick
    <3> QED BY <3>1, <3>2, <3>3, <3>4, <3>5, <3>6
  <2> QED BY <1>0, <2>1, <2>2 DEF Lookup
<1>3. Entries' = Entries
  <2>1. {[site |-> ImportOpt'.site, file |-> f] : f \in Lookup(ImportOpt.single)'}
        = {[site |-> ImportOpt.site, file |-> f] : f \in Lookup(ImportOpt.single)}
    <3>1. Lookup(ImportOpt.single)' = Lookup(ImportOpt.single)
      BY <1>0, <1>2
    <3> QED BY <1>0, <3>1
  <2>2. \A g : {[site |-> g, file |-> f] : f \in FilesOf(g)'} = {[site |-> g, file |-> f] : f \in FilesOf(g)}
    BY <1>1
  <2>3. UNION {{[site |-> g, file |-> f] : f \in FilesOf(g)'} : g \in IF ImportOpt'.all THEN Tops' ELSE {ImportOpt'.site}}
        = UNION {{[site |-> g, file |-> f] : f \in FilesOf(g)} : g \in IF ImportOpt.all THEN Tops ELSE {ImportOpt.site}}
    <3>1. (IF ImportOpt'.all THEN Tops' ELSE {ImportOpt'.site}) = IF ImportOpt.all THEN Tops ELSE {ImportOpt.site}
      BY <1>0, <1>1
    <3>2. ASSUME NEW G PROVE UNION {{[site |-> g, file |-> f] : f \in FilesOf(g)'} : g \in G}
                           = UNION {{[site |-> g, file |-> f] : f \in FilesOf(g)} : g \in G}
      BY <2>2
    <3> QED BY <3>1, <3>2
  <2> QED BY <1>0, <2>1, <2>3 DEF Entries
<1> QED BY <1>0, <1>3 DEF OneNameEach, Matches

-----------------------------------------------------------------------------
(* What a search finds, and what it finds when a row is added or changed.   *)
\* The first of a set of indices.
LEMMA FirstHit ==
  ASSUME NEW hits, hits \subseteq Nat \ {0}
  PROVE  /\ FirstOf(hits) \in Nat
         /\ hits = {} <=> FirstOf(hits) = 0
         /\ hits # {} => FirstOf(hits) \in hits /\ \A j \in hits : FirstOf(hits) <= j
<1>1. CASE hits = {}
  BY <1>1 DEF FirstOf
<1>2. CASE hits # {}
  <2>1. \E i \in hits : \A j \in hits : i <= j
    BY <1>2, LeastOf
  <2> QED BY <1>2, <2>1 DEF FirstOf
<1> QED BY <1>1, <1>2

\* It stays the first when what joins comes after all of them.
LEMMA FirstStays ==
  ASSUME NEW hits, NEW more, more \subseteq Nat \ {0}, hits \subseteq more, hits # {},
         \A i \in more \ hits : \A j \in hits : j < i
  PROVE  FirstOf(more) = FirstOf(hits)
<1>1. /\ FirstOf(hits) \in Nat /\ FirstOf(more) \in Nat
      /\ FirstOf(hits) \in hits /\ \A j \in hits : FirstOf(hits) <= j
      /\ FirstOf(more) \in more /\ \A j \in more : FirstOf(more) <= j
  BY FirstHit
<1>2. FirstOf(more) <= FirstOf(hits)
  BY <1>1
<1>3. FirstOf(more) \in hits
  <2>1. FirstOf(more) \notin hits => FirstOf(hits) < FirstOf(more)
    BY <1>1
  <2> QED BY <1>1, <1>2, <2>1
<1> QED BY <1>1, <1>2, <1>3

\* The search by the key.
LEMMA KeyFound ==
  ASSUME NEW s \in Seq(Template), NEW g, NEW k
  PROVE  /\ ByKey(s, g, k) = FirstOf(KeyHits(s, g, k)) /\ ByKey(s, g, k) \in Nat
         /\ ByKey(s, g, k) # 0 => ByKey(s, g, k) \in KeyHits(s, g, k)
         /\ ByKey(s, g, k) = 0 <=> KeyHits(s, g, k) = {}
<1>1. KeyHits(s, g, k) \subseteq Nat \ {0} /\ ByKey(s, g, k) = FirstOf(KeyHits(s, g, k))
  BY DEF KeyHits, ByKey, Templates
<1> QED BY <1>1, FirstHit

\* The search of a list of templates.
LEMMA GroupFound ==
  ASSUME NEW s \in Seq(Template), NEW g, NEW k
  PROVE  /\ InGroup(s, g, k) = FirstOf(GroupHits(s, g, k)) /\ InGroup(s, g, k) \in Nat
         /\ InGroup(s, g, k) # 0 => InGroup(s, g, k) \in GroupHits(s, g, k)
         /\ InGroup(s, g, k) = 0 <=> GroupHits(s, g, k) = {}
<1>1. GroupHits(s, g, k) \subseteq Nat \ {0} /\ InGroup(s, g, k) = FirstOf(GroupHits(s, g, k))
  BY DEF GroupHits, InGroup, Templates
<1> QED BY <1>1, FirstHit

\* The search of a list of ADTs.
LEMMA AdtFound ==
  ASSUME NEW s \in Seq(Template), NEW g, NEW f
  PROVE  /\ FindAdtIn(s, g, f) = FirstOf(AdtHits(s, g, f)) /\ FindAdtIn(s, g, f) \in Nat
         /\ FindAdtIn(s, g, f) # 0 => FindAdtIn(s, g, f) \in AdtHits(s, g, f)
         /\ FindAdtIn(s, g, f) = 0 <=> AdtHits(s, g, f) = {}
<1>1. AdtHits(s, g, f) \subseteq Nat \ {0} /\ FindAdtIn(s, g, f) = FirstOf(AdtHits(s, g, f))
  BY DEF AdtHits, FindAdtIn
<1> QED BY <1>1, FirstHit

\* What is found has the name, and is of the site, of the global one or of none.
LEMMA FoundIs ==
  ASSUME NEW s \in Seq(Template), NEW e
  PROVE  /\ Find(s, e) \in Nat
         /\ Find(s, e) # 0 => /\ Find(s, e) \in DOMAIN s /\ Matches(s[Find(s, e)], e.file.key)
                              /\ s[Find(s, e)].group \in {e.site, Global, "company"}
<1>1. CASE ImportOpt.type = "adt"
  <2> DEFINE g == AdtSite(s, e)
  <2>1. Find(s, e) = FindAdtIn(s, g, e.file) /\ g \in {e.site, Global}
    BY <1>1 DEF Find, FindIn, SiteFor, AdtSite
  <2> HIDE DEF g
  <2>2. Find(s, e) \in Nat /\ (Find(s, e) # 0 => Find(s, e) \in AdtHits(s, g, e.file))
    BY <2>1, AdtFound
  <2> QED BY <2>1, <2>2 DEF AdtHits
<1>2. CASE ImportOpt.type # "adt"
  <2>1. \A t, k : t.key = k => Matches(t, k)
    BY DEF Matches
  <2>2. Find(s, e) = FindTemplate(s, e.site, e.file.key)
    BY <1>2 DEF Find, FindIn, SiteFor
  <2>3. CASE ByKey(s, e.site, e.file.key) # 0
    <3>1. Find(s, e) = ByKey(s, e.site, e.file.key)
      BY <2>2, <2>3 DEF FindTemplate
    <3>2. ByKey(s, e.site, e.file.key) \in KeyHits(s, e.site, e.file.key)
      BY <2>3, KeyFound
    <3> QED BY <3>1, <3>2, <2>1, KeyFound DEF KeyHits, Templates
  <2>4. CASE ByKey(s, e.site, e.file.key) = 0
    <3>1. PICK g \in {e.site, "company"} : Find(s, e) = InGroup(s, g, e.file.key)
      BY <2>2, <2>4 DEF FindTemplate
    <3>2. Find(s, e) # 0 => Find(s, e) \in GroupHits(s, g, e.file.key)
      BY <3>1, GroupFound
    <3> QED BY <3>1, <3>2, GroupFound DEF GroupHits, Templates
  <2> QED BY <2>3, <2>4
<1> QED BY <1>1, <1>2

\* The same is found among rows of the same site, class and key that go by the name alike.
LEMMA FoundAlike ==
  ASSUME NEW s \in Seq(Template), NEW r \in Seq(Template), NEW e, DOMAIN r = DOMAIN s,
         \A i \in DOMAIN s : /\ r[i].group = s[i].group /\ r[i].class = s[i].class /\ r[i].key = s[i].key
                             /\ Matches(r[i], e.file.key) <=> Matches(s[i], e.file.key)
  PROVE  Find(r, e) = Find(s, e)
<1>1. \A g : Templates(r, g) = Templates(s, g)
  BY DEF Templates, OfStructure
<1>2. \A g : KeyHits(r, g, e.file.key) = KeyHits(s, g, e.file.key)
  BY <1>1 DEF KeyHits, Templates
<1>3. \A g : GroupHits(r, g, e.file.key) = GroupHits(s, g, e.file.key)
  BY <1>1 DEF GroupHits, Templates
<1>4. \A g : AdtHits(r, g, e.file) = AdtHits(s, g, e.file)
  BY DEF AdtHits
<1>5. /\ \A g : ByKey(r, g, e.file.key) = ByKey(s, g, e.file.key)
      /\ \A g : InGroup(r, g, e.file.key) = InGroup(s, g, e.file.key)
      /\ \A g : FindAdtIn(r, g, e.file) = FindAdtIn(s, g, e.file)
  BY <1>2, <1>3, <1>4, KeyFound, GroupFound, AdtFound
<1> QED BY <1>5 DEF Find, FindIn, SiteFor, FindTemplate, AdtSite

\* A hit at the end is the first one if there is no other.
LEMMA FirstAppended ==
  ASSUME NEW s \in Seq(Template), NEW x \in Template, NEW h \in SUBSET DOMAIN s
  PROVE  FirstOf(h \cup {Len(s) + 1}) = IF h = {} THEN Len(s) + 1 ELSE FirstOf(h)
<1> DEFINE n == Len(s) + 1
<1>1. /\ n \notin DOMAIN s /\ (\A i \in DOMAIN s : i < n) /\ h \cup {n} \subseteq Nat \ {0} /\ h \subseteq Nat \ {0}
  OBVIOUS
<1> HIDE DEF n
<1>2. CASE h = {}
  <2>1. FirstOf({n}) \in {n}
    BY <1>1, <1>2, FirstHit
  <2> QED BY <1>2, <2>1 DEF n
<1>3. CASE h # {}
  <2>1. \A i \in (h \cup {n}) \ h : \A j \in h : j < i
    BY <1>1
  <2> QED BY <1>1, <1>3, <2>1, FirstStays DEF n
<1> QED BY <1>2, <1>3

\* A new template is found if nothing was.
LEMMA FoundAppended ==
  ASSUME NEW s \in Seq(Template), NEW x \in Template, NEW g, NEW k
  PROVE  LET r == Append(s, x)
         IN  /\ x.key # k => ByKey(r, g, k) = ByKey(s, g, k)
             /\ InGroup(r, g, k) = InGroup(s, g, k)
                \/ (InGroup(s, g, k) = 0 /\ InGroup(r, g, k) = Len(s) + 1 /\ x.group = g /\ Matches(x, k))
             /\ InGroup(s, g, k) = 0 /\ x.group = g /\ Matches(x, k) /\ OfStructure(x) => InGroup(r, g, k) = Len(s) + 1
<1> DEFINE r == Append(s, x)
           n == Len(s) + 1
<1>0. r \in Seq(Template) /\ r[n] = x /\ \A i \in DOMAIN s : r[i] = s[i]
  OBVIOUS
<1>1. DOMAIN r = DOMAIN s \cup {n} /\ n \notin DOMAIN s
  OBVIOUS
<1> HIDE DEF r, n
<1>2. \A h \in SUBSET DOMAIN s : FirstOf(h \cup {n}) = IF h = {} THEN n ELSE FirstOf(h)
  BY FirstAppended DEF n
<1>3. x.key # k => ByKey(r, g, k) = ByKey(s, g, k)
  <2>1. x.key # k => KeyHits(r, g, k) = KeyHits(s, g, k)
    BY <1>0, <1>1 DEF KeyHits, Templates
  <2> QED BY <2>1, <1>0, KeyFound
<1>4. /\ InGroup(r, g, k) = InGroup(s, g, k)
         \/ (InGroup(s, g, k) = 0 /\ InGroup(r, g, k) = n /\ x.group = g /\ Matches(x, k))
      /\ InGroup(s, g, k) = 0 /\ x.group = g /\ Matches(x, k) /\ OfStructure(x) => InGroup(r, g, k) = n
  <2>1. GroupHits(r, g, k) = IF x.group = g /\ Matches(x, k) /\ OfStructure(x) THEN GroupHits(s, g, k) \cup {n} ELSE GroupHits(s, g, k)
    BY <1>0, <1>1 DEF GroupHits, Templates
  <2>2. GroupHits(s, g, k) \in SUBSET DOMAIN s
    BY DEF GroupHits, Templates
  <2>3. InGroup(r, g, k) = FirstOf(GroupHits(r, g, k)) /\ InGroup(s, g, k) = FirstOf(GroupHits(s, g, k))
    BY <1>0, GroupFound
  <2>4. InGroup(s, g, k) = 0 <=> GroupHits(s, g, k) = {}
    BY GroupFound
  <2> QED BY <2>1, <2>2, <2>3, <2>4, <1>2
<1> QED BY <1>3, <1>4 DEF r, n

\* A new ADT is found if nothing was.
LEMMA AdtAppended ==
  ASSUME NEW s \in Seq(Template), NEW x \in Template, NEW g, NEW f
  PROVE  LET r == Append(s, x)
         IN  /\ FindAdtIn(r, g, f) = FindAdtIn(s, g, f)
                \/ (FindAdtIn(s, g, f) = 0 /\ FindAdtIn(r, g, f) = Len(s) + 1 /\ x.group = g /\ x.class = Widget(f) /\ Matches(x, f.key))
             /\ FindAdtIn(s, g, f) = 0 /\ x.group = g /\ x.class = Widget(f) /\ Matches(x, f.key) => FindAdtIn(r, g, f) = Len(s) + 1
<1> DEFINE r == Append(s, x)
           n == Len(s) + 1
<1>0. r \in Seq(Template) /\ r[n] = x /\ \A i \in DOMAIN s : r[i] = s[i]
  OBVIOUS
<1>1. DOMAIN r = DOMAIN s \cup {n} /\ n \notin DOMAIN s
  OBVIOUS
<1> HIDE DEF r, n
<1>2. \A h \in SUBSET DOMAIN s : FirstOf(h \cup {n}) = IF h = {} THEN n ELSE FirstOf(h)
  BY FirstAppended DEF n
<1>3. /\ FindAdtIn(r, g, f) = FindAdtIn(s, g, f)
         \/ (FindAdtIn(s, g, f) = 0 /\ FindAdtIn(r, g, f) = n /\ x.group = g /\ x.class = Widget(f) /\ Matches(x, f.key))
      /\ FindAdtIn(s, g, f) = 0 /\ x.group = g /\ x.class = Widget(f) /\ Matches(x, f.key) => FindAdtIn(r, g, f) = n
  <2>1. AdtHits(r, g, f) = IF x.group = g /\ x.class = Widget(f) /\ Matches(x, f.key) THEN AdtHits(s, g, f) \cup {n} ELSE AdtHits(s, g, f)
    BY <1>0, <1>1 DEF AdtHits
  <2>2. AdtHits(s, g, f) \in SUBSET DOMAIN s
    BY DEF AdtHits
  <2>3. FindAdtIn(r, g, f) = FirstOf(AdtHits(r, g, f)) /\ FindAdtIn(s, g, f) = FirstOf(AdtHits(s, g, f))
    BY <1>0, AdtFound
  <2>4. FindAdtIn(s, g, f) = 0 <=> AdtHits(s, g, f) = {}
    BY AdtFound
  <2> QED BY <2>1, <2>2, <2>3, <2>4, <1>2
<1> QED BY <1>3 DEF r, n

-----------------------------------------------------------------------------
(* What the assumptions say of a case, its entries and what is written.     *)
CaseTypes ==
  /\ {ImportOpt.site, ImportOpt.structure, ImportOpt.widget, ImportOpt.single} \subseteq STRING
  /\ imp.portal \in Seq(Template) /\ "company" \notin imp.sites /\ imp.files \subseteq ResourceFile /\ IsFiniteSet(imp.files)
  /\ \A f \in imp.files : f.key # "auto"
  /\ \A i \in DOMAIN imp.portal : \A n \in Identifiers(imp.portal[i]) : n # "auto" /\ imp.clean[n] \in STRING \ {"auto"}
  /\ ImportOpt.type \in {"template", "adt"}

\* The assumption on the cases.
LEMMA TheImport == ASSUME imp \in ImportCases PROVE CaseTypes
<1>1. ImportCaseOK(imp)
  BY ImportAssumption
<1> QED BY <1>1 DEF ImportCaseOK, CaseTypes, ImportOpt

\* An entry is a file of the disk for a site.
LEMMA EntryIs ==
  ASSUME ImportTypes, NEW e \in Entries
  PROVE  /\ e.file \in disk /\ e = [site |-> e.site, file |-> e.file] /\ e.file.key # "auto"
         /\ e.file \in ResourceFile /\ e.site \in STRING
         /\ e.site = ImportOpt.site \/ e.site \in Tops
<1>0. CaseTypes
  BY TheImport DEF ImportTypes
<1>1. \A k : Lookup(k) \subseteq disk
  <2> TAKE k
  <2>1. LookupAdt(k) \subseteq disk
    BY DEF LookupAdt
  <2>2. LookupTemplate(k) \subseteq disk
    <3> DEFINE O == <<{f \in disk : f.top = ImportOpt.site /\ f.key = k}, {f \in disk : f.top = Global /\ f.key = k},
                      {f \in disk : f.top = "none" /\ f.key = k}, {f \in disk : f.key = k}>>
               I == {j \in 1 .. Len(O) : O[j] # {}}
    <3>1. LookupTemplate(k) = IF (IF I # {} THEN Min(I) ELSE 0) = 0 THEN {} ELSE O[IF I # {} THEN Min(I) ELSE 0]
      BY DEF LookupTemplate, SelectInSeq
    <3>2. \A j \in I : O[j] \subseteq disk
      OBVIOUS
    <3>3. I # {} => Min(I) \in I
      <4>1. I \subseteq Nat
        OBVIOUS
      <4> HIDE DEF I
      <4> QED BY <4>1, LeastOf
    <3> HIDE DEF I, O
    <3> QED BY <3>1, <3>2, <3>3
  <2> QED BY <2>1, <2>2 DEF Lookup
<1>2. \A g : FilesOf(g) \subseteq disk
  BY DEF FilesOf
<1>3. CASE ImportOpt.single # ""
  <2>1. e \in {[site |-> ImportOpt.site, file |-> f] : f \in Lookup(ImportOpt.single)}
    BY <1>3 DEF Entries
  <2>2. PICK f \in disk : e = [site |-> ImportOpt.site, file |-> f]
    BY <2>1, <1>1
  <2> QED BY <2>2, <1>0 DEF ImportTypes, CaseTypes
<1>4. CASE ImportOpt.single = ""
  <2> DEFINE G == IF ImportOpt.all THEN Tops ELSE {ImportOpt.site}
  <2>1. e \in UNION {{[site |-> g, file |-> f] : f \in FilesOf(g)} : g \in G}
    BY <1>4 DEF Entries
  <2>2. PICK g \in G : e \in {[site |-> g, file |-> f] : f \in FilesOf(g)}
    BY <2>1
  <2>3. PICK f \in disk : e = [site |-> g, file |-> f]
    BY <2>2, <1>2
  <2>4. g \in STRING /\ (g = ImportOpt.site \/ g \in Tops)
    <3>1. Tops \subseteq STRING
      BY DEF Tops, ImportTypes, ResourceFile
    <3> QED BY <3>1, <1>0 DEF CaseTypes
  <2> QED BY <2>3, <2>4 DEF ImportTypes
<1> QED BY <1>3, <1>4

\* There are finitely many entries to make a template of.
LEMMA EntriesFinite ==
  ASSUME ImportTypes
  PROVE  IsFiniteSet(EntryNames)
<1> DEFINE S == Tops \cup {ImportOpt.site}
<1>1. IsFiniteSet(S)
  <2>1. IsFiniteSet({f.top : f \in disk})
    <3> DEFINE T == {f.top : f \in disk}
    <3>1. [f \in disk |-> f.top] \in Surjection(disk, T)
      BY DEF Surjection
    <3> QED BY <3>1, FS_Surjection DEF ImportTypes, ExistsSurjection
  <2>2. Tops \subseteq {f.top : f \in disk}
    BY DEF Tops
  <2>3. IsFiniteSet(Tops) /\ IsFiniteSet({ImportOpt.site})
    BY <2>1, <2>2, FS_Subset, FS_Singleton
  <2> QED BY <2>3, FS_Union
<1>2. IsFiniteSet(S \X disk)
  BY <1>1, FS_Product DEF ImportTypes
<1>3. IsFiniteSet({[site |-> p[1], dir |-> p[2].dir, key |-> p[2].key] : p \in S \X disk})
  <2> DEFINE T == {[site |-> p[1], dir |-> p[2].dir, key |-> p[2].key] : p \in S \X disk}
  <2>1. [p \in S \X disk |-> [site |-> p[1], dir |-> p[2].dir, key |-> p[2].key]] \in Surjection(S \X disk, T)
    <3> HIDE DEF S
    <3> QED BY DEF Surjection
  <2> HIDE DEF S, T
  <2>2. IsFiniteSet(T)
    BY <1>2, <2>1, FS_Surjection DEF ExistsSurjection
  <2> QED BY <2>2 DEF T
<1>4. EntryNames \subseteq {[site |-> p[1], dir |-> p[2].dir, key |-> p[2].key] : p \in S \X disk}
  <2> SUFFICES ASSUME NEW e \in Entries
               PROVE  [site |-> e.site, dir |-> e.file.dir, key |-> e.file.key]
                      \in {[site |-> p[1], dir |-> p[2].dir, key |-> p[2].key] : p \in S \X disk}
    BY DEF EntryNames
  <2>1. <<e.site, e.file>> \in S \X disk /\ <<e.site, e.file>>[1] = e.site /\ <<e.site, e.file>>[2] = e.file
    BY EntryIs
  <2> QED BY <2>1
<1> QED BY <1>3, <1>4, FS_Subset

\* The names of a template that was there are those it had, or the name of a file it had.
LEMMA OldName ==
  ASSUME NEW t, NEW o, OldRow(t, o), NEW e \in Entries, Matches(t, e.file.key)
  PROVE  Matches(o, e.file.key)
BY DEF OldRow, NameOf, Matches

\* A new one goes by its file's name only.
LEMMA NewName ==
  ASSUME ImportTypes, NEW t, NewRow(t), NEW e \in Entries
  PROVE  Matches(t, e.file.key) <=> e.file.key = t.erc
<1>1. e.file.key # "auto"
  BY EntryIs
<1> QED BY <1>1 DEF NewRow, Matches

\* What is written of an entry that was not found: a new row.
LEMMA CreatedIs ==
  ASSUME ImportInv, impPc = "write", target = 0
  PROVE  \E x \in Template :
            /\ Written = Append(store, x)
            /\ x.group = home /\ x.key = "auto" /\ x.erc = entry.file.key /\ x.name = entry.file.key
            /\ x.script = entry.file.script /\ x.class = ClassOf(entry)
<1>1. entry \in Entries
  BY DEF ImportInv, ImportPlace, Importing, Now, Tried
<1>2. entry.file \in ResourceFile /\ entry.site \in STRING /\ CaseTypes
  BY <1>1, EntryIs, TheImport DEF ImportInv, ImportTypes
<1>3. home \in STRING
  BY DEF ImportInv, ImportTypes
<1>4. Widget(entry.file) \in STRING
  BY <1>2 DEF Widget, CaseTypes, ResourceFile
<1> DEFINE x == [group |-> home, class |-> ClassOf(entry), key |-> "auto",
                 erc |-> entry.file.key, name |-> entry.file.key, script |-> entry.file.script]
<1>5. x \in Template
  <2>1. entry.file.key \in STRING /\ entry.file.script \in STRING
    BY <1>2 DEF ResourceFile
  <2>2. ClassOf(entry) \in STRING
    BY <1>2, <1>4 DEF ClassOf, CaseTypes
  <2>3. home \in STRING /\ "auto" \in STRING
    BY <1>3, ImportAssumption
  <2> QED BY <2>1, <2>2, <2>3 DEF Template
<1>6. Written = Append(store, x)
  BY DEF Written, CreatedRow, ClassOf
<1> QED BY <1>5, <1>6

\* What is written of an entry that was found: its row, with another script.
LEMMA UpdatedIs ==
  ASSUME ImportInv, impPc = "write", target # 0
  PROVE  /\ target \in DOMAIN store /\ (target = Find(store, entry) \/ Misled(entry)) /\ Matches(store[target], entry.file.key)
         /\ store[target].group \in {entry.site, Global, "company"}
         /\ Written \in Seq(Template) /\ Len(Written) = Len(store)
         /\ \A i \in DOMAIN store : i # target => Written[i] = store[i]
         /\ LET t == Written[target] IN
              /\ t.group = store[target].group /\ t.key = store[target].key /\ t.erc = store[target].erc
              /\ t.name = entry.file.key /\ t.script = entry.file.script
              /\ t.class = IF blind THEN "none" ELSE store[target].class
<1>1. entry \in Entries
  BY DEF ImportInv, ImportPlace, Importing, Now, Tried
<1>2. entry.file \in ResourceFile /\ store \in Seq(Template)
  BY <1>1, EntryIs DEF ImportInv, ImportTypes
<1>3. \/ target = Find(store, entry)
      \/ Misled(entry) /\ home \in {entry.site, Global} /\ target = FindAdtIn(store, home, entry.file)
  BY DEF ImportInv, ImportTarget, TellsTruth, TellsWrong
<1>4. target \in DOMAIN store /\ Matches(store[target], entry.file.key) /\ store[target].group \in {entry.site, Global, "company"}
  <2>1. CASE target = Find(store, entry)
    BY <1>2, <2>1, FoundIs
  <2>2. CASE home \in {entry.site, Global} /\ target = FindAdtIn(store, home, entry.file)
    <3>1. target \in AdtHits(store, home, entry.file)
      BY <1>2, <2>2, AdtFound
    <3> QED BY <2>2, <3>1 DEF AdtHits
  <2> QED BY <1>3, <2>1, <2>2
<1>5. store[target] \in Template
  BY <1>2, <1>4
<1> DEFINE c == IF blind THEN "none" ELSE store[target].class
           t == [[[store[target] EXCEPT !.script = entry.file.script] EXCEPT !.name = entry.file.key] EXCEPT !.class = c]
<1>6. t \in Template
  <2>1. entry.file.key \in STRING /\ entry.file.script \in STRING
    BY <1>2 DEF ResourceFile
  <2>2. store[target].class \in STRING /\ "none" \in STRING
    BY <1>5, ImportAssumption DEF Template
  <2>3. c \in STRING
    <3>1. CASE blind
      BY <2>2, <3>1
    <3>2. CASE ~blind
      BY <2>2, <3>2
    <3> QED BY <3>1, <3>2
  <2> HIDE DEF c
  <2> QED BY <1>5, <2>1, <2>3 DEF Template
<1>7. Written = [store EXCEPT ![target] = t]
  BY <1>4, <1>5 DEF Written, Template
<1> HIDE DEF t, c
<1>8. /\ Written \in Seq(Template) /\ Len(Written) = Len(store) /\ Written[target] = t
      /\ \A i \in DOMAIN store : i # target => Written[i] = store[i]
  BY <1>2, <1>4, <1>6, <1>7
<1>9. /\ t.group = store[target].group /\ t.key = store[target].key /\ t.erc = store[target].erc
      /\ t.name = entry.file.key /\ t.script = entry.file.script /\ t.class = c
  BY <1>5 DEF t, Template
<1> QED BY <1>3, <1>4, <1>8, <1>9 DEF c

-----------------------------------------------------------------------------
(* Rows that were there, rows that are new, and what a write makes of them. *)
\* What a write makes of the rows.
WellMade(s) ==
  /\ s \in Seq(Template) /\ Len(imp.portal) <= Len(s)
  /\ \A i \in 1 .. Len(imp.portal) : OldRow(s[i], imp.portal[i])
  /\ \A i \in Len(imp.portal) + 1 .. Len(s) : NewRow(s[i])
  /\ \A i, j \in Len(imp.portal) + 1 .. Len(s) :
       i # j /\ ~Unbound(s[i]) /\ s[i].erc \notin MisledNames => ~SameEntry(s[i], s[j])

\* The rows of the portal are well made.
LEMMA RowsNow == ImportInv => WellMade(store) /\ Len(imp.portal) \in Nat
BY TheImport DEF ImportInv, ImportTypes, ImportRows, WellMade, CaseTypes

\* The entry being tried is one of the entries.
LEMMA WritingEntry == ASSUME ImportInv, Importing PROVE entry \in Entries
BY DEF ImportInv, ImportPlace, Now, Tried

\* An update leaves well-made rows.
LEMMA UpdatedRows ==
  ASSUME ImportInv, impPc = "write", target # 0
  PROVE  WellMade(Written)
<1> DEFINE K == Len(imp.portal)
           W == Written
<1>0. WellMade(store) /\ entry \in Entries /\ K \in Nat
  BY RowsNow, WritingEntry DEF Importing
<1>1. /\ target \in DOMAIN store /\ Matches(store[target], entry.file.key)
      /\ W \in Seq(Template) /\ Len(W) = Len(store)
      /\ \A i \in DOMAIN store : i # target => W[i] = store[i]
      /\ W[target].group = store[target].group /\ W[target].key = store[target].key /\ W[target].erc = store[target].erc
      /\ W[target].name = entry.file.key /\ W[target].script = entry.file.script
      /\ W[target].class = IF blind THEN "none" ELSE store[target].class
  BY UpdatedIs
<1>2. store[target].group \in {entry.site, Global, "company"}
  BY UpdatedIs
<1>3. blind \in BOOLEAN /\ (blind => impFaults > 0) /\ ImportTypes
  BY DEF ImportInv, ImportTypes
<1>4. DOMAIN store = 1 .. Len(store) /\ Len(store) \in Nat /\ K <= Len(store)
  BY <1>0 DEF WellMade
<1> HIDE DEF W, K
<1>5. ASSUME NEW i \in 1 .. K PROVE OldRow(W[i], imp.portal[i])
  <2>1. OldRow(store[i], imp.portal[i]) /\ i \in DOMAIN store
    BY <1>0, <1>4 DEF WellMade, K
  <2>2. CASE i # target
    BY <1>1, <2>1, <2>2
  <2>3. CASE i = target
    <3> DEFINE o == imp.portal[i]
    <3>1. Matches(o, entry.file.key)
      BY <1>0, <1>1, <2>1, <2>3, OldName
    <3>2. NameOf(W[i], o)
      BY <1>0, <1>1, <2>3, <3>1 DEF NameOf
    <3>3. Changed(W[i], o)
      BY <1>0, <1>1, <1>2, <2>3, <3>1 DEF Changed
    <3>4. W[i].class = o.class \/ (Unbound(W[i]) /\ impFaults > 0)
      BY <1>1, <1>3, <2>1, <2>3 DEF OldRow, Unbound
    <3> QED BY <1>1, <2>1, <2>3, <3>2, <3>3, <3>4 DEF OldRow
  <2> QED BY <2>2, <2>3
<1>6. ASSUME NEW i \in K + 1 .. Len(W) PROVE NewRow(W[i])
  <2>1. NewRow(store[i]) /\ i \in DOMAIN store
    BY <1>0, <1>1, <1>4 DEF WellMade, K
  <2>2. CASE i # target
    BY <1>1, <2>1, <2>2
  <2>3. CASE i = target
    <3>1. entry.file.key = store[i].erc
      BY <1>0, <1>1, <1>3, <2>1, <2>3, NewName
    <3>2. W[i].class = store[i].class \/ Unbound(W[i])
      BY <1>1, <1>3, <2>3 DEF Unbound
    <3> QED BY <1>1, <2>1, <2>3, <3>1, <3>2 DEF NewRow, Unbound
  <2> QED BY <2>2, <2>3
<1>7. ASSUME NEW i \in K + 1 .. Len(W), NEW j \in K + 1 .. Len(W), i # j, ~Unbound(W[i]), W[i].erc \notin MisledNames
      PROVE  ~SameEntry(W[i], W[j])
  <2>1. i \in DOMAIN store /\ j \in DOMAIN store
    BY <1>0, <1>1, <1>4
  <2>2. i # j /\ ~Unbound(store[i]) /\ store[i].erc \notin MisledNames => ~SameEntry(store[i], store[j])
    BY <1>0, <1>1, <1>4 DEF WellMade, K
  <2>3. /\ W[i].group = store[i].group /\ W[i].erc = store[i].erc /\ W[j].group = store[j].group /\ W[j].erc = store[j].erc
        /\ W[i].class = store[i].class /\ (W[j].class = store[j].class \/ W[j].class = "none")
    BY <1>1, <1>3, <1>7, <2>1 DEF Unbound
  <2> QED BY <1>7, <2>2, <2>3 DEF SameEntry, Unbound
<1> QED BY <1>1, <1>4, <1>5, <1>6, <1>7 DEF WellMade, W, K

\* So does a creation.
LEMMA CreatedRows ==
  ASSUME ImportInv, impPc = "write", target = 0
  PROVE  WellMade(Written)
<1> DEFINE K == Len(imp.portal)
           n == Len(store) + 1
<1>0. WellMade(store) /\ entry \in Entries /\ K \in Nat
  BY RowsNow, WritingEntry DEF Importing
<1>1. PICK x \in Template :
            /\ Written = Append(store, x)
            /\ x.group = home /\ x.key = "auto" /\ x.erc = entry.file.key /\ x.name = entry.file.key
            /\ x.script = entry.file.script /\ x.class = ClassOf(entry)
  BY CreatedIs
<1>01. \/ home = entry.site /\ Missing(entry)
       \/ Misled(entry) /\ x.erc \in MisledNames
  BY <1>1 DEF ImportInv, ImportTarget, TellsTruth, TellsWrong, Misled, MisledNames
<1> DEFINE W == Append(store, x)
<1>2. /\ W \in Seq(Template) /\ Len(W) = n /\ W[n] = x /\ \A i \in DOMAIN store : W[i] = store[i]
      /\ DOMAIN store = 1 .. Len(store) /\ Len(store) \in Nat /\ K <= Len(store)
  BY <1>0 DEF WellMade
<1> HIDE DEF W, K, n
<1>3. ASSUME NEW i \in 1 .. K PROVE OldRow(W[i], imp.portal[i])
  BY <1>0, <1>2 DEF WellMade, K
<1>4. NewRow(x)
  BY <1>0, <1>01, <1>1 DEF NewRow
<1>5. ASSUME NEW i \in K + 1 .. Len(W) PROVE NewRow(W[i])
  <2>1. i = n \/ i \in K + 1 .. Len(store)
    BY <1>0, <1>2 DEF n
  <2>2. i \in K + 1 .. Len(store) => i \in DOMAIN store
    BY <1>0, <1>2
  <2> QED BY <1>0, <1>2, <1>4, <2>1, <2>2 DEF WellMade, K
<1>6. ASSUME NEW j \in K + 1 .. Len(store), x.erc \notin MisledNames
      PROVE  ~SameEntry(x, store[j]) /\ ~SameEntry(store[j], x)
  <2> SUFFICES ASSUME x.group = store[j].group, x.erc = store[j].erc, x.class = store[j].class PROVE FALSE
    BY DEF SameEntry
  <2>1. j \in DOMAIN store /\ store \in Seq(Template)
    BY <1>0, <1>2 DEF WellMade
  <2>2. NewRow(store[j])
    BY <1>0 DEF WellMade, K
  <2>3. Matches(store[j], entry.file.key)
    BY <1>1, <2>2 DEF NewRow, Matches
  <2>4. Missing(entry) /\ home = entry.site
    BY <1>01, <1>6
  <2>5. CASE ImportOpt.type = "adt"
    <3>1. j \in AdtHits(store, entry.site, entry.file)
      BY <1>1, <2>1, <2>4, <2>3, <2>5 DEF AdtHits, ClassOf
    <3> QED BY <2>1, <2>4, <2>5, <3>1, AdtFound DEF Missing
  <2>6. CASE ImportOpt.type # "adt"
    <3>1. j \in GroupHits(store, entry.site, entry.file.key)
      BY <1>1, <2>1, <2>4, <2>3, <2>6 DEF GroupHits, Templates, OfStructure, ClassOf
    <3> QED BY <2>1, <2>4, <2>6, <3>1, GroupFound DEF Missing
  <2> QED BY <2>5, <2>6
<1>7. ASSUME NEW i \in K + 1 .. Len(W), NEW j \in K + 1 .. Len(W), i # j, ~Unbound(W[i]), W[i].erc \notin MisledNames
      PROVE  ~SameEntry(W[i], W[j])
  <2>1. (i = n \/ i \in K + 1 .. Len(store)) /\ (j = n \/ j \in K + 1 .. Len(store))
    BY <1>0, <1>2 DEF n
  <2>2. \A k \in K + 1 .. Len(store) : W[k] = store[k]
    BY <1>0, <1>2
  <2>3. CASE i = n
    <3>1. x.erc \notin MisledNames /\ W[i] = x
      BY <1>2, <1>7, <2>3
    <3> QED BY <1>6, <1>7, <2>1, <2>2, <2>3, <3>1
  <2>4. CASE i # n /\ j = n
    <3>1. W[i] = store[i] /\ W[j] = x
      BY <1>2, <2>1, <2>2, <2>4
    <3>2. SameEntry(W[i], W[j]) => x.erc \notin MisledNames
      BY <1>7, <3>1 DEF SameEntry
    <3> QED BY <1>6, <2>1, <2>4, <3>1, <3>2
  <2>5. CASE i # n /\ j # n
    BY <1>0, <1>7, <2>1, <2>2, <2>5 DEF WellMade, K
  <2> QED BY <2>3, <2>4, <2>5
<1>8. Written = W
  BY <1>1 DEF W
<1> HIDE DEF W
<1> QED BY <1>2, <1>3, <1>5, <1>7, <1>8 DEF WellMade, K, n

\* A step that leaves the case and the files leaves what is said of rows.
LEMMA RowsStay ==
  ASSUME imp' = imp, disk' = disk, impFaults \in Nat, impFaults' \in Nat, impFaults <= impFaults', misled \subseteq misled', WellMade(store')
  PROVE  /\ store' \in Seq(Template) /\ Len(imp'.portal) <= Len(store')
         /\ ImportRows'
<1>1. Entries' = Entries /\ \A t, k : Matches(t, k)' = Matches(t, k)
  BY SameCase, SameEntries
<1>2. \A e : ClassOf(e)' = ClassOf(e)
  BY DEF ClassOf, Widget, ImportOpt
<1>3. \A t, o : OldRow(t, o) => OldRow(t, o)'
  BY <1>1 DEF OldRow, NameOf, Changed, Unbound, Global
<1>04. MisledNames \subseteq MisledNames'
  BY DEF MisledNames
<1>4. \A t : NewRow(t) => NewRow(t)'
  BY <1>04, <1>1, <1>2 DEF NewRow, Unbound
<1> QED BY <1>04, <1>3, <1>4 DEF WellMade, ImportRows, SameEntry, Unbound

-----------------------------------------------------------------------------
(* What is written stays written.                                           *)
LandedIn(s, e) == Find(s, e) # 0 /\ s[Find(s, e)].script = e.file.script
SharedIn(s, e) == Find(s, e) # 0 /\ \E other \in Tried \ {e} :
                     Find(s, other) = Find(s, e) \/ (impFaults > 0 /\ other.file.key = e.file.key)

\* If no template goes by the names of two files, no row does.
LEMMA OneName ==
  ASSUME ImportInv, OneNameEach, NEW i \in DOMAIN store, NEW e \in Entries, NEW f \in Entries,
         Matches(store[i], e.file.key), Matches(store[i], f.file.key)
  PROVE  e.file.key = f.file.key
<1>0. WellMade(store) /\ ImportTypes /\ Len(imp.portal) \in Nat /\ DOMAIN store = 1 .. Len(store)
  BY RowsNow DEF ImportInv, WellMade
<1>1. CASE i <= Len(imp.portal)
  <2> DEFINE o == imp.portal[i]
  <2>1. OldRow(store[i], o) /\ o \in Range(imp.portal)
    BY <1>0, <1>1 DEF WellMade, Range
  <2> HIDE DEF o
  <2>2. Matches(o, e.file.key) /\ Matches(o, f.file.key)
    BY <2>1, OldName
  <2> QED BY <2>1, <2>2 DEF OneNameEach
<1>2. CASE ~(i <= Len(imp.portal))
  <2>1. NewRow(store[i])
    BY <1>0, <1>2 DEF WellMade
  <2> QED BY <1>0, <2>1, NewName
<1> QED BY <1>1, <1>2

\* An update does not change what any entry finds.
LEMMA UpdateFinds ==
  ASSUME ImportInv, impPc = "write", target # 0, OneNameEach, ~blind, NEW e \in Entries
  PROVE  Find(Written, e) = Find(store, e)
<1> DEFINE K == Len(imp.portal)
           W == Written
           k == e.file.key
<1>0. WellMade(store) /\ entry \in Entries /\ K \in Nat /\ ImportTypes
  BY RowsNow, WritingEntry DEF Importing, ImportInv
<1>1. /\ target \in DOMAIN store /\ Matches(store[target], entry.file.key)
      /\ W \in Seq(Template) /\ Len(W) = Len(store)
      /\ \A i \in DOMAIN store : i # target => W[i] = store[i]
      /\ W[target].group = store[target].group /\ W[target].key = store[target].key /\ W[target].erc = store[target].erc
      /\ W[target].name = entry.file.key /\ W[target].class = store[target].class
  BY UpdatedIs
<1>2. DOMAIN store = 1 .. Len(store) /\ DOMAIN W = DOMAIN store /\ Len(store) \in Nat /\ K <= Len(store) /\ store \in Seq(Template)
  BY <1>0, <1>1 DEF WellMade
<1> HIDE DEF W, k
<1>3. Matches(store[target], k) => k = entry.file.key
  BY <1>0, <1>1, OneName DEF k
<1>4. Matches(W[target], k) <=> Matches(store[target], k)
  BY <1>1, <1>3 DEF Matches
<1>5. \A i \in DOMAIN store : /\ W[i].group = store[i].group /\ W[i].class = store[i].class /\ W[i].key = store[i].key
                              /\ Matches(W[i], k) <=> Matches(store[i], k)
  BY <1>1, <1>4
<1> QED BY <1>1, <1>2, <1>5, FoundAlike DEF W, k

\* What is written is found, and what was written before is still there or shared.
LEMMA WriteLands ==
  ASSUME ImportInv, impPc = "write", OneNameEach, ~(\E t \in Range(Written) : Unbound(t))
  PROVE  /\ Misled(entry) \/ LandedIn(Written, entry)
         /\ \A e \in processed : Misled(e) \/ LandedIn(Written, e) \/ SharedIn(Written, e)
<1> DEFINE W == Written
           n == Len(store) + 1
<1>0. /\ WellMade(store) /\ entry \in Entries /\ ImportTypes /\ store \in Seq(Template) /\ DOMAIN store = 1 .. Len(store)
      /\ ~ImportOpt.check /\ entry.site \in imp.sites /\ Tried \subseteq Entries /\ processed \subseteq Tried /\ entry \in Tried
      /\ entry \notin processed
  BY RowsNow, WritingEntry DEF Importing, ImportInv, WellMade, ImportPlace, Tried, Now
<1>1. CASE target # 0
  <2>1. /\ target \in DOMAIN store /\ (target = Find(store, entry) \/ Misled(entry)) /\ Matches(store[target], entry.file.key)
        /\ W \in Seq(Template) /\ Len(W) = Len(store)
        /\ \A i \in DOMAIN store : i # target => W[i] = store[i]
        /\ W[target].script = entry.file.script /\ W[target].class = IF blind THEN "none" ELSE store[target].class
    BY <1>1, UpdatedIs
  <2>2. DOMAIN W = DOMAIN store
    BY <1>0, <2>1
  <2>3. ~blind
    <3>1. ~Unbound(W[target])
      BY <2>1, <2>2 DEF Range
    <3> QED BY <2>1, <3>1 DEF Unbound
  <2>4. \A e \in Entries : Find(W, e) = Find(store, e)
    BY <1>1, <2>3, UpdateFinds
  <2>5. ~(\E t \in Range(store) : Unbound(t))
    <3> SUFFICES ASSUME NEW i \in DOMAIN store PROVE ~Unbound(store[i])
      BY DEF Range
    <3>1. ~Unbound(W[i])
      BY <2>2 DEF Range
    <3> QED BY <2>1, <2>3, <3>1 DEF Unbound
  <2> HIDE DEF W
  <2>6. Misled(entry) \/ LandedIn(W, entry)
    BY <1>0, <1>1, <2>1, <2>4 DEF LandedIn
  <2>7. ASSUME NEW e \in processed, ~Misled(e) PROVE LandedIn(W, e) \/ SharedIn(W, e)
    <3>0. e \in Entries /\ e # entry
      BY <1>0
    <3>1. Landed(e) \/ (Find(store, e) # 0 /\ \E other \in Tried \ {e} : SameTemplate(e, other))
      BY <1>0, <2>5, <2>7 DEF ImportInv, ImportWritten
    <3>2. CASE Find(store, e) = target
      <4>0. target = Find(store, entry)
        <5> SUFFICES ASSUME Misled(entry) PROVE FALSE
          BY <2>1
        <5>1. Matches(store[target], e.file.key)
          BY <1>0, <1>1, <3>2, FoundIs
        <5>2. e.file.key = entry.file.key
          BY <1>0, <2>1, <3>0, <5>1, OneName
        <5> QED BY <2>7, <5>2 DEF Misled
      <4>1. entry \in Tried \ {e} /\ Find(W, entry) = Find(W, e) /\ Find(W, e) # 0
        BY <1>0, <1>1, <2>1, <2>4, <3>0, <3>2, <4>0
      <4> QED BY <4>1 DEF SharedIn
    <3>3. CASE Find(store, e) # target /\ Landed(e)
      <4>1. Find(store, e) \in DOMAIN store
        BY <1>0, <3>3, FoundIs DEF Landed
      <4> QED BY <2>1, <2>4, <3>0, <3>3, <4>1 DEF Landed, LandedIn
    <3>4. CASE Find(store, e) # 0 /\ \E other \in Tried \ {e} : SameTemplate(e, other)
      <4>1. PICK other \in Tried \ {e} : SameTemplate(e, other)
        BY <3>4
      <4>2. Find(W, other) = Find(store, other) /\ Find(W, e) = Find(store, e)
        BY <1>0, <2>4, <3>0
      <4> QED BY <3>4, <4>1, <4>2 DEF SharedIn, SameTemplate
    <3> QED BY <3>1, <3>2, <3>3, <3>4
  <2> QED BY <2>6, <2>7 DEF W
<1>2. CASE target = 0
  <2>1. PICK x \in Template :
            /\ Written = Append(store, x)
            /\ x.group = home /\ x.key = "auto" /\ x.erc = entry.file.key /\ x.name = entry.file.key
            /\ x.script = entry.file.script /\ x.class = ClassOf(entry)
    BY <1>2, CreatedIs
  <2> DEFINE A == Append(store, x)
  <2>2. /\ A \in Seq(Template) /\ Len(A) = n /\ A[n] = x /\ \A i \in DOMAIN store : A[i] = store[i]
        /\ DOMAIN A = 1 .. n /\ n \in Nat \ {0} /\ n \notin DOMAIN store /\ Len(store) \in Nat
    BY <1>0
  <2>3. ~(\E t \in Range(store) : Unbound(t))
    <3> SUFFICES ASSUME NEW i \in DOMAIN store PROVE ~Unbound(store[i])
      BY DEF Range
    <3>1. A[i] = store[i] /\ i \in DOMAIN A
      BY <1>0, <2>2
    <3> QED BY <2>1, <3>1 DEF Range
  \* A row made by mistake is found by no entry of another name.
  <2>04. CASE TellsWrong
    <3>0. ImportOpt.type = "adt" /\ Misled(entry)
      BY <2>04 DEF TellsWrong
    <3>1. ASSUME NEW e \in Entries, e.file.key # entry.file.key PROVE Find(A, e) = Find(store, e)
      <4>1. e.file.key # "auto"
        BY <1>0, EntryIs
      <4>2. ~Matches(x, e.file.key)
        BY <2>1, <3>0, <3>1, <4>1 DEF Matches
      <4>3. \A g : FindAdtIn(A, g, e.file) = FindAdtIn(store, g, e.file)
        BY <1>0, <4>2, AdtAppended DEF A
      <4> QED BY <3>0, <4>3 DEF Find, FindIn, SiteFor, AdtSite
    <3>2. ASSUME NEW e \in processed, ~Misled(e) PROVE LandedIn(A, e) \/ SharedIn(A, e)
      <4>1. e \in Entries /\ e.file.key # entry.file.key
        BY <1>0, <3>0, <3>2 DEF Misled
      <4>2. Landed(e) \/ (Find(store, e) # 0 /\ \E other \in Tried \ {e} : SameTemplate(e, other))
        BY <1>0, <2>3, <3>2 DEF ImportInv, ImportWritten
      <4>3. Find(A, e) = Find(store, e) /\ Find(store, e) # 0 /\ Find(store, e) \in DOMAIN store
            /\ Matches(store[Find(store, e)], e.file.key)
        BY <1>0, <3>1, <4>1, <4>2, FoundIs DEF Landed
      <4>4. CASE Landed(e)
        BY <2>2, <4>3, <4>4 DEF Landed, LandedIn
      <4>5. CASE \E other \in Tried \ {e} : SameTemplate(e, other)
        <5>1. PICK other \in Tried \ {e} : SameTemplate(e, other)
          BY <4>5
        <5>2. CASE Find(store, other) = Find(store, e)
          <6>1. other \in Entries /\ Matches(store[Find(store, e)], other.file.key)
            BY <1>0, <4>3, <5>2, FoundIs
          <6>2. other.file.key = e.file.key
            BY <4>1, <4>3, <6>1, OneName
          <6>3. Find(A, other) = Find(store, other)
            BY <3>1, <4>1, <6>1, <6>2
          <6> QED BY <4>3, <5>1, <5>2, <6>3 DEF SharedIn
        <5>3. CASE Find(store, other) # Find(store, e)
          BY <4>3, <5>1, <5>3 DEF SameTemplate, SharedIn
        <5> QED BY <5>2, <5>3
      <4> QED BY <4>2, <4>4, <4>5
    <3> QED BY <2>1, <3>0, <3>2 DEF A
  <2> SUFFICES ASSUME ~TellsWrong
               PROVE  LandedIn(Written, entry) /\ \A e \in processed : Misled(e) \/ LandedIn(Written, e) \/ SharedIn(Written, e)
    BY <2>04
  <2>4. Missing(entry) /\ (impFaults > 0 \/ Find(store, entry) = 0) /\ x.group = entry.site
    BY <1>2, <2>1 DEF ImportInv, ImportTarget, TellsTruth
  <2>5. /\ \A e \in Entries : e.file.key # "auto"
        /\ Matches(x, entry.file.key) /\ x.group # "company" /\ (ImportOpt.type # "adt" => OfStructure(x))
        /\ \A e \in Entries : Matches(x, e.file.key) => e.file.key = entry.file.key
        /\ ImportOpt.type = "adt" => x.class = Widget(entry.file)
    <3>1. \A e \in Entries : e.file.key # "auto"
      BY <1>0, EntryIs
    <3>2. x.group # "company"
      BY <1>0, <2>1, <2>4, TheImport DEF ImportTypes, CaseTypes
    <3> QED BY <2>1, <3>1, <3>2 DEF Matches, OfStructure, ClassOf
  <2> HIDE DEF A, n
  \* What another entry stands for stays, unless it is of the same site and name.
  <2>6. ASSUME NEW e \in Entries, Find(store, e) # 0
        PROVE  \/ Find(A, e) = Find(store, e)
               \/ Find(A, e) = n /\ e.site = entry.site /\ e.file.key = entry.file.key /\ ImportOpt.type # "adt"
    <3>1. CASE ImportOpt.type = "adt"
      <4>1. \A g : \/ FindAdtIn(A, g, e.file) = FindAdtIn(store, g, e.file)
                   \/ FindAdtIn(store, g, e.file) = 0 /\ x.group = g /\ x.class = Widget(e.file) /\ Matches(x, e.file.key)
        BY <1>0, AdtAppended DEF A
      <4>2. FindAdtIn(store, e.site, e.file) # 0 => Find(A, e) = Find(store, e)
        BY <3>1, <4>1 DEF Find, FindIn, SiteFor, AdtSite
      <4>3. CASE FindAdtIn(store, e.site, e.file) = 0
        <5>1. FindAdtIn(store, Global, e.file) # 0 /\ Find(store, e) = FindAdtIn(store, Global, e.file)
          BY <2>6, <3>1, <4>3 DEF Find, FindIn, SiteFor, AdtSite
        <5>2. FindAdtIn(A, Global, e.file) = FindAdtIn(store, Global, e.file)
          BY <4>1, <5>1
        <5>3. FindAdtIn(A, e.site, e.file) = 0
          <6> SUFFICES ASSUME FindAdtIn(A, e.site, e.file) # 0 PROVE FALSE
            OBVIOUS
          <6>1. x.group = e.site /\ x.class = Widget(e.file) /\ Matches(x, e.file.key)
            BY <4>1, <4>3
          <6>2. e.file.key = entry.file.key /\ Widget(e.file) = Widget(entry.file)
            BY <2>5, <3>1, <6>1
          <6>3. AdtHits(store, Global, e.file) = AdtHits(store, Global, entry.file)
            BY <6>2 DEF AdtHits
          <6>4. FindAdtIn(store, Global, e.file) = FindAdtIn(store, Global, entry.file)
            BY <1>0, <6>3, AdtFound
          <6> QED BY <2>4, <3>1, <5>1, <6>4 DEF Missing
        <5> QED BY <3>1, <5>1, <5>2, <5>3 DEF Find, FindIn, SiteFor, AdtSite
      <4> QED BY <4>2, <4>3
    <3>2. CASE ImportOpt.type # "adt"
      <4>1. /\ ByKey(A, e.site, e.file.key) = ByKey(store, e.site, e.file.key)
            /\ \A g : \/ InGroup(A, g, e.file.key) = InGroup(store, g, e.file.key)
                      \/ InGroup(A, g, e.file.key) = n /\ x.group = g /\ Matches(x, e.file.key)
        BY <1>0, <2>1, <2>5, FoundAppended DEF A, n
      <4>2. InGroup(A, "company", e.file.key) = InGroup(store, "company", e.file.key)
        BY <2>5, <4>1
      <4>3. \/ InGroup(A, e.site, e.file.key) = InGroup(store, e.site, e.file.key)
            \/ InGroup(A, e.site, e.file.key) = n /\ e.site = entry.site /\ e.file.key = entry.file.key
        BY <2>1, <2>4, <2>5, <4>1
      <4>4. n # 0
        BY <2>2
      <4> QED BY <3>2, <4>1, <4>2, <4>3, <4>4 DEF Find, FindIn, SiteFor, FindTemplate
    <3> QED BY <3>1, <3>2
  <2>7. ASSUME NEW e \in Entries, e.site = entry.site, e.file.key = entry.file.key,
               ImportOpt.type = "adt" => e = entry
        PROVE  Find(A, e) = n
    <3>1. CASE ImportOpt.type = "adt"
      <4>1. FindAdtIn(A, entry.site, entry.file) = n
        BY <1>0, <2>1, <2>4, <2>5, <3>1, AdtAppended DEF A, n, Missing
      <4> QED BY <2>2, <2>7, <3>1, <4>1 DEF Find, FindIn, SiteFor, AdtSite
    <3>2. CASE ImportOpt.type # "adt"
      <4>1. InGroup(A, entry.site, entry.file.key) = n
        BY <1>0, <2>1, <2>4, <2>5, <3>2, FoundAppended DEF A, n, Missing
      <4>2. ByKey(A, entry.site, entry.file.key) = 0
        BY <1>0, <2>1, <2>4, <2>5, <3>2, FoundAppended DEF A, Missing
      <4> QED BY <2>2, <2>7, <3>2, <4>1, <4>2 DEF Find, FindIn, SiteFor, FindTemplate
    <3> QED BY <3>1, <3>2
  <2>8. LandedIn(A, entry)
    BY <1>0, <2>1, <2>2, <2>7 DEF LandedIn
  <2>9. ASSUME NEW e \in processed, ~Misled(e) PROVE LandedIn(A, e) \/ SharedIn(A, e)
    <3>0. e \in Entries /\ e # entry /\ entry \in Tried \ {e}
      BY <1>0
    <3>1. Landed(e) \/ (Find(store, e) # 0 /\ \E other \in Tried \ {e} : SameTemplate(e, other))
      BY <1>0, <2>3, <2>9 DEF ImportInv, ImportWritten
    <3>2. Find(store, e) # 0
      BY <3>1 DEF Landed
    <3>3. CASE Find(A, e) = n
      <4>1. Find(A, entry) = n
        BY <1>0, <2>7
      <4> QED BY <2>2, <3>0, <3>3, <4>1 DEF SharedIn
    <3>4. CASE Find(A, e) # n
      <4>1. Find(A, e) = Find(store, e)
        BY <2>6, <3>0, <3>2, <3>4
      <4>2. CASE Landed(e)
        <5>1. Find(store, e) \in DOMAIN store
          BY <1>0, <3>2, FoundIs
        <5> QED BY <2>2, <4>1, <4>2, <5>1 DEF Landed, LandedIn
      <4>3. CASE \E other \in Tried \ {e} : SameTemplate(e, other)
        <5>1. PICK other \in Tried \ {e} : SameTemplate(e, other)
          BY <4>3
        <5>2. CASE impFaults > 0 /\ other.file.key = e.file.key
          BY <3>2, <4>1, <5>2 DEF SharedIn
        <5>3. CASE Find(store, other) = Find(store, e)
          <6>1. other \in Entries
            BY <1>0
          <6>2. CASE Find(A, other) = Find(store, other)
            BY <3>2, <4>1, <5>3, <6>2 DEF SharedIn
          <6>3. CASE Find(A, other) # Find(store, other)
            <7>1. other.site = entry.site /\ other.file.key = entry.file.key /\ ImportOpt.type # "adt"
              BY <2>6, <3>2, <5>3, <6>1, <6>3
            <7>2. Find(store, other) = Find(store, entry)
              BY <7>1 DEF Find, FindIn, SiteFor, FindTemplate
            <7>3. impFaults > 0
              BY <2>4, <3>2, <5>3, <7>2
            <7> DEFINE c == Find(store, e)
            <7>4. c \in DOMAIN store /\ Matches(store[c], e.file.key) /\ Matches(store[c], other.file.key)
              <8>1. c \in DOMAIN store /\ Matches(store[c], e.file.key)
                BY <1>0, <3>2, FoundIs
              <8>2. Matches(store[Find(store, other)], other.file.key)
                BY <1>0, <3>2, <5>3, FoundIs
              <8> QED BY <5>3, <8>1, <8>2
            <7> HIDE DEF c
            <7>5. e.file.key = other.file.key
              BY <3>0, <6>1, <7>4, OneName
            <7> QED BY <3>2, <4>1, <7>3, <7>5 DEF SharedIn
          <6> QED BY <6>2, <6>3
        <5> QED BY <5>1, <5>2, <5>3 DEF SameTemplate
      <4> QED BY <3>1, <4>2, <4>3
    <3> QED BY <3>3, <3>4
  <2> QED BY <2>1, <2>8, <2>9 DEF A
<1> QED BY <1>1, <1>2

-----------------------------------------------------------------------------
(* What a step that leaves the portal leaves, and the start.                *)
\* A step that leaves the case, the files and the portal.
LEMMA PortalStays ==
  ASSUME ImportInv, imp' = imp, disk' = disk, store' = store, impFaults' \in Nat, impFaults <= impFaults', misled \subseteq misled'
  PROVE  /\ Entries' = Entries /\ OneNameEach' = OneNameEach /\ ImportRows'
         /\ store' \in Seq(Template) /\ Len(imp'.portal) <= Len(store')
         /\ \A e : Find(store, e)' = Find(store, e)
         /\ \A e : Landed(e) => Landed(e)'
         /\ \A e, o : SameTemplate(e, o) => SameTemplate(e, o)'
<1>1. Entries' = Entries /\ OneNameEach' = OneNameEach /\ \A e : Find(store, e)' = Find(store, e)
  BY SameEntries, SameCase
<1>2. impFaults \in Nat /\ WellMade(store')
  BY RowsNow DEF ImportInv, ImportTypes
<1>3. ImportRows' /\ store' \in Seq(Template) /\ Len(imp'.portal) <= Len(store')
  BY <1>2, RowsStay
<1>4. \A e : Landed(e) => Landed(e)'
  BY <1>1 DEF Landed
<1>5. \A e, o : SameTemplate(e, o) => SameTemplate(e, o)'
  BY <1>1, <1>2 DEF SameTemplate
<1> QED BY <1>1, <1>3, <1>4, <1>5

\* An export that is plain after a step was plain before it.
LEMMA PlainStays ==
  ASSUME imp' = imp, impFaults \in Nat, impFaults' \in Nat, impFaults <= impFaults', PlainExport'
  PROVE  PlainExport /\ impFaults' = 0 /\ impFaults = 0 /\ OwnTemplates' = OwnTemplates
<1>1. ImportOpt' = ImportOpt
  BY DEF ImportOpt
<1>2. OwnTemplates' = OwnTemplates
  BY <1>1 DEF OwnTemplates
<1>3. impFaults' = 0 /\ impFaults = 0
  <2>1. impFaults' = 0
    BY DEF PlainExport
  <2> QED BY <2>1
<1>4. ASSUME NEW i \in OwnTemplates
      PROVE  /\ \A n \in Identifiers(imp.portal[i]) : imp.clean[n] = n
             /\ ImportOpt.type = "adt" => imp.portal[i].class \in imp.classes
             /\ \A j \in OwnTemplates \ {i} : Identifiers(imp.portal[i]) \cap Identifiers(imp.portal[j]) = {}
  <2>1. i \in OwnTemplates' /\ imp.portal = imp'.portal /\ imp.clean = imp'.clean /\ imp.classes = imp'.classes
    BY <1>2
  <2> QED BY <1>1, <1>2, <2>1 DEF PlainExport
<1> QED BY <1>1, <1>2, <1>3, <1>4 DEF PlainExport

\* Of an export that is imported, each file finds the template it was made of.
LEMMA BackFinds ==
  ASSUME ImportInv, PlainExport, impPc \notin {"start", "off"}, NEW e \in Entries
  PROVE  \E i \in OwnTemplates :
            /\ e.file = FileOf(imp.portal[i]) /\ e.site = ImportOpt.site /\ i \in DOMAIN store /\ i # 0
            /\ Find(store, e) = i /\ FindIn(store, e.site, e) = i /\ SiteFor(store, e) = e.site
            /\ ImportOpt.type = "adt" => Widget(e.file) \in imp.classes
            /\ ImportOpt.type # "adt" => /\ InGroup(store, e.site, store[i].key) = i
                                         /\ InGroup(store, e.site, store[i].erc) = i
<1>0. WellMade(store) /\ ImportTypes /\ CaseTypes /\ Len(imp.portal) \in Nat
  BY RowsNow, TheImport DEF ImportInv, ImportTypes
<1>1. PICK i \in OwnTemplates : e.file = FileOf(imp.portal[i])
  BY <1>0, EntryIs DEF ImportInv, ImportBack
<1>2. e.site = ImportOpt.site
  <2>1. \A f \in disk : f.top = ImportOpt.site
    BY DEF ImportInv, ImportBack, FileOf, OwnTemplates
  <2>2. Tops \subseteq {ImportOpt.site}
    BY <2>1 DEF Tops
  <2> QED BY <1>0, <2>2, EntryIs
<1> DEFINE o == imp.portal[i]
<1>3. /\ DOMAIN store = 1 .. Len(store) /\ Len(store) = Len(imp.portal) /\ DOMAIN imp.portal = DOMAIN store
      /\ i \in DOMAIN store /\ i # 0 /\ store \in Seq(Template) /\ o.group = ImportOpt.site
  BY <1>0 DEF WellMade, CaseTypes, ImportInv, ImportBack, OwnTemplates
\* A row of the site goes by a name of the template only if it is its own.
<1>4. ASSUME NEW j \in DOMAIN store, store[j].group = ImportOpt.site, NEW k \in Identifiers(o), Matches(store[j], k)
      PROVE  j = i
  <2>1. OldRow(store[j], imp.portal[j]) /\ j \in OwnTemplates
    BY <1>0, <1>3, <1>4 DEF WellMade, OldRow, OwnTemplates
  <2>2. k \in Identifiers(imp.portal[j])
    <3>1. store[j].name \in Identifiers(imp.portal[j])
      BY <1>3 DEF ImportInv, ImportBack, Identifiers, FileKey
    <3> QED BY <1>4, <2>1, <3>1 DEF Matches, OldRow, Identifiers
  <2> QED BY <2>1, <2>2 DEF PlainExport
<1>5. OldRow(store[i], o)
  BY <1>0, <1>3 DEF WellMade
<1>6. store[i].group = ImportOpt.site /\ store[i].class = o.class /\ store[i].key = o.key /\ store[i].erc = o.erc
  BY <1>3, <1>5 DEF OldRow, ImportInv, ImportBack
<1>7. CASE ImportOpt.type = "adt"
  <2>1. Widget(e.file) = o.class /\ e.file.key = o.key /\ o.class \in imp.classes
    <3>1. e.file.dir = o.class /\ e.file.key = o.key
      BY <1>1, <1>7 DEF FileOf, FileKey
    <3>2. ImportOpt.widget = "" /\ o.class \in imp.classes
      BY <1>1, <1>7 DEF PlainExport
    <3> QED BY <3>1, <3>2 DEF Widget
  <2>2. AdtHits(store, e.site, e.file) = {i}
    <3>1. i \in AdtHits(store, e.site, e.file)
      BY <1>2, <1>3, <1>6, <2>1 DEF AdtHits, Matches
    <3>2. ASSUME NEW j \in AdtHits(store, e.site, e.file) PROVE j = i
      BY <1>2, <1>4, <2>1 DEF AdtHits, Identifiers
    <3> QED BY <3>1, <3>2
  <2>3. FindAdtIn(store, e.site, e.file) = i
    BY <1>3, <2>2, AdtFound
  <2>4. Find(store, e) = i /\ FindIn(store, e.site, e) = i /\ SiteFor(store, e) = e.site
    BY <1>3, <1>7, <2>3 DEF Find, FindIn, SiteFor, AdtSite
  <2> QED BY <1>1, <1>2, <1>3, <1>7, <2>1, <2>4
<1>8. CASE ImportOpt.type # "adt"
  <2>1. e.file.key = o.erc
    BY <1>1, <1>8 DEF FileOf, FileKey
  <2>2. ASSUME NEW k \in {o.key, o.erc} PROVE InGroup(store, e.site, k) = i
    <3>1. i \in GroupHits(store, e.site, k)
      BY <1>2, <1>3, <1>6, <1>8 DEF GroupHits, Matches, Templates, OfStructure, PlainExport
    <3>2. ASSUME NEW j \in GroupHits(store, e.site, k) PROVE j = i
      BY <1>2, <1>4 DEF GroupHits, Templates, Identifiers
    <3> QED BY <1>3, <3>1, <3>2, GroupFound
  <2>3. ByKey(store, e.site, e.file.key) \in {0, i}
    <3>1. ASSUME NEW j \in KeyHits(store, e.site, e.file.key) PROVE j = i
      BY <1>2, <1>4, <2>1 DEF KeyHits, Templates, Identifiers, Matches
    <3> QED BY <1>3, <3>1, KeyFound
  <2>4. Find(store, e) = i /\ FindIn(store, e.site, e) = i /\ SiteFor(store, e) = e.site
    BY <1>3, <1>8, <2>1, <2>2, <2>3 DEF Find, FindIn, SiteFor, FindTemplate
  <2> QED BY <1>1, <1>2, <1>3, <1>6, <1>8, <2>2, <2>4
<1> QED BY <1>7, <1>8

\* The invariant holds at the start.
LEMMA ImportStarts ==
  ASSUME NEW pc \in {"start", "off"}, ImportStart(pc)
  PROVE  ImportInv
<1> USE DEF ImportStart
<1>0. CaseTypes
  BY TheImport
<1>1. ImportTypes
  <2>1. store \in Seq(Template) /\ Len(imp.portal) <= Len(store)
    BY <1>0 DEF CaseTypes
  <2>2. disk \subseteq ResourceFile /\ IsFiniteSet(disk) /\ \A f \in disk : f.key # "auto"
    BY <1>0 DEF CaseTypes
  <2>3. home \in STRING
    BY ImportAssumption
  <2> QED BY <2>1, <2>2, <2>3 DEF ImportTypes
<1>2. ImportPlace
  BY DEF ImportPlace, Importing, Now, Tried
<1>3. ImportRows
  <2>1. Len(imp.portal) \in Nat
    BY <1>0 DEF CaseTypes
  <2> QED BY <2>1 DEF ImportRows, OldRow, NameOf
<1>4. ImportTarget /\ ImportWritten
  BY DEF ImportTarget, ImportWritten
<1>5. ImportBack
  BY DEF ImportBack
<1> QED BY <1>1, <1>2, <1>3, <1>4, <1>5 DEF ImportInv

\* The places of the command.
ImportPlaces == {"start", "off", "ready", "next", "find", "write", "verify", "ok", "failed", "error"}
\* A step that leaves the case, the files and the portal, and takes back no fault.
PortalSame == imp' = imp /\ disk' = disk /\ store' = store /\ impFaults' \in Nat /\ impFaults <= impFaults' /\ misled \subseteq misled'

\* It keeps the types and what is said of rows,
LEMMA TypesStay ==
  ASSUME ImportInv, PortalSame, impPc' \in ImportPlaces, target' \in Nat, blind' \in BOOLEAN, blind' => impFaults' > 0,
         home' \in STRING, misled' # {} => impFaults' > 0
  PROVE  ImportTypes' /\ ImportRows'
<1>1. ImportTypes
  BY DEF ImportInv
<1>2. ImportTypes'
  BY <1>1 DEF ImportTypes, PortalSame, ImportPlaces
<1> QED BY <1>2, PortalStays DEF PortalSame

\* what was written, if nothing unwritten is called so,
LEMMA WrittenStays ==
  ASSUME ImportInv, PortalSame, runs' = runs, impPc' # "verify", Tried \subseteq Tried',
         \A e \in processed' : e \in processed \/ ImportOpt.check \/ (impPc = "verify" /\ e = entry)
  PROVE  ImportWritten'
<1>1. /\ OneNameEach' = OneNameEach /\ (\A e : Find(store, e)' = Find(store, e)) /\ (\A e : Landed(e) => Landed(e)')
      /\ \A e, o : SameTemplate(e, o) => SameTemplate(e, o)'
  BY PortalStays DEF PortalSame
<1>2. ImportOpt' = ImportOpt
  BY DEF ImportOpt, PortalSame
<1> SUFFICES ASSUME OneNameEach', ~ImportOpt'.check, ~(\E t \in Range(store') : Unbound(t)'), NEW e \in processed'
             PROVE  Misled(e)' \/ Landed(e)' \/ (Find(store, e)' # 0 /\ \E other \in Tried' \ {e} : SameTemplate(e, other)')
  BY DEF ImportWritten
<1>3. OneNameEach /\ ~ImportOpt.check /\ ~(\E t \in Range(store) : Unbound(t))
  BY <1>1, <1>2 DEF PortalSame, Unbound
<1>4. Misled(e) \/ Landed(e) \/ (Find(store, e) # 0 /\ \E other \in Tried \ {e} : SameTemplate(e, other))
  BY <1>3 DEF ImportInv, ImportWritten
<1>5. Misled(e) => Misled(e)'
  BY DEF Misled, PortalSame
<1> QED BY <1>1, <1>4, <1>5

\* and what is said of an export that is imported again.
LEMMA BackStays ==
  ASSUME ImportInv, PortalSame, PlainExport' => impPc \notin {"start", "off"} /\ failures' = {},
         PlainExport' /\ impPc' \in {"write", "verify"} =>
            /\ \E i \in OwnTemplates : entry'.file = FileOf(imp.portal[i]) /\ (impPc' = "write" => target' = i)
            /\ home' = entry'.site /\ (impPc' = "write" => ~blind')
  PROVE  ImportBack'
<1> SUFFICES ASSUME PlainExport' PROVE ImportBack'
  BY DEF ImportBack
<1>1. PlainExport /\ OwnTemplates' = OwnTemplates /\ ImportOpt' = ImportOpt
  <2>1. impFaults \in Nat /\ impFaults' \in Nat /\ impFaults <= impFaults' /\ imp' = imp
    BY DEF ImportInv, ImportTypes, PortalSame
  <2> QED BY <2>1, PlainStays DEF ImportOpt
<1>2. \A o : FileKey(o)' = FileKey(o) /\ FileOf(o)' = FileOf(o)
  BY <1>1 DEF FileOf, FileKey
<1>3. imp'.portal = imp.portal /\ disk' = disk /\ store' = store
  BY DEF PortalSame
<1>4. /\ \A f \in disk' : \E i \in OwnTemplates' : f = FileOf(imp.portal[i])'
      /\ Len(store') = Len(imp'.portal) /\ failures' = {}
  BY <1>1, <1>2, <1>3 DEF ImportInv, ImportBack
<1>5. \A i \in DOMAIN imp'.portal :
         /\ store'[i].class = imp'.portal[i].class /\ store'[i].script = imp'.portal[i].script
         /\ store'[i].name = imp'.portal[i].name \/ (i \in OwnTemplates' /\ store'[i].name = FileKey(imp.portal[i])')
  BY <1>1, <1>2, <1>3 DEF ImportInv, ImportBack
<1>6. /\ impPc' \in {"write", "verify"} => \E i \in OwnTemplates' : entry'.file = FileOf(imp.portal[i])' /\ (impPc' = "write" => target' = i)
      /\ impPc' = "write" => ~blind'
      /\ impPc' \in {"write", "verify"} => home' = entry'.site
  BY <1>1, <1>2, <1>3
<1> QED BY <1>4, <1>5, <1>6 DEF ImportBack

\* A run starts.
LEMMA StartImportKeeps ==
  ASSUME ImportInv, StartImport
  PROVE  ImportInv'
<1>1. PortalSame /\ ImportTypes /\ Entries' = Entries /\ ImportOpt' = ImportOpt
  BY SameEntries DEF StartImport, searchVars, PortalSame, ImportInv, ImportTypes, ImportOpt
<1>2. ImportTypes' /\ ImportRows'
  BY <1>1, TypesStay DEF StartImport, searchVars, ImportPlaces, ImportTypes
<1>3. processed' = {} /\ failures' = {} /\ impPc' \in {"next", "error"} /\ (impPc' = "next" => pending' = Entries)
      /\ (impPc' = "error" => pending' = {}) /\ Now' = {} /\ Tried' = {}
  BY DEF StartImport, Tried, Now, Importing
<1>4. ImportPlace'
  BY <1>1, <1>3 DEF ImportPlace, ImportInv, Importing, StartImport
<1>5. ImportTarget' /\ ImportWritten'
  BY <1>3 DEF ImportTarget, ImportWritten
<1>6. ImportBack'
  <2>1. PlainExport' => impPc \notin {"start", "off"}
    BY <1>1 DEF StartImport, PlainExport
  <2> QED BY <1>1, <1>3, <2>1, BackStays
<1> QED BY <1>2, <1>4, <1>5, <1>6 DEF ImportInv

\* The next entry is taken.
LEMMA TakeEntryKeeps ==
  ASSUME ImportInv, TakeEntry
  PROVE  ImportInv'
<1>1. PortalSame /\ ImportTypes /\ Entries' = Entries /\ ImportOpt' = ImportOpt
  BY SameEntries DEF TakeEntry, searchVars, PortalSame, ImportInv, ImportTypes, ImportOpt
<1>2. ImportTypes' /\ ImportRows'
  BY <1>1, TypesStay DEF TakeEntry, searchVars, ImportPlaces, ImportTypes
<1>3. PICK e \in pending : entry' = e /\ pending' = pending \ {e}
  BY DEF TakeEntry
<1>4. Now = {} /\ Now' = {e} /\ processed' = processed /\ failures' = failures
      /\ Tried = processed \cup failures /\ Tried' = processed \cup failures \cup {e}
  BY <1>3 DEF TakeEntry, Tried, Now, Importing
<1>5. ImportPlace'
  <2>1. /\ pending \cup Tried \subseteq Entries /\ pending \cap Tried = {} /\ Entries = pending \cup Tried
        /\ ImportOpt.check => store = imp.portal
    BY DEF ImportPlace, ImportInv, TakeEntry
  <2> QED BY <1>1, <1>3, <1>4, <2>1 DEF ImportPlace, TakeEntry, Importing
<1>6. ImportTarget' /\ ImportWritten'
  BY <1>1, <1>4, WrittenStays DEF ImportTarget, TakeEntry
<1>7. ImportBack'
  BY <1>1, BackStays, PlainStays DEF TakeEntry, ImportInv, ImportBack, PortalSame, ImportTypes
<1> QED BY <1>2, <1>5, <1>6, <1>7 DEF ImportInv

\* A run ends.
LEMMA ReportImportKeeps ==
  ASSUME ImportInv, ReportImport
  PROVE  ImportInv'
<1>1. PortalSame /\ ImportTypes /\ Entries' = Entries /\ ImportOpt' = ImportOpt
  BY SameEntries DEF ReportImport, searchVars, PortalSame, ImportInv, ImportTypes, ImportOpt
<1>2. ImportTypes' /\ ImportRows'
  BY <1>1, TypesStay DEF ReportImport, searchVars, ImportPlaces, ImportTypes
<1>3. impPc = "next" /\ pending = {} /\ impPc' \in {"ok", "failed"} /\ (impPc' = "ok" => failures = {})
      /\ UNCHANGED <<pending, processed, failures>> /\ Now = {} /\ Now' = {} /\ Tried' = Tried
  BY DEF ReportImport, Tried, Now, Importing
<1>4. ImportPlace'
  <2>1. /\ pending \cup Tried \subseteq Entries /\ pending \cap Tried = {} /\ Entries = pending \cup Tried
        /\ ImportOpt.check => store = imp.portal
    BY <1>3 DEF ImportPlace, ImportInv
  <2> QED BY <1>1, <1>3, <2>1 DEF ImportPlace, Importing, PortalSame
<1>5. ImportTarget' /\ ImportWritten'
  BY <1>1, <1>3, WrittenStays DEF ImportTarget, ReportImport
<1>6. ImportBack'
  BY <1>1, <1>3, BackStays, PlainStays DEF ImportInv, ImportBack, PortalSame, ImportTypes
<1> QED BY <1>2, <1>4, <1>5, <1>6 DEF ImportInv

\* The command is given again.
LEMMA RunAgainKeeps ==
  ASSUME ImportInv, RunAgain
  PROVE  ImportInv'
<1>1. PortalSame /\ ImportTypes /\ Entries' = Entries /\ ImportOpt' = ImportOpt
  BY SameEntries DEF RunAgain, searchVars, PortalSame, ImportInv, ImportTypes, ImportOpt
<1>2. ImportTypes' /\ ImportRows'
  BY <1>1, TypesStay DEF RunAgain, searchVars, ImportPlaces, ImportTypes
<1>3. impPc \in {"ok", "failed", "error"} /\ impPc' = "ready" /\ pending' = {}
      /\ UNCHANGED <<processed, failures>> /\ Now = {} /\ Now' = {} /\ Tried' = Tried
  BY DEF RunAgain, Tried, Now, Importing
<1>4. ImportPlace'
  <2>1. Tried \subseteq Entries /\ (ImportOpt.check => store = imp.portal)
    BY <1>3 DEF ImportPlace, ImportInv
  <2> QED BY <1>1, <1>3, <2>1 DEF ImportPlace, Importing, PortalSame
<1>5. ImportTarget' /\ ImportWritten'
  BY <1>1, <1>3, WrittenStays DEF ImportTarget, RunAgain
<1>6. ImportBack'
  BY <1>1, <1>3, BackStays, PlainStays DEF ImportInv, ImportBack, PortalSame, ImportTypes
<1> QED BY <1>2, <1>4, <1>5, <1>6 DEF ImportInv

-----------------------------------------------------------------------------
(* Every step keeps the invariant.                                          *)
\* What the search for an entry tells, also when a list was refused.
LEMMA SearchTells ==
  ASSUME NEW s \in Seq(Template), NEW e
  PROVE  /\ Find(s, e) = 0 /\ ImportOpt.type = "adt" =>
              FindAdtIn(s, e.site, e.file) = 0 /\ FindAdtIn(s, Global, e.file) = 0
         /\ Find(s, e) = 0 /\ ImportOpt.type # "adt" =>
              ByKey(s, e.site, e.file.key) = 0 /\ InGroup(s, e.site, e.file.key) = 0
         /\ ImportOpt.type = "template" /\ (\A i \in DOMAIN s : s[i].group = e.site => s[i].key # e.file.key) =>
              /\ ByKey(s, e.site, e.file.key) = 0
              /\ InGroup(s, e.site, e.file.key) # 0 => Find(s, e) = InGroup(s, e.site, e.file.key)
<1>1. Find(s, e) = 0 /\ ImportOpt.type = "adt" => FindAdtIn(s, e.site, e.file) = 0 /\ FindAdtIn(s, Global, e.file) = 0
  BY DEF Find, FindIn, SiteFor, AdtSite
<1>2. Find(s, e) = 0 /\ ImportOpt.type # "adt" => ByKey(s, e.site, e.file.key) = 0 /\ InGroup(s, e.site, e.file.key) = 0
  BY DEF Find, FindIn, SiteFor, FindTemplate
<1>3. (\A i \in DOMAIN s : s[i].group = e.site => s[i].key # e.file.key) => ByKey(s, e.site, e.file.key) = 0
  <2>1. (\A i \in DOMAIN s : s[i].group = e.site => s[i].key # e.file.key) => KeyHits(s, e.site, e.file.key) = {}
    BY DEF KeyHits, Templates
  <2> QED BY <2>1, KeyFound
<1>4. ImportOpt.type = "template" /\ ByKey(s, e.site, e.file.key) = 0 /\ InGroup(s, e.site, e.file.key) # 0
      => Find(s, e) = InGroup(s, e.site, e.file.key)
  BY DEF Find, FindIn, SiteFor, FindTemplate
<1> QED BY <1>1, <1>2, <1>3, <1>4

\* An entry is searched in the portal.
LEMMA FindRemoteKeeps ==
  ASSUME ImportInv, FindRemote
  PROVE  ImportInv'
<1>0. ImportTypes /\ store \in Seq(Template) /\ entry \in Entries /\ impPc = "find" /\ CaseTypes
  BY WritingEntry, TheImport DEF FindRemote, ImportInv, ImportTypes, Importing
<1>1. PortalSame /\ Entries' = Entries /\ ImportOpt' = ImportOpt /\ entry' = entry /\ runs' = runs
  <2>1. (impFaults' = impFaults \/ impFaults' = impFaults + 1) /\ misled \subseteq misled'
    BY DEF FindRemote, ImportFault, FindBlind, FindAdtBlind
  <2> QED BY <1>0, <2>1, SameEntries DEF FindRemote, PortalSame, ImportTypes, ImportOpt
<1>01. entry.site \in STRING /\ Global \in STRING
  BY <1>0, EntryIs, ImportAssumption
<1>2. \/ /\ target' = Find(store, entry) /\ home' = SiteFor(store, entry) /\ blind' = FALSE
         /\ impFaults' = impFaults /\ misled' = misled
      \/ FindBlind /\ impFaults' > 0
      \/ FindAdtBlind /\ impFaults' > 0
  BY <1>0 DEF FindRemote, ImportFault, ImportTypes
<1>3. /\ target' \in Nat /\ blind' \in BOOLEAN /\ (blind' => impFaults' > 0)
      /\ home' \in STRING /\ (misled' # {} => impFaults' > 0)
  <2>1. CASE target' = Find(store, entry) /\ home' = SiteFor(store, entry) /\ blind' = FALSE /\ impFaults' = impFaults /\ misled' = misled
    <3>1. home' \in STRING
      BY <1>01, <2>1 DEF SiteFor, AdtSite
    <3>2. misled' # {} => impFaults' > 0
      BY <1>0, <2>1 DEF ImportTypes
    <3> QED BY <1>0, <2>1, <3>1, <3>2, FoundIs
  <2>2. CASE FindBlind /\ impFaults' > 0
    BY <1>0, <1>01, <2>2, GroupFound DEF FindBlind
  <2>3. CASE FindAdtBlind /\ impFaults' > 0
    <3>0. PICK g : g = home'
      OBVIOUS
    <3>1. home' \in {entry.site, Global} /\ target' \in {0, FindAdtIn(store, g, entry.file)} /\ blind' = FALSE
      BY <2>3, <3>0 DEF FindAdtBlind
    <3>2. FindAdtIn(store, g, entry.file) \in Nat
      BY <1>0, AdtFound
    <3>3. target' \in Nat
      BY <3>1, <3>2
    <3>4. home' \in STRING
      BY <1>01, <3>1
    <3>5. blind' \in BOOLEAN /\ ~blind'
      BY <3>1
    <3> QED BY <2>3, <3>3, <3>4, <3>5
  <2> QED BY <1>2, <2>1, <2>2, <2>3
<1>4. \/ /\ CannotImport(target') /\ failures' = failures \cup {entry} /\ processed' = processed /\ impPc' \in {"next", "error"}
      \/ /\ ~CannotImport(target') /\ ImportOpt.check /\ failures' = failures /\ processed' = processed \cup {entry} /\ impPc' = "next"
      \/ /\ ~CannotImport(target') /\ ~ImportOpt.check /\ failures' = failures /\ processed' = processed /\ impPc' = "write"
  <2>1. CASE CannotImport(target')
    BY <2>1 DEF FindRemote, EntryFails
  <2>2. CASE ~CannotImport(target') /\ ImportOpt.check
    BY <2>2 DEF FindRemote
  <2>3. CASE ~CannotImport(target') /\ ~ImportOpt.check
    BY <2>3 DEF FindRemote
  <2> QED BY <2>1, <2>2, <2>3
<1>5. ImportTypes' /\ ImportRows'
  <2>1. impPc' \in ImportPlaces
    BY <1>4 DEF ImportPlaces
  <2> QED BY <1>1, <1>3, <2>1, TypesStay
<1>6. /\ pending' = pending /\ Tried = processed \cup failures \cup {entry} /\ Tried' = Tried
      /\ impPc' \in {"next", "error", "write"} /\ (impPc' = "write" => Now' = {entry}) /\ (impPc' # "write" => Now' = {})
  <2>1. Now = {entry} /\ pending' = pending
    BY <1>0 DEF Now, Importing, FindRemote
  <2>2. (impPc' = "write" => Now' = {entry}) /\ (impPc' # "write" => Now' = {})
    BY <1>1, <1>4 DEF Now, Importing
  <2> QED BY <1>4, <2>1, <2>2 DEF Tried
<1>7. impPc' = "write" => entry.site \in imp.sites
  BY <1>4 DEF CannotImport
<1>8. ImportPlace'
  <2>1. /\ pending \cup Tried \subseteq Entries /\ pending \cap Tried = {} /\ Entries = pending \cup Tried
        /\ entry \notin processed \cup failures /\ (ImportOpt.check => store = imp.portal)
    BY <1>0 DEF ImportPlace, ImportInv, Importing
  <2>2. impPc' = "write" => ~ImportOpt.check /\ entry \notin processed' \cup failures'
    BY <1>4, <2>1
  <2> QED BY <1>1, <1>6, <1>7, <2>1, <2>2 DEF ImportPlace, Importing, PortalSame
<1>9. ImportTarget'
  <2> SUFFICES ASSUME impPc' = "write" PROVE TellsTruth' \/ TellsWrong'
    BY DEF ImportTarget
  <2>1. Find(store, entry)' = Find(store, entry) /\ (Missing(entry) => Missing(entry)')
        /\ \A g : FindAdtIn(store, g, entry.file)' = FindAdtIn(store, g, entry.file)
    <3>1. \A e : /\ Find(store, e)' = Find(store, e) /\ (Missing(e) => Missing(e)')
                 /\ \A g : FindAdtIn(store, g, e.file)' = FindAdtIn(store, g, e.file)
      BY <1>1, SameCase DEF PortalSame, Missing, Global
    <3> QED BY <1>1, <3>1
  <2>2. CASE target' = Find(store, entry) /\ home' = SiteFor(store, entry) /\ blind' = FALSE /\ impFaults' = impFaults
    <3>1. Find(store, entry) = 0 => Missing(entry)
      BY <1>0, SearchTells DEF Missing
    <3>2. Find(store, entry) = 0 => SiteFor(store, entry) = entry.site
      BY <1>0, SearchTells DEF SiteFor, AdtSite
    <3> QED BY <1>1, <2>1, <2>2, <3>1, <3>2 DEF TellsTruth
  <2>3. CASE FindBlind /\ impFaults' > 0
    <3>1. /\ target' = InGroup(store, entry.site, entry.file.key) /\ blind' = (target' # 0) /\ ImportOpt.type = "template"
          /\ ByKey(store, entry.site, entry.file.key) = 0 /\ home' = entry.site
          /\ target' # 0 => Find(store, entry) = target'
      BY <1>0, <2>3, SearchTells DEF FindBlind
    <3>2. target' = 0 => Missing(entry)
      BY <3>1 DEF Missing
    <3> QED BY <1>1, <2>1, <2>3, <3>1, <3>2 DEF TellsTruth
  <2>4. CASE FindAdtBlind
    <3>1. PICK g : g = home'
      OBVIOUS
    <3>2. /\ ImportOpt.type = "adt" /\ blind' = FALSE /\ g \in {entry.site, Global} /\ target' \in {0, FindAdtIn(store, g, entry.file)}
          /\ [run |-> runs, key |-> entry.file.key] \in misled'
      BY <2>4, <3>1 DEF FindAdtBlind
    <3>3. FindAdtIn(store, home, entry.file)' = FindAdtIn(store, g, entry.file)
      <4>1. FindAdtIn(store, g, entry.file)' = FindAdtIn(store, g, entry.file)
        BY <2>1
      <4> QED BY <3>1, <4>1 DEF FindAdtIn
    <3>4. Misled(entry)'
      BY <1>1, <3>2 DEF Misled
    <3> QED BY <1>1, <3>1, <3>2, <3>3, <3>4 DEF TellsWrong, Global
  <2> QED BY <1>2, <2>2, <2>3, <2>4
<1>10. ImportWritten'
  BY <1>1, <1>4, <1>6, WrittenStays
<1>11. ImportBack'
  <2> SUFFICES ASSUME PlainExport'
               PROVE  /\ failures' = {}
                      /\ impPc' = "write" => \E i \in OwnTemplates : entry'.file = FileOf(imp.portal[i]) /\ target' = i
                      /\ impPc' = "write" => home' = entry'.site /\ ~blind'
    BY <1>0, <1>1, <1>4, BackStays
  <2>1. PlainExport /\ impFaults' = 0
    BY <1>0, <1>1, PlainStays DEF PortalSame, ImportTypes
  <2>2. target' = Find(store, entry) /\ home' = SiteFor(store, entry) /\ ~blind'
    BY <1>2, <2>1
  <2>3. PICK i \in OwnTemplates :
            /\ entry.file = FileOf(imp.portal[i]) /\ entry.site = ImportOpt.site /\ i # 0 /\ Find(store, entry) = i
            /\ SiteFor(store, entry) = entry.site
            /\ ImportOpt.type = "adt" => Widget(entry.file) \in imp.classes
    BY <1>0, <2>1, BackFinds
  <2>4. ~CannotImport(target')
    BY <2>1, <2>2, <2>3 DEF CannotImport, PlainExport
  <2>5. failures = {}
    BY <2>1 DEF ImportInv, ImportBack
  <2> QED BY <1>1, <1>4, <2>2, <2>3, <2>4, <2>5
<1> QED BY <1>5, <1>8, <1>9, <1>10, <1>11 DEF ImportInv

\* An entry is read back.
LEMMA VerifyKeeps ==
  ASSUME ImportInv, Verify
  PROVE  ImportInv'
<1>0. ImportTypes /\ store \in Seq(Template) /\ entry \in Entries /\ impPc = "verify" /\ CaseTypes
  BY WritingEntry, TheImport DEF Verify, ImportInv, ImportTypes, Importing
<1>01. /\ impFaults' = impFaults \/ impFaults' = impFaults + 1
       /\ misled' = misled /\ home' = home /\ target' = target /\ blind' = blind /\ runs' = runs
  BY DEF Verify, ImportFault, searchVars
<1>1. PortalSame /\ Entries' = Entries /\ ImportOpt' = ImportOpt /\ entry' = entry
  BY <1>0, <1>01, SameEntries DEF Verify, PortalSame, ImportTypes, ImportOpt
<1>2. PICK verified \in BOOLEAN :
        /\ impFaults' > 0 \/ verified = Verified
        /\ IF verified THEN impPc' = "next" /\ processed' = processed \cup {entry} /\ failures' = failures
                       ELSE failures' = failures \cup {entry} /\ processed' = processed /\ impPc' \in {"next", "error"}
  BY <1>0 DEF Verify, EntryFails, ImportFault, ImportTypes
<1>3. ImportTypes' /\ ImportRows'
  <2>1. impPc' \in ImportPlaces
    BY <1>2 DEF ImportPlaces
  <2>2. (blind' => impFaults' > 0) /\ (misled' # {} => impFaults' > 0) /\ target' \in Nat /\ blind' \in BOOLEAN /\ home' \in STRING
    BY <1>0, <1>01 DEF ImportTypes
  <2> QED BY <1>1, <2>1, <2>2, TypesStay
<1>4. /\ pending' = pending /\ Tried = processed \cup failures \cup {entry} /\ Tried' = Tried
      /\ impPc' \in {"next", "error"} /\ Now' = {}
  <2>1. Now = {entry} /\ pending' = pending
    BY <1>0 DEF Now, Importing, Verify
  <2>2. Now' = {}
    BY <1>2 DEF Now, Importing
  <2> QED BY <1>2, <2>1, <2>2 DEF Tried
<1>5. ImportPlace'
  <2>1. /\ pending \cup Tried \subseteq Entries /\ pending \cap Tried = {} /\ Entries = pending \cup Tried
        /\ (ImportOpt.check => store = imp.portal)
    BY <1>0 DEF ImportPlace, ImportInv, Importing
  <2> QED BY <1>1, <1>4, <2>1 DEF ImportPlace, Importing, PortalSame
<1>6. ImportTarget' /\ ImportWritten'
  <2>1. \A e \in processed' : e \in processed \/ (impPc = "verify" /\ e = entry)
    BY <1>0, <1>2
  <2> QED BY <1>01, <1>1, <1>4, <2>1, WrittenStays DEF ImportTarget
<1>7. ImportBack'
  <2> SUFFICES ASSUME PlainExport'
               PROVE  failures' = {}
    BY <1>0, <1>1, <1>4, BackStays
  <2>1. PlainExport /\ impFaults' = 0
    BY <1>0, <1>1, PlainStays DEF PortalSame, ImportTypes
  <2>01. home = entry.site
    BY <1>0, <2>1 DEF ImportInv, ImportBack
  <2>2. PICK i \in OwnTemplates :
            /\ entry.file = FileOf(imp.portal[i]) /\ i \in DOMAIN store /\ i # 0 /\ FindIn(store, home, entry) = i
            /\ ImportOpt.type # "adt" => /\ InGroup(store, entry.site, store[i].key) = i
                                         /\ InGroup(store, entry.site, store[i].erc) = i
    BY <1>0, <2>01, <2>1, BackFinds
  <2>3. store[i].script = entry.file.script
    <3>1. i \in DOMAIN imp.portal
      BY DEF OwnTemplates
    <3>2. store[i].script = imp.portal[i].script
      BY <2>1, <3>1 DEF ImportInv, ImportBack
    <3> QED BY <2>2, <3>2 DEF FileOf
  <2>4. Verified
    <3>1. CASE ImportOpt.type = "adt"
      BY <2>2, <2>3, <3>1 DEF Verified
    <3>2. CASE ImportOpt.type # "adt"
      <4> DEFINE id == IF store[i].key = "auto" THEN store[i].erc ELSE store[i].key
                 hits == <<InGroup(store, entry.site, id), InGroup(store, Global, id), InGroup(store, "company", id)>>
                 I == {j \in 1 .. 3 : hits[j] # 0}
      <4>1. InGroup(store, entry.site, id) = i
        BY <2>2, <3>2
      <4>2. hits[1] = i /\ I \subseteq Nat /\ 1 \in I /\ \A j \in I : 1 <= j
        BY <2>2, <4>1
      <4>3. Min(I) = 1
        <5>1. I \subseteq Nat /\ I # {}
          BY <4>2
        <5> HIDE DEF I
        <5>2. Min(I) \in I /\ \A x \in I : Min(I) <= x
          BY <5>1, LeastOf
        <5> QED BY <4>2, <5>1, <5>2
      <4>4. SelectInSeq(hits, LAMBDA h : h # 0) = 1
        <5>1. Len(hits) = 3
          OBVIOUS
        <5>2. {j \in 1 .. Len(hits) : hits[j] # 0} = I
          BY <5>1
        <5> HIDE DEF hits, I
        <5> QED BY <4>2, <4>3, <5>2 DEF SelectInSeq
      <4> HIDE DEF id, I
      <4> QED BY <2>2, <2>3, <3>2, <4>2, <4>4 DEF Verified, id
    <3> QED BY <3>1, <3>2
  <2>5. failures = {}
    BY <2>1 DEF ImportInv, ImportBack
  <2> QED BY <1>2, <2>1, <2>4, <2>5
<1> QED BY <1>3, <1>5, <1>6, <1>7 DEF ImportInv

\* What a write keeps, whether its answer arrives or not.
LEMMA WriteKeeps ==
  ASSUME ImportInv, impPc = "write", imp' = imp, disk' = disk, store' = Written, impFaults' \in Nat, impFaults <= impFaults',
         entry' = entry, processed' = processed, Tried' = Tried, impPc' \in ImportPlaces, UNCHANGED <<searchVars, runs>>
  PROVE  /\ ImportTypes' /\ ImportRows' /\ ImportWritten'
         /\ PlainExport' =>
              /\ Len(store') = Len(imp'.portal)
              /\ \A i \in DOMAIN imp'.portal :
                   /\ store'[i].class = imp'.portal[i].class /\ store'[i].script = imp'.portal[i].script
                   /\ store'[i].name = imp'.portal[i].name \/ (i \in OwnTemplates' /\ store'[i].name = FileKey(imp.portal[i])')
              /\ \A f \in disk' : \E i \in OwnTemplates' : f = FileOf(imp.portal[i])'
              /\ failures = {} /\ \E i \in OwnTemplates' : entry'.file = FileOf(imp.portal[i])'
<1>0. ImportTypes /\ store \in Seq(Template) /\ entry \in Entries /\ entry \in Tried
  BY WritingEntry DEF ImportInv, ImportTypes, Importing, Tried, Now
<1>1. WellMade(store')
  BY UpdatedRows, CreatedRows
<1>2. ImportTypes' /\ ImportRows'
  <2>1. store' \in Seq(Template) /\ Len(imp'.portal) <= Len(store') /\ ImportRows'
    BY <1>0, <1>1, RowsStay DEF ImportTypes, searchVars
  <2>2. target' \in Nat /\ blind' \in BOOLEAN /\ (blind' => impFaults' > 0) /\ home' \in STRING /\ (misled' # {} => impFaults' > 0)
    BY <1>0 DEF ImportTypes, searchVars
  <2> QED BY <1>0, <2>1, <2>2 DEF ImportTypes, ImportPlaces
<1>3. /\ Entries' = Entries /\ OneNameEach' = OneNameEach /\ ImportOpt' = ImportOpt
      /\ \A e : Find(store, e)' = Find(store', e)
  BY SameEntries, SameCase DEF ImportOpt
<1>4. /\ \A e : Landed(e)' <=> LandedIn(store', e)
      /\ \A e : SharedIn(store', e) => Find(store, e)' # 0 /\ \E other \in Tried' \ {e} : SameTemplate(e, other)'
  <2>1. \A e : Landed(e)' <=> LandedIn(store', e)
    BY <1>3 DEF Landed, LandedIn
  <2>2. impFaults > 0 => impFaults' > 0
    BY <1>0 DEF ImportTypes
  <2>3. \A e, o : Find(store', o) = Find(store', e) \/ (impFaults > 0 /\ o.file.key = e.file.key) => SameTemplate(e, o)'
    BY <1>3, <2>2 DEF SameTemplate
  <2> QED BY <1>3, <2>1, <2>3 DEF SharedIn
<1>5. ImportWritten'
  <2> SUFFICES ASSUME OneNameEach', ~(\E t \in Range(store') : Unbound(t)')
               PROVE  /\ Misled(entry)' \/ Landed(entry)'
                      /\ \A e \in processed' : \/ Misled(e)' \/ Landed(e)'
                                               \/ (Find(store, e)' # 0 /\ \E other \in Tried' \ {e} : SameTemplate(e, other)')
    BY DEF ImportWritten
  <2>1. /\ Misled(entry) \/ LandedIn(store', entry)
        /\ \A e \in processed : Misled(e) \/ LandedIn(store', e) \/ SharedIn(store', e)
    <3>1. OneNameEach /\ ~(\E t \in Range(Written) : Unbound(t))
      BY <1>3 DEF Unbound
    <3> QED BY <3>1, WriteLands
  <2>2. \A e : Misled(e) => Misled(e)'
    BY DEF Misled, searchVars
  <2>3. Misled(entry)' \/ Landed(entry)'
    <3>1. \A e : e = entry => Misled(e)' \/ Landed(e)'
      BY <1>4, <2>1, <2>2
    <3> QED BY <3>1, <1>3 DEF Landed, Misled
  <2> QED BY <1>4, <2>1, <2>2, <2>3
<1>6. ASSUME PlainExport'
      PROVE  /\ Len(store') = Len(imp'.portal)
             /\ \A i \in DOMAIN imp'.portal :
                  /\ store'[i].class = imp'.portal[i].class /\ store'[i].script = imp'.portal[i].script
                  /\ store'[i].name = imp'.portal[i].name \/ (i \in OwnTemplates' /\ store'[i].name = FileKey(imp.portal[i])')
             /\ \A f \in disk' : \E i \in OwnTemplates' : f = FileOf(imp.portal[i])'
             /\ failures = {} /\ \E i \in OwnTemplates' : entry'.file = FileOf(imp.portal[i])'
  <2>1. PlainExport /\ OwnTemplates' = OwnTemplates /\ imp'.portal = imp.portal
    BY <1>0, <1>6, PlainStays DEF ImportTypes
  <2>2. \A o : FileKey(o)' = FileKey(o) /\ FileOf(o)' = FileOf(o)
    BY <1>3 DEF FileOf, FileKey
  <2>3. /\ Len(store) = Len(imp.portal) /\ failures = {} /\ ~blind
        /\ \A f \in disk : \E i \in OwnTemplates : f = FileOf(imp.portal[i])
        /\ \A i \in DOMAIN imp.portal :
             /\ store[i].class = imp.portal[i].class /\ store[i].script = imp.portal[i].script
             /\ store[i].name = imp.portal[i].name \/ (i \in OwnTemplates /\ store[i].name = FileKey(imp.portal[i]))
    BY <2>1 DEF ImportInv, ImportBack
  <2>4. PICK k \in OwnTemplates : entry.file = FileOf(imp.portal[k]) /\ target = k
    BY <2>1 DEF ImportInv, ImportBack
  <2>5. k \in DOMAIN imp.portal /\ DOMAIN imp.portal = 1 .. Len(imp.portal) /\ DOMAIN store = 1 .. Len(store)
    BY <1>0, TheImport DEF OwnTemplates, CaseTypes, ImportTypes
  <2>6. /\ Len(Written) = Len(store) /\ \A i \in DOMAIN store : i # target => Written[i] = store[i]
        /\ Written[target].name = entry.file.key /\ Written[target].script = entry.file.script
        /\ Written[target].class = store[target].class
    <3>1. target # 0
      BY <2>4, <2>5
    <3> QED BY <2>3, <3>1, UpdatedIs
  <2>7. entry.file.key = FileKey(imp.portal[k]) /\ entry.file.script = imp.portal[k].script
    BY <2>4 DEF FileOf
  <2>8. ASSUME NEW i \in DOMAIN imp.portal
        PROVE  /\ Written[i].class = imp.portal[i].class /\ Written[i].script = imp.portal[i].script
               /\ Written[i].name = imp.portal[i].name \/ (i \in OwnTemplates /\ Written[i].name = FileKey(imp.portal[i]))
    <3>1. CASE i = k
      BY <2>3, <2>4, <2>6, <2>7, <3>1
    <3>2. CASE i # k
      BY <2>3, <2>4, <2>5, <2>6, <3>2
    <3> QED BY <3>1, <3>2
  <2> QED BY <2>1, <2>2, <2>3, <2>4, <2>6, <2>8
<1> QED BY <1>2, <1>5, <1>6

\* A write is answered.
LEMMA UpsertKeeps ==
  ASSUME ImportInv, Upsert
  PROVE  ImportInv'
<1>0. /\ ImportTypes /\ impPc = "write" /\ impPc' = "verify" /\ UNCHANGED <<imp, disk, pending, entry, searchVars, processed, failures, runs, impFaults>>
      /\ store' = Written /\ impFaults' \in Nat /\ impFaults <= impFaults' /\ Now' = Now /\ Tried' = Tried /\ Now = {entry}
  BY DEF ImportInv, ImportTypes, Upsert, Tried, Now, Importing
<1>1. /\ ImportTypes' /\ ImportRows' /\ ImportWritten'
      /\ PlainExport' =>
              /\ Len(store') = Len(imp'.portal)
              /\ \A i \in DOMAIN imp'.portal :
                   /\ store'[i].class = imp'.portal[i].class /\ store'[i].script = imp'.portal[i].script
                   /\ store'[i].name = imp'.portal[i].name \/ (i \in OwnTemplates' /\ store'[i].name = FileKey(imp.portal[i])')
              /\ \A f \in disk' : \E i \in OwnTemplates' : f = FileOf(imp.portal[i])'
              /\ failures = {} /\ \E i \in OwnTemplates' : entry'.file = FileOf(imp.portal[i])'
  <2>1. impPc' \in ImportPlaces
    BY <1>0 DEF ImportPlaces
  <2> QED BY <1>0, <2>1, WriteKeeps
<1>2. ImportPlace'
  <2>1. /\ pending \cup Tried \subseteq Entries /\ pending \cap Tried = {} /\ Entries = pending \cup Tried
        /\ entry \notin processed \cup failures /\ ~ImportOpt.check /\ entry.site \in imp.sites
    BY <1>0 DEF ImportPlace, ImportInv, Importing
  <2>2. Entries' = Entries /\ ImportOpt' = ImportOpt
    BY <1>0, SameEntries DEF ImportOpt
  <2> QED BY <1>0, <2>1, <2>2 DEF ImportPlace, Importing
<1>3. ImportTarget'
  BY <1>0 DEF ImportTarget
<1>4. ImportBack'
  <2> SUFFICES ASSUME PlainExport' PROVE ImportBack'
    BY DEF ImportBack
  <2>1. PlainExport
    BY <1>0, PlainStays DEF ImportTypes
  <2>2. home' = entry'.site
    BY <1>0, <2>1 DEF ImportInv, ImportBack, searchVars
  <2> QED BY <1>0, <1>1, <2>2 DEF ImportBack
<1> QED BY <1>1, <1>2, <1>3, <1>4 DEF ImportInv

\* A write is refused, or its answer lost.
LEMMA UpsertFailsKeeps ==
  ASSUME ImportInv, UpsertFails
  PROVE  ImportInv'
<1>0. /\ ImportTypes /\ impPc \in {"find", "write"} /\ impPc' \in {"next", "error"} /\ failures' = failures \cup {entry}
      /\ UNCHANGED <<imp, disk, pending, entry, searchVars, processed, runs>> /\ impFaults' = impFaults + 1
      /\ store' = store \/ (impPc = "write" /\ store' = Written)
  BY DEF ImportInv, UpsertFails, ImportFault, EntryFails
<1>1. impFaults' \in Nat /\ impFaults <= impFaults' /\ impFaults' # 0 /\ ~PlainExport' /\ impPc' \in ImportPlaces
  <2>1. impFaults' \in Nat /\ impFaults <= impFaults' /\ impFaults' # 0 /\ impPc' \in ImportPlaces
    BY <1>0 DEF ImportTypes, ImportPlaces
  <2>2. PlainExport' => impFaults' = 0
    BY DEF PlainExport
  <2> QED BY <2>1, <2>2
<1>2. Now = {entry} /\ Now' = {} /\ Tried' = Tried /\ Tried = processed \cup failures \cup {entry}
  BY <1>0 DEF Now, Importing, Tried
<1>3. ImportTypes' /\ ImportRows' /\ ImportWritten'
  <2>1. CASE store' = store
    <3>1. PortalSame /\ target' \in Nat /\ blind' \in BOOLEAN /\ (blind' => impFaults' > 0) /\ home' \in STRING /\ (misled' # {} => impFaults' > 0)
      BY <1>0, <1>1, <2>1 DEF PortalSame, ImportTypes, searchVars
    <3>2. impPc' # "verify"
      BY <1>0
    <3> QED BY <1>0, <1>1, <1>2, <3>1, <3>2, TypesStay, WrittenStays
  <2>2. CASE impPc = "write" /\ store' = Written
    BY <1>0, <1>1, <1>2, <2>2, WriteKeeps
  <2> QED BY <1>0, <2>1, <2>2
<1>4. ImportPlace'
  <2>1. /\ pending \cup Tried \subseteq Entries /\ pending \cap Tried = {} /\ Entries = pending \cup Tried
        /\ (impPc = "write" => ~ImportOpt.check) /\ (ImportOpt.check => store = imp.portal)
    BY <1>0 DEF ImportPlace, ImportInv, Importing
  <2>2. Entries' = Entries /\ ImportOpt' = ImportOpt
    BY <1>0, SameEntries DEF ImportOpt
  <2> QED BY <1>0, <1>2, <2>1, <2>2 DEF ImportPlace, Importing
<1>5. ImportTarget' /\ ImportBack'
  BY <1>0, <1>1 DEF ImportTarget, ImportBack
<1> QED BY <1>3, <1>4, <1>5 DEF ImportInv

\* A site is exported.
LEMMA ExportImportKeeps ==
  ASSUME ImportInv, Export
  PROVE  ImportInv'
<1>0. /\ ImportTypes /\ CaseTypes /\ impPc = "start" /\ impPc' = "ready" /\ ImportOpt.export
      /\ UNCHANGED <<imp, store, pending, entry, searchVars, processed, failures, runs, impFaults>>
      /\ store = imp.portal /\ disk = imp.files /\ pending = {} /\ processed = {} /\ failures = {}
  BY TheImport DEF ImportInv, ImportTypes, ImportPlace, Export
<1>1. PICK new \in SUBSET Exported :
        disk' = IF new = {} THEN {f \in disk : f.top # ImportOpt.site} ELSE new \cup {f \in disk : \A g \in new : ~SameFile(f, g)}
  BY DEF Export
<1>2. DOMAIN store = 1 .. Len(store) /\ Len(store) \in Nat /\ IsFiniteSet(DOMAIN store)
  <2>1. DOMAIN store = 1 .. Len(store) /\ Len(store) \in Nat
    BY <1>0 DEF ImportTypes
  <2> QED BY <2>1, FS_Interval
\* An exported file is made of a row.
<1>3. \A f \in Exported : \E i \in DOMAIN store :
        /\ f.top = ImportOpt.site /\ f.script = store[i].script
        /\ ImportOpt.type = "adt" => i \in OwnRows /\ f = [top |-> ImportOpt.site, dir |-> store[i].class, key |-> imp.clean[store[i].key], script |-> store[i].script]
        /\ ImportOpt.type # "adt" => /\ (OwnRows # {} => i \in OwnRows)
                                     /\ f = [top |-> ImportOpt.site, dir |-> ImportOpt.site, key |-> imp.clean[store[i].erc], script |-> store[i].script]
  <2>1. CASE ImportOpt.type = "adt"
    BY <2>1 DEF Exported, ExportedAdts, OwnRows
  <2>2. CASE ImportOpt.type # "adt"
    BY <2>2 DEF Exported, ExportedTemplates, OwnRows
  <2> QED BY <2>1, <2>2
<1>4. Exported \subseteq ResourceFile /\ \A f \in Exported : f.key # "auto"
  <2> SUFFICES ASSUME NEW f \in Exported PROVE f \in ResourceFile /\ f.key # "auto"
    OBVIOUS
  <2>1. PICK i \in DOMAIN store :
        /\ ImportOpt.type = "adt" => f = [top |-> ImportOpt.site, dir |-> store[i].class, key |-> imp.clean[store[i].key], script |-> store[i].script]
        /\ ImportOpt.type # "adt" => f = [top |-> ImportOpt.site, dir |-> ImportOpt.site, key |-> imp.clean[store[i].erc], script |-> store[i].script]
    BY <1>3
  <2>2. store[i] \in Template /\ store \in Seq(Template)
    BY <1>0 DEF ImportTypes
  <2>3. store[i].class \in STRING /\ store[i].script \in STRING /\ ImportOpt.site \in STRING
    BY <1>0, <2>2 DEF Template, CaseTypes
  <2>4. imp.clean[store[i].key] \in STRING \ {"auto"} /\ imp.clean[store[i].erc] \in STRING \ {"auto"}
    BY <1>0 DEF CaseTypes, Identifiers
  <2> QED BY <2>1, <2>3, <2>4 DEF ResourceFile
<1>5. IsFiniteSet(new)
  <2> DEFINE FileAt(i) == [top |-> ImportOpt.site, dir |-> IF ImportOpt.type = "adt" THEN store[i].class ELSE ImportOpt.site,
                           key |-> IF ImportOpt.type = "adt" THEN imp.clean[store[i].key] ELSE imp.clean[store[i].erc], script |-> store[i].script]
             T == {FileAt(i) : i \in DOMAIN store}
  <2>2. [i \in DOMAIN store |-> FileAt(i)] \in Surjection(DOMAIN store, T)
    <3> HIDE DEF FileAt
    <3> QED BY DEF Surjection
  <2>3. Exported \subseteq T
    <3> SUFFICES ASSUME NEW f \in Exported PROVE \E i \in DOMAIN store : f = FileAt(i)
      BY DEF T
    <3>1. CASE ImportOpt.type = "adt"
      BY <1>3, <3>1
    <3>2. CASE ImportOpt.type # "adt"
      BY <1>3, <3>2
    <3> QED BY <3>1, <3>2
  <2> HIDE DEF T, FileAt
  <2>4. IsFiniteSet(T)
    BY <1>2, <2>2, FS_Surjection DEF ExistsSurjection
  <2> QED BY <2>3, <2>4, FS_Subset
<1>6. disk' \subseteq new \cup disk
  BY <1>1
<1>7. ImportTypes'
  <2>1. new \subseteq ResourceFile /\ \A f \in new : f.key # "auto"
    BY <1>1, <1>4
  <2>2. disk' \subseteq ResourceFile /\ \A f \in disk' : f.key # "auto"
    BY <1>0, <1>6, <2>1 DEF ImportTypes
  <2>3. IsFiniteSet(disk')
    <3>1. IsFiniteSet(new \cup disk)
      BY <1>0, <1>5, FS_Union DEF ImportTypes
    <3> QED BY <1>6, <3>1, FS_Subset
  <2> QED BY <1>0, <2>2, <2>3 DEF ImportTypes, searchVars
<1>8. ImportPlace'
  BY <1>0 DEF ImportPlace, Importing, Now, Tried, ImportOpt
<1>9. ImportRows'
  <2>1. Len(imp'.portal) \in Nat /\ store' = imp'.portal
    BY <1>0 DEF CaseTypes
  <2> QED BY <2>1 DEF ImportRows, OldRow, NameOf
<1>10. ImportTarget' /\ ImportWritten'
  BY <1>0 DEF ImportTarget, ImportWritten
<1>11. ImportBack'
  <2> SUFFICES ASSUME PlainExport' PROVE ImportBack'
    BY DEF ImportBack
  <2>1. PlainExport /\ OwnTemplates' = OwnTemplates /\ imp'.portal = imp.portal
    BY <1>0, PlainStays DEF ImportTypes
  <2>2. \A o : FileKey(o)' = FileKey(o) /\ FileOf(o)' = FileOf(o)
    BY <1>0 DEF FileOf, FileKey, ImportOpt
  <2>3. OwnRows = OwnTemplates /\ OwnRows # {} /\ disk = {}
    BY <1>0, <2>1 DEF OwnRows, OwnTemplates, PlainExport
  <2>4. ASSUME NEW f \in disk' PROVE \E i \in OwnTemplates : f = FileOf(imp.portal[i])
    <3>1. f \in Exported
      BY <1>1, <1>6, <2>3
    <3>2. PICK i \in DOMAIN store :
        /\ i \in OwnRows
        /\ ImportOpt.type = "adt" => f = [top |-> ImportOpt.site, dir |-> store[i].class, key |-> imp.clean[store[i].key], script |-> store[i].script]
        /\ ImportOpt.type # "adt" => f = [top |-> ImportOpt.site, dir |-> ImportOpt.site, key |-> imp.clean[store[i].erc], script |-> store[i].script]
      BY <1>3, <2>3, <3>1
    <3>3. imp.clean[store[i].key] = store[i].key /\ imp.clean[store[i].erc] = store[i].erc
      BY <1>0, <2>1, <2>3, <3>2 DEF PlainExport, Identifiers
    <3>4. store[i].group = ImportOpt.site
      BY <3>2 DEF OwnRows
    <3>5. CASE ImportOpt.type = "adt"
      BY <1>0, <2>3, <3>2, <3>3, <3>4, <3>5 DEF FileOf, FileKey
    <3>6. CASE ImportOpt.type # "adt"
      BY <1>0, <2>3, <3>2, <3>3, <3>4, <3>6 DEF FileOf, FileKey
    <3> QED BY <3>5, <3>6
  <2>5. \A f \in disk' : \E i \in OwnTemplates' : f = FileOf(imp.portal[i])'
    BY <2>1, <2>2, <2>4
  <2> QED BY <1>0, <2>5 DEF ImportBack
<1> QED BY <1>7, <1>8, <1>9, <1>10, <1>11 DEF ImportInv

\* Every step keeps the invariant.
LEMMA ImportKeeps == ImportInv /\ [ImportNext]_importVars => ImportInv'
<1> SUFFICES ASSUME ImportInv, [ImportNext]_importVars PROVE ImportInv'
  OBVIOUS
<1>1. CASE ImportStep
  BY <1>1, ExportImportKeeps, StartImportKeeps, TakeEntryKeeps, FindRemoteKeeps, UpsertKeeps, VerifyKeeps, ReportImportKeeps DEF ImportStep
<1>2. CASE UpsertFails
  BY <1>2, UpsertFailsKeeps
<1>3. CASE RunAgain
  BY <1>3, RunAgainKeeps
<1>4. CASE UNCHANGED importVars
  <2>1. PortalSame /\ Tried' = Tried /\ ImportTypes /\ Entries' = Entries /\ ImportOpt' = ImportOpt
    BY <1>4, SameEntries DEF importVars, searchVars, PortalSame, Tried, Now, Importing, ImportInv, ImportTypes, ImportOpt
  <2>2. ImportTypes' /\ ImportRows'
    BY <1>4, <2>1, TypesStay DEF importVars, searchVars, ImportTypes, ImportPlaces
  <2>3. ImportPlace'
    BY <1>4, <2>1 DEF importVars, searchVars, ImportPlace, Importing, ImportInv
  <2>4. ImportTarget'
    <3>1. \A e : /\ Find(store, e)' = Find(store, e) /\ (Missing(e) => Missing(e)')
                 /\ \A g : FindAdtIn(store, g, e.file)' = FindAdtIn(store, g, e.file)
      BY <2>1, SameCase DEF PortalSame, Missing, Global
    <3>2. UNCHANGED <<entry, target, home, blind, misled, runs, impPc, impFaults>> /\ ImportOpt' = ImportOpt
      BY <1>4, <2>1 DEF importVars, searchVars
    <3>3. Find(store, entry)' = Find(store, entry) /\ (Missing(entry) => Missing(entry)')
          /\ FindAdtIn(store, home, entry.file)' = FindAdtIn(store, home, entry.file)
      BY <3>1, <3>2
    <3>4. (TellsTruth => TellsTruth') /\ (TellsWrong => TellsWrong')
      BY <3>2, <3>3 DEF TellsTruth, TellsWrong, Misled, Global
    <3> QED BY <3>2, <3>4 DEF ImportTarget, ImportInv
  <2>5. ImportWritten'
    <3>1. /\ OneNameEach' = OneNameEach /\ (\A e : Find(store, e)' = Find(store, e)) /\ (\A e : Landed(e) => Landed(e)')
          /\ \A e, o : SameTemplate(e, o) => SameTemplate(e, o)'
      BY <2>1, PortalStays DEF PortalSame
    <3>2. \A e : Misled(e) => Misled(e)'
      BY <1>4 DEF importVars, searchVars, Misled
    <3>3. Misled(entry) => Misled(entry)'
      BY <1>4 DEF importVars, searchVars, Misled
    <3> QED BY <1>4, <2>1, <3>1, <3>2, <3>3 DEF importVars, searchVars, ImportWritten, ImportInv, Unbound
  <2>6. ImportBack'
    <3> SUFFICES ASSUME PlainExport' PROVE ImportBack'
      BY DEF ImportBack
    <3>1. PlainExport /\ OwnTemplates' = OwnTemplates
      BY <2>1, PlainStays DEF PortalSame, ImportTypes
    <3>2. \A o : FileKey(o)' = FileKey(o) /\ FileOf(o)' = FileOf(o)
      BY <2>1 DEF FileOf, FileKey
    <3> QED BY <1>4, <3>1, <3>2 DEF importVars, searchVars, ImportInv, ImportBack
  <2> QED BY <2>2, <2>3, <2>4, <2>5, <2>6 DEF ImportInv
<1> QED BY <1>1, <1>2, <1>3, <1>4 DEF ImportNext

-----------------------------------------------------------------------------
(* The invariant says what the properties say.                              *)
\* The templates that were made are as many as names of entries, but for unbound ones.
LEMMA CreatedOnce ==
  ASSUME ImportInv
  PROVE  Cardinality({i \in Len(imp.portal) + 1 .. Len(store) : store[i].erc \notin MisledNames})
           <= Cardinality(EntryNames) + Cardinality({i \in DOMAIN store : Unbound(store[i])})
<1> DEFINE K == Len(imp.portal)
           L == Len(store)
           New == {i \in K + 1 .. L : store[i].erc \notin MisledNames}
           Free == {i \in DOMAIN store : Unbound(store[i])}
           Bound == {i \in New : ~Unbound(store[i])}
           Told(i) == CHOOSE e \in Entries : store[i].erc = e.file.key /\ store[i].group = e.site /\ store[i].class = ClassOf(e)
           NameAt(i) == [site |-> Told(i).site, dir |-> Told(i).file.dir, key |-> Told(i).file.key]
<1>0. /\ WellMade(store) /\ K \in Nat /\ L \in Nat /\ K <= L /\ DOMAIN store = 1 .. L
      /\ IsFiniteSet(EntryNames)
  BY RowsNow, EntriesFinite DEF WellMade, ImportInv
<1>1. \A i \in Bound : Told(i) \in Entries /\ store[i].erc = Told(i).file.key /\ store[i].group = Told(i).site /\ store[i].class = ClassOf(Told(i))
  <2> SUFFICES ASSUME NEW i \in Bound
               PROVE  \E e \in Entries : store[i].erc = e.file.key /\ store[i].group = e.site /\ store[i].class = ClassOf(e)
    OBVIOUS
  <2> QED BY <1>0 DEF WellMade, NewRow
<1> HIDE DEF Told
<1>2. [i \in Bound |-> NameAt(i)] \in Injection(Bound, EntryNames)
  <2>1. \A i \in Bound : NameAt(i) \in EntryNames
    BY <1>1 DEF EntryNames
  <2>2. ASSUME NEW i \in Bound, NEW j \in Bound, NameAt(i) = NameAt(j) PROVE i = j
    <3>1. Told(i).site = Told(j).site /\ Told(i).file.dir = Told(j).file.dir /\ Told(i).file.key = Told(j).file.key
      BY <2>2
    <3>2. ClassOf(Told(i)) = ClassOf(Told(j))
      BY <3>1 DEF ClassOf, Widget
    <3>3. SameEntry(store[i], store[j])
      BY <1>1, <3>1, <3>2 DEF SameEntry
    <3> QED BY <1>0, <3>3 DEF WellMade
  <2> HIDE DEF NameAt, Bound
  <2> QED BY <2>1, <2>2 DEF Injection, IsInjective
<1> HIDE DEF NameAt
<1>3. IsFiniteSet(Bound) /\ Cardinality(Bound) <= Cardinality(EntryNames) /\ Cardinality(EntryNames) \in Nat
  <2> DEFINE named == [i \in Bound |-> NameAt(i)]
  <2>1. named \in Injection(Bound, EntryNames)
    BY <1>2
  <2> HIDE DEF Bound, named
  <2> QED BY <1>0, <2>1, FS_Injection, FS_CardinalityType
<1>4. IsFiniteSet(Free) /\ Cardinality(Free) \in Nat
  <2>1. IsFiniteSet(1 .. L) /\ Free \subseteq 1 .. L
    BY <1>0, FS_Interval
  <2> HIDE DEF Free
  <2> QED BY <2>1, FS_Subset, FS_CardinalityType
<1>5. New \subseteq Bound \cup Free
  BY <1>0
<1>6. IsFiniteSet(New)
  <2>1. K + 1 \in Int /\ L \in Int /\ New \subseteq K + 1 .. L
    BY <1>0
  <2> HIDE DEF K, L, New
  <2>2. IsFiniteSet(K + 1 .. L)
    BY <2>1, FS_Interval
  <2> QED BY <2>1, <2>2, FS_Subset
<1> HIDE DEF Bound, Free, New
<1>7. /\ IsFiniteSet(Bound \cup Free) /\ Cardinality(Bound \cup Free) = Cardinality(Bound) + Cardinality(Free) - Cardinality(Bound \cap Free)
      /\ Cardinality(Bound \cap Free) \in Nat /\ Cardinality(Bound) \in Nat
  <2>1. IsFiniteSet(Bound \cap Free)
    BY <1>3, <1>4, FS_Intersection
  <2> QED BY <1>3, <1>4, <2>1, FS_Union, FS_CardinalityType
<1>8. Cardinality(New) <= Cardinality(Bound \cup Free)
  BY <1>5, <1>7, FS_Subset
<1>9. Cardinality(Bound \cup Free) \in Nat /\ Cardinality(New) \in Nat
  BY <1>6, <1>7, FS_CardinalityType
<1> QED BY <1>3, <1>4, <1>7, <1>8, <1>9 DEF Free, New

\* The invariant says what the property says.
LEMMA ImportHolds == ImportInv => ImportIsFaithful
<1> SUFFICES ASSUME ImportInv PROVE ImportIsFaithful
  OBVIOUS
<1>0. WellMade(store) /\ ImportTypes /\ CaseTypes /\ Len(imp.portal) \in Nat /\ DOMAIN imp.portal = 1 .. Len(imp.portal)
  BY RowsNow, TheImport DEF ImportInv, ImportTypes, CaseTypes
<1>01. DOMAIN store = 1 .. Len(store)
  <2>1. store \in Seq(Template)
    BY <1>0 DEF ImportTypes
  <2>2. \A s \in Seq(Template) : DOMAIN s = 1 .. Len(s)
    OBVIOUS
  <2> QED BY <2>1, <2>2
<1>1. ImportLands
  <2> SUFFICES ASSUME impPc = "ok"
               PROVE  /\ processed = Entries /\ failures = {}
                      /\ ImportOpt.check => store = imp.portal
                      /\ OneNameEach => \A e \in processed :
                           \/ ImportOpt.check \/ Misled(e)
                           \/ \E t \in Range(store) : Unbound(t)
                           \/ \E other \in processed \ {e} : \/ Find(store, other) = Find(store, e)
                                                             \/ impFaults > 0 /\ other.file.key = e.file.key
                           \/ Find(store, e) # 0 /\ store[Find(store, e)].script = e.file.script
    BY DEF ImportLands
  <2>1. Tried = processed /\ processed = Entries /\ failures = {} /\ (ImportOpt.check => store = imp.portal)
    BY DEF ImportInv, ImportPlace, Tried, Now, Importing
  <2> QED BY <2>1 DEF ImportInv, ImportWritten, Landed, SameTemplate
<1>2. NothingImportedTwice
  <2>1. ASSUME NEW i \in DOMAIN imp.portal
        PROVE  \/ store[i] = imp.portal[i]
               \/ /\ \E e \in Entries : /\ store[i].script = e.file.script /\ Matches(imp.portal[i], e.file.key)
                                        /\ store[i].group \in {e.site, Global, "company"}
                  /\ store[i].class # imp.portal[i].class => impFaults > 0
    <3>1. OldRow(store[i], imp.portal[i])
      BY <1>0 DEF WellMade
    <3> QED BY <3>1 DEF OldRow, Changed
  <2> QED BY <2>1, CreatedOnce DEF NothingImportedTwice
<1>3. RoundTrips
  <2> DEFINE own == {i \in DOMAIN imp.portal : imp.portal[i].group = ImportOpt.site}
  <2> SUFFICES ASSUME impPc \in {"ok", "failed"}, ImportOpt.export, imp.files = {}, own # {}, impFaults = 0,
                      ImportOpt.structure = "", ImportOpt.widget = "", ImportOpt.site \in imp.sites,
                      \A i \in own :
                        /\ \A n \in Identifiers(imp.portal[i]) : imp.clean[n] = n
                        /\ ImportOpt.type = "adt" => imp.portal[i].class \in imp.classes
                        /\ \A j \in own \ {i} : Identifiers(imp.portal[i]) \cap Identifiers(imp.portal[j]) = {}
               PROVE  /\ failures = {} /\ Len(store) = Len(imp.portal)
                      /\ \A i \in DOMAIN store : store[i].script = imp.portal[i].script
    BY DEF RoundTrips
  <2>1. own = OwnTemplates
    BY DEF OwnTemplates
  <2> HIDE DEF own
  <2>2. PlainExport
    BY <2>1 DEF PlainExport
  <2>3. DOMAIN store = 1 .. Len(store)
    BY <1>01
  <2> QED BY <1>0, <2>2, <2>3 DEF ImportInv, ImportBack
<1> QED BY <1>1, <1>2, <1>3 DEF ImportIsFaithful

-----------------------------------------------------------------------------
(* Fragments: what their import keeps.                                      *)
\* What the variables of a fragment import hold.
FragmentTypes ==
  /\ frag \in FragmentCases
  /\ collections \in Seq([group : STRING, key : STRING \cup {"auto"}, name : STRING])
  /\ entries \in Seq([collection : Nat, key : STRING, name : STRING, body : STRING])
  /\ \A i \in DOMAIN entries : entries[i].collection \in 1 .. Len(collections)
  /\ Len(frag.collections) <= Len(collections) /\ Len(frag.entries) <= Len(entries)
  /\ DOMAIN projects \subseteq STRING
  /\ \A s \in DOMAIN projects : LocalFiles(projects[s]) /\ \A f \in projects[s] : f.collection # "auto" /\ f.body \in DOMAIN frag.stored
  /\ fragSite \in STRING /\ sitesLeft \subseteq STRING /\ collectionId \in Nat /\ fragmentFaults \in Nat
  /\ DOMAIN cache \subseteq 0 .. Len(collections)
  /\ \A k \in DOMAIN cache : \A t \in DOMAIN cache[k] :
        cache[k][t] \in (IF k = 0 THEN DOMAIN collections ELSE DOMAIN entries)
\* The portal has a key once in a site or a collection, but for those it made up.
KeysOnce ==
  /\ \A i, j \in DOMAIN collections : i # j /\ collections[i].key # "auto" =>
        collections[i].group # collections[j].group \/ collections[i].key # collections[j].key
  /\ \A i, j \in DOMAIN entries : i # j =>
        entries[i].collection # entries[j].collection \/ entries[i].key # entries[j].key

\* Where an import is; what it is done with has a result.
Sending == {"collection", "fragment", "jsonws"}
\* Every fragment of a site is left to do or has a result; the cache is empty at the start.
FragmentPlace ==
  /\ fragPc \in {"start", "off"} =>
       /\ FragmentPortal = <<frag.collections, frag.entries>> /\ projects = frag.local /\ cache = NoneRead
       /\ fragmentsLeft = {} /\ results = {} /\ reported = {} /\ zips = {}
  /\ fragmentsLeft \subseteq Project
  /\ \A r \in results : r.fragment \in Project
  /\ \A r \in reported : r.fragment \in ProjectOf(r.site)
  /\ \A z \in zips : z.fragment \in ProjectOf(z.site)
  /\ fragPc \in Sending => \A f \in Project \ fragmentsLeft : \E r \in results : r.fragment = f
  /\ fragPc = "jsonws" => fragmentsLeft = {}
  /\ fragPc \in Sending \cup {"site", "zip", "poll", "ok"} => \A s \in TargetSites :
       \/ s \in sitesLeft \/ (fragPc \notin {"site", "ok"} /\ s = fragSite)
       \/ \A f \in ProjectOf(s) : \E r \in reported : r.site = s /\ r.fragment = f
  /\ fragPc = "ok" => sitesLeft = {}
  /\ fragPc = "fragment" => collectionId \in 1 .. Len(collections)

\* Whose row a collection or an entry of the portal is, and since when.
OldCollection(i) == i <= Len(frag.collections)
\* And of an entry.
OldEntry(i) == i <= Len(frag.entries)
\* The collection an entry is in.
CollectionOf(i) == collections[entries[i].collection]
\* A collection is the one that was there, or one made for a local one.
CollectionRow(i) ==
  LET c == collections[i]
  IN  IF OldCollection(i)
      THEN /\ c.group = frag.collections[i].group /\ c.key = frag.collections[i].key
           /\ \/ c.name = frag.collections[i].name
              \/ \E f \in ProjectOf(c.group) : f.collection = c.key /\ f.title = c.name
      ELSE \E f \in ProjectOf(c.group) : c.key \in {f.collection, "auto"} /\ f.title = c.name
\* An entry was made or written by a fragment of its collection: of the one being done, if it is that one's.
CameFrom(i, f) ==
  /\ StandsFor(CollectionOf(i), CollectionOf(i).group, f) /\ f.slug = entries[i].key
  /\ fragPc = "fragment" /\ entries[i].collection = collectionId => f.collection = collectionAt
\* An entry keeps its place, and is as it was unless a fragment was written to it.
EntryRow(i) ==
  /\ OldEntry(i) => entries[i].collection = frag.entries[i].collection /\ entries[i].key = frag.entries[i].key
  /\ \/ OldEntry(i) /\ entries[i] = frag.entries[i]
     \/ \E f \in ProjectOf(CollectionOf(i).group) : CameFrom(i, f) /\ f.name = entries[i].name
\* What a token of an entry is in the cache.
TokenOf(i, t) ==
  \/ t = entries[i].key
  \/ OldEntry(i) /\ t = frag.token[frag.entries[i].name]
  \/ \E f \in ProjectOf(CollectionOf(i).group) : CameFrom(i, f) /\ t = frag.token[f.name]
\* The collection that a local one was found as: by its key, or by its name if the portal made up the key.
FoundAs(c, f) == c.group = fragSite /\ (c.key = f.collection \/ (c.key = "auto" /\ frag.token[c.name] = f.collection))
\* A fragment whose collection is still to be looked for.
ToFind(f) == f \in fragmentsLeft /\ (fragPc = "fragment" => f.collection # collectionAt)
\* What the cache tells is right: a collection as it was found, an entry by a token of it.
CacheKnows ==
  /\ fragPc \in {"collection", "fragment"} /\ 0 \in DOMAIN cache =>
       \A f \in fragmentsLeft : ToFind(f) /\ f.collection \in DOMAIN cache[0] =>
          cache[0][f.collection] \in 1 .. Len(collections) /\ FoundAs(collections[cache[0][f.collection]], f)
  /\ \A k \in DOMAIN cache \ {0} : \A t \in DOMAIN cache[k] :
       LET i == cache[k][t]
       IN  i \in DOMAIN entries /\ entries[i].collection = k /\ TokenOf(i, t)
\* What was imported stays.
FragmentLanded(s, f) == \E i \in DOMAIN entries : CollectionOf(i).group = s /\ CameFrom(i, f) /\ entries[i].body = f.body
\* A result without an error is of a fragment that landed.
FragmentImported(r, s) == r.error = "" => frag.stored[r.fragment.body] = r.fragment.body /\ FragmentLanded(s, r.fragment)
\* The collection that is being done stands for the local one.
RightCollection ==
  fragPc = "fragment" =>
    /\ collections[collectionId].group = fragSite /\ collections[collectionId].key \in {collectionAt, "auto"}
    /\ \A f \in Project : f.collection = collectionAt => StandsFor(collections[collectionId], fragSite, f)
\* What ties rows, cache and results to the local files.
FragmentNames ==
  /\ \A i \in DOMAIN collections : CollectionRow(i)
  /\ \A i \in DOMAIN entries : EntryRow(i)
  /\ CacheKnows /\ RightCollection
  /\ \A r \in results : FragmentImported(r, fragSite)
  /\ \A r \in reported : r.by = "jsonws" => FragmentImported(r, r.site)

\* An export that is imported again, without a fault, finds all as it is.
ExportAgain == /\ FragmentOpt.export /\ fragmentFaults = 0 /\ DOMAIN frag.local = {} /\ frag.jsonws
         /\ \A b \in DOMAIN frag.stored : frag.stored[b] = b
\* No two collections of a site share their title.
TitlesDiffer == \A s \in DOMAIN projects : \A f, g \in ProjectOf(s) : f.title = g.title => f.collection = g.collection
\* A fragment of the files is in the portal just as it is there.
BackIn(s, f) ==
  \E i \in DOMAIN entries : /\ CollectionOf(i) = [group |-> s, key |-> f.collection, name |-> f.title]
                           /\ entries[i].key = f.slug /\ entries[i].name = f.name /\ entries[i].body = f.body
\* Such an export finds everything in the portal and in the cache, and nothing fails.
FragmentsBack ==
  ExportAgain =>
    /\ FragmentPortal = <<frag.collections, frag.entries>>
    /\ \A s \in DOMAIN projects : \A f \in projects[s] : BackIn(s, f)
    /\ 0 \in DOMAIN cache => \A i \in DOMAIN collections : collections[i].group = fragSite => collections[i].key \in DOMAIN cache[0]
    /\ \A k \in DOMAIN cache \ {0} : \A i \in DOMAIN entries : entries[i].collection = k => entries[i].key \in DOMAIN cache[k]
    /\ \A r \in results : r.error = ""
    /\ \A r \in reported : r.error = "" \/ (FragmentOpt.transport = "deploy-zip" /\ ~TitlesDiffer)
    /\ fragPc \in {"zip", "poll"} => FragmentOpt.transport = "deploy-zip"

\* The inductive invariant of the import of fragments.
FragmentInv ==
  /\ FragmentTypes /\ KeysOnce /\ FragmentPlace /\ NoSecondImport
  /\ ~Ambiguous => FragmentNames /\ FragmentsBack
-----------------------------------------------------------------------------
\* The assumption on the cases.
LEMMA TheFragments ==
  ASSUME frag \in FragmentCases
  PROVE  FragmentCaseOK(frag)
BY FragmentAssumption

\* A local fragment is in a project, and what it is made of.
LEMMA SomeFragment ==
  ASSUME FragmentTypes, NEW s, NEW f \in ProjectOf(s)
  PROVE  /\ s \in DOMAIN projects /\ s \in STRING /\ f \in projects[s]
         /\ f \in [collection : STRING, title : STRING, slug : STRING, name : STRING, body : STRING]
         /\ f.collection # "auto" /\ f.body \in DOMAIN frag.stored /\ frag.stored[f.body] \in STRING
         /\ \A g \in ProjectOf(s) : f.collection = g.collection => f.title = g.title /\ (f.slug = g.slug => f = g)
<1>1. s \in DOMAIN projects /\ f \in projects[s]
  BY DEF ProjectOf, HasProject
<1>2. LocalFiles(projects[s]) /\ s \in STRING /\ f.collection # "auto" /\ f.body \in DOMAIN frag.stored
  BY <1>1 DEF FragmentTypes
<1>3. frag.stored[f.body] \in STRING
  BY <1>2, TheFragments DEF FragmentTypes, FragmentCaseOK
<1>4. ProjectOf(s) \subseteq projects[s]
  BY <1>1 DEF ProjectOf, HasProject
<1> QED BY <1>1, <1>2, <1>3, <1>4 DEF LocalFiles

\* What the names of a local fragment are not taken for.
LEMMA TokensApart ==
  ASSUME FragmentTypes, ~Ambiguous, NEW s, NEW f \in ProjectOf(s)
  PROVE  /\ \A g \in ProjectOf(s) : f.collection \in {g.collection, frag.token[g.title]} => f.collection = g.collection
         /\ \A i \in DOMAIN frag.collections :
              frag.collections[i].group = s /\ f.collection \in Tokens(frag.collections[i])
                => f.collection = frag.collections[i].key
         /\ \A g \in ProjectOf(s) :
              f.collection = g.collection /\ f.slug \in {g.slug, frag.token[g.name]} => f.slug = g.slug
         /\ \A i \in DOMAIN frag.entries :
              LET c == frag.collections[frag.entries[i].collection]
              IN  c.group = s /\ c.key = f.collection /\ f.slug \in Tokens(frag.entries[i]) => f.slug = frag.entries[i].key
<1> DEFINE row(g) == [site |-> s, collection |-> g.collection, title |-> g.title, key |-> g.slug, name |-> g.name]
           coll(g) == [group |-> s, key |-> g.collection, name |-> g.title]
<1>1. \A g \in ProjectOf(s) : row(g) \in LocalRows
  <2>1. s \in DOMAIN projects
    BY SomeFragment
  <2> QED BY <2>1 DEF LocalRows
<1>2. \A g \in ProjectOf(s) : coll(g) \in CollectionRows
  <2> TAKE g \in ProjectOf(s)
  <2>1. coll(g) = [group |-> row(g).site, key |-> row(g).collection, name |-> row(g).title]
    OBVIOUS
  <2> QED BY <1>1, <2>1 DEF CollectionRows
<1>3. \A c \in CollectionRows \cup Range(frag.collections) :
        s = c.group /\ f.collection # c.key => f.collection \notin Tokens(c)
  BY <1>1 DEF Ambiguous
<1>4. \A q \in LocalRows \cup PortalRows :
        <<s, f.collection>> = <<q.site, q.collection>> /\ f.slug # q.key => f.slug \notin Tokens(q)
  BY <1>1 DEF Ambiguous
<1>5. ASSUME NEW g \in ProjectOf(s), f.collection \in {g.collection, frag.token[g.title]}
      PROVE  f.collection = g.collection
  <2>1. Tokens(coll(g)) = {g.collection, frag.token[g.title]} /\ coll(g).group = s /\ coll(g).key = g.collection
    BY DEF Tokens
  <2>2. coll(g) \in CollectionRows
    BY <1>2
  <2> HIDE DEF coll
  <2> QED BY <1>3, <1>5, <2>1, <2>2
<1>6. ASSUME NEW i \in DOMAIN frag.collections, frag.collections[i].group = s, f.collection \in Tokens(frag.collections[i])
      PROVE  f.collection = frag.collections[i].key
  <2>1. frag.collections[i] \in Range(frag.collections)
    BY DEF Range
  <2> QED BY <1>3, <1>6, <2>1
<1>7. ASSUME NEW g \in ProjectOf(s), f.collection = g.collection, f.slug \in {g.slug, frag.token[g.name]}
      PROVE  f.slug = g.slug
  <2>1. Tokens(row(g)) = {g.slug, frag.token[g.name]} /\ row(g).site = s /\ row(g).collection = g.collection
        /\ row(g).key = g.slug
    BY DEF Tokens
  <2>2. row(g) \in LocalRows
    BY <1>1
  <2> HIDE DEF row
  <2> QED BY <1>4, <1>7, <2>1, <2>2
<1>8. ASSUME NEW i \in DOMAIN frag.entries, frag.collections[frag.entries[i].collection].group = s,
             frag.collections[frag.entries[i].collection].key = f.collection, f.slug \in Tokens(frag.entries[i])
      PROVE  f.slug = frag.entries[i].key
  <2> DEFINE q == [site |-> s, collection |-> f.collection, key |-> frag.entries[i].key, name |-> frag.entries[i].name]
  <2>1. frag.entries[i] \in Range(frag.entries)
    BY DEF Range
  <2>2. q \in PortalRows
    BY <1>8, <2>1 DEF PortalRows
  <2>3. Tokens(q) = Tokens(frag.entries[i])
    BY DEF Tokens
  <2> QED BY <1>4, <1>8, <2>2, <2>3
<1> QED BY <1>5, <1>6, <1>7, <1>8

\* The greatest of some indexes.
LEMMA GreatestIndex ==
  ASSUME NEW n \in Nat, NEW S \in SUBSET (1 .. n), S # {}
  PROVE  Max(S) \in S
<1> DEFINE D == {n - i : i \in S}
<1>1. D # {} /\ D \subseteq Nat
  <2>1. PICK i \in S : TRUE
    OBVIOUS
  <2>2. n - i \in D
    OBVIOUS
  <2>3. \A j \in S : n - j \in Nat
    OBVIOUS
  <2> QED BY <2>2, <2>3
<1>2. \E d \in D : \A e \in D : d <= e
  BY <1>1, LeastOf
<1>3. PICK d \in D : \A e \in D : d <= e
  BY <1>2
<1>4. PICK i \in S : d = n - i
  OBVIOUS
<1>5. \A j \in S : j <= i
  <2> TAKE j \in S
  <2>1. n - j \in D
    OBVIOUS
  <2> QED BY <1>3, <1>4, <2>1
<1> QED BY <1>5 DEF Max

\* What the search of a collection gives.
LEMMA IdsAre ==
  ASSUME NEW rows, NEW n \in Nat, NEW own \in SUBSET (1 .. n), NEW t \in DOMAIN IdsOf(rows, own)
  PROVE  IdsOf(rows, own)[t] \in own /\ t \in Tokens(rows[IdsOf(rows, own)[t]])
<1> DEFINE S == {i \in own : t \in Tokens(rows[i])}
<1>1. S # {} /\ S \in SUBSET (1 .. n)
  BY DEF IdsOf
<1>2. Max(S) \in S
  BY <1>1, GreatestIndex
<1>3. IdsOf(rows, own)[t] = Max(S)
  BY DEF IdsOf
<1> QED BY <1>2, <1>3

-----------------------------------------------------------------------------
(* What a step may do to the portal, and what stays true of its rows.       *)
\* What a step may do to the portal, and to what is being written.
CollectionsGrow ==
  /\ Len(collections) <= Len(collections')
  /\ \A i \in DOMAIN collections : /\ collections'[i].group = collections[i].group /\ collections'[i].key = collections[i].key
                                   /\ collections[i].key = "auto" => collections'[i] = collections[i]
\* Entries stay where they are, and may become more.
EntriesGrow ==
  /\ Len(entries) <= Len(entries')
  /\ \A i \in DOMAIN entries : entries'[i].collection = entries[i].collection /\ entries'[i].key = entries[i].key
\* A step that stays at the fragment, the site and the files.
SameFocus ==
  \/ fragPc' # "fragment"
  \/ fragPc = "fragment" /\ UNCHANGED <<collectionId, collectionAt>>
  \/ \A i \in DOMAIN entries : entries[i].collection = collectionId' =>
       \A f \in ProjectOf(CollectionOf(i).group) : StandsFor(CollectionOf(i), CollectionOf(i).group, f) => f.collection = collectionAt'
\* Rows are added or written over, never taken away.
PortalGrows ==
  /\ UNCHANGED <<frag, projects>> /\ CollectionsGrow /\ EntriesGrow /\ SameFocus
\* What is new in the portal comes from a local file.
NewNames ==
  /\ \A i \in DOMAIN collections : \/ collections'[i].name = collections[i].name
                                   \/ \E f \in ProjectOf(collections[i].group) :
                                        f.collection = collections[i].key /\ f.title = collections'[i].name
  /\ \A i \in DOMAIN collections' \ DOMAIN collections :
       \E f \in ProjectOf(collections'[i].group) : collections'[i].key \in {f.collection, "auto"} /\ f.title = collections'[i].name
  /\ \A i \in DOMAIN entries : \/ entries'[i] = entries[i]
                               \/ \E f \in ProjectOf(CollectionOf(i).group) : CameFrom(i, f)' /\ f.name = entries'[i].name
  /\ \A i \in DOMAIN entries' \ DOMAIN entries :
       \E f \in ProjectOf(CollectionOf(i)'.group) : CameFrom(i, f)' /\ f.name = entries'[i].name
\* What is written has a body of a local file, and only what is not done is written over.
NewBodies ==
  \A i \in DOMAIN entries : \A f \in ProjectOf(CollectionOf(i).group) :
    CameFrom(i, f) => entries'[i].body \in {entries[i].body, frag.stored[f.body]}

\* The rows of a sequence.
LEMMA SeqRows ==
  ASSUME NEW T, NEW s \in Seq(T)
  PROVE  DOMAIN s = 1 .. Len(s) /\ Len(s) \in Nat /\ \A i \in DOMAIN s : s[i] \in T
OBVIOUS

\* The rows of the portal.
LEMMA FragmentRows ==
  ASSUME FragmentTypes
  PROVE  /\ DOMAIN collections = 1 .. Len(collections) /\ Len(collections) \in Nat
         /\ DOMAIN entries = 1 .. Len(entries) /\ Len(entries) \in Nat
         /\ DOMAIN frag.collections = 1 .. Len(frag.collections) /\ Len(frag.collections) \in Nat
         /\ DOMAIN frag.entries = 1 .. Len(frag.entries) /\ Len(frag.entries) \in Nat
         /\ \A i \in DOMAIN frag.collections :
              frag.collections[i] \in [group : STRING, key : STRING, name : STRING] /\ frag.collections[i].key # "auto"
         /\ \A i \in DOMAIN frag.entries : frag.entries[i].collection \in DOMAIN frag.collections
         /\ \A i \in DOMAIN collections : collections[i] \in [group : STRING, key : STRING \cup {"auto"}, name : STRING]
         /\ \A i \in DOMAIN entries : /\ entries[i] \in [collection : Nat, key : STRING, name : STRING, body : STRING]
                                      /\ entries[i].collection \in DOMAIN collections
<1>1. FragmentCaseOK(frag)
  BY TheFragments DEF FragmentTypes
<1>2. /\ frag.collections \in Seq([group : STRING, key : STRING, name : STRING])
      /\ frag.entries \in Seq([collection : DOMAIN frag.collections, key : STRING, name : STRING, body : STRING])
      /\ \A i \in DOMAIN frag.collections : frag.collections[i].key # "auto"
  BY <1>1 DEF FragmentCaseOK, OnPortal
<1>3. /\ DOMAIN frag.collections = 1 .. Len(frag.collections) /\ Len(frag.collections) \in Nat
      /\ \A i \in DOMAIN frag.collections : frag.collections[i] \in [group : STRING, key : STRING, name : STRING]
  BY <1>2, SeqRows, Zenon
<1>4. /\ DOMAIN frag.entries = 1 .. Len(frag.entries) /\ Len(frag.entries) \in Nat
      /\ \A i \in DOMAIN frag.entries :
           frag.entries[i] \in [collection : DOMAIN frag.collections, key : STRING, name : STRING, body : STRING]
  BY <1>2, SeqRows, Zenon
<1>5. /\ DOMAIN collections = 1 .. Len(collections) /\ Len(collections) \in Nat
      /\ \A i \in DOMAIN collections : collections[i] \in [group : STRING, key : STRING \cup {"auto"}, name : STRING]
  BY SeqRows, Zenon DEF FragmentTypes
<1>6. /\ DOMAIN entries = 1 .. Len(entries) /\ Len(entries) \in Nat
      /\ \A i \in DOMAIN entries : entries[i] \in [collection : Nat, key : STRING, name : STRING, body : STRING]
  BY SeqRows, Zenon DEF FragmentTypes
<1>7. \A i \in DOMAIN entries : entries[i].collection \in DOMAIN collections
  BY <1>5 DEF FragmentTypes
<1>8. \A i \in DOMAIN frag.entries : frag.entries[i].collection \in DOMAIN frag.collections
  BY <1>4
<1> QED BY <1>2, <1>3, <1>4, <1>5, <1>6, <1>7, <1>8

\* The files decide which fragments a site has.
LEMMA SameProjects ==
  ASSUME UNCHANGED <<frag, projects>>
  PROVE  /\ \A s : ProjectOf(s)' = ProjectOf(s)
         /\ Ambiguous' = Ambiguous
<1>1. \A s : ProjectOf(s)' = ProjectOf(s)
  BY DEF ProjectOf, HasProject, FragmentOpt
<1>2. LocalRows' = LocalRows
  BY <1>1 DEF LocalRows
<1>3. PortalRows' = PortalRows
  BY DEF PortalRows
<1>4. CollectionRows' = CollectionRows
  BY <1>2 DEF CollectionRows
<1>5. \A c : Tokens(c)' = Tokens(c)
  BY DEF Tokens
<1> QED BY <1>1, <1>2, <1>3, <1>4, <1>5 DEF Ambiguous

\* Who wrote an entry is not forgotten.
LEMMA ByStays ==
  ASSUME FragmentTypes, PortalGrows, NEW i \in DOMAIN entries
  PROVE  /\ i \in DOMAIN entries' => CollectionOf(i)'.group = CollectionOf(i).group
         /\ \A s, f : StandsFor(CollectionOf(i), s, f) <=> StandsFor(CollectionOf(i)', s, f)
         /\ \A f \in ProjectOf(CollectionOf(i).group) : CameFrom(i, f) => CameFrom(i, f)'
<1> DEFINE c == entries[i].collection
<1>1. c \in DOMAIN collections /\ entries'[i].collection = c /\ entries'[i].key = entries[i].key
  BY FragmentRows DEF PortalGrows, EntriesGrow
<1>2. /\ collections'[c].group = collections[c].group /\ collections'[c].key = collections[c].key
      /\ collections[c].key = "auto" => collections'[c] = collections[c]
  BY <1>1 DEF PortalGrows, CollectionsGrow
<1>3. CollectionOf(i)' = collections'[c] /\ CollectionOf(i) = collections[c]
  BY <1>1 DEF CollectionOf
<1>4. \A s, f : StandsFor(CollectionOf(i), s, f) <=> StandsFor(CollectionOf(i)', s, f)
  BY <1>2, <1>3 DEF StandsFor
<1>5. ASSUME NEW f \in ProjectOf(CollectionOf(i).group), CameFrom(i, f)
      PROVE  CameFrom(i, f)'
  <2>1. StandsFor(CollectionOf(i)', CollectionOf(i)'.group, f) /\ f.slug = entries'[i].key
    BY <1>1, <1>2, <1>3, <1>4, <1>5 DEF CameFrom
  <2>2. ASSUME fragPc' = "fragment", entries'[i].collection = collectionId'
        PROVE  f.collection = collectionAt'
    BY <1>1, <1>5, <2>2 DEF PortalGrows, SameFocus, CameFrom
  <2> QED BY <2>1, <2>2 DEF CameFrom
<1> QED BY <1>2, <1>3, <1>4, <1>5

\* Rows stay whose they are.
LEMMA RowsKept ==
  ASSUME FragmentTypes, FragmentTypes', FragmentNames, PortalGrows, NewNames, NewBodies
  PROVE  /\ \A i \in DOMAIN collections' : CollectionRow(i)'
         /\ \A i \in DOMAIN entries' : EntryRow(i)'
         /\ \A i \in DOMAIN entries : \A t : TokenOf(i, t) => TokenOf(i, t)'
         /\ \A s, f : f \in ProjectOf(s) /\ frag.stored[f.body] = f.body /\ FragmentLanded(s, f) => FragmentLanded(s, f)'
<1>1. /\ frag' = frag /\ \A s : ProjectOf(s)' = ProjectOf(s)
  BY SameProjects DEF PortalGrows
<1>2. DOMAIN entries \subseteq DOMAIN entries' /\ DOMAIN collections \subseteq DOMAIN collections'
  BY FragmentRows DEF PortalGrows, EntriesGrow, CollectionsGrow, FragmentTypes
<1>3. ASSUME NEW i \in DOMAIN collections'
      PROVE  CollectionRow(i)'
  <2>1. CASE i \notin DOMAIN collections
    <3>1. ~OldCollection(i) /\ ~OldCollection(i)'
      BY <1>1, <2>1, FragmentRows, <1>3 DEF OldCollection, FragmentTypes
    <3> QED BY <1>1, <2>1, <3>1 DEF CollectionRow, NewNames
  <2>2. CASE i \in DOMAIN collections
    <3>1. CollectionRow(i) /\ OldCollection(i)' = OldCollection(i)
      BY <1>1, <2>2 DEF FragmentNames, OldCollection
    <3>2. /\ collections'[i].group = collections[i].group /\ collections'[i].key = collections[i].key
          /\ collections[i].key = "auto" => collections'[i] = collections[i]
          /\ \/ collections'[i].name = collections[i].name
             \/ \E f \in ProjectOf(collections[i].group) : f.collection = collections[i].key /\ f.title = collections'[i].name
      BY <2>2 DEF PortalGrows, CollectionsGrow, NewNames
    <3>3. CASE OldCollection(i)
      BY <1>1, <3>1, <3>2, <3>3 DEF CollectionRow
    <3>4. CASE ~OldCollection(i)
      BY <1>1, <3>1, <3>2, <3>4 DEF CollectionRow
    <3> QED BY <3>3, <3>4
  <2> QED BY <2>1, <2>2
<1>4. ASSUME NEW i \in DOMAIN entries'
      PROVE  EntryRow(i)'
  <2>1. CASE i \notin DOMAIN entries
    <3>1. ~OldEntry(i)'
      BY <1>1, <2>1, FragmentRows, <1>4 DEF OldEntry, FragmentTypes
    <3> QED BY <1>1, <2>1, <3>1 DEF EntryRow, NewNames
  <2>2. CASE i \in DOMAIN entries
    <3>1. EntryRow(i) /\ OldEntry(i)' = OldEntry(i)
      BY <1>1, <2>2 DEF FragmentNames, OldEntry
    <3>2. entries'[i].collection = entries[i].collection /\ entries'[i].key = entries[i].key
      BY <2>2 DEF PortalGrows, EntriesGrow
    <3>3. CollectionOf(i)'.group = CollectionOf(i).group
      BY <1>2, <2>2, ByStays
    <3>4. CASE entries'[i] = entries[i]
      <4>1. CASE OldEntry(i) /\ entries[i] = frag.entries[i]
        BY <1>1, <3>1, <3>2, <3>4, <4>1 DEF EntryRow
      <4>2. CASE \E f \in ProjectOf(CollectionOf(i).group) : CameFrom(i, f) /\ f.name = entries[i].name
        BY <1>1, <2>2, <3>1, <3>2, <3>3, <3>4, <4>2, ByStays DEF EntryRow
      <4> QED BY <3>1, <4>1, <4>2 DEF EntryRow
    <3>5. CASE \E f \in ProjectOf(CollectionOf(i).group) : CameFrom(i, f)' /\ f.name = entries'[i].name
      BY <1>1, <3>1, <3>2, <3>3, <3>5 DEF EntryRow
    <3> QED BY <2>2, <3>4, <3>5 DEF NewNames
  <2> QED BY <2>1, <2>2
<1>5. ASSUME NEW i \in DOMAIN entries, NEW t, TokenOf(i, t)
      PROVE  TokenOf(i, t)'
  <2>1. OldEntry(i)' = OldEntry(i) /\ entries'[i].key = entries[i].key /\ CollectionOf(i)'.group = CollectionOf(i).group
    BY <1>1, <1>2, ByStays DEF OldEntry, PortalGrows, EntriesGrow
  <2>2. CASE \E f \in ProjectOf(CollectionOf(i).group) : CameFrom(i, f) /\ t = frag.token[f.name]
    BY <1>1, <2>1, <2>2, ByStays DEF TokenOf
  <2> QED BY <1>1, <1>5, <2>1, <2>2 DEF TokenOf
<1>6. ASSUME NEW s, NEW f \in ProjectOf(s), frag.stored[f.body] = f.body, FragmentLanded(s, f)
      PROVE  FragmentLanded(s, f)'
  <2>1. PICK i \in DOMAIN entries : CollectionOf(i).group = s /\ CameFrom(i, f) /\ entries[i].body = f.body
    BY <1>6 DEF FragmentLanded
  <2>2. i \in DOMAIN entries' /\ CollectionOf(i)'.group = s /\ CameFrom(i, f)'
    BY <1>2, <2>1, ByStays
  <2>3. entries'[i].body = f.body
    BY <1>6, <2>1 DEF NewBodies
  <2> QED BY <2>2, <2>3 DEF FragmentLanded
<1> QED BY <1>3, <1>4, <1>5, <1>6

\* What reading rows adds to the cache.
LEMMA Knowing ==
  ASSUME FragmentTypes, NEW ids, NEW t
  PROVE  /\ t \in DOMAIN ids => Known(ids, t) = ids[t]
         /\ t \notin DOMAIN ids => Known(ids, t) = 0
BY DEF Known

\* The collection that a local one is found as is its own.
LEMMA FoundCollection ==
  ASSUME FragmentTypes, FragmentPlace, ~Ambiguous, FragmentNames, fragPc \in {"collection", "fragment"},
         NEW f \in fragmentsLeft, ToFind(f), f.collection \in DOMAIN CollectionIds
  PROVE  CollectionIds[f.collection] \in DOMAIN collections /\ FoundAs(collections[CollectionIds[f.collection]], f)
<1>1. f \in ProjectOf(fragSite)
  BY DEF FragmentPlace, Project
<1>2. CASE 0 \in DOMAIN cache
  BY <1>2, FragmentRows DEF CollectionIds, FragmentNames, CacheKnows
<1>3. CASE 0 \notin DOMAIN cache
  <2> DEFINE own == {i \in DOMAIN collections : collections[i].group = fragSite}
             id == CollectionIds[f.collection]
  <2>1. CollectionIds = IdsOf(collections, own)
    BY <1>3 DEF CollectionIds
  <2>2. Len(collections) \in Nat /\ own \in SUBSET (1 .. Len(collections)) /\ f.collection \in DOMAIN IdsOf(collections, own)
    BY <2>1, FragmentRows
  <2>3. id \in own /\ f.collection \in Tokens(collections[id])
    <3> HIDE DEF own
    <3>1. IdsOf(collections, own)[f.collection] \in own /\ f.collection \in Tokens(collections[IdsOf(collections, own)[f.collection]])
      BY <2>2, IdsAre
    <3> QED BY <2>1, <3>1
  <2> HIDE DEF id
  <2>4. id \in DOMAIN collections /\ collections[id].group = fragSite
        /\ (f.collection = collections[id].key \/ f.collection = frag.token[collections[id].name])
    BY <2>3 DEF Tokens
  <2>5. CASE f.collection = frag.token[collections[id].name]
    <3>1. CollectionRow(id)
      BY <2>4 DEF FragmentNames
    <3>2. ASSUME NEW g \in ProjectOf(fragSite), g.title = collections[id].name
          PROVE  f.collection = g.collection
      BY <1>1, <2>5, <3>2, TokensApart
    <3>3. CASE OldCollection(id)
      <4>1. id \in DOMAIN frag.collections
        BY <2>4, <3>3, FragmentRows DEF OldCollection
      <4>2. CASE collections[id].name = frag.collections[id].name
        <5>1. frag.collections[id].group = fragSite /\ f.collection \in Tokens(frag.collections[id])
              /\ frag.collections[id].key = collections[id].key
          BY <2>4, <2>5, <3>1, <3>3, <4>2 DEF CollectionRow, Tokens
        <5>2. f.collection = frag.collections[id].key
          BY <1>1, <4>1, <5>1, TokensApart
        <5> QED BY <2>4, <5>1, <5>2 DEF FoundAs, id
      <4>3. CASE \E g \in ProjectOf(fragSite) : g.collection = collections[id].key /\ g.title = collections[id].name
        BY <2>4, <3>2, <4>3 DEF FoundAs, id
      <4> QED BY <2>4, <3>1, <3>3, <4>2, <4>3 DEF CollectionRow
    <3>4. CASE ~OldCollection(id)
      BY <2>4, <2>5, <3>1, <3>2, <3>4 DEF CollectionRow, FoundAs, id
    <3> QED BY <3>3, <3>4
  <2> QED BY <2>4, <2>5 DEF FoundAs, id
<1> QED BY <1>2, <1>3

\* An entry that a token of the collection being done is in the cache.
LEMMA KnownEntry ==
  ASSUME FragmentTypes, FragmentPlace, FragmentNames, fragPc = "fragment", NEW t \in DOMAIN EntryIds
  PROVE  /\ EntryIds[t] \in DOMAIN entries /\ entries[EntryIds[t]].collection = collectionId
         /\ TokenOf(EntryIds[t], t)
<1>1. collectionId # 0
  BY FragmentRows DEF FragmentPlace
<1>2. CASE collectionId \in DOMAIN cache
  BY <1>1, <1>2 DEF EntryIds, FragmentNames, CacheKnows
<1>3. CASE collectionId \notin DOMAIN cache
  <2> DEFINE own == {i \in DOMAIN entries : entries[i].collection = collectionId}
             id == EntryIds[t]
  <2>1. EntryIds = IdsOf(entries, own)
    BY <1>3 DEF EntryIds
  <2>2. Len(entries) \in Nat /\ own \in SUBSET (1 .. Len(entries)) /\ t \in DOMAIN IdsOf(entries, own)
    BY <2>1, FragmentRows
  <2>3. id \in own /\ t \in Tokens(entries[id])
    <3> HIDE DEF own
    <3>1. IdsOf(entries, own)[t] \in own /\ t \in Tokens(entries[IdsOf(entries, own)[t]])
      BY <2>2, IdsAre
    <3> QED BY <2>1, <3>1
  <2> HIDE DEF id
  <2>4. id \in DOMAIN entries /\ entries[id].collection = collectionId
        /\ (t = entries[id].key \/ t = frag.token[entries[id].name])
    BY <2>3 DEF Tokens
  <2>5. EntryRow(id)
    BY <2>4 DEF FragmentNames
  <2>6. TokenOf(id, t)
    BY <2>4, <2>5 DEF EntryRow, TokenOf
  <2> QED BY <2>4, <2>6 DEF id
<1> QED BY <1>2, <1>3

\* The entry that a fragment is written over is its own, and no other one's.
LEMMA OwnEntry ==
  ASSUME FragmentTypes, FragmentPlace, ~Ambiguous, FragmentNames, fragPc = "fragment",
         NEW f \in fragmentsLeft, f.collection = collectionAt,
         NEW id \in DOMAIN entries, entries[id].collection = collectionId, TokenOf(id, f.slug)
  PROVE  /\ entries[id].key = f.slug /\ CollectionOf(id).group = fragSite
         /\ \A g \in ProjectOf(fragSite) : CameFrom(id, g) => g = f
<1>1. f \in ProjectOf(fragSite)
  BY DEF FragmentPlace, Project
<1>2. CollectionOf(id) = collections[collectionId] /\ CollectionOf(id).group = fragSite
      /\ CollectionOf(id).key \in {collectionAt, "auto"} /\ collectionId \in DOMAIN collections
  BY FragmentRows DEF CollectionOf, FragmentNames, RightCollection
<1>3. \A g \in ProjectOf(fragSite) : CameFrom(id, g) => g.collection = f.collection /\ g.slug = entries[id].key
  BY DEF CameFrom
<1>4. entries[id].key = f.slug
  <2>1. CASE OldEntry(id) /\ f.slug = frag.token[frag.entries[id].name]
    <3>1. id \in DOMAIN frag.entries
      BY <2>1, FragmentRows DEF OldEntry
    <3>2. /\ frag.entries[id].collection = collectionId /\ frag.entries[id].key = entries[id].key
          /\ collectionId \in DOMAIN frag.collections
      BY <2>1, <3>1, FragmentRows DEF FragmentNames, EntryRow
    <3>3. /\ frag.collections[collectionId].group = fragSite
          /\ frag.collections[collectionId].key = CollectionOf(id).key
      <4>1. CollectionRow(collectionId)
        BY <1>2 DEF FragmentNames
      <4>2. OldCollection(collectionId)
        BY <3>2, FragmentRows DEF OldCollection
      <4> QED BY <1>2, <4>1, <4>2 DEF CollectionRow
    <3>4. frag.collections[collectionId].key = f.collection
      BY <1>2, <3>2, <3>3, FragmentRows
    <3>5. f.slug \in Tokens(frag.entries[id])
      BY <2>1 DEF Tokens
    <3> QED BY <1>1, <3>1, <3>2, <3>3, <3>4, <3>5, TokensApart
  <2>2. CASE \E g \in ProjectOf(CollectionOf(id).group) : CameFrom(id, g) /\ f.slug = frag.token[g.name]
    <3>1. PICK g \in ProjectOf(fragSite) : CameFrom(id, g) /\ f.slug = frag.token[g.name]
      BY <1>2, <2>2
    <3>2. g.collection = f.collection /\ g.slug = entries[id].key
      BY <1>3, <3>1
    <3> QED BY <1>1, <3>1, <3>2, TokensApart
  <2> QED BY <2>1, <2>2 DEF TokenOf
<1>5. ASSUME NEW g \in ProjectOf(fragSite), CameFrom(id, g)
      PROVE  g = f
  BY <1>1, <1>3, <1>4, <1>5, SomeFragment
<1> QED BY <1>2, <1>4, <1>5

\* What a step keeps of names and results when it stays with the rows of the portal.
LEMMA NamesKept ==
  ASSUME FragmentTypes, FragmentTypes', FragmentPlace, FragmentNames, PortalGrows, NewNames, NewBodies, CacheKnows', RightCollection',
         \A r \in results' : (r \in results /\ fragSite' = fragSite) \/ FragmentImported(r, fragSite)',
         \A r \in reported' : r \in reported \/ (r.by = "jsonws" => FragmentImported(r, r.site)')
  PROVE  FragmentNames'
<1>1. /\ frag' = frag /\ \A s : ProjectOf(s)' = ProjectOf(s)
  BY SameProjects DEF PortalGrows
<1>2. \A r, s : r.fragment \in ProjectOf(s) /\ FragmentImported(r, s) => FragmentImported(r, s)'
  BY <1>1, RowsKept DEF FragmentImported
<1>3. ASSUME NEW r \in results'
      PROVE  FragmentImported(r, fragSite)'
  <2>1. CASE r \in results /\ fragSite' = fragSite
    <3>1. FragmentImported(r, fragSite) /\ r.fragment \in ProjectOf(fragSite)
      BY <2>1 DEF FragmentNames, FragmentPlace, Project
    <3>2. fragSite' = fragSite
      BY <2>1
    <3>3. FragmentImported(r, fragSite)' <=> (r.error = "" => frag.stored[r.fragment.body] = r.fragment.body /\ FragmentLanded(fragSite, r.fragment)')
      BY <1>1, <3>2 DEF FragmentImported, FragmentLanded
    <3> QED BY <1>1, <3>1, <3>3, RowsKept DEF FragmentImported
  <2> QED BY <2>1, <1>3
<1>4. ASSUME NEW r \in reported', r.by = "jsonws"
      PROVE  FragmentImported(r, r.site)'
  <2>1. CASE r \in reported
    <3>1. FragmentImported(r, r.site) /\ r.fragment \in ProjectOf(r.site)
      BY <1>4, <2>1 DEF FragmentNames, FragmentPlace
    <3> QED BY <1>2, <3>1
  <2> QED BY <1>4, <2>1
<1> QED BY <1>3, <1>4, RowsKept DEF FragmentNames

-----------------------------------------------------------------------------
(* Collections and fragments that are made, renamed and written over.       *)
\* A collection of the portal.
CollectionType == [group : STRING, key : STRING \cup {"auto"}, name : STRING]
\* A fragment of the portal.
EntryType == [collection : Nat, key : STRING, name : STRING, body : STRING]

\* A sequence with one more row.
LEMMA OneMore ==
  ASSUME NEW T, NEW s \in Seq(T), NEW x \in T
  PROVE  /\ Append(s, x) \in Seq(T) /\ Len(Append(s, x)) = Len(s) + 1
         /\ DOMAIN Append(s, x) = DOMAIN s \cup {Len(s) + 1} /\ DOMAIN s = 1 .. Len(s)
         /\ Append(s, x)[Len(s) + 1] = x /\ \A i \in DOMAIN s : Append(s, x)[i] = s[i]
<1>1. Append(s, x) \in Seq(T) /\ Len(Append(s, x)) = Len(s) + 1 /\ DOMAIN s = 1 .. Len(s) /\ Len(s) \in Nat
  OBVIOUS
<1>2. DOMAIN Append(s, x) = 1 .. (Len(s) + 1)
  OBVIOUS
<1>3. DOMAIN Append(s, x) = DOMAIN s \cup {Len(s) + 1}
  BY <1>1, <1>2
<1> QED BY <1>1, <1>3

\* A collection is renamed, or fragments are written over.
LEMMA Renaming ==
  ASSUME FragmentTypes, NEW id \in Nat, NEW f, f.title \in STRING
  PROVE  /\ Renamed(f, id) \in Seq(CollectionType) /\ Len(Renamed(f, id)) = Len(collections)
         /\ DOMAIN Renamed(f, id) = DOMAIN collections
         /\ \A i \in DOMAIN collections : /\ Renamed(f, id)[i].group = collections[i].group
                                          /\ Renamed(f, id)[i].key = collections[i].key
                                          /\ Renamed(f, id)[i].name = IF i = id THEN f.title ELSE collections[i].name
                                          /\ i # id => Renamed(f, id)[i] = collections[i]
<1> DEFINE n == Len(collections)
<1>1. DOMAIN collections = 1 .. n /\ n \in Nat /\ \A i \in DOMAIN collections : collections[i] \in CollectionType
  BY FragmentRows DEF CollectionType
<1>2. Renamed(f, id) = [i \in DOMAIN collections |-> IF i = id THEN [collections[i] EXCEPT !.name = f.title] ELSE collections[i]]
  BY DEF Renamed
<1>3. \A i \in DOMAIN collections : [collections[i] EXCEPT !.name = f.title] \in CollectionType
  BY <1>1 DEF CollectionType
<1>4. Renamed(f, id) \in [1 .. n -> CollectionType]
  BY <1>1, <1>2, <1>3
<1>5. Renamed(f, id) \in Seq(CollectionType) /\ Len(Renamed(f, id)) = n /\ DOMAIN Renamed(f, id) = 1 .. n
  BY <1>1, <1>4
<1>6. \A i \in DOMAIN collections : /\ [collections[i] EXCEPT !.name = f.title].group = collections[i].group
                                    /\ [collections[i] EXCEPT !.name = f.title].key = collections[i].key
                                    /\ [collections[i] EXCEPT !.name = f.title].name = f.title
  BY <1>1 DEF CollectionType
<1> QED BY <1>1, <1>2, <1>5, <1>6

\* A fragment is written over.
LEMMA Overwriting ==
  ASSUME FragmentTypes, NEW id \in Nat, NEW f, f.name \in STRING, frag.stored[f.body] \in STRING
  PROVE  /\ Overwritten(id, f) \in Seq(EntryType) /\ Len(Overwritten(id, f)) = Len(entries)
         /\ DOMAIN Overwritten(id, f) = DOMAIN entries
         /\ \A i \in DOMAIN entries : /\ Overwritten(id, f)[i].collection = entries[i].collection
                                      /\ Overwritten(id, f)[i].key = entries[i].key
                                      /\ Overwritten(id, f)[i].name = IF i = id THEN f.name ELSE entries[i].name
                                      /\ Overwritten(id, f)[i].body = IF i = id THEN frag.stored[f.body] ELSE entries[i].body
                                      /\ i # id => Overwritten(id, f)[i] = entries[i]
<1> DEFINE n == Len(entries)
           new(i) == [entries[i] EXCEPT !.name = f.name, !.body = frag.stored[f.body]]
<1>1. DOMAIN entries = 1 .. n /\ n \in Nat /\ \A i \in DOMAIN entries : entries[i] \in EntryType
  BY FragmentRows DEF EntryType
<1>2. Overwritten(id, f) = [i \in DOMAIN entries |-> IF i = id THEN new(i) ELSE entries[i]]
  BY <1>1 DEF Overwritten, EntryType
<1>3. \A i \in DOMAIN entries : /\ new(i) \in EntryType /\ new(i).collection = entries[i].collection /\ new(i).key = entries[i].key
                                /\ new(i).name = f.name /\ new(i).body = frag.stored[f.body]
  BY <1>1 DEF EntryType
<1> HIDE DEF new
<1>4. Overwritten(id, f) \in [1 .. n -> EntryType]
  BY <1>1, <1>2, <1>3
<1>5. Overwritten(id, f) \in Seq(EntryType) /\ Len(Overwritten(id, f)) = n /\ DOMAIN Overwritten(id, f) = 1 .. n
  BY <1>1, <1>4
<1> QED BY <1>1, <1>2, <1>3, <1>5

\* Collections are made under the key of a fragment's collection, unless that is taken, and without a key.
Makes(s, f) ==
  LET row == [group |-> s, key |-> f.collection, name |-> f.title]
      taken == \E c \in Range(collections) : c.group = s /\ c.key = f.collection
  IN  \/ collections' = collections
      \/ ~taken /\ collections' = Append(collections, row)
      \/ collections' = Append(collections, [row EXCEPT !.key = "auto"])
      \/ ~taken /\ collections' = Append(Append(collections, row), [row EXCEPT !.key = "auto"])
\* What making a collection gives.
LEMMA Making ==
  ASSUME FragmentTypes, KeysOnce, NEW s, NEW f \in ProjectOf(s), Makes(s, f)
  PROVE  /\ collections' \in Seq(CollectionType) /\ Len(collections) <= Len(collections')
         /\ \A i \in DOMAIN collections : i \in DOMAIN collections' /\ collections'[i] = collections[i]
         /\ \A i \in DOMAIN collections' \ DOMAIN collections :
              /\ collections'[i].group = s /\ collections'[i].name = f.title /\ collections'[i].key \in {f.collection, "auto"}
         /\ \A i, j \in DOMAIN collections' : i # j /\ collections'[i].key # "auto" =>
              collections'[i].group # collections'[j].group \/ collections'[i].key # collections'[j].key
<1> DEFINE row == [group |-> s, key |-> f.collection, name |-> f.title]
           auto == [row EXCEPT !.key = "auto"]
           taken == \E c \in Range(collections) : c.group = s /\ c.key = f.collection
           n == Len(collections)
<1>1. /\ row \in CollectionType /\ auto \in CollectionType /\ f.collection # "auto"
      /\ row.group = s /\ row.key = f.collection /\ row.name = f.title
      /\ auto.group = s /\ auto.key = "auto" /\ auto.name = f.title
  BY SomeFragment DEF CollectionType
<1>2. collections \in Seq(CollectionType) /\ DOMAIN collections = 1 .. n /\ n \in Nat
  BY FragmentRows DEF FragmentTypes, CollectionType
<1>3. ~taken => \A i \in DOMAIN collections : collections[i].group # s \/ collections[i].key # f.collection
  BY DEF Range
<1>4. \/ collections' = collections
      \/ ~taken /\ collections' = Append(collections, row)
      \/ collections' = Append(collections, auto)
      \/ ~taken /\ collections' = Append(Append(collections, row), auto)
  BY DEF Makes
<1> HIDE DEF row, auto, taken
<1>5. \A i, j \in DOMAIN collections : i # j /\ collections[i].key # "auto" =>
        collections[i].group # collections[j].group \/ collections[i].key # collections[j].key
  BY DEF KeysOnce
<1>6. CASE collections' = collections
  BY <1>2, <1>5, <1>6
<1>7. CASE ~taken /\ collections' = Append(collections, row)
  <2>1. /\ collections' \in Seq(CollectionType) /\ Len(collections') = n + 1 /\ DOMAIN collections' = DOMAIN collections \cup {n + 1}
        /\ collections'[n + 1] = row /\ \A i \in DOMAIN collections : collections'[i] = collections[i]
    BY <1>1, <1>2, <1>7, OneMore
  <2> QED BY <1>1, <1>2, <1>3, <1>5, <1>7, <2>1
<1>8. CASE collections' = Append(collections, auto)
  <2>1. /\ collections' \in Seq(CollectionType) /\ Len(collections') = n + 1 /\ DOMAIN collections' = DOMAIN collections \cup {n + 1}
        /\ collections'[n + 1] = auto /\ \A i \in DOMAIN collections : collections'[i] = collections[i]
    BY <1>1, <1>2, <1>8, OneMore
  <2> QED BY <1>1, <1>2, <1>5, <2>1
<1>9. CASE ~taken /\ collections' = Append(Append(collections, row), auto)
  <2> DEFINE one == Append(collections, row)
  <2>1. /\ one \in Seq(CollectionType) /\ Len(one) = n + 1 /\ DOMAIN one = DOMAIN collections \cup {n + 1}
        /\ one[n + 1] = row /\ \A i \in DOMAIN collections : one[i] = collections[i]
    BY <1>1, <1>2, OneMore
  <2>2. collections' = Append(one, auto)
    BY <1>9
  <2> HIDE DEF one
  <2>3. /\ collections' \in Seq(CollectionType) /\ Len(collections') = n + 2 /\ DOMAIN collections' = DOMAIN one \cup {n + 2}
        /\ collections'[n + 2] = auto /\ \A i \in DOMAIN one : collections'[i] = one[i]
    BY <1>1, <1>2, <2>1, <2>2, OneMore
  <2> QED BY <1>1, <1>2, <1>3, <1>5, <1>9, <2>1, <2>3
<1> QED BY <1>4, <1>6, <1>7, <1>8, <1>9

\* What the cache holds after rows were read.
LEMMA CachesType ==
  ASSUME FragmentTypes
  PROVE  /\ \A t \in DOMAIN CollectionIds : CollectionIds[t] \in DOMAIN collections
         /\ \A t \in DOMAIN EntryIds : EntryIds[t] \in DOMAIN entries \/ collectionId = 0
<1>1. ASSUME NEW t \in DOMAIN CollectionIds
      PROVE  CollectionIds[t] \in DOMAIN collections
  <2>1. CASE 0 \in DOMAIN cache
    BY <1>1, <2>1 DEF CollectionIds, FragmentTypes
  <2>2. CASE 0 \notin DOMAIN cache
    <3> DEFINE own == {i \in DOMAIN collections : collections[i].group = fragSite}
    <3>1. CollectionIds = IdsOf(collections, own) /\ own \in SUBSET (1 .. Len(collections)) /\ Len(collections) \in Nat
      BY <2>2, FragmentRows DEF CollectionIds
    <3> HIDE DEF own
    <3>2. CollectionIds[t] \in own
      BY <1>1, <3>1, IdsAre
    <3> QED BY <3>2 DEF own
  <2> QED BY <2>1, <2>2
<1>2. ASSUME NEW t \in DOMAIN EntryIds, collectionId # 0
      PROVE  EntryIds[t] \in DOMAIN entries
  <2>1. CASE collectionId \in DOMAIN cache
    BY <1>2, <2>1 DEF EntryIds, FragmentTypes
  <2>2. CASE collectionId \notin DOMAIN cache
    <3> DEFINE own == {i \in DOMAIN entries : entries[i].collection = collectionId}
    <3>1. EntryIds = IdsOf(entries, own) /\ own \in SUBSET (1 .. Len(entries)) /\ Len(entries) \in Nat
      BY <2>2, FragmentRows DEF EntryIds
    <3> HIDE DEF own
    <3>2. EntryIds[t] \in own
      BY <1>2, <3>1, IdsAre
    <3> QED BY <3>2 DEF own
  <2> QED BY <2>1, <2>2
<1> QED BY <1>1, <1>2

-----------------------------------------------------------------------------
(* Every step keeps the types, the keys and the place of the import.        *)
\* What a fault leaves.
LEMMA Faulting ==
  ASSUME FragmentTypes
  PROVE  /\ FragmentFault => fragmentFaults' \in Nat \ {0}
         /\ RequestRefused => fragmentFaults' \in Nat /\ (frag.jsonws => fragmentFaults' # 0)
BY DEF FragmentTypes, FragmentFault, RequestRefused

\* What two attempts in a row leave of the faults.
LEMMA TryingTwice ==
  ASSUME NEW f
  PROVE  /\ collections' \in SecondTries(f) => Makes(fragSite, f)
         /\ ~KeyTaken(f) /\ collections' = WithKey(f) => Makes(fragSite, f)
         /\ collections' = collections => Makes(fragSite, f)
<1>1. ASSUME collections' \in SecondTries(f)
      PROVE  Makes(fragSite, f)
  <2>1. \/ collections' = WithoutKey(collections, f)
        \/ ~KeyTaken(f) /\ collections' = WithoutKey(WithKey(f), f)
    BY <1>1 DEF SecondTries
  <2> QED BY <2>1 DEF Makes, WithoutKey, WithKey, KeyTaken, LocalRow
<1> QED BY <1>1 DEF Makes, WithKey, KeyTaken, LocalRow

\* A collection is made, by either request.
LEMMA Creating ==
  ASSUME NEW f, CreateCollection(f)
  PROVE  /\ Makes(fragSite, f) /\ collectionId' = Len(collections') /\ frag.jsonws
         /\ cache' = PutAt(cache, {0}, Cached(CollectionIds, Len(collections'), LocalRow(f)))
         /\ \/ collections' = WithKey(f)
            \/ \E cs \in {collections, WithKey(f)} : collections' = WithoutKey(cs, f)
BY TryingTwice DEF CreateCollection, SecondTries
\* And what that costs in faults.
LEMMA CreateFaults ==
  ASSUME FragmentTypes, NEW f, CreateCollection(f)
  PROVE  fragmentFaults' \in Nat
BY Faulting DEF CreateCollection, FragmentTypes

\* The fragment that is chosen is one of the collection being done.
LEMMA CollectionLeft ==
  ASSUME NEW f, NEW error, CollectionRefused(f, error), FragmentTypes
  PROVE  /\ Makes(fragSite, f) /\ fragmentFaults' \in Nat /\ (frag.jsonws => fragmentFaults' # 0)
         /\ cache' = cache \/ cache' = PutAt(cache, {0}, CollectionIds)
<1>1. CASE 0 \notin DOMAIN cache /\ FragmentFault /\ UNCHANGED <<collections, cache>>
  BY <1>1, TryingTwice, Faulting
<1>2. CASE /\ error = "url" /\ Known(CollectionIds, f.collection) = 0 /\ RequestRefused
           /\ collections' \in {collections} \cup
                IF frag.jsonws THEN SecondTries(f) \cup IF KeyTaken(f) THEN {} ELSE {WithKey(f)} ELSE {}
           /\ cache' = PutAt(cache, {0}, CollectionIds)
  <2>1. \/ collections' = collections
        \/ collections' \in SecondTries(f)
        \/ ~KeyTaken(f) /\ collections' = WithKey(f)
    BY <1>2
  <2>2. Makes(fragSite, f)
    BY <2>1, TryingTwice
  <2> QED BY <1>2, <2>2, Faulting
<1> QED BY <1>1, <1>2 DEF CollectionRefused

\* Steps that leave the portal and the cache alone.
LEMMA QuietTypes ==
  ASSUME FragmentTypes, KeysOnce, UNCHANGED <<frag, FragmentPortal, projects, collectionId>>,
         fragSite' \in STRING, sitesLeft' \subseteq STRING, fragmentFaults' \in Nat, cache' = cache \/ cache' = NoneRead
  PROVE  FragmentTypes' /\ KeysOnce'
<1>1. CASE cache' = cache
  BY <1>1 DEF FragmentTypes, KeysOnce, FragmentPortal
<1>2. CASE cache' = NoneRead
  <2>1. DOMAIN NoneRead = {}
    BY DEF NoneRead
  <2> QED BY <1>2, <2>1 DEF FragmentTypes, KeysOnce, FragmentPortal
<1> QED BY <1>1, <1>2

\* Steps that only move on.
LEMMA MovingTypes ==
  ASSUME FragmentTypes, KeysOnce,
         StartFragments \/ EnterSite \/ SitesDone \/ JsonwsDone \/ CopyZip \/ PollZip \/ ZipFails \/ FragmentsAgain
  PROVE  FragmentTypes' /\ KeysOnce'
<1>1. UNCHANGED <<frag, FragmentPortal, projects, collectionId>>
  BY DEF StartFragments, EnterSite, SitesDone, JsonwsDone, CopyZip, PollZip, ZipFails, FragmentsAgain
<1>2. fragSite' \in STRING
  BY DEF FragmentTypes, StartFragments, EnterSite, SitesDone, JsonwsDone, CopyZip, PollZip, ZipFails, FragmentsAgain
<1>3. sitesLeft' \subseteq STRING
  <2>1. TargetSites \subseteq STRING
    BY TheFragments DEF TargetSites, FragmentTypes, FragmentCaseOK, HasProject, FragmentOpt
  <2> QED BY <2>1 DEF FragmentTypes, StartFragments, EnterSite, SitesDone, JsonwsDone, CopyZip, PollZip, ZipFails, FragmentsAgain
<1>4. fragmentFaults' \in Nat
  BY Faulting DEF FragmentTypes, StartFragments, EnterSite, SitesDone, JsonwsDone, CopyZip, PollZip, ZipFails, FragmentsAgain
<1>5. cache' = cache \/ cache' = NoneRead
  BY DEF StartFragments, EnterSite, SitesDone, JsonwsDone, CopyZip, PollZip, ZipFails, FragmentsAgain
<1> QED BY <1>1, <1>2, <1>3, <1>4, <1>5, QuietTypes

\* What an export writes.
LEMMA WhatIsExported ==
  ASSUME FragmentTypes, KeysOnce, FragmentPlace, fragPc = "start", NEW new \in SUBSET ExportedFragments
  PROVE  LocalFiles(new) /\ \A f \in new : f.collection # "auto" /\ f.body \in DOMAIN frag.stored
<1>1. \A f \in new : \E i \in DOMAIN entries :
        /\ CollectionOf(i).group = FragmentOpt.site
        /\ f = [collection |-> CollectionOf(i).key, title |-> CollectionOf(i).name, slug |-> entries[i].key,
                name |-> entries[i].name, body |-> entries[i].body]
  <2> TAKE f \in new
  <2>1. PICK e \in Range(entries) : /\ collections[e.collection].group = FragmentOpt.site
                                    /\ f = [collection |-> collections[e.collection].key, title |-> collections[e.collection].name,
                                            slug |-> e.key, name |-> e.name, body |-> e.body]
    BY DEF ExportedFragments
  <2>2. PICK i \in DOMAIN entries : e = entries[i]
    BY <2>1 DEF Range
  <2> QED BY <2>1, <2>2 DEF CollectionOf
<1>2. /\ collections = frag.collections /\ entries = frag.entries
      /\ \A i \in DOMAIN collections : collections[i] \in [group : STRING, key : STRING, name : STRING] /\ collections[i].key # "auto"
  BY FragmentRows DEF FragmentPlace, FragmentPortal
<1>3. \A i \in DOMAIN entries : /\ entries[i].collection \in DOMAIN collections /\ entries[i].body \in DOMAIN frag.stored
                                /\ entries[i] \in EntryType
  <2>1. \A i \in DOMAIN entries : entries[i].body \in {e.body : e \in Range(frag.entries)}
    BY <1>2 DEF Range
  <2>2. {e.body : e \in Range(frag.entries)} \subseteq DOMAIN frag.stored
    BY TheFragments DEF FragmentTypes, FragmentCaseOK
  <2> QED BY <2>1, <2>2, FragmentRows DEF EntryType
<1>4. ASSUME NEW f \in new, NEW g \in new, f.collection = g.collection
      PROVE  f.title = g.title /\ (f.slug = g.slug => f = g)
  <2>1. PICK i \in DOMAIN entries :
          /\ CollectionOf(i).group = FragmentOpt.site
          /\ f = [collection |-> CollectionOf(i).key, title |-> CollectionOf(i).name, slug |-> entries[i].key,
                  name |-> entries[i].name, body |-> entries[i].body]
    BY <1>1
  <2>2. PICK j \in DOMAIN entries :
          /\ CollectionOf(j).group = FragmentOpt.site
          /\ g = [collection |-> CollectionOf(j).key, title |-> CollectionOf(j).name, slug |-> entries[j].key,
                  name |-> entries[j].name, body |-> entries[j].body]
    BY <1>1
  <2>3. entries[i].collection = entries[j].collection
    BY <1>2, <1>3, <1>4, <2>1, <2>2 DEF KeysOnce, CollectionOf
  <2>4. f.slug = g.slug => i = j
    BY <2>1, <2>2, <2>3 DEF KeysOnce
  <2> QED BY <2>1, <2>2, <2>3, <2>4 DEF CollectionOf
<1>5. \A f \in new : /\ f \in [collection : STRING, title : STRING, slug : STRING, name : STRING, body : STRING]
                     /\ f.collection # "auto" /\ f.body \in DOMAIN frag.stored
  BY <1>1, <1>2, <1>3 DEF EntryType, CollectionOf
<1> QED BY <1>4, <1>5 DEF LocalFiles

\* An export keeps the types.
LEMMA ExportTypes ==
  ASSUME FragmentTypes, KeysOnce, FragmentPlace, ExportFragments
  PROVE  FragmentTypes' /\ KeysOnce'
<1>1. PICK new \in SUBSET ExportedFragments :
        projects' = IF new = {} THEN projects ELSE PutAt(projects, {FragmentOpt.site}, new)
  BY DEF ExportFragments
<1>2. LocalFiles(new) /\ \A f \in new : f.collection # "auto" /\ f.body \in DOMAIN frag.stored
  BY WhatIsExported DEF ExportFragments
<1>3. FragmentOpt.site \in STRING
  BY TheFragments DEF FragmentTypes, FragmentCaseOK, FragmentOpt
<1>4. /\ DOMAIN projects' \subseteq STRING
      /\ \A s \in DOMAIN projects' : LocalFiles(projects'[s]) /\ \A f \in projects'[s] : f.collection # "auto" /\ f.body \in DOMAIN frag.stored
  <2>1. CASE new = {}
    BY <1>1, <2>1 DEF FragmentTypes
  <2>2. CASE new # {}
    <3>1. DOMAIN projects' = {FragmentOpt.site} \cup DOMAIN projects /\ projects'[FragmentOpt.site] = new
          /\ \A s \in DOMAIN projects \ {FragmentOpt.site} : projects'[s] = projects[s]
      <4>1. projects' = PutAt(projects, {FragmentOpt.site}, new)
        BY <1>1, <2>2
      <4> QED BY <4>1 DEF PutAt
    <3> QED BY <1>2, <1>3, <3>1 DEF FragmentTypes
  <2> QED BY <2>1, <2>2
<1>5. UNCHANGED <<frag, FragmentPortal, fragSite, sitesLeft, cache, collectionId>>
  BY DEF ExportFragments
<1>6. fragmentFaults' \in Nat
  BY Faulting DEF ExportFragments, FragmentTypes
<1>7. \A x : LocalFiles(x)' <=> LocalFiles(x)
  BY DEF LocalFiles
<1> QED BY <1>4, <1>5, <1>6 DEF FragmentTypes, KeysOnce, FragmentPortal

\* The rows of a portal after a step that only makes collections, or only renames one.
LEMMA MadeTypes ==
  ASSUME FragmentTypes, KeysOnce, NEW f \in ProjectOf(fragSite), Makes(fragSite, f),
         UNCHANGED <<frag, entries, projects, sitesLeft, fragSite>>, fragmentFaults' \in Nat,
         collectionId' \in Nat, DOMAIN cache' \subseteq 0 .. Len(collections'),
         \A k \in DOMAIN cache' : \A t \in DOMAIN cache'[k] :
           cache'[k][t] \in (IF k = 0 THEN DOMAIN collections' ELSE DOMAIN entries')
  PROVE  FragmentTypes' /\ KeysOnce'
<1>1. collections' \in Seq(CollectionType) /\ Len(collections) <= Len(collections')
      /\ \A i \in DOMAIN collections : i \in DOMAIN collections' /\ collections'[i] = collections[i]
  BY Making
<1>2. /\ \A i, j \in DOMAIN collections' : i # j /\ collections'[i].key # "auto" =>
           collections'[i].group # collections'[j].group \/ collections'[i].key # collections'[j].key
  BY Making
<1>3. Len(collections') \in Nat /\ DOMAIN collections' = 1 .. Len(collections') /\ Len(frag.collections) \in Nat /\ Len(collections) \in Nat
  BY <1>1, FragmentRows
<1>4. \A i \in DOMAIN entries : entries[i].collection \in 1 .. Len(collections')
  BY <1>1, <1>3, FragmentRows
<1>5. Len(frag.collections) <= Len(collections')
  BY <1>1, <1>3 DEF FragmentTypes
<1>6. \A x : LocalFiles(x)' <=> LocalFiles(x)
  BY DEF LocalFiles
<1>7. \A i, j \in DOMAIN entries' : i # j =>
        entries'[i].collection # entries'[j].collection \/ entries'[i].key # entries'[j].key
  BY DEF KeysOnce
<1>8. KeysOnce'
  BY <1>2, <1>7 DEF KeysOnce
<1> QED BY <1>1, <1>4, <1>5, <1>6, <1>8 DEF FragmentTypes, CollectionType

\* A collection is renamed.
LEMMA RenamedTypes ==
  ASSUME FragmentTypes, KeysOnce, NEW f \in ProjectOf(fragSite), NEW id \in DOMAIN collections,
         collections' \in {collections, Renamed(f, id)},
         UNCHANGED <<frag, entries, projects, sitesLeft, fragSite>>, fragmentFaults' \in Nat,
         collectionId' \in Nat, DOMAIN cache' \subseteq 0 .. Len(collections),
         \A k \in DOMAIN cache' : \A t \in DOMAIN cache'[k] :
           cache'[k][t] \in (IF k = 0 THEN DOMAIN collections ELSE DOMAIN entries)
  PROVE  FragmentTypes' /\ KeysOnce'
<1>1. /\ Renamed(f, id) \in Seq(CollectionType) /\ Len(Renamed(f, id)) = Len(collections)
      /\ DOMAIN Renamed(f, id) = DOMAIN collections
      /\ \A i \in DOMAIN collections : /\ Renamed(f, id)[i].group = collections[i].group
                                       /\ Renamed(f, id)[i].key = collections[i].key
  <2>1. f.title \in STRING /\ id \in Nat
    BY SomeFragment, FragmentRows
  <2> QED BY <2>1, Renaming
<1>2. /\ collections' \in Seq(CollectionType) /\ Len(collections') = Len(collections)
      /\ DOMAIN collections' = DOMAIN collections
      /\ \A i \in DOMAIN collections : collections'[i].group = collections[i].group /\ collections'[i].key = collections[i].key
  <2>1. CASE collections' = collections
    BY <2>1 DEF FragmentTypes, CollectionType
  <2>2. CASE collections' = Renamed(f, id)
    BY <1>1, <2>2
  <2> QED BY <2>1, <2>2
<1>3. \A x : LocalFiles(x)' <=> LocalFiles(x)
  BY DEF LocalFiles
<1>4. KeysOnce'
  BY <1>2 DEF KeysOnce
<1> QED BY <1>2, <1>3, <1>4 DEF FragmentTypes, CollectionType

\* A collection is found, renamed or made.
LEMMA SyncCollectionTypes ==
  ASSUME FragmentTypes, KeysOnce, FragmentPlace, SyncCollection
  PROVE  FragmentTypes' /\ KeysOnce' /\ collectionId' \in DOMAIN collections'
<1>1. PICK f \in fragmentsLeft :
        LET id == Known(CollectionIds, f.collection)
        IN  IF id = 0 THEN CreateCollection(f) ELSE RenameCollection(f, id)
  BY DEF SyncCollection
<1>2. f \in ProjectOf(fragSite) /\ UNCHANGED <<frag, entries, projects, sitesLeft, fragSite>>
  BY DEF SyncCollection, FragmentPlace, Project
<1>3. /\ \A t \in DOMAIN CollectionIds : CollectionIds[t] \in DOMAIN collections
      /\ DOMAIN collections = 1 .. Len(collections) /\ Len(collections) \in Nat
      /\ DOMAIN cache \subseteq 0 .. Len(collections)
      /\ \A k \in DOMAIN cache : \A t \in DOMAIN cache[k] :
           cache[k][t] \in (IF k = 0 THEN DOMAIN collections ELSE DOMAIN entries)
  BY CachesType, FragmentRows DEF FragmentTypes
<1>4. CASE Known(CollectionIds, f.collection) = 0
  <2> DEFINE n == Len(collections')
             ids == Cached(CollectionIds, n, LocalRow(f))
  <2>1. /\ Makes(fragSite, f) /\ collectionId' = n /\ fragmentFaults' \in Nat
        /\ cache' = PutAt(cache, {0}, ids)
        /\ \/ collections' = WithKey(f)
           \/ \E cs \in {collections, WithKey(f)} : collections' = WithoutKey(cs, f)
    BY <1>1, <1>4, Creating, CreateFaults
  <2>2. collections' \in Seq(CollectionType) /\ Len(collections) <= n
    BY <1>2, <2>1, Making
  <2>3. n \in Nat /\ DOMAIN collections' = 1 .. n
    BY <2>2
  <2>4. n \in DOMAIN collections'
    <3>1. n # 0
      <4>1. LocalRow(f) \in CollectionType /\ [LocalRow(f) EXCEPT !.key = "auto"] \in CollectionType
        BY <1>2, SomeFragment DEF LocalRow, CollectionType
      <4>2. collections \in Seq(CollectionType)
        BY DEF FragmentTypes, CollectionType
      <4>3. WithKey(f) \in Seq(CollectionType) /\ Len(WithKey(f)) = Len(collections) + 1
        BY <4>1, <4>2, OneMore DEF WithKey
      <4>4. \A cs \in {collections, WithKey(f)} : Len(WithoutKey(cs, f)) = Len(cs) + 1
        BY <4>1, <4>2, <4>3, OneMore DEF WithoutKey
      <4> QED BY <1>3, <2>1, <4>3, <4>4
    <3> QED BY <2>3, <3>1
  <2>5. \A t \in DOMAIN ids : ids[t] \in DOMAIN collections'
    <3>1. \A i \in DOMAIN collections : i \in DOMAIN collections'
      BY <1>3, <2>2, <2>3
    <3> QED BY <1>3, <2>4, <3>1 DEF Cached, PutAt
  <2> HIDE DEF ids
  <2>6. DOMAIN cache' = {0} \cup DOMAIN cache /\ cache'[0] = ids /\ \A k \in DOMAIN cache \ {0} : cache'[k] = cache[k]
    BY <2>1 DEF PutAt
  <2>7. DOMAIN cache' \subseteq 0 .. n
    BY <1>3, <2>2, <2>3, <2>6
  <2>8. \A k \in DOMAIN cache' : \A t \in DOMAIN cache'[k] :
          cache'[k][t] \in (IF k = 0 THEN DOMAIN collections' ELSE DOMAIN entries')
    BY <1>2, <1>3, <2>5, <2>6
  <2> QED BY <1>2, <2>1, <2>3, <2>4, <2>7, <2>8, MadeTypes
<1>5. CASE Known(CollectionIds, f.collection) # 0
  <2> DEFINE id == Known(CollectionIds, f.collection)
             ids == Cached(CollectionIds, id, LocalRow(f))
  <2>1. RenameCollection(f, id)
    BY <1>1, <1>5
  <2>2. id \in DOMAIN collections
    BY <1>3, <1>5 DEF Known
  <2> HIDE DEF id
  <2>3. /\ collectionId' = id /\ collections' \in {collections, Renamed(f, id)} /\ fragmentFaults' \in Nat
        /\ cache' = PutAt(cache, {0}, ids) \/ cache' = PutAt(cache, {0}, CollectionIds)
    <3>1. CASE RequestRefused /\ collections' \in {collections} \cup IF frag.jsonws THEN {Renamed(f, id)} ELSE {}
               /\ cache' = PutAt(cache, {0}, CollectionIds)
      BY <2>1, <3>1, Faulting DEF RenameCollection
    <3> QED BY <2>1, <3>1 DEF RenameCollection, FragmentTypes
  <2>4. \A t \in DOMAIN ids : ids[t] \in DOMAIN collections
    BY <1>3, <2>2 DEF Cached, PutAt
  <2> HIDE DEF ids
  <2>5. PICK v \in {ids, CollectionIds} : cache' = PutAt(cache, {0}, v)
    BY <2>3
  <2>6. DOMAIN cache' = {0} \cup DOMAIN cache /\ cache'[0] = v /\ \A k \in DOMAIN cache \ {0} : cache'[k] = cache[k]
    BY <2>5 DEF PutAt
  <2>7. DOMAIN cache' \subseteq 0 .. Len(collections)
    BY <1>3, <2>6
  <2>8. \A k \in DOMAIN cache' : \A t \in DOMAIN cache'[k] :
          cache'[k][t] \in (IF k = 0 THEN DOMAIN collections ELSE DOMAIN entries)
    BY <1>3, <2>4, <2>6
  <2>9. FragmentTypes' /\ KeysOnce'
    BY <1>2, <1>3, <2>2, <2>3, <2>7, <2>8, RenamedTypes
  <2>10. DOMAIN collections' = DOMAIN collections
    <3>1. DOMAIN Renamed(f, id) = DOMAIN collections
      BY <1>2, <1>3, <2>2, SomeFragment, Renaming
    <3> QED BY <2>3, <3>1
  <2> QED BY <2>2, <2>3, <2>9, <2>10
<1> QED BY <1>4, <1>5

\* Or that fails.
LEMMA CollectionFailsTypes ==
  ASSUME FragmentTypes, KeysOnce, FragmentPlace, CollectionFails
  PROVE  FragmentTypes' /\ KeysOnce'
<1>1. PICK f \in fragmentsLeft, error \in {"list", "url"} : CollectionRefused(f, error)
  BY DEF CollectionFails
<1>2. f \in ProjectOf(fragSite) /\ UNCHANGED <<frag, entries, projects, sitesLeft, fragSite, collectionId>>
  BY DEF CollectionFails, FragmentPlace, Project
<1>3. /\ Makes(fragSite, f) /\ fragmentFaults' \in Nat
      /\ cache' = cache \/ cache' = PutAt(cache, {0}, CollectionIds)
  BY <1>1, CollectionLeft
<1>4. collections' \in Seq(CollectionType) /\ Len(collections) <= Len(collections')
      /\ \A i \in DOMAIN collections : i \in DOMAIN collections'
  BY <1>2, <1>3, Making
<1>5. /\ \A t \in DOMAIN CollectionIds : CollectionIds[t] \in DOMAIN collections
      /\ DOMAIN collections = 1 .. Len(collections) /\ Len(collections) \in Nat
      /\ DOMAIN cache \subseteq 0 .. Len(collections) /\ collectionId \in Nat
      /\ \A k \in DOMAIN cache : \A t \in DOMAIN cache[k] :
           cache[k][t] \in (IF k = 0 THEN DOMAIN collections ELSE DOMAIN entries)
  BY CachesType, FragmentRows DEF FragmentTypes
<1>6. Len(collections') \in Nat
  BY <1>4
<1>7. cache' = PutAt(cache, {0}, CollectionIds) =>
        DOMAIN cache' = {0} \cup DOMAIN cache /\ cache'[0] = CollectionIds /\ \A k \in DOMAIN cache \ {0} : cache'[k] = cache[k]
  BY DEF PutAt
<1>8. DOMAIN cache' \subseteq 0 .. Len(collections')
  BY <1>3, <1>4, <1>5, <1>6, <1>7
<1>9. \A k \in DOMAIN cache' : \A t \in DOMAIN cache'[k] :
        cache'[k][t] \in (IF k = 0 THEN DOMAIN collections' ELSE DOMAIN entries')
  BY <1>2, <1>3, <1>4, <1>5, <1>7
<1> QED BY <1>2, <1>3, <1>5, <1>8, <1>9, MadeTypes

\* Where a fragment is written.
WrittenAt(id) == IF id = 0 THEN Len(entries) + 1 ELSE id
\* A fragment is written over its entry, or becomes a new one.
LEMMA Writing ==
  ASSUME FragmentTypes, KeysOnce, NEW f \in ProjectOf(fragSite), collectionId \in DOMAIN collections,
         NEW id, (id = 0 /\ ~EntryTaken(f)) \/ id \in DOMAIN entries, entries' = WrittenEntries(id, f)
  PROVE  /\ entries' \in Seq(EntryType) /\ Len(entries) <= Len(entries')
         /\ DOMAIN entries' = DOMAIN entries \cup {WrittenAt(id)}
         /\ \A i \in DOMAIN entries : /\ entries'[i].collection = entries[i].collection /\ entries'[i].key = entries[i].key
                                      /\ i # id => entries'[i] = entries[i]
         /\ entries'[WrittenAt(id)].name = f.name /\ entries'[WrittenAt(id)].body = frag.stored[f.body]
         /\ id = 0 => entries'[WrittenAt(id)].collection = collectionId /\ entries'[WrittenAt(id)].key = f.slug
         /\ \A i \in DOMAIN entries' : entries'[i].collection \in DOMAIN collections
         /\ \A i, j \in DOMAIN entries' : i # j =>
              entries'[i].collection # entries'[j].collection \/ entries'[i].key # entries'[j].key
<1>1. f.name \in STRING /\ f.slug \in STRING /\ frag.stored[f.body] \in STRING
  BY SomeFragment
<1>2. /\ entries \in Seq(EntryType) /\ DOMAIN entries = 1 .. Len(entries) /\ Len(entries) \in Nat
      /\ DOMAIN collections = 1 .. Len(collections)
      /\ \A i \in DOMAIN entries : entries[i].collection \in DOMAIN collections
  BY FragmentRows DEF FragmentTypes, EntryType
<1>3. \A i, j \in DOMAIN entries : i # j =>
        entries[i].collection # entries[j].collection \/ entries[i].key # entries[j].key
  BY DEF KeysOnce
<1>4. CASE id = 0 /\ ~EntryTaken(f)
  <2> DEFINE row == FragmentRow(f)
             n == Len(entries)
  <2>1. /\ row \in EntryType /\ row.collection = collectionId /\ row.key = f.slug /\ row.name = f.name
        /\ row.body = frag.stored[f.body]
    BY <1>1, <1>2 DEF FragmentRow, EntryType
  <2>2. \A i \in DOMAIN entries : entries[i].collection # collectionId \/ entries[i].key # f.slug
    BY <1>4 DEF EntryTaken, Range
  <2>3. entries' = Append(entries, row)
    BY <1>4 DEF WrittenEntries
  <2> HIDE DEF row
  <2>4. /\ entries' \in Seq(EntryType) /\ Len(entries') = n + 1 /\ DOMAIN entries' = DOMAIN entries \cup {n + 1}
        /\ entries'[n + 1] = row /\ \A i \in DOMAIN entries : entries'[i] = entries[i]
    BY <1>2, <2>1, <2>3, OneMore
  <2>5. WrittenAt(id) = n + 1
    BY <1>4 DEF WrittenAt
  <2>6. /\ entries'[n + 1].name = f.name /\ entries'[n + 1].body = frag.stored[f.body]
        /\ entries'[n + 1].collection = collectionId /\ entries'[n + 1].key = f.slug
    BY <2>1, <2>4
  <2>7. \A i \in DOMAIN entries : entries'[i].collection = entries[i].collection /\ entries'[i].key = entries[i].key
    BY <2>4
  <2>8. \A i \in DOMAIN entries' : entries'[i].collection \in DOMAIN collections
    BY <1>2, <2>4, <2>6, <2>7
  <2>9. \A i, j \in DOMAIN entries' : i # j =>
          entries'[i].collection # entries'[j].collection \/ entries'[i].key # entries'[j].key
    BY <1>3, <2>2, <2>4, <2>6, <2>7
  <2> QED BY <1>2, <2>4, <2>5, <2>6, <2>7, <2>8, <2>9
<1>5. CASE id \in DOMAIN entries
  <2>1. id \in Nat /\ id # 0
    BY <1>2, <1>5
  <2>2. entries' = Overwritten(id, f)
    BY <2>1 DEF WrittenEntries
  <2>3. /\ entries' \in Seq(EntryType) /\ Len(entries') = Len(entries) /\ DOMAIN entries' = DOMAIN entries
        /\ \A i \in DOMAIN entries : /\ entries'[i].collection = entries[i].collection /\ entries'[i].key = entries[i].key
                                     /\ i # id => entries'[i] = entries[i]
        /\ entries'[id].name = f.name /\ entries'[id].body = frag.stored[f.body]
    BY <1>1, <1>5, <2>1, <2>2, Overwriting
  <2>4. WrittenAt(id) = id
    BY <2>1 DEF WrittenAt
  <2>5. \A i, j \in DOMAIN entries' : i # j =>
          entries'[i].collection # entries'[j].collection \/ entries'[i].key # entries'[j].key
    BY <1>3, <2>3
  <2>6. DOMAIN entries' = DOMAIN entries \cup {id} /\ Len(entries) <= Len(entries')
    BY <1>2, <1>5, <2>3
  <2> QED BY <1>2, <1>5, <2>1, <2>3, <2>4, <2>5, <2>6
<1> QED BY <1>4, <1>5

\* That keeps the types and the keys.
LEMMA WrittenTypes ==
  ASSUME FragmentTypes, KeysOnce, UNCHANGED <<frag, collections, projects, sitesLeft, fragSite, collectionId>>,
         entries' \in Seq(EntryType), Len(entries) <= Len(entries'), fragmentFaults' \in Nat,
         \A i \in DOMAIN entries' : entries'[i].collection \in DOMAIN collections,
         \A i, j \in DOMAIN entries' : i # j =>
              entries'[i].collection # entries'[j].collection \/ entries'[i].key # entries'[j].key,
         DOMAIN cache' \subseteq 0 .. Len(collections),
         \A k \in DOMAIN cache' : \A t \in DOMAIN cache'[k] :
           cache'[k][t] \in (IF k = 0 THEN DOMAIN collections ELSE DOMAIN entries')
  PROVE  FragmentTypes' /\ KeysOnce'
<1>1. \A x : LocalFiles(x)' <=> LocalFiles(x)
  BY DEF LocalFiles
<1>2. Len(frag.entries) \in Nat /\ Len(entries) \in Nat /\ Len(entries') \in Nat /\ DOMAIN collections = 1 .. Len(collections)
  BY FragmentRows
<1>3. Len(frag.entries) <= Len(entries')
  BY <1>2 DEF FragmentTypes
<1>4. KeysOnce'
  BY DEF KeysOnce
<1> QED BY <1>1, <1>2, <1>3, <1>4 DEF FragmentTypes, EntryType

\* The fragment that is being done, and where it is written.
LEMMA FragmentPut ==
  ASSUME FragmentTypes, FragmentPlace, fragPc = "fragment", NEW n \in Nat, Len(entries) <= n
  PROVE  /\ collectionId \in DOMAIN collections /\ collectionId # 0
         /\ \A t \in DOMAIN EntryIds : EntryIds[t] \in DOMAIN entries
         /\ DOMAIN PutAt(cache, {collectionId}, EntryIds) \subseteq 0 .. Len(collections)
         /\ \A k \in DOMAIN PutAt(cache, {collectionId}, EntryIds) : \A t \in DOMAIN PutAt(cache, {collectionId}, EntryIds)[k] :
              PutAt(cache, {collectionId}, EntryIds)[k][t] \in (IF k = 0 THEN DOMAIN collections ELSE 1 .. n)
         /\ \A i \in DOMAIN entries : i \in 1 .. n
<1>1. /\ collectionId \in DOMAIN collections /\ collectionId # 0 /\ DOMAIN collections = 1 .. Len(collections)
      /\ DOMAIN entries = 1 .. Len(entries) /\ Len(entries) \in Nat /\ Len(collections) \in Nat
  BY FragmentRows DEF FragmentPlace
<1>2. \A t \in DOMAIN EntryIds : EntryIds[t] \in DOMAIN entries
  BY <1>1, CachesType
<1>3. \A i \in DOMAIN entries : i \in 1 .. n
  BY <1>1
<1>4. DOMAIN PutAt(cache, {collectionId}, EntryIds) \subseteq 0 .. Len(collections)
  BY <1>1 DEF PutAt, FragmentTypes
<1>5. ASSUME NEW k \in DOMAIN PutAt(cache, {collectionId}, EntryIds), NEW t \in DOMAIN PutAt(cache, {collectionId}, EntryIds)[k]
      PROVE  PutAt(cache, {collectionId}, EntryIds)[k][t] \in (IF k = 0 THEN DOMAIN collections ELSE 1 .. n)
  <2>1. CASE k = collectionId
    BY <1>1, <1>2, <1>3, <1>5, <2>1 DEF PutAt
  <2>2. CASE k # collectionId
    <3>1. k \in DOMAIN cache /\ PutAt(cache, {collectionId}, EntryIds)[k] = cache[k]
      BY <1>5, <2>2 DEF PutAt
    <3> QED BY <1>3, <1>5, <3>1 DEF FragmentTypes
  <2> QED BY <2>1, <2>2
<1> QED BY <1>1, <1>2, <1>3, <1>4, <1>5

\* A fragment is written.
LEMMA SyncFragmentTypes ==
  ASSUME FragmentTypes, KeysOnce, FragmentPlace, SyncFragment
  PROVE  FragmentTypes' /\ KeysOnce'
<1>1. PICK f \in fragmentsLeft :
        LET id == Known(EntryIds, f.slug)
        IN  /\ f.collection = collectionAt /\ (id = 0 => ~EntryTaken(f))
            /\ entries' = WrittenEntries(id, f)
            /\ cache' = PutAt(cache, {collectionId},
                              Cached(EntryIds, IF id = 0 THEN Len(entries) + 1 ELSE id, FragmentRow(f)))
  BY DEF SyncFragment
<1> DEFINE id == Known(EntryIds, f.slug)
           ids == Cached(EntryIds, WrittenAt(id), FragmentRow(f))
<1>2. /\ f \in ProjectOf(fragSite) /\ UNCHANGED <<frag, collections, projects, sitesLeft, fragSite, collectionId>>
      /\ fragmentFaults' \in Nat /\ fragPc = "fragment"
  BY DEF SyncFragment, FragmentPlace, Project, FragmentTypes
<1>3. /\ collectionId \in DOMAIN collections /\ collectionId # 0
      /\ \A t \in DOMAIN EntryIds : EntryIds[t] \in DOMAIN entries
      /\ DOMAIN entries = 1 .. Len(entries) /\ Len(entries) \in Nat /\ DOMAIN collections = 1 .. Len(collections)
      /\ Len(collections) \in Nat
  <2>1. Len(entries) \in Nat /\ Len(entries) <= Len(entries)
    BY FragmentRows
  <2> QED BY <1>2, <2>1, FragmentPut, FragmentRows
<1>4. (id = 0 /\ ~EntryTaken(f)) \/ id \in DOMAIN entries
  BY <1>1, <1>3 DEF Known
<1>5. entries' = WrittenEntries(id, f) /\ cache' = PutAt(cache, {collectionId}, ids)
  BY <1>1 DEF WrittenAt
<1> HIDE DEF id
<1>6. /\ entries' \in Seq(EntryType) /\ Len(entries) <= Len(entries')
      /\ DOMAIN entries' = DOMAIN entries \cup {WrittenAt(id)}
  BY <1>2, <1>3, <1>4, <1>5, Writing
<1>7. /\ \A i \in DOMAIN entries' : entries'[i].collection \in DOMAIN collections
      /\ \A i, j \in DOMAIN entries' : i # j =>
           entries'[i].collection # entries'[j].collection \/ entries'[i].key # entries'[j].key
  BY <1>2, <1>3, <1>4, <1>5, Writing
<1>8. \A t \in DOMAIN ids : ids[t] \in DOMAIN entries'
  BY <1>3, <1>6 DEF Cached, PutAt
<1> HIDE DEF ids
<1>9. DOMAIN cache' \subseteq 0 .. Len(collections)
  BY <1>3, <1>5 DEF PutAt, FragmentTypes
<1>10. \A k \in DOMAIN cache' : \A t \in DOMAIN cache'[k] :
         cache'[k][t] \in (IF k = 0 THEN DOMAIN collections ELSE DOMAIN entries')
  <2> TAKE k \in DOMAIN cache'
  <2>1. CASE k = collectionId
    <3>1. cache'[k] = ids
      BY <1>5, <2>1 DEF PutAt
    <3> QED BY <1>3, <1>8, <2>1, <3>1
  <2>2. CASE k # collectionId
    <3>1. k \in DOMAIN cache /\ cache'[k] = cache[k]
      BY <1>5, <2>2 DEF PutAt
    <3> QED BY <1>6, <3>1 DEF FragmentTypes
  <2> QED BY <2>1, <2>2
<1> QED BY <1>2, <1>6, <1>7, <1>9, <1>10, WrittenTypes

\* A write that fails leaves the portal, or its answer is lost.
LEMMA FragmentRefusal ==
  ASSUME FragmentTypes, NEW f, NEW error, FragmentRefused(f, error)
  PROVE  LET id == Known(EntryIds, f.slug)
         IN  /\ \/ entries' = entries
                \/ (id = 0 => ~EntryTaken(f)) /\ entries' = WrittenEntries(id, f)
             /\ cache' = cache \/ cache' = PutAt(cache, {collectionId}, EntryIds)
             /\ fragmentFaults' \in Nat
             /\ frag.jsonws => fragmentFaults' # 0 \/ (id = 0 /\ TakenInSite(f))
<1>1. FragmentFault => fragmentFaults' \in Nat \ {0}
  BY Faulting
<1>2. RequestRefused => fragmentFaults' \in Nat /\ (frag.jsonws => fragmentFaults' # 0)
  BY Faulting
<1>3. fragmentFaults \in Nat
  BY DEF FragmentTypes
<1> QED BY <1>1, <1>2, <1>3 DEF FragmentRefused

\* A fragment fails.
LEMMA FragmentFailsTypes ==
  ASSUME FragmentTypes, KeysOnce, FragmentPlace, FragmentFails
  PROVE  FragmentTypes' /\ KeysOnce'
<1>1. PICK f \in fragmentsLeft, error \in {"list", "url"} : FragmentRefused(f, error)
  BY DEF FragmentFails
<1> DEFINE id == Known(EntryIds, f.slug)
<1>2. /\ f \in ProjectOf(fragSite) /\ UNCHANGED <<frag, collections, projects, sitesLeft, fragSite, collectionId>>
      /\ fragPc = "fragment"
  BY DEF FragmentFails, FragmentPlace, Project
<1>3. /\ entries' = entries \/ ((id = 0 => ~EntryTaken(f)) /\ entries' = WrittenEntries(id, f))
      /\ cache' = cache \/ cache' = PutAt(cache, {collectionId}, EntryIds)
      /\ fragmentFaults' \in Nat
  BY <1>1, FragmentRefusal
<1>4. /\ collectionId \in DOMAIN collections
      /\ \A t \in DOMAIN EntryIds : EntryIds[t] \in DOMAIN entries
      /\ DOMAIN entries = 1 .. Len(entries) /\ Len(entries) \in Nat
  <2>1. Len(entries) \in Nat /\ Len(entries) <= Len(entries)
    BY FragmentRows
  <2> QED BY <1>2, <2>1, FragmentPut, FragmentRows
<1>5. (id = 0 => ~EntryTaken(f)) => (id = 0 /\ ~EntryTaken(f)) \/ id \in DOMAIN entries
  BY <1>4 DEF Known
<1> HIDE DEF id
<1>6. /\ entries' \in Seq(EntryType) /\ Len(entries) <= Len(entries')
      /\ \A i \in DOMAIN entries' : entries'[i].collection \in DOMAIN collections
      /\ \A i, j \in DOMAIN entries' : i # j =>
           entries'[i].collection # entries'[j].collection \/ entries'[i].key # entries'[j].key
  <2>1. CASE entries' = entries
    BY <1>4, <2>1, FragmentRows DEF FragmentTypes, EntryType, KeysOnce
  <2>2. CASE (id = 0 => ~EntryTaken(f)) /\ entries' = WrittenEntries(id, f)
    BY <1>2, <1>4, <1>5, <2>2, Writing
  <2> QED BY <1>3, <2>1, <2>2
<1>7. Len(entries') \in Nat /\ DOMAIN entries' = 1 .. Len(entries')
  BY <1>6
<1>8. /\ DOMAIN cache' \subseteq 0 .. Len(collections)
      /\ \A k \in DOMAIN cache' : \A t \in DOMAIN cache'[k] :
           cache'[k][t] \in (IF k = 0 THEN DOMAIN collections ELSE DOMAIN entries')
  <2>1. CASE cache' = cache
    <3>1. \A i \in DOMAIN entries : i \in DOMAIN entries'
      BY <1>4, <1>6, <1>7
    <3> QED BY <2>1, <3>1 DEF FragmentTypes
  <2>2. CASE cache' = PutAt(cache, {collectionId}, EntryIds)
    BY <1>2, <1>6, <1>7, <2>2, FragmentPut
  <2> QED BY <1>3, <2>1, <2>2
<1> QED BY <1>2, <1>3, <1>6, <1>8, WrittenTypes

\* The entry a zip wrote.
InstalledAt(i, s, f) ==
  /\ DOMAIN entries' = DOMAIN entries \cup {i}
  /\ \A j \in DOMAIN entries : /\ j # i => entries'[j] = entries[j]
                               /\ entries'[j].collection = entries[j].collection /\ entries'[j].key = entries[j].key
  /\ entries'[i].key = f.slug /\ entries'[i].name = f.name /\ entries'[i].body = frag.stored[f.body]
  /\ entries'[i].collection \in DOMAIN collections'
  /\ collections'[entries'[i].collection].group = s /\ collections'[entries'[i].collection].key = f.collection
  /\ i \notin DOMAIN entries => \A j \in DOMAIN entries :
        entries[j].collection # entries'[i].collection \/ entries[j].key # f.slug
\* What the autodeploy does to a portal: it writes one entry, in the collection of its key.
LEMMA Installing ==
  ASSUME FragmentTypes, KeysOnce, NEW s, NEW f \in ProjectOf(s), Installed(s, f), UNCHANGED frag
  PROVE  /\ Makes(s, f) /\ entries' \in Seq(EntryType) /\ Len(entries) <= Len(entries')
         /\ \E i \in DOMAIN entries' : InstalledAt(i, s, f)
<1> DEFINE own == {i \in DOMAIN collections : collections[i].group = s /\ collections[i].key = f.collection}
           row(c) == [collection |-> c, key |-> f.slug, name |-> f.name, body |-> frag.stored[f.body]]
           same == {i \in DOMAIN entries : entries[i].collection \in own /\ entries[i].key = f.slug}
           n == Len(entries)
<1>1. /\ f.name \in STRING /\ f.slug \in STRING /\ frag.stored[f.body] \in STRING /\ f.title \in STRING
      /\ f.collection \in STRING /\ s \in STRING
  BY SomeFragment
<1>2. /\ entries \in Seq(EntryType) /\ DOMAIN entries = 1 .. n /\ n \in Nat
      /\ DOMAIN collections = 1 .. Len(collections) /\ Len(collections) \in Nat
      /\ collections \in Seq(CollectionType)
      /\ \A i \in DOMAIN entries : entries[i].collection \in DOMAIN collections
  BY FragmentRows DEF FragmentTypes, EntryType, CollectionType
<1>3. \A c \in Nat : /\ row(c) \in EntryType /\ row(c).collection = c /\ row(c).key = f.slug /\ row(c).name = f.name
                     /\ row(c).body = frag.stored[f.body]
  BY <1>1 DEF EntryType
<1>4. CASE own = {}
  <2> DEFINE c == Len(collections) + 1
             new == [group |-> s, key |-> f.collection, name |-> f.title]
  <2>1. collections' = Append(collections, new) /\ entries' = Append(entries, row(c))
    BY <1>4 DEF Installed
  <2>2. Makes(s, f)
    <3>1. ~\E x \in Range(collections) : x.group = s /\ x.key = f.collection
      BY <1>4 DEF Range
    <3> QED BY <2>1, <3>1 DEF Makes
  <2>3. c \in Nat /\ row(c) \in EntryType
    BY <1>2, <1>3
  <2>4. /\ entries' \in Seq(EntryType) /\ Len(entries') = n + 1 /\ DOMAIN entries' = DOMAIN entries \cup {n + 1}
        /\ entries'[n + 1] = row(c) /\ \A i \in DOMAIN entries : entries'[i] = entries[i]
    BY <1>2, <2>1, <2>3, OneMore
  <2>5. new \in CollectionType /\ new.group = s /\ new.key = f.collection
    BY <1>1 DEF CollectionType
  <2>6. collections'[c] = new /\ c \in DOMAIN collections'
    BY <1>2, <2>1, <2>5, OneMore
  <2>7. \A j \in DOMAIN entries : entries[j].collection # c
    BY <1>2
  <2>8. entries'[n + 1].collection = c /\ entries'[n + 1].key = f.slug /\ entries'[n + 1].name = f.name
        /\ entries'[n + 1].body = frag.stored[f.body]
    BY <1>3, <2>3, <2>4
  <2> HIDE DEF row, c, new
  <2>9. n + 1 \in DOMAIN entries' /\ Len(entries) <= Len(entries')
    BY <1>2, <2>4
  <2>20. InstalledAt(n + 1, s, f)
    BY <2>2, <2>4, <2>5, <2>6, <2>7, <2>8, <2>9 DEF InstalledAt
  <2> QED BY <2>2, <2>4, <2>5, <2>6, <2>7, <2>8, <2>9, <2>20
<1>5. CASE own # {}
  <2>1. Makes(s, f) /\ collections' = collections
    BY <1>5 DEF Installed, Makes
  <2>2. CASE same = {}
    <3>1. PICK c \in own : entries' = Append(entries, row(c))
      BY <1>5, <2>2 DEF Installed
    <3>2. c \in Nat /\ c \in DOMAIN collections /\ collections[c].group = s /\ collections[c].key = f.collection
      BY <1>2, <3>1
    <3>3. /\ entries' \in Seq(EntryType) /\ Len(entries') = n + 1 /\ DOMAIN entries' = DOMAIN entries \cup {n + 1}
          /\ entries'[n + 1] = row(c) /\ \A i \in DOMAIN entries : entries'[i] = entries[i]
      BY <1>2, <1>3, <3>1, <3>2, OneMore
    <3>4. \A j \in DOMAIN entries : entries[j].collection # c \/ entries[j].key # f.slug
      BY <2>2, <3>1
    <3>5. entries'[n + 1].collection = c /\ entries'[n + 1].key = f.slug /\ entries'[n + 1].name = f.name
          /\ entries'[n + 1].body = frag.stored[f.body]
      BY <1>3, <3>2, <3>3
    <3> HIDE DEF row
    <3>6. n + 1 \in DOMAIN entries' /\ Len(entries) <= Len(entries')
      BY <1>2, <3>3
    <3>20. InstalledAt(n + 1, s, f)
      BY <2>1, <3>2, <3>3, <3>4, <3>5, <3>6 DEF InstalledAt
    <3> QED BY <2>1, <3>2, <3>3, <3>4, <3>5, <3>6, <3>20
  <2>3. CASE same # {}
    <3>1. PICK i \in same : entries' = Overwritten(i, f)
      BY <1>5, <2>3 DEF Installed
    <3>2. i \in DOMAIN entries /\ i \in Nat /\ entries[i].key = f.slug /\ entries[i].collection \in DOMAIN collections
          /\ collections[entries[i].collection].group = s /\ collections[entries[i].collection].key = f.collection
      BY <1>2, <3>1
    <3>3. /\ entries' \in Seq(EntryType) /\ Len(entries') = Len(entries) /\ DOMAIN entries' = DOMAIN entries
          /\ \A j \in DOMAIN entries : /\ entries'[j].collection = entries[j].collection /\ entries'[j].key = entries[j].key
                                       /\ j # i => entries'[j] = entries[j]
          /\ entries'[i].name = f.name /\ entries'[i].body = frag.stored[f.body]
      BY <1>1, <3>1, <3>2, Overwriting
    <3>4. DOMAIN entries' = DOMAIN entries \cup {i} /\ Len(entries) <= Len(entries')
      BY <1>2, <3>2, <3>3
    <3>20. InstalledAt(i, s, f)
      BY <2>1, <3>2, <3>3, <3>4 DEF InstalledAt
    <3> QED BY <2>1, <3>2, <3>3, <3>4, <3>20
  <2> QED BY <2>2, <2>3
<1> QED BY <1>4, <1>5

\* The autodeploy keeps the types.
LEMMA AutodeployTypes ==
  ASSUME FragmentTypes, KeysOnce, FragmentPlace, NEW z \in zips, Autodeploy(z)
  PROVE  FragmentTypes' /\ KeysOnce'
<1>1. UNCHANGED <<frag, projects, sitesLeft, fragSite, cache, collectionId, fragmentFaults>>
  BY DEF Autodeploy
<1>2. CASE UNCHANGED FragmentPortal
  BY <1>1, <1>2, QuietTypes DEF FragmentTypes
<1>3. CASE Installed(z.site, z.fragment)
  <2> DEFINE s == z.site
             f == z.fragment
  <2>1. f \in ProjectOf(s)
    BY DEF FragmentPlace
  <2> HIDE DEF s, f
  <2>2. Installed(s, f)
    BY <1>3 DEF s, f
  <2>3. /\ Makes(s, f) /\ entries' \in Seq(EntryType) /\ Len(entries) <= Len(entries')
    BY <1>1, <2>1, <2>2, Installing
  <2>4. PICK i \in DOMAIN entries' : InstalledAt(i, s, f)
    BY <1>1, <2>1, <2>2, Installing
  <2>5. /\ collections' \in Seq(CollectionType) /\ Len(collections) <= Len(collections')
        /\ \A j \in DOMAIN collections : j \in DOMAIN collections' /\ collections'[j] = collections[j]
        /\ \A j, k \in DOMAIN collections' : j # k /\ collections'[j].key # "auto" =>
              collections'[j].group # collections'[k].group \/ collections'[j].key # collections'[k].key
    BY <2>1, <2>3, Making
  <2>6. /\ DOMAIN collections' = 1 .. Len(collections') /\ Len(collections') \in Nat /\ Len(entries') \in Nat
        /\ Len(entries) \in Nat /\ Len(collections) \in Nat /\ Len(frag.entries) \in Nat /\ Len(frag.collections) \in Nat
        /\ \A j \in DOMAIN entries : entries[j].collection \in DOMAIN collections
    BY <2>3, <2>5, FragmentRows
  <2>7. \A j \in DOMAIN entries' : entries'[j].collection \in 1 .. Len(collections')
    BY <2>4, <2>5, <2>6 DEF InstalledAt
  <2>8. KeysOnce'
    <3>1. \A j, k \in DOMAIN entries : j # k =>
            entries[j].collection # entries[k].collection \/ entries[j].key # entries[k].key
      BY DEF KeysOnce
    <3>2. \A j, k \in DOMAIN entries' : j # k =>
            entries'[j].collection # entries'[k].collection \/ entries'[j].key # entries'[k].key
      BY <2>4, <3>1 DEF InstalledAt
    <3> QED BY <2>5, <3>2 DEF KeysOnce
  <2>9. Len(frag.entries) <= Len(entries') /\ Len(frag.collections) <= Len(collections')
    BY <2>3, <2>5, <2>6 DEF FragmentTypes
  <2>10. \A x : LocalFiles(x)' <=> LocalFiles(x)
    BY DEF LocalFiles
  <2>11. DOMAIN cache \subseteq 0 .. Len(collections')
    BY <2>5, <2>6 DEF FragmentTypes
  <2>12. \A k \in DOMAIN cache : \A t \in DOMAIN cache[k] :
           cache[k][t] \in (IF k = 0 THEN DOMAIN collections' ELSE DOMAIN entries')
    BY <2>4, <2>5 DEF FragmentTypes, InstalledAt
  <2> QED BY <1>1, <2>3, <2>5, <2>7, <2>8, <2>9, <2>10, <2>11, <2>12 DEF FragmentTypes, CollectionType, EntryType
<1> QED BY <1>2, <1>3 DEF Autodeploy

\* A step of any kind keeps the types and the keys.
LEMMA StepTypes ==
  ASSUME FragmentTypes, KeysOnce, FragmentPlace, FragmentNext
  PROVE  FragmentTypes' /\ KeysOnce'
BY MovingTypes, ExportTypes, SyncCollectionTypes, CollectionFailsTypes, SyncFragmentTypes, FragmentFailsTypes, AutodeployTypes
   DEF FragmentNext, FragmentStep
-----------------------------------------------------------------------------
\* Where the import is, step by step.
LEMMA QuietPlace ==
  ASSUME FragmentTypes, FragmentPlace, UNCHANGED <<frag, projects>>
  PROVE  /\ \A s : ProjectOf(s)' = ProjectOf(s)
         /\ TargetSites' = TargetSites /\ Project' = ProjectOf(fragSite')
         /\ \A r \in reported : r.fragment \in ProjectOf(r.site)
         /\ \A z \in zips : z.fragment \in ProjectOf(z.site)
<1>1. \A s : ProjectOf(s)' = ProjectOf(s)
  BY SameProjects
<1>2. TargetSites' = TargetSites
  BY DEF TargetSites, HasProject, FragmentOpt
<1>3. Project' = ProjectOf(fragSite')
  <2>1. Project' = ProjectOf(fragSite)'
    BY DEF Project
  <2>2. ProjectOf(fragSite)' = ProjectOf(fragSite')
    BY DEF ProjectOf, HasProject, FragmentOpt
  <2> QED BY <2>1, <2>2
<1> QED BY <1>1, <1>2, <1>3 DEF FragmentPlace

\* A run starts.
LEMMA StartPlace ==
  ASSUME FragmentTypes, FragmentPlace, StartFragments
  PROVE  FragmentPlace'
<1>1. UNCHANGED <<frag, projects, FragmentPortal, fragSite, fragmentsLeft, results, zips>> /\ reported' = {}
      /\ fragPc' \in {"error", "site"} /\ (fragPc' = "site" => sitesLeft' = TargetSites)
  BY DEF StartFragments
<1>2. Project' = Project
  BY <1>1, QuietPlace DEF Project
<1> QED BY <1>1, <1>2, QuietPlace DEF FragmentPlace, Sending

\* A site is entered.
LEMMA EnterPlace ==
  ASSUME FragmentTypes, FragmentPlace, EnterSite
  PROVE  FragmentPlace' /\ results' = {}
<1>1. PICK s \in sitesLeft : fragSite' = s /\ sitesLeft' = sitesLeft \ {s} /\ fragmentsLeft' = ProjectOf(s)
  BY DEF EnterSite
<1>2. UNCHANGED <<frag, projects, FragmentPortal, reported, zips>> /\ results' = {}
      /\ fragPc = "site" /\ fragPc' \in {"error", "zip", "collection"}
  BY DEF EnterSite
<1>3. Project' = ProjectOf(s) /\ Project' = fragmentsLeft'
  BY <1>1, <1>2, QuietPlace
<1> QED BY <1>1, <1>2, <1>3, QuietPlace DEF FragmentPlace, Sending

\* A step that leaves the results.
LEMMA StayPlace ==
  ASSUME FragmentTypes, FragmentPlace, SitesDone \/ ZipFails \/ FragmentsAgain \/ CopyZip
  PROVE  FragmentPlace'
<1>1. UNCHANGED <<frag, projects, FragmentPortal, fragSite, fragmentsLeft, results, reported, sitesLeft, collectionId, collections>>
      /\ fragPc' \in {"failed", "ok", "error", "ready", "poll"}
  BY DEF SitesDone, ZipFails, FragmentsAgain, CopyZip, FragmentPortal
<1>2. Project' = Project
  BY <1>1, QuietPlace DEF Project
<1>3. \A z \in zips' : z.fragment \in ProjectOf(z.site)
  <2>1. zips' \subseteq zips \cup {[site |-> fragSite, fragment |-> f] : f \in Project}
    BY DEF SitesDone, ZipFails, FragmentsAgain, CopyZip
  <2> QED BY <2>1 DEF FragmentPlace, Project
<1>4. fragPc' \in {"ok", "poll"} => \A s \in TargetSites :
       \/ s \in sitesLeft \/ (fragPc' # "ok" /\ s = fragSite)
       \/ \A f \in ProjectOf(s) : \E r \in reported : r.site = s /\ r.fragment = f
  BY DEF FragmentPlace, SitesDone, ZipFails, FragmentsAgain, CopyZip
<1>5. fragPc' = "ok" => sitesLeft' = {}
  BY DEF SitesDone, ZipFails, FragmentsAgain, CopyZip
<1> QED BY <1>1, <1>2, <1>3, <1>4, <1>5, QuietPlace DEF FragmentPlace, Sending

\* A site is done through JSONWS.
LEMMA JsonwsPlace ==
  ASSUME FragmentTypes, FragmentPlace, JsonwsDone
  PROVE  FragmentPlace'
<1>1. UNCHANGED <<frag, projects, FragmentPortal, fragSite, fragmentsLeft, results, sitesLeft, zips>>
      /\ fragPc = "jsonws" /\ fragPc' \in {"zip", "site"}
      /\ reported' = IF fragPc' = "zip" THEN reported ELSE reported \cup Report(results)
  BY DEF JsonwsDone
<1>2. Project' = Project
  BY <1>1, QuietPlace DEF Project
<1>3. \A f \in Project : \E r \in results : r.fragment = f
  BY <1>1 DEF FragmentPlace, Sending
<1>4. \A r \in results : [site |-> fragSite, by |-> fragPc, fragment |-> r.fragment, error |-> r.error] \in Report(results)
  BY DEF Report
<1>5. \A r \in Report(results) : r.site = fragSite /\ r.fragment \in Project
  BY DEF Report, FragmentPlace
<1>6. \A r \in reported' : r.fragment \in ProjectOf(r.site)
  BY <1>1, <1>5 DEF FragmentPlace, Project
<1>7. \A s \in TargetSites : s \in sitesLeft \/ (fragPc' = "zip" /\ s = fragSite)
        \/ \A f \in ProjectOf(s) : \E r \in reported' : r.site = s /\ r.fragment = f
  <2> TAKE s \in TargetSites
  <2>1. CASE s = fragSite
    <3>1. ASSUME NEW f \in ProjectOf(s)
          PROVE  \E r \in Report(results) : r.site = s /\ r.fragment = f
      <4>1. PICK r \in results : r.fragment = f
        BY <1>3, <2>1, <3>1 DEF Project
      <4> DEFINE x == [site |-> fragSite, by |-> fragPc, fragment |-> r.fragment, error |-> r.error]
      <4>2. x \in Report(results)
        BY <1>4
      <4>3. x.site = s /\ x.fragment = f
        BY <2>1, <4>1
      <4> HIDE DEF x
      <4> QED BY <4>2, <4>3
    <3> QED BY <1>1, <2>1, <3>1
  <2>2. CASE s # fragSite
    BY <1>1, <2>2 DEF FragmentPlace, Sending
  <2> QED BY <2>1, <2>2
<1> QED BY <1>1, <1>2, <1>6, <1>7, QuietPlace DEF FragmentPlace, Sending

\* The zip is awaited.
LEMMA PollPlace ==
  ASSUME FragmentTypes, FragmentPlace, PollZip
  PROVE  FragmentPlace'
<1>1. UNCHANGED <<frag, projects, FragmentPortal, fragSite, fragmentsLeft, results, sitesLeft, zips>> /\ fragPc = "poll"
  BY DEF PollZip
<1>2. Project' = Project
  BY <1>1, QuietPlace DEF Project
<1>3. CASE UNCHANGED <<fragPc, reported>>
  BY <1>1, <1>2, <1>3, QuietPlace DEF FragmentPlace, Sending
<1>4. CASE fragPc' = "site" /\ \E first \in FirstLocals : reported' = reported \cup
             Report({[fragment |-> f, error |-> IF f \in Present(first) THEN "" ELSE "missing"] : f \in Project})
  <2>1. PICK first \in FirstLocals : reported' = reported \cup
             Report({[fragment |-> f, error |-> IF f \in Present(first) THEN "" ELSE "missing"] : f \in Project})
    BY <1>4
  <2> DEFINE err(f) == IF f \in Present(first) THEN "" ELSE "missing"
             rs == {[fragment |-> f, error |-> err(f)] : f \in Project}
  <2>2. /\ \A r \in rs : r.fragment \in Project
        /\ \A f \in Project : \E r \in rs : r.fragment = f
    <3> HIDE DEF err
    <3>1. \A f \in Project : [fragment |-> f, error |-> err(f)] \in rs
      OBVIOUS
    <3>2. \A r \in rs : r.fragment \in Project
      OBVIOUS
    <3>3. \A f \in Project : [fragment |-> f, error |-> err(f)].fragment = f
      OBVIOUS
    <3> HIDE DEF rs
    <3> QED BY <3>1, <3>2, <3>3
  <2> HIDE DEF rs
  <2>3. /\ \A r \in Report(rs) : r.site = fragSite /\ r.fragment \in Project
        /\ \A f \in Project : \E r \in Report(rs) : r.site = fragSite /\ r.fragment = f
    <3>1. \A r \in rs : [site |-> fragSite, by |-> fragPc, fragment |-> r.fragment, error |-> r.error] \in Report(rs)
      BY DEF Report
    <3>2. \A r \in Report(rs) : r.site = fragSite /\ r.fragment \in Project
      BY <2>2 DEF Report
    <3> QED BY <2>2, <3>1, <3>2
  <2>4. reported' = reported \cup Report(rs)
    BY <2>1 DEF rs
  <2>5. \A r \in reported' : r.fragment \in ProjectOf(r.site)
    BY <2>3, <2>4 DEF FragmentPlace, Project
  <2>6. \A s \in TargetSites : s \in sitesLeft
          \/ \A f \in ProjectOf(s) : \E r \in reported' : r.site = s /\ r.fragment = f
    <3> TAKE s \in TargetSites
    <3>1. CASE s = fragSite
      BY <2>3, <2>4, <3>1 DEF Project
    <3>2. CASE s # fragSite
      BY <1>1, <2>4, <3>2 DEF FragmentPlace
    <3> QED BY <3>1, <3>2
  <2>7. fragPc' = "site"
    BY <1>4
  <2> QED BY <1>1, <1>2, <2>5, <2>6, <2>7, QuietPlace DEF FragmentPlace, Sending
<1> QED BY <1>3, <1>4 DEF PollZip

\* What Advance and Finished leave to do.
LEMMA Finishing ==
  ASSUME NEW done \in SUBSET fragmentsLeft, NEW c, NEW error, Finished(done, c, error)
  PROVE  /\ fragmentsLeft' = fragmentsLeft \ done /\ fragPc' \in Sending
         /\ fragPc' = "jsonws" => fragmentsLeft' = {}
         /\ fragPc' = "collection" => \A f \in fragmentsLeft' : f.collection # c
         /\ \A r \in results' : r \in results \/ (r.fragment \in done /\ r.error = error)
         /\ \A f \in done : \E r \in results' : r.fragment = f
         /\ results \subseteq results'
<1> DEFINE rs == {[fragment |-> f, error |-> error] : f \in done}
<1>1. fragmentsLeft' = fragmentsLeft \ done /\ results' = results \cup rs
      /\ fragPc' = IF fragmentsLeft' = {} THEN "jsonws"
                   ELSE IF \E f \in fragmentsLeft' : f.collection = c THEN "fragment" ELSE "collection"
  BY DEF Finished, Advance
<1>2. \A r \in rs : r.fragment \in done /\ r.error = error
  OBVIOUS
<1>3. \A f \in done : [fragment |-> f, error |-> error] \in rs /\ [fragment |-> f, error |-> error].fragment = f
  OBVIOUS
<1> HIDE DEF rs
<1> QED BY <1>1, <1>2, <1>3 DEF Sending

\* Results are added for what is taken off.
LEMMA SendPlace ==
  ASSUME FragmentTypes, FragmentPlace, fragPc \in {"collection", "fragment"}, UNCHANGED <<frag, projects, fragSite, sitesLeft, zips, reported>>,
         NEW done \in SUBSET fragmentsLeft, NEW c, NEW error, Finished(done, c, error),
         fragPc' = "fragment" => collectionId' \in 1 .. Len(collections')
  PROVE  FragmentPlace'
<1>1. Project' = Project
  BY QuietPlace DEF Project
<1>2. \A f \in Project \ fragmentsLeft' : \E r \in results' : r.fragment = f
  BY Finishing DEF FragmentPlace, Sending
<1>3. \A r \in results' : r.fragment \in Project
  BY Finishing DEF FragmentPlace
<1>4. fragmentsLeft' \subseteq Project
  <2>1. fragmentsLeft' = fragmentsLeft \ done
    BY Finishing
  <2> QED BY <2>1 DEF FragmentPlace
<1>5. \A s \in TargetSites : s \in sitesLeft \/ s = fragSite
        \/ \A f \in ProjectOf(s) : \E r \in reported : r.site = s /\ r.fragment = f
  BY DEF FragmentPlace, Sending
<1>6. fragPc' \in Sending /\ (fragPc' = "jsonws" => fragmentsLeft' = {})
  BY Finishing
<1> QED BY <1>1, <1>2, <1>3, <1>4, <1>5, <1>6, QuietPlace DEF FragmentPlace, Sending

\* A fragment is done, well or not.
LEMMA SendingPlace ==
  ASSUME FragmentTypes, KeysOnce, FragmentPlace, FragmentTypes', CollectionFails \/ SyncFragment \/ FragmentFails
  PROVE  FragmentPlace'
<1>1. UNCHANGED <<frag, projects, fragSite, sitesLeft, zips, reported, collectionId>> /\ fragPc \in {"collection", "fragment"}
  BY DEF CollectionFails, SyncFragment, FragmentFails
<1>2. CASE CollectionFails
  <2>1. PICK f \in fragmentsLeft, error \in {"list", "url"} :
          Finished({g \in fragmentsLeft : g.collection = f.collection}, f.collection, error)
    BY <1>2 DEF CollectionFails
  <2> DEFINE done == {g \in fragmentsLeft : g.collection = f.collection}
  <2>2. done \in SUBSET fragmentsLeft /\ Finished(done, f.collection, error)
    BY <2>1
  <2>3. fragPc' # "fragment"
    BY <2>1 DEF Finished, Advance
  <2> HIDE DEF done
  <2> QED BY <1>1, <2>2, <2>3, SendPlace
<1>3. CASE SyncFragment \/ FragmentFails
  <2>1. PICK f \in fragmentsLeft : \E error : Finished({f}, f.collection, error)
    BY <1>3 DEF SyncFragment, FragmentFails
  <2>2. PICK error : Finished({f}, f.collection, error)
    BY <2>1
  <2>3. fragPc = "fragment" /\ collections' = collections
    BY <1>3 DEF SyncFragment, FragmentFails
  <2>4. collectionId' \in 1 .. Len(collections')
    BY <1>1, <2>3 DEF FragmentPlace
  <2>5. {f} \in SUBSET fragmentsLeft
    OBVIOUS
  <2> QED BY <1>1, <2>2, <2>4, <2>5, SendPlace
<1> QED BY <1>2, <1>3

\* A collection is done.
LEMMA SyncPlace ==
  ASSUME FragmentTypes, KeysOnce, FragmentPlace, SyncCollection, FragmentTypes', collectionId' \in DOMAIN collections'
  PROVE  FragmentPlace'
<1>1. /\ UNCHANGED <<frag, projects, fragSite, sitesLeft, zips, reported, fragmentsLeft, results>>
      /\ fragPc = "collection" /\ fragPc' = "fragment"
  BY DEF SyncCollection
<1>2. Project' = Project
  BY <1>1, QuietPlace DEF Project
<1>3. collectionId' \in 1 .. Len(collections')
  BY DEF FragmentTypes
<1> QED BY <1>1, <1>2, <1>3, QuietPlace DEF FragmentPlace, Sending

\* A site is exported.
LEMMA ExportPlace ==
  ASSUME FragmentTypes, FragmentPlace, ExportFragments
  PROVE  FragmentPlace'
<1>1. UNCHANGED <<frag, FragmentPortal, fragSite, sitesLeft, zips, reported, fragmentsLeft, results>>
      /\ fragPc = "start" /\ fragPc' \in {"ready", "error"}
  BY DEF ExportFragments
<1>2. fragmentsLeft = {} /\ results = {} /\ reported = {} /\ zips = {}
  BY <1>1 DEF FragmentPlace
<1> QED BY <1>1, <1>2 DEF FragmentPlace, Sending

\* The autodeploy.
LEMMA AutodeployPlace ==
  ASSUME FragmentTypes, KeysOnce, FragmentPlace, FragmentTypes', NEW z \in zips, Autodeploy(z)
  PROVE  FragmentPlace'
<1>1. UNCHANGED <<frag, projects, fragSite, sitesLeft, reported, fragmentsLeft, results, fragPc, collectionId>> /\ zips' \subseteq zips
  BY DEF Autodeploy
<1>2. Project' = Project
  BY <1>1, QuietPlace DEF Project
<1>3. Len(collections) <= Len(collections')
  <2>1. CASE UNCHANGED collections
    BY <2>1, FragmentRows
  <2>2. CASE Installed(z.site, z.fragment)
    <3>1. z.fragment \in ProjectOf(z.site)
      BY DEF FragmentPlace
    <3>2. Makes(z.site, z.fragment)
      BY <1>1, <2>2, <3>1, Installing
    <3> QED BY <3>1, <3>2, Making
  <2> QED BY <2>1, <2>2 DEF Autodeploy, FragmentPortal
<1>4. fragPc' = "fragment" => collectionId' \in 1 .. Len(collections')
  <2>1. Len(collections) \in Nat /\ Len(collections') \in Nat
    BY FragmentRows DEF FragmentTypes
  <2> QED BY <1>1, <1>3, <2>1 DEF FragmentPlace
<1>5. fragPc \notin {"start", "off"}
  <2>1. zips # {}
    OBVIOUS
  <2> QED BY <2>1 DEF FragmentPlace
<1> QED BY <1>1, <1>2, <1>4, <1>5, QuietPlace DEF FragmentPlace, Sending

\* A step of any kind.
LEMMA StepPlace ==
  ASSUME FragmentTypes, KeysOnce, FragmentPlace, FragmentNext, FragmentTypes'
  PROVE  FragmentPlace'
BY StartPlace, EnterPlace, StayPlace, JsonwsPlace, PollPlace, SyncCollectionTypes, SyncPlace, SendingPlace, ExportPlace, AutodeployPlace
   DEF FragmentNext, FragmentStep

\* The zip comes after JSONWS only when that imported nothing.
LEMMA StepNoSecond ==
  ASSUME FragmentTypes, FragmentPlace, NoSecondImport, FragmentNext
  PROVE  NoSecondImport'
<1>1. CASE EnterSite
  BY <1>1 DEF EnterSite, NoSecondImport
<1>2. CASE JsonwsDone
  BY <1>2 DEF JsonwsDone, NoSecondImport, Unsupported
<1>3. CASE CopyZip \/ PollZip \/ ZipFails \/ StartFragments \/ SitesDone \/ FragmentsAgain \/ SyncCollection \/ ExportFragments
  BY <1>3 DEF CopyZip, PollZip, ZipFails, StartFragments, SitesDone, FragmentsAgain, SyncCollection, ExportFragments, NoSecondImport
<1>4. CASE CollectionFails \/ SyncFragment \/ FragmentFails
  BY <1>4 DEF CollectionFails, SyncFragment, FragmentFails, Finished, Advance, NoSecondImport
<1>5. CASE \E z \in zips : Autodeploy(z)
  BY <1>5 DEF Autodeploy, NoSecondImport
<1> QED BY <1>1, <1>2, <1>3, <1>4, <1>5 DEF FragmentNext, FragmentStep

-----------------------------------------------------------------------------
(* Every step keeps whose the rows are and what was imported.               *)
\* A step that leaves the portal is one that only adds to it.
LEMMA QuietGrows ==
  ASSUME FragmentTypes, FragmentNames, UNCHANGED <<frag, projects, FragmentPortal>>, SameFocus
  PROVE  PortalGrows /\ NewNames /\ NewBodies
<1>1. collections' = collections /\ entries' = entries
  BY DEF FragmentPortal
<1>2. CollectionsGrow /\ EntriesGrow
  BY <1>1, FragmentRows DEF CollectionsGrow, EntriesGrow
<1>3. NewNames /\ NewBodies
  BY <1>1 DEF NewNames, NewBodies
<1> QED BY <1>2, <1>3 DEF PortalGrows

\* A collection found stays found.
LEMMA FoundStays ==
  ASSUME FragmentTypes, PortalGrows, UNCHANGED fragSite, NEW id \in DOMAIN collections, NEW f, FoundAs(collections[id], f), FragmentTypes'
  PROVE  id \in DOMAIN collections' /\ FoundAs(collections[id], f)'
<1>1. id \in DOMAIN collections'
  <2>1. DOMAIN collections' = 1 .. Len(collections') /\ DOMAIN collections = 1 .. Len(collections)
    BY FragmentRows DEF FragmentTypes
  <2>2. Len(collections) \in Nat /\ Len(collections') \in Nat
    BY FragmentRows DEF FragmentTypes
  <2> QED BY <2>1, <2>2 DEF PortalGrows, CollectionsGrow
<1>2. /\ collections'[id].group = collections[id].group /\ collections'[id].key = collections[id].key
      /\ collections[id].key = "auto" => collections'[id] = collections[id]
  BY DEF PortalGrows, CollectionsGrow
<1>3. frag' = frag
  BY DEF PortalGrows
<1> QED BY <1>1, <1>2, <1>3 DEF FoundAs

\* What the cache knows after a step.
LEMMA CachesKept ==
  ASSUME FragmentTypes, FragmentTypes', FragmentPlace, ~Ambiguous, FragmentNames, PortalGrows, NewNames, NewBodies,
         fragPc' \in {"collection", "fragment"} /\ 0 \in DOMAIN cache' =>
           /\ fragPc \in {"collection", "fragment"} /\ fragSite' = fragSite
           /\ \A f \in fragmentsLeft' : ToFind(f)' /\ f.collection \in DOMAIN cache'[0] =>
                /\ f \in fragmentsLeft /\ ToFind(f) /\ f.collection \in DOMAIN CollectionIds
                /\ cache'[0][f.collection] = CollectionIds[f.collection],
         \A k \in DOMAIN cache' \ {0} : \A t \in DOMAIN cache'[k] :
           \/ cache'[k][t] \in DOMAIN entries /\ entries[cache'[k][t]].collection = k /\ TokenOf(cache'[k][t], t)
           \/ \E i \in DOMAIN entries' : i = cache'[k][t] /\ entries'[i].collection = k /\ TokenOf(i, t)'
  PROVE  CacheKnows'
<1>1. ASSUME fragPc' \in {"collection", "fragment"}, 0 \in DOMAIN cache', NEW f \in fragmentsLeft', ToFind(f)',
             f.collection \in DOMAIN cache'[0]
      PROVE  \E id \in 1 .. Len(collections') : id = cache'[0][f.collection] /\ FoundAs(collections[id], f)'
  <2>1. /\ fragPc \in {"collection", "fragment"} /\ fragSite' = fragSite /\ f \in fragmentsLeft /\ ToFind(f)
        /\ f.collection \in DOMAIN CollectionIds /\ cache'[0][f.collection] = CollectionIds[f.collection]
    BY <1>1
  <2>2. PICK id \in DOMAIN collections : id = CollectionIds[f.collection] /\ FoundAs(collections[id], f)
    BY <2>1, FoundCollection
  <2>3. id \in DOMAIN collections' /\ FoundAs(collections[id], f)'
    BY <2>1, <2>2, FoundStays
  <2>4. id \in 1 .. Len(collections')
    BY <2>3 DEF FragmentTypes
  <2> QED BY <2>1, <2>2, <2>3, <2>4
<1>2. ASSUME NEW k \in DOMAIN cache' \ {0}, NEW t \in DOMAIN cache'[k]
      PROVE  \E i \in DOMAIN entries' : i = cache'[k][t] /\ entries'[i].collection = k /\ TokenOf(i, t)'
  <2>1. CASE cache'[k][t] \in DOMAIN entries /\ entries[cache'[k][t]].collection = k /\ TokenOf(cache'[k][t], t)
    <3>1. DOMAIN entries \subseteq DOMAIN entries' /\ \A j \in DOMAIN entries : entries'[j].collection = entries[j].collection
      <4>1. /\ DOMAIN entries' = 1 .. Len(entries') /\ DOMAIN entries = 1 .. Len(entries)
            /\ Len(entries) \in Nat /\ Len(entries') \in Nat
        BY FragmentRows DEF FragmentTypes
      <4> QED BY <4>1 DEF PortalGrows, EntriesGrow
    <3>2. \A j \in DOMAIN entries : TokenOf(j, t) => TokenOf(j, t)'
      BY RowsKept
    <3>3. PICK i \in DOMAIN entries : i = cache'[k][t] /\ entries[i].collection = k /\ TokenOf(i, t)
      BY <2>1
    <3> QED BY <3>1, <3>2, <3>3
  <2>2. CASE \E i \in DOMAIN entries' : i = cache'[k][t] /\ entries'[i].collection = k /\ TokenOf(i, t)'
    BY <2>2
  <2> QED BY <1>2, <2>1, <2>2
<1>3. \A f \in fragmentsLeft' : fragPc' \in {"collection", "fragment"} /\ 0 \in DOMAIN cache' /\ ToFind(f)'
         /\ f.collection \in DOMAIN cache'[0] =>
         cache'[0][f.collection] \in 1 .. Len(collections') /\ FoundAs(collections[cache[0][f.collection]], f)'
  BY <1>1 DEF FoundAs
<1>4. \A k \in DOMAIN cache' \ {0} : \A t \in DOMAIN cache'[k] :
        cache'[k][t] \in DOMAIN entries' /\ entries'[cache'[k][t]].collection = k /\ TokenOf(cache[k][t], t)'
  BY <1>2 DEF TokenOf, CameFrom, CollectionOf
<1> QED BY <1>3, <1>4 DEF CacheKnows

\* The collection being done stays the right one.
LEMMA RightStays ==
  ASSUME FragmentTypes, FragmentPlace, FragmentNames, PortalGrows, UNCHANGED <<fragSite, collectionId, collectionAt>>,
         fragPc = "fragment" \/ fragPc' # "fragment"
  PROVE  RightCollection'
<1> SUFFICES ASSUME fragPc' = "fragment", fragPc = "fragment"
             PROVE  RightCollection'
  BY DEF RightCollection
<1>1. Project' = Project
  BY QuietPlace DEF Project, PortalGrows
<1>2. collectionId \in DOMAIN collections
  BY FragmentRows DEF FragmentPlace
<1>3. /\ collections'[collectionId].group = collections[collectionId].group
      /\ collections'[collectionId].key = collections[collectionId].key
      /\ collections[collectionId].key = "auto" => collections'[collectionId] = collections[collectionId]
  BY <1>2 DEF PortalGrows, CollectionsGrow
<1> QED BY <1>1, <1>3 DEF FragmentNames, RightCollection, StandsFor

\* Steps that leave the portal and the import as they are.
LEMMA QuietNames ==
  ASSUME FragmentTypes, FragmentTypes', FragmentPlace, ~Ambiguous, FragmentNames,
         UNCHANGED <<frag, projects, FragmentPortal>>, fragPc' # "fragment",
         cache' = cache \/ cache' = NoneRead, fragPc' = "collection" => cache' = NoneRead,
         \A r \in results' : r \in results /\ fragSite' = fragSite,
         \A r \in reported' : r \in reported \/ (r.by = "jsonws" => FragmentImported(r, r.site)')
  PROVE  FragmentNames'
<1>1. SameFocus
  BY DEF SameFocus
<1>2. PortalGrows /\ NewNames /\ NewBodies
  BY <1>1, QuietGrows
<1>3. DOMAIN NoneRead = {}
  BY DEF NoneRead
<1>4. \A k \in DOMAIN cache' \ {0} : \A t \in DOMAIN cache'[k] :
        cache'[k][t] \in DOMAIN entries /\ entries[cache'[k][t]].collection = k /\ TokenOf(cache'[k][t], t)
  <2>1. CASE cache' = cache
    BY <2>1 DEF FragmentNames, CacheKnows
  <2>2. CASE cache' = NoneRead
    BY <1>3, <2>2
  <2> QED BY <2>1, <2>2
<1>5. ~(fragPc' \in {"collection", "fragment"} /\ 0 \in DOMAIN cache')
  BY <1>3
<1>6. CacheKnows'
  BY <1>2, <1>4, <1>5, CachesKept
<1>7. RightCollection'
  BY DEF RightCollection
<1> QED BY <1>2, <1>6, <1>7, NamesKept

\* Steps that only move on.
LEMMA MovingNames ==
  ASSUME FragmentTypes, FragmentTypes', FragmentPlace, ~Ambiguous, FragmentNames,
         StartFragments \/ SitesDone \/ CopyZip \/ PollZip \/ ZipFails \/ FragmentsAgain
  PROVE  FragmentNames'
<1>1. /\ UNCHANGED <<frag, projects, FragmentPortal, cache, fragSite, results>>
      /\ fragPc' \notin {"fragment", "collection"}
  BY DEF StartFragments, SitesDone, CopyZip, PollZip, ZipFails, FragmentsAgain
<1>2. \A r \in reported' : r \in reported \/ r.by # "jsonws"
  <2>1. CASE PollZip
    <3>1. \A rs : \A r \in Report(rs) : r.by = fragPc
      BY DEF Report
    <3> QED BY <2>1, <3>1 DEF PollZip
  <2> QED BY <2>1 DEF StartFragments, SitesDone, CopyZip, ZipFails, FragmentsAgain
<1> QED BY <1>1, <1>2, QuietNames

\* A site is entered, with an empty cache.
LEMMA EnterNames ==
  ASSUME FragmentTypes, FragmentTypes', FragmentPlace, ~Ambiguous, FragmentNames, EnterSite
  PROVE  FragmentNames'
<1>1. /\ UNCHANGED <<frag, projects, FragmentPortal, reported>> /\ cache' = NoneRead /\ results' = {}
      /\ fragPc' # "fragment"
  BY DEF EnterSite
<1> QED BY <1>1, QuietNames

\* A site is done: its results are reported.
LEMMA JsonwsNames ==
  ASSUME FragmentTypes, FragmentTypes', FragmentPlace, ~Ambiguous, FragmentNames, JsonwsDone
  PROVE  FragmentNames'
<1>1. /\ UNCHANGED <<frag, projects, FragmentPortal, cache, fragSite, results>> /\ fragPc' \in {"zip", "site"}
      /\ reported' = IF fragPc' = "zip" THEN reported ELSE reported \cup Report(results)
  BY DEF JsonwsDone
<1>2. SameFocus
  BY <1>1 DEF SameFocus
<1>3. PortalGrows /\ NewNames /\ NewBodies
  BY <1>1, <1>2, QuietGrows
<1>4. ASSUME NEW r \in Report(results)
      PROVE  FragmentImported(r, r.site)'
  <2>1. PICK q \in results : r.site = fragSite /\ r.fragment = q.fragment /\ r.error = q.error
    BY <1>4 DEF Report
  <2>2. FragmentImported(q, fragSite) /\ q.fragment \in ProjectOf(fragSite)
    BY DEF FragmentNames, FragmentPlace, Project
  <2>3. ASSUME r.error = ""
        PROVE  frag.stored[r.fragment.body] = r.fragment.body /\ FragmentLanded(r.site, r.fragment)'
    <3>1. frag.stored[q.fragment.body] = q.fragment.body /\ FragmentLanded(fragSite, q.fragment)
      BY <2>1, <2>2, <2>3 DEF FragmentImported
    <3>2. FragmentLanded(fragSite, q.fragment)'
      <4>1. \A s, f : f \in ProjectOf(s) /\ frag.stored[f.body] = f.body /\ FragmentLanded(s, f) => FragmentLanded(s, f)'
        BY <1>3, RowsKept
      <4> QED BY <1>1, <2>2, <3>1, <4>1 DEF FragmentLanded
    <3> QED BY <1>1, <2>1, <3>1, <3>2 DEF FragmentLanded
  <2> QED BY <1>1, <2>3 DEF FragmentImported
<1> QED BY <1>1, <1>4, QuietNames

\* What a local collection was found as stands for it, and for no other one.
LEMMA FoundNamed ==
  ASSUME FragmentTypes, FragmentPlace, ~Ambiguous, FragmentNames, fragPc = "collection",
         NEW f \in fragmentsLeft, NEW id \in DOMAIN collections, FoundAs(collections[id], f)
  PROVE  /\ collections[id].group = fragSite
         /\ collections[id].key = f.collection \/ (collections[id].key = "auto" /\ collections[id].name = f.title)
         /\ \A g \in ProjectOf(fragSite) : StandsFor(collections[id], fragSite, g) => g.collection = f.collection
<1>1. f \in ProjectOf(fragSite)
  BY DEF FragmentPlace, Project
<1>2. collections[id].group = fragSite
  BY DEF FoundAs
<1>3. CASE collections[id].key = f.collection
  BY <1>1, <1>2, <1>3, SomeFragment DEF StandsFor
<1>4. CASE collections[id].key = "auto" /\ frag.token[collections[id].name] = f.collection
  <2>1. ~OldCollection(id)
    <3>1. CollectionRow(id)
      BY DEF FragmentNames
    <3>2. ASSUME OldCollection(id)
          PROVE  FALSE
      <4>1. id \in DOMAIN frag.collections
        BY <3>2, FragmentRows DEF OldCollection
      <4> QED BY <1>4, <3>1, <3>2, <4>1, FragmentRows DEF CollectionRow
    <3> QED BY <3>2
  <2>2. PICK g \in ProjectOf(fragSite) : g.title = collections[id].name
    BY <1>2, <2>1 DEF FragmentNames, CollectionRow
  <2>3. \A h \in ProjectOf(fragSite) : h.title = collections[id].name => f.collection = h.collection
    <3> TAKE h \in ProjectOf(fragSite)
    <3> HAVE h.title = collections[id].name
    <3> QED BY <1>1, <1>4, TokensApart
  <2>4. g.collection = f.collection /\ f.title = g.title
    BY <1>1, <2>2, <2>3, SomeFragment
  <2>5. \A h \in ProjectOf(fragSite) : h.collection # "auto"
    BY SomeFragment
  <2> QED BY <1>2, <1>4, <2>2, <2>3, <2>4, <2>5 DEF StandsFor
<1> QED BY <1>3, <1>4 DEF FoundAs

\* The collection is there, and is given the local name.
LEMMA SyncRenames ==
  ASSUME FragmentTypes, KeysOnce, FragmentPlace, ~Ambiguous, FragmentNames, fragPc = "collection", fragPc' = "fragment",
         NEW f \in fragmentsLeft, NEW id \in DOMAIN collections, FoundAs(collections[id], f),
         collections' \in {collections, Renamed(f, id)}, collectionId' = id, collectionAt' = f.collection,
         UNCHANGED <<frag, projects, entries, fragSite>>
  PROVE  PortalGrows /\ NewNames /\ NewBodies /\ RightCollection'
<1>1. f \in ProjectOf(fragSite) /\ f.title \in STRING /\ id \in Nat
  BY SomeFragment, FragmentRows DEF FragmentPlace, Project
<1>2. /\ collections[id].group = fragSite
      /\ collections[id].key = f.collection \/ (collections[id].key = "auto" /\ collections[id].name = f.title)
      /\ \A g \in ProjectOf(fragSite) : StandsFor(collections[id], fragSite, g) => g.collection = f.collection
  BY FoundNamed
<1>3. /\ Renamed(f, id) \in Seq(CollectionType) /\ Len(Renamed(f, id)) = Len(collections)
      /\ DOMAIN Renamed(f, id) = DOMAIN collections
      /\ \A i \in DOMAIN collections : /\ Renamed(f, id)[i].group = collections[i].group
                                       /\ Renamed(f, id)[i].key = collections[i].key
                                       /\ Renamed(f, id)[i].name = IF i = id THEN f.title ELSE collections[i].name
                                       /\ i # id => Renamed(f, id)[i] = collections[i]
  BY <1>1, Renaming
<1>4. \A i \in DOMAIN collections : collections[i] \in CollectionType /\ Renamed(f, id)[i] \in CollectionType
  <2>1. \A i \in DOMAIN collections : collections[i] \in CollectionType
    BY FragmentRows DEF CollectionType
  <2> DEFINE new == Renamed(f, id)
  <2>2. new \in Seq(CollectionType) /\ DOMAIN new = DOMAIN collections
    BY <1>3
  <2> HIDE DEF new
  <2>3. \A i \in DOMAIN new : new[i] \in CollectionType
    BY <2>2, SeqRows, Zenon
  <2> QED BY <2>1, <2>2, <2>3 DEF new
<1>5. collections[id].key = "auto" => Renamed(f, id)[id] = collections[id]
  <2> SUFFICES ASSUME collections[id].key = "auto"
               PROVE  Renamed(f, id)[id] = collections[id]
    OBVIOUS
  <2>1. collections[id].name = f.title
    BY <1>1, <1>2, SomeFragment
  <2> QED BY <1>3, <1>4, <2>1 DEF CollectionType
<1>6. /\ Len(collections) <= Len(collections') /\ DOMAIN collections' = DOMAIN collections
      /\ \A i \in DOMAIN collections :
           /\ collections'[i].group = collections[i].group /\ collections'[i].key = collections[i].key
           /\ collections[i].key = "auto" => collections'[i] = collections[i]
           /\ collections'[i].name = collections[i].name \/ (i = id /\ collections'[i].name = f.title)
  <2>1. CASE collections' = collections
    BY <2>1, FragmentRows
  <2>2. CASE collections' = Renamed(f, id)
    BY <1>3, <1>5, <2>2, FragmentRows
  <2> QED BY <2>1, <2>2
<1>7. SameFocus
  <2>1. ASSUME NEW i \in DOMAIN entries, entries[i].collection = collectionId', NEW g \in ProjectOf(CollectionOf(i).group),
               StandsFor(CollectionOf(i), CollectionOf(i).group, g)
        PROVE  g.collection = collectionAt'
    <3>1. CollectionOf(i) = collections[id]
      BY <2>1 DEF CollectionOf
    <3> QED BY <1>2, <2>1, <3>1
  <2> QED BY <2>1 DEF SameFocus
<1>8. PortalGrows
  BY <1>6, <1>7, FragmentRows DEF PortalGrows, CollectionsGrow, EntriesGrow
<1>9. NewNames
  <2>1. collections'[id].name = collections[id].name \/ (f.collection = collections[id].key /\ f.title = collections'[id].name)
    BY <1>2, <1>6
  <2> QED BY <1>1, <1>2, <1>6, <2>1 DEF NewNames
<1>10. NewBodies
  BY DEF NewBodies
<1>11. RightCollection'
  <2>1. Project' = ProjectOf(fragSite)
    BY QuietPlace DEF Project
  <2>2. \A g \in ProjectOf(fragSite) : g.collection = f.collection => g.title = f.title
    BY <1>1, SomeFragment
  <2>3. /\ collections'[id].group = fragSite
        /\ collections'[id].key = f.collection \/ (collections'[id].key = "auto" /\ collections'[id].name = f.title)
    BY <1>2, <1>6
  <2> QED BY <2>1, <2>2, <2>3 DEF RightCollection, StandsFor
<1> QED BY <1>8, <1>9, <1>10, <1>11

\* Collections were made under the local name.
LEMMA MadeNames ==
  ASSUME FragmentTypes, KeysOnce, NEW s, NEW f \in ProjectOf(s), Makes(s, f), UNCHANGED <<frag, projects, entries>>, SameFocus
  PROVE  PortalGrows /\ NewNames /\ NewBodies
<1>1. /\ collections' \in Seq(CollectionType) /\ Len(collections) <= Len(collections')
      /\ \A i \in DOMAIN collections : i \in DOMAIN collections' /\ collections'[i] = collections[i]
      /\ \A i \in DOMAIN collections' \ DOMAIN collections :
           /\ collections'[i].group = s /\ collections'[i].name = f.title /\ collections'[i].key \in {f.collection, "auto"}
  BY Making
<1>2. PortalGrows
  BY <1>1, FragmentRows DEF PortalGrows, CollectionsGrow, EntriesGrow
<1>3. NewNames
  BY <1>1 DEF NewNames
<1>4. NewBodies
  BY DEF NewBodies
<1> QED BY <1>2, <1>3, <1>4

\* The collection is not there, and is made.
LEMMA SyncMakesNames ==
  ASSUME FragmentTypes, KeysOnce, FragmentPlace, FragmentNames, fragPc' = "fragment",
         NEW f \in fragmentsLeft, CreateCollection(f), collectionAt' = f.collection,
         UNCHANGED <<frag, projects, entries, fragSite>>
  PROVE  PortalGrows /\ NewNames /\ NewBodies /\ RightCollection'
<1>1. f \in ProjectOf(fragSite)
  BY DEF FragmentPlace, Project
<1>2. /\ Makes(fragSite, f) /\ collectionId' = Len(collections')
      /\ \/ collections' = WithKey(f)
         \/ \E cs \in {collections, WithKey(f)} : collections' = WithoutKey(cs, f)
  BY Creating
<1>3. /\ collections' \in Seq(CollectionType) /\ Len(collections) <= Len(collections')
      /\ \A i \in DOMAIN collections' \ DOMAIN collections :
           /\ collections'[i].group = fragSite /\ collections'[i].name = f.title /\ collections'[i].key \in {f.collection, "auto"}
  BY <1>1, <1>2, Making
<1>4. Len(collections') \in Nat /\ Len(collections') > Len(collections) /\ Len(collections) \in Nat
  <2>1. LocalRow(f) \in CollectionType /\ [LocalRow(f) EXCEPT !.key = "auto"] \in CollectionType
    BY <1>1, SomeFragment DEF LocalRow, CollectionType
  <2>2. collections \in Seq(CollectionType) /\ Len(collections) \in Nat
    BY FragmentRows DEF FragmentTypes, CollectionType
  <2>3. WithKey(f) \in Seq(CollectionType) /\ Len(WithKey(f)) = Len(collections) + 1
    BY <2>1, <2>2, OneMore DEF WithKey
  <2>4. \A cs \in {collections, WithKey(f)} : Len(WithoutKey(cs, f)) = Len(cs) + 1
    BY <2>1, <2>2, <2>3, OneMore DEF WithoutKey
  <2> QED BY <1>2, <1>3, <2>2, <2>3, <2>4
<1>5. collectionId' \in DOMAIN collections' \ DOMAIN collections
  <2>1. DOMAIN collections' = 1 .. Len(collections') /\ DOMAIN collections = 1 .. Len(collections)
    BY <1>3, FragmentRows
  <2> QED BY <1>2, <1>4, <2>1
<1>6. SameFocus
  BY <1>5, FragmentRows DEF SameFocus
<1>7. RightCollection'
  <2>1. Project' = ProjectOf(fragSite)
    BY QuietPlace DEF Project
  <2>2. \A g \in ProjectOf(fragSite) : g.collection = f.collection => g.title = f.title
    BY <1>1, SomeFragment
  <2> QED BY <1>3, <1>5, <2>1, <2>2 DEF RightCollection, StandsFor
<1> QED BY <1>1, <1>2, <1>6, <1>7, MadeNames

\* A collection is found, renamed or made.
LEMMA SyncCollectionNames ==
  ASSUME FragmentTypes, FragmentTypes', KeysOnce, FragmentPlace, ~Ambiguous, FragmentNames, SyncCollection
  PROVE  FragmentNames'
<1>1. PICK f \in fragmentsLeft :
        LET id == Known(CollectionIds, f.collection)
        IN  (IF id = 0 THEN CreateCollection(f) ELSE RenameCollection(f, id)) /\ collectionAt' = f.collection
  BY DEF SyncCollection
<1>2. /\ f \in ProjectOf(fragSite) /\ UNCHANGED <<frag, entries, projects, fragSite, fragmentsLeft, results, reported>>
      /\ fragPc = "collection" /\ fragPc' = "fragment" /\ collectionAt' = f.collection
  BY <1>1 DEF SyncCollection, FragmentPlace, Project
<1>3. \A g \in fragmentsLeft : ToFind(g)
  BY <1>2 DEF ToFind
<1>4. /\ PortalGrows /\ NewNames /\ NewBodies /\ RightCollection'
      /\ \E ids \in {CollectionIds} \cup {Cached(CollectionIds, id, LocalRow(f)) : id \in Nat} : cache' = PutAt(cache, {0}, ids)
  <2>1. CASE Known(CollectionIds, f.collection) = 0
    <3>1. CreateCollection(f)
      BY <1>1, <2>1
    <3>2. cache' = PutAt(cache, {0}, Cached(CollectionIds, Len(collections'), LocalRow(f)))
      BY <3>1, Creating
    <3>3. Len(collections') \in Nat
      BY FragmentTypes' DEF FragmentTypes
    <3> QED BY <1>2, <3>1, <3>2, <3>3, SyncMakesNames
  <2>2. CASE Known(CollectionIds, f.collection) # 0
    <3> DEFINE id == CollectionIds[f.collection]
    <3>1. f.collection \in DOMAIN CollectionIds /\ Known(CollectionIds, f.collection) = id
      BY <2>2 DEF Known
    <3>2. id \in DOMAIN collections /\ FoundAs(collections[id], f)
      BY <1>2, <1>3, <3>1, FoundCollection
    <3>3. RenameCollection(f, id)
      BY <1>1, <2>2, <3>1
    <3> HIDE DEF id
    <3>4. /\ collectionId' = id /\ collections' \in {collections, Renamed(f, id)}
          /\ cache' = PutAt(cache, {0}, Cached(CollectionIds, id, LocalRow(f))) \/ cache' = PutAt(cache, {0}, CollectionIds)
      BY <3>3 DEF RenameCollection
    <3>5. id \in Nat
      BY <3>2, FragmentRows
    <3> QED BY <1>2, <3>2, <3>4, <3>5, SyncRenames
  <2> QED BY <2>1, <2>2
<1>5. CacheKnows'
  <2>1. PICK ids \in {CollectionIds} \cup {Cached(CollectionIds, id, LocalRow(f)) : id \in Nat} : cache' = PutAt(cache, {0}, ids)
    BY <1>4
  <2>2. cache'[0] = ids /\ \A k \in DOMAIN cache' \ {0} : k \in DOMAIN cache /\ cache'[k] = cache[k]
    BY <2>1 DEF PutAt
  <2>3. ASSUME NEW g \in fragmentsLeft', ToFind(g)', g.collection \in DOMAIN ids
        PROVE  g \in fragmentsLeft /\ ToFind(g) /\ g.collection \in DOMAIN CollectionIds /\ ids[g.collection] = CollectionIds[g.collection]
    <3>1. g \in fragmentsLeft /\ g.collection # f.collection /\ g \in ProjectOf(fragSite)
      BY <1>2, <2>3 DEF ToFind, FragmentPlace, Project
    <3>2. g.collection \notin Tokens(LocalRow(f))
      <4>1. g.collection \notin {f.collection, frag.token[f.title]}
        BY <1>2, <3>1, TokensApart
      <4> QED BY <4>1 DEF Tokens, LocalRow
    <3>3. CASE ids = CollectionIds
      BY <1>3, <2>3, <3>1, <3>3
    <3>4. CASE \E id \in Nat : ids = Cached(CollectionIds, id, LocalRow(f))
      <4>1. PICK id \in Nat : ids = Cached(CollectionIds, id, LocalRow(f))
        BY <3>4
      <4> QED BY <1>3, <2>3, <3>1, <3>2, <4>1 DEF Cached, PutAt
    <3> QED BY <2>1, <3>3, <3>4
  <2>4. \A k \in DOMAIN cache' \ {0} : \A t \in DOMAIN cache'[k] :
          cache'[k][t] \in DOMAIN entries /\ entries[cache'[k][t]].collection = k /\ TokenOf(cache'[k][t], t)
    BY <2>2 DEF FragmentNames, CacheKnows
  <2> QED BY <1>2, <1>4, <2>2, <2>3, <2>4, CachesKept
<1> QED BY <1>2, <1>4, <1>5, NamesKept

\* Or that fails.
LEMMA CollectionFailsNames ==
  ASSUME FragmentTypes, FragmentTypes', KeysOnce, FragmentPlace, ~Ambiguous, FragmentNames, CollectionFails
  PROVE  FragmentNames'
<1>1. PICK f \in fragmentsLeft, error \in {"list", "url"} :
        /\ CollectionRefused(f, error) /\ collectionAt' = f.collection
        /\ Finished({g \in fragmentsLeft : g.collection = f.collection}, f.collection, error)
  BY DEF CollectionFails
<1> DEFINE done == {g \in fragmentsLeft : g.collection = f.collection}
<1>2. /\ f \in ProjectOf(fragSite) /\ UNCHANGED <<frag, entries, projects, fragSite, reported>>
      /\ fragPc = "collection"
  BY DEF CollectionFails, FragmentPlace, Project
<1>3. /\ Makes(fragSite, f)
      /\ cache' = cache \/ cache' = PutAt(cache, {0}, CollectionIds)
  BY <1>1, CollectionLeft
<1>4. fragPc' # "fragment" /\ fragmentsLeft' \subseteq fragmentsLeft
  BY <1>1 DEF Finished, Advance
<1>5. \A r \in results' : r \in results \/ r.error # ""
  <2>1. done \in SUBSET fragmentsLeft /\ Finished(done, f.collection, error)
    BY <1>1
  <2> HIDE DEF done
  <2> QED BY <1>1, <2>1, Finishing
<1>6. PortalGrows /\ NewNames /\ NewBodies
  BY <1>2, <1>3, <1>4, MadeNames DEF SameFocus
<1>7. 0 \in DOMAIN cache' => cache'[0] = CollectionIds
  BY <1>3 DEF PutAt, CollectionIds
<1>8. \A k \in DOMAIN cache' \ {0} : k \in DOMAIN cache /\ cache'[k] = cache[k]
  BY <1>3 DEF PutAt
<1>9. \A k \in DOMAIN cache' \ {0} : \A t \in DOMAIN cache'[k] :
        cache'[k][t] \in DOMAIN entries /\ entries[cache'[k][t]].collection = k /\ TokenOf(cache'[k][t], t)
  BY <1>8 DEF FragmentNames, CacheKnows
<1>10. \A g \in fragmentsLeft' : g \in fragmentsLeft /\ ToFind(g)
  BY <1>2, <1>4 DEF ToFind
<1>11. CacheKnows'
  BY <1>2, <1>6, <1>7, <1>9, <1>10, CachesKept
<1>12. RightCollection'
  BY <1>4 DEF RightCollection
<1>13. \A r \in results' : r \in results \/ FragmentImported(r, fragSite)'
  BY <1>5 DEF FragmentImported
<1> QED BY <1>2, <1>6, <1>11, <1>12, <1>13, NamesKept

\* A fragment is written over its own entry, or becomes a new one.
LEMMA WriteNames ==
  ASSUME FragmentTypes, KeysOnce, FragmentPlace, ~Ambiguous, FragmentNames, fragPc = "fragment",
         NEW f \in fragmentsLeft, f.collection = collectionAt, NEW id, id = Known(EntryIds, f.slug), id = 0 => ~EntryTaken(f), NEW w, w = WrittenAt(id),
         entries' = WrittenEntries(id, f), UNCHANGED <<frag, projects, collections, collectionId, collectionAt, fragSite>>
  PROVE  /\ PortalGrows /\ NewNames /\ NewBodies
         /\ w \in DOMAIN entries' /\ entries'[w].collection = collectionId
         /\ CameFrom(w, f)' /\ CollectionOf(w)'.group = fragSite
         /\ entries'[w].key = f.slug /\ entries'[w].body = frag.stored[f.body]
<1>1. f \in ProjectOf(fragSite)
  BY DEF FragmentPlace, Project
<1>2. /\ collectionId \in DOMAIN collections
      /\ \A t \in DOMAIN EntryIds : EntryIds[t] \in DOMAIN entries
  <2>1. Len(entries) \in Nat /\ Len(entries) <= Len(entries)
    BY FragmentRows
  <2> QED BY <2>1, FragmentPut
<1>3. (id = 0 /\ ~EntryTaken(f)) \/ id \in DOMAIN entries
  BY <1>2 DEF Known
<1>4. /\ entries' \in Seq(EntryType) /\ Len(entries) <= Len(entries')
      /\ DOMAIN entries' = DOMAIN entries \cup {w}
      /\ \A i \in DOMAIN entries : /\ entries'[i].collection = entries[i].collection /\ entries'[i].key = entries[i].key
                                   /\ i # id => entries'[i] = entries[i]
      /\ entries'[w].name = f.name /\ entries'[w].body = frag.stored[f.body]
      /\ id = 0 => entries'[w].collection = collectionId /\ entries'[w].key = f.slug
  <2>1. entries' = WrittenEntries(id, f)
    OBVIOUS
  <2> QED BY <1>1, <1>2, <1>3, <2>1, Writing, SMTT(30)
<1>5. id # 0 => /\ id \in DOMAIN entries /\ entries[id].collection = collectionId /\ entries[id].key = f.slug
                /\ CollectionOf(id).group = fragSite /\ \A g \in ProjectOf(fragSite) : CameFrom(id, g) => g = f
  <2> SUFFICES ASSUME id # 0
               PROVE  /\ id \in DOMAIN entries /\ entries[id].collection = collectionId /\ entries[id].key = f.slug
                      /\ CollectionOf(id).group = fragSite /\ \A g \in ProjectOf(fragSite) : CameFrom(id, g) => g = f
    OBVIOUS
  <2>1. f.slug \in DOMAIN EntryIds /\ id = EntryIds[f.slug]
    BY DEF Known
  <2>2. id \in DOMAIN entries /\ entries[id].collection = collectionId /\ TokenOf(id, f.slug)
    BY <2>1, KnownEntry
  <2> QED BY <2>2, OwnEntry
<1>6. id # 0 => w = id
  BY DEF WrittenAt
<1>7. entries'[w].collection = collectionId /\ entries'[w].key = f.slug
  BY <1>4, <1>5, <1>6
<1>8. /\ collections[collectionId].group = fragSite /\ StandsFor(collections[collectionId], fragSite, f)
  BY <1>1 DEF FragmentNames, RightCollection, Project
<1>9. CollectionOf(w)' = collections[collectionId]
  BY <1>7 DEF CollectionOf
<1>10. CameFrom(w, f)'
  BY <1>7, <1>8, <1>9 DEF CameFrom
<1>11. SameFocus
  BY DEF SameFocus
<1>12. PortalGrows
  BY <1>4, <1>11, FragmentRows DEF PortalGrows, CollectionsGrow, EntriesGrow
<1>13. NewNames
  <2>1. ASSUME NEW i \in DOMAIN entries
        PROVE  \/ entries'[i] = entries[i]
               \/ \E g \in ProjectOf(CollectionOf(i).group) : CameFrom(i, g)' /\ g.name = entries'[i].name
    BY <1>1, <1>4, <1>5, <1>6, <1>10
  <2>2. ASSUME NEW i \in DOMAIN entries' \ DOMAIN entries
        PROVE  \E g \in ProjectOf(CollectionOf(i)'.group) : CameFrom(i, g)' /\ g.name = entries'[i].name
    BY <1>1, <1>4, <1>8, <1>9, <1>10
  <2> QED BY <2>1, <2>2 DEF NewNames
<1>14. NewBodies
  BY <1>4, <1>5, <1>6 DEF NewBodies
<1> QED BY <1>4, <1>7, <1>8, <1>9, <1>10, <1>12, <1>13, <1>14

\* A fragment is written.
LEMMA SyncFragmentNames ==
  ASSUME FragmentTypes, FragmentTypes', KeysOnce, FragmentPlace, ~Ambiguous, FragmentNames, SyncFragment
  PROVE  FragmentNames'
<1>1. PICK f \in fragmentsLeft :
        LET id == Known(EntryIds, f.slug)
        IN  /\ f.collection = collectionAt /\ (id = 0 => ~EntryTaken(f))
            /\ entries' = WrittenEntries(id, f)
            /\ cache' = PutAt(cache, {collectionId},
                              Cached(EntryIds, IF id = 0 THEN Len(entries) + 1 ELSE id, FragmentRow(f)))
            /\ Finished({f}, f.collection, IF frag.stored[f.body] = f.body THEN "" ELSE "mismatch")
  BY DEF SyncFragment
<1>2. PICK id : id = Known(EntryIds, f.slug)
  OBVIOUS
<1>3. PICK w : w = WrittenAt(id)
  OBVIOUS
<1>4. /\ f \in ProjectOf(fragSite) /\ UNCHANGED <<frag, projects, collections, collectionId, collectionAt, fragSite, reported>>
      /\ fragPc = "fragment"
  BY DEF SyncFragment, FragmentPlace, Project
<1>5. /\ f.collection = collectionAt /\ (id = 0 => ~EntryTaken(f)) /\ entries' = WrittenEntries(id, f)
      /\ cache' = PutAt(cache, {collectionId}, Cached(EntryIds, w, FragmentRow(f)))
  BY <1>1, <1>2, <1>3 DEF WrittenAt
<1>6. /\ PortalGrows /\ NewNames /\ NewBodies
      /\ w \in DOMAIN entries' /\ entries'[w].collection = collectionId
      /\ CameFrom(w, f)' /\ CollectionOf(w)'.group = fragSite
      /\ entries'[w].key = f.slug /\ entries'[w].body = frag.stored[f.body]
  BY <1>2, <1>3, <1>4, <1>5, WriteNames
<1>7. /\ fragmentsLeft' = fragmentsLeft \ {f}
      /\ fragPc' = "collection" => \A g \in fragmentsLeft' : g.collection # f.collection
      /\ \A r \in results' : r \in results \/ (r.fragment = f /\ (r.error = "" => frag.stored[f.body] = f.body))
  <2>1. PICK error : error = IF frag.stored[f.body] = f.body THEN "" ELSE "mismatch"
    OBVIOUS
  <2>2. PICK done : done = {f} /\ done \in SUBSET fragmentsLeft
    OBVIOUS
  <2>3. Finished(done, f.collection, error)
    BY <1>1, <2>1, <2>2
  <2>4. /\ fragmentsLeft' = fragmentsLeft \ done
        /\ fragPc' = "collection" => \A g \in fragmentsLeft' : g.collection # f.collection
        /\ \A r \in results' : r \in results \/ (r.fragment \in done /\ r.error = error)
    BY <2>2, <2>3, Finishing
  <2> QED BY <2>1, <2>2, <2>4
<1>8. \A g \in fragmentsLeft' : ToFind(g)' => g \in fragmentsLeft /\ ToFind(g)
  <2>1. fragPc' \in {"jsonws", "fragment", "collection"} /\ (fragPc' = "jsonws" => fragmentsLeft' = {})
    BY <1>1 DEF Finished, Advance
  <2> QED BY <1>4, <1>5, <1>7, <2>1 DEF ToFind
<1>9. collectionId # 0
  BY <1>4, FragmentRows DEF FragmentPlace
<1>10. 0 \in DOMAIN cache' => 0 \in DOMAIN cache /\ cache'[0] = CollectionIds
  BY <1>5, <1>9 DEF PutAt, CollectionIds
<1>11. ASSUME NEW k \in DOMAIN cache' \ {0}, NEW t \in DOMAIN cache'[k]
       PROVE  \/ cache'[k][t] \in DOMAIN entries /\ entries[cache'[k][t]].collection = k /\ TokenOf(cache'[k][t], t)
              \/ \E i \in DOMAIN entries' : i = cache'[k][t] /\ entries'[i].collection = k /\ TokenOf(i, t)'
  <2>1. CASE k = collectionId
    <3>1. cache'[k] = Cached(EntryIds, w, FragmentRow(f))
      BY <1>5, <2>1 DEF PutAt
    <3>2. CASE t \in Tokens(FragmentRow(f))
      <4>1. cache'[k][t] = w
        BY <3>1, <3>2 DEF Cached, PutAt
      <4>2. t = f.slug \/ t = frag.token[f.name]
        BY <3>2 DEF Tokens, FragmentRow
      <4>3. \A s : ProjectOf(s)' = ProjectOf(s)
        BY <1>4, SameProjects
      <4>4. TokenOf(w, t)'
        BY <1>4, <1>6, <4>2, <4>3 DEF TokenOf
      <4> QED BY <1>6, <2>1, <4>1, <4>4
    <3>3. CASE t \notin Tokens(FragmentRow(f))
      <4>1. t \in DOMAIN EntryIds /\ cache'[k][t] = EntryIds[t]
        BY <1>11, <3>1, <3>3 DEF Cached, PutAt
      <4> QED BY <1>4, <2>1, <4>1, KnownEntry
    <3> QED BY <3>2, <3>3
  <2>2. CASE k # collectionId
    <3>1. k \in DOMAIN cache \ {0} /\ cache'[k] = cache[k]
      BY <1>5, <2>2 DEF PutAt
    <3> QED BY <3>1 DEF FragmentNames, CacheKnows
  <2> QED BY <2>1, <2>2
<1>12. CacheKnows'
  <2>1. 0 \in DOMAIN cache' => \A g \in fragmentsLeft' : ToFind(g)' /\ g.collection \in DOMAIN cache'[0] =>
          /\ g \in fragmentsLeft /\ ToFind(g) /\ g.collection \in DOMAIN CollectionIds
          /\ cache'[0][g.collection] = CollectionIds[g.collection]
    BY <1>8, <1>10
  <2> QED BY <1>4, <1>6, <1>11, <2>1, CachesKept
<1>13. RightCollection'
  BY <1>4, <1>6, RightStays
<1>14. FragmentLanded(fragSite, f)' \/ frag.stored[f.body] # f.body
  BY <1>4, <1>6 DEF FragmentLanded
<1>15. \A r \in results' : r \in results \/ FragmentImported(r, fragSite)'
  BY <1>4, <1>7, <1>14 DEF FragmentImported, FragmentLanded
<1> QED BY <1>4, <1>6, <1>12, <1>13, <1>15, NamesKept

\* A fragment fails.
LEMMA FragmentFailsNames ==
  ASSUME FragmentTypes, FragmentTypes', KeysOnce, FragmentPlace, ~Ambiguous, FragmentNames, FragmentFails
  PROVE  FragmentNames'
<1>1. PICK f \in fragmentsLeft, error \in {"list", "url"} :
        f.collection = collectionAt /\ FragmentRefused(f, error) /\ Finished({f}, f.collection, error)
  BY DEF FragmentFails
<1>2. PICK id : id = Known(EntryIds, f.slug)
  OBVIOUS
<1>3. PICK w : w = WrittenAt(id)
  OBVIOUS
<1>4. /\ UNCHANGED <<frag, projects, collections, collectionId, collectionAt, fragSite, reported>>
      /\ fragPc = "fragment"
  BY DEF FragmentFails
<1>5. /\ entries' = entries \/ ((id = 0 => ~EntryTaken(f)) /\ entries' = WrittenEntries(id, f))
      /\ cache' = cache \/ cache' = PutAt(cache, {collectionId}, EntryIds)
  BY <1>1, <1>2, FragmentRefusal
<1>6. PortalGrows /\ NewNames /\ NewBodies
  <2>1. CASE entries' = entries
    BY <1>4, <2>1, QuietGrows DEF SameFocus, FragmentPortal
  <2>2. CASE (id = 0 => ~EntryTaken(f)) /\ entries' = WrittenEntries(id, f)
    BY <1>1, <1>2, <1>3, <1>4, <2>2, WriteNames
  <2> QED BY <1>5, <2>1, <2>2
<1>7. /\ fragmentsLeft' = fragmentsLeft \ {f}
      /\ fragPc' = "collection" => \A g \in fragmentsLeft' : g.collection # f.collection
      /\ \A r \in results' : r \in results \/ r.error # ""
  <2>1. PICK done : done = {f} /\ done \in SUBSET fragmentsLeft
    OBVIOUS
  <2>2. PICK c : c = f.collection
    OBVIOUS
  <2>3. Finished(done, c, error)
    BY <1>1, <2>1, <2>2
  <2>4. /\ fragmentsLeft' = fragmentsLeft \ done
        /\ fragPc' = "collection" => \A g \in fragmentsLeft' : g.collection # c
        /\ \A r \in results' : r \in results \/ (r.fragment \in done /\ r.error = error)
    BY <2>1, <2>3, Finishing, ZenonT(40)
  <2> QED BY <1>1, <2>1, <2>2, <2>4
<1>8. \A g \in fragmentsLeft' : ToFind(g)' => g \in fragmentsLeft /\ ToFind(g)
  <2>1. fragPc' \in {"jsonws", "fragment", "collection"} /\ (fragPc' = "jsonws" => fragmentsLeft' = {})
    BY <1>1 DEF Finished, Advance
  <2> QED BY <1>1, <1>4, <1>7, <2>1 DEF ToFind
<1>9. collectionId # 0
  BY <1>4, FragmentRows DEF FragmentPlace
<1>10. 0 \in DOMAIN cache' => 0 \in DOMAIN cache /\ cache'[0] = CollectionIds
  BY <1>5, <1>9 DEF PutAt, CollectionIds
<1>11. ASSUME NEW k \in DOMAIN cache' \ {0}, NEW t \in DOMAIN cache'[k]
       PROVE  cache'[k][t] \in DOMAIN entries /\ entries[cache'[k][t]].collection = k /\ TokenOf(cache'[k][t], t)
  <2>1. CASE k \in DOMAIN cache /\ cache'[k] = cache[k]
    BY <1>11, <2>1 DEF FragmentNames, CacheKnows
  <2>2. CASE k = collectionId /\ cache'[k] = EntryIds
    BY <1>4, <1>11, <2>2, KnownEntry
  <2> QED BY <1>5, <2>1, <2>2 DEF PutAt
<1>12. CacheKnows'
  <2>1. 0 \in DOMAIN cache' => \A g \in fragmentsLeft' : ToFind(g)' /\ g.collection \in DOMAIN cache'[0] =>
          /\ g \in fragmentsLeft /\ ToFind(g) /\ g.collection \in DOMAIN CollectionIds
          /\ cache'[0][g.collection] = CollectionIds[g.collection]
    BY <1>8, <1>10
  <2> QED BY <1>4, <1>6, <1>11, <2>1, CachesKept
<1>13. RightCollection'
  BY <1>4, <1>6, RightStays
<1>14. \A r \in results' : r \in results \/ FragmentImported(r, fragSite)'
  BY <1>7 DEF FragmentImported
<1> QED BY <1>4, <1>6, <1>12, <1>13, <1>14, NamesKept

\* A zip writes one entry.
LEMMA InstallNames ==
  ASSUME FragmentTypes, KeysOnce, FragmentPlace, FragmentNames, NEW s, NEW f \in ProjectOf(s), Installed(s, f),
         UNCHANGED <<frag, projects, fragPc, collectionId, collectionAt>>
  PROVE  PortalGrows /\ NewNames /\ NewBodies
<1>1. Makes(s, f) /\ Len(entries) <= Len(entries')
  BY Installing
<1>2. PICK i \in DOMAIN entries' : InstalledAt(i, s, f)
  BY Installing
<1>3. /\ collections' \in Seq(CollectionType) /\ Len(collections) <= Len(collections')
      /\ \A j \in DOMAIN collections : j \in DOMAIN collections' /\ collections'[j] = collections[j]
      /\ \A j \in DOMAIN collections' \ DOMAIN collections :
           /\ collections'[j].group = s /\ collections'[j].name = f.title /\ collections'[j].key \in {f.collection, "auto"}
  BY <1>1, Making
<1>4. /\ DOMAIN entries' = DOMAIN entries \cup {i}
      /\ \A j \in DOMAIN entries : /\ j # i => entries'[j] = entries[j]
                                   /\ entries'[j].collection = entries[j].collection /\ entries'[j].key = entries[j].key
      /\ entries'[i].key = f.slug /\ entries'[i].name = f.name /\ entries'[i].body = frag.stored[f.body]
      /\ CollectionOf(i)'.group = s /\ CollectionOf(i)'.key = f.collection
  BY <1>2 DEF InstalledAt, CollectionOf
<1>5. f.collection # "auto"
  BY SomeFragment
<1>6. i \in DOMAIN entries => CollectionOf(i) = CollectionOf(i)'
  BY <1>3, <1>4, FragmentRows DEF CollectionOf
<1>7. fragPc = "fragment" /\ entries'[i].collection = collectionId => f.collection = collectionAt
  <2> SUFFICES ASSUME fragPc = "fragment", entries'[i].collection = collectionId
               PROVE  f.collection = collectionAt
    OBVIOUS
  <2>1. collectionId \in DOMAIN collections
    BY FragmentRows DEF FragmentPlace
  <2>2. CollectionOf(i)' = collections[collectionId]
    BY <1>3, <2>1 DEF CollectionOf
  <2> QED BY <1>4, <1>5, <2>2 DEF FragmentNames, RightCollection
<1>8. CameFrom(i, f)'
  BY <1>4, <1>7 DEF CameFrom, StandsFor
<1>9. PortalGrows
  BY <1>1, <1>3, <1>4 DEF PortalGrows, CollectionsGrow, EntriesGrow, SameFocus
<1>10. NewNames
  <2>1. ASSUME NEW j \in DOMAIN entries
        PROVE  \/ entries'[j] = entries[j]
               \/ \E g \in ProjectOf(CollectionOf(j).group) : CameFrom(j, g)' /\ g.name = entries'[j].name
    BY <1>4, <1>6, <1>8
  <2>2. ASSUME NEW j \in DOMAIN entries' \ DOMAIN entries
        PROVE  \E g \in ProjectOf(CollectionOf(j)'.group) : CameFrom(j, g)' /\ g.name = entries'[j].name
    BY <1>4, <1>8
  <2> QED BY <1>3, <2>1, <2>2 DEF NewNames
<1>11. NewBodies
  <2>1. ASSUME NEW j \in DOMAIN entries, NEW g \in ProjectOf(CollectionOf(j).group), CameFrom(j, g)
        PROVE  entries'[j].body \in {entries[j].body, frag.stored[g.body]}
    <3>1. CASE j # i
      BY <1>4, <3>1
    <3>2. CASE j = i
      <4>1. CollectionOf(j).group = s /\ CollectionOf(j).key = f.collection
        BY <1>4, <1>6, <3>2
      <4>2. g.collection = f.collection /\ g.slug = f.slug
        BY <1>4, <1>5, <2>1, <3>2, <4>1 DEF CameFrom, StandsFor
      <4>3. g = f
        BY <2>1, <4>1, <4>2, SomeFragment
      <4> QED BY <1>4, <3>2, <4>3
    <3> QED BY <3>1, <3>2
  <2> QED BY <2>1 DEF NewBodies
<1> QED BY <1>9, <1>10, <1>11

\* The autodeploy takes a zip.
LEMMA AutodeployNames ==
  ASSUME FragmentTypes, FragmentTypes', KeysOnce, FragmentPlace, ~Ambiguous, FragmentNames, NEW z \in zips, Autodeploy(z)
  PROVE  FragmentNames'
<1>1. UNCHANGED <<frag, projects, fragPc, fragSite, fragmentsLeft, collectionAt, cache, collectionId, results, reported>>
  BY DEF Autodeploy
<1>2. PortalGrows /\ NewNames /\ NewBodies
  <2>1. CASE UNCHANGED FragmentPortal
    BY <1>1, <2>1, QuietGrows DEF SameFocus
  <2>2. CASE Installed(z.site, z.fragment)
    <3>1. z.fragment \in ProjectOf(z.site)
      BY DEF FragmentPlace
    <3> QED BY <1>1, <2>2, <3>1, InstallNames
  <2> QED BY <2>1, <2>2 DEF Autodeploy
<1>3. CacheKnows'
  <2>1. \A k \in DOMAIN cache' \ {0} : \A t \in DOMAIN cache'[k] :
          cache'[k][t] \in DOMAIN entries /\ entries[cache'[k][t]].collection = k /\ TokenOf(cache'[k][t], t)
    BY <1>1 DEF FragmentNames, CacheKnows
  <2>2. 0 \in DOMAIN cache' => cache'[0] = CollectionIds
    BY <1>1 DEF CollectionIds
  <2>3. \A g \in fragmentsLeft' : ToFind(g)' => g \in fragmentsLeft /\ ToFind(g)
    BY <1>1 DEF ToFind
  <2> QED BY <1>1, <1>2, <2>1, <2>2, <2>3, CachesKept
<1>4. RightCollection'
  BY <1>1, <1>2, RightStays
<1> QED BY <1>1, <1>2, <1>3, <1>4, NamesKept

\* Export: the portal is as it was in the case, and the projects are the only thing that changes.
LEMMA ExportNames ==
  ASSUME FragmentTypes, FragmentTypes', FragmentPlace, ExportFragments
  PROVE  FragmentNames'
<1>1. /\ UNCHANGED <<frag, FragmentPortal, results, reported, cache>> /\ fragPc = "start" /\ fragPc' \notin {"fragment", "collection"}
  BY DEF ExportFragments
<1>2. /\ collections' = frag.collections /\ entries' = frag.entries /\ cache' = NoneRead /\ results' = {} /\ reported' = {}
  BY <1>1 DEF FragmentPlace, FragmentPortal
<1>3. DOMAIN cache' = {}
  BY <1>2 DEF NoneRead
<1>4. /\ DOMAIN frag.collections = 1 .. Len(frag.collections) /\ DOMAIN frag.entries = 1 .. Len(frag.entries)
  BY FragmentRows
<1>5. \A i \in DOMAIN collections' : CollectionRow(i)'
  BY <1>1, <1>2, <1>4 DEF CollectionRow, OldCollection
<1>6. \A i \in DOMAIN entries' : EntryRow(i)'
  BY <1>1, <1>2, <1>4 DEF EntryRow, OldEntry
<1> QED BY <1>1, <1>2, <1>3, <1>5, <1>6 DEF FragmentNames, CacheKnows, RightCollection

\* A step of any kind.
LEMMA StepNames ==
  ASSUME FragmentTypes, FragmentTypes', KeysOnce, FragmentPlace, ~Ambiguous => FragmentNames, FragmentNext
  PROVE  ~Ambiguous' => FragmentNames'
<1>1. CASE ExportFragments
  BY <1>1, ExportNames
<1>2. CASE ~ExportFragments
  <2>1. UNCHANGED <<frag, projects>>
    BY <1>2 DEF FragmentNext, FragmentStep, StartFragments, EnterSite, SitesDone, SyncCollection, CollectionFails, SyncFragment,
                FragmentFails, JsonwsDone, CopyZip, PollZip, ZipFails, FragmentsAgain, Autodeploy
  <2>2. Ambiguous' = Ambiguous
    BY <2>1, SameProjects
  <2> SUFFICES ASSUME ~Ambiguous
               PROVE  FragmentNames'
    BY <2>2
  <2> QED BY <1>2, MovingNames, EnterNames, JsonwsNames, SyncCollectionNames, CollectionFailsNames, SyncFragmentNames,
             FragmentFailsNames, AutodeployNames DEF FragmentNext, FragmentStep
<1> QED BY <1>1, <1>2

-----------------------------------------------------------------------------
(* An export that is imported again is brought back.                        *)
\* An export that is imported again: it still is after a step only if it was before.
LEMMA AgainKept ==
  ASSUME FragmentTypes, FragmentNext, ExportAgain'
  PROVE  frag' = frag /\ fragmentFaults' = 0 /\ ExportAgain
<1>1. FragmentFault => fragmentFaults' # 0
  BY Faulting
<1>2. frag.jsonws /\ RequestRefused => fragmentFaults' # 0
  BY Faulting
<1>3. frag' = frag
  BY DEF FragmentNext, FragmentStep, ExportFragments, StartFragments, EnterSite, SitesDone, SyncCollection, CollectionFails,
         SyncFragment, FragmentFails, JsonwsDone, CopyZip, PollZip, ZipFails, FragmentsAgain, Autodeploy
<1>4. fragmentFaults' = 0 /\ frag.jsonws
  BY <1>3 DEF ExportAgain
<1>5. fragmentFaults' = fragmentFaults
  <2>1. ASSUME NEW f, CreateCollection(f)
        PROVE  fragmentFaults' = fragmentFaults
    BY <1>1, <1>4, <2>1 DEF CreateCollection
  <2>2. ASSUME NEW f, NEW id, RenameCollection(f, id)
        PROVE  fragmentFaults' = fragmentFaults
    BY <1>2, <1>4, <2>2 DEF RenameCollection
  <2>3. ~CollectionFails
    BY <1>4, CollectionLeft DEF CollectionFails
  <2>4. ASSUME NEW f, NEW error, FragmentRefused(f, error)
        PROVE  fragmentFaults' = fragmentFaults
    BY <1>1, <1>2, <1>4, <2>4 DEF FragmentRefused
  <2>5. SyncCollection => fragmentFaults' = fragmentFaults
    BY <2>1, <2>2 DEF SyncCollection
  <2>6. FragmentFails => fragmentFaults' = fragmentFaults
    BY <2>4 DEF FragmentFails
  <2>7. ExportFragments \/ ZipFails => fragmentFaults' = fragmentFaults
    BY <1>1, <1>4 DEF ExportFragments, ZipFails
  <2> QED BY <2>3, <2>5, <2>6, <2>7 DEF FragmentNext, FragmentStep, StartFragments, EnterSite, SitesDone,
             SyncFragment, JsonwsDone, CopyZip, PollZip, FragmentsAgain, Autodeploy
<1> QED BY <1>3, <1>4, <1>5 DEF ExportAgain, FragmentOpt

\* Steps that leave the portal as it is.
LEMMA BackKept ==
  ASSUME FragmentTypes, FragmentsBack, ExportAgain, UNCHANGED <<frag, projects, FragmentPortal>>,
         0 \in DOMAIN cache' => \A i \in DOMAIN collections : collections[i].group = fragSite' => collections[i].key \in DOMAIN cache'[0],
         \A k \in DOMAIN cache' \ {0} : \A i \in DOMAIN entries : entries[i].collection = k => entries[i].key \in DOMAIN cache'[k],
         \A r \in results' : r.error = "",
         \A r \in reported' : r \in reported \/ r.error = "" \/ (FragmentOpt.transport = "deploy-zip" /\ ~TitlesDiffer),
         fragPc' \in {"zip", "poll"} => FragmentOpt.transport = "deploy-zip"
  PROVE  FragmentsBack'
<1>1. UNCHANGED <<collections, entries>>
  BY DEF FragmentPortal
<1>2. \A s : ProjectOf(s)' = ProjectOf(s)
  BY SameProjects
<1>3. \A s, f : BackIn(s, f) => BackIn(s, f)'
  BY <1>1 DEF BackIn, CollectionOf
<1>4. ~TitlesDiffer => ~TitlesDiffer'
  BY <1>2 DEF TitlesDiffer
<1>5. FragmentOpt' = FragmentOpt
  BY DEF FragmentOpt
<1>6. FragmentPortal' = <<frag.collections, frag.entries>>'
  BY DEF FragmentsBack
<1>7. \A s \in DOMAIN projects' : \A f \in projects'[s] : BackIn(s, f)'
  BY <1>3 DEF FragmentsBack
<1>8. \A r \in reported' : r.error = "" \/ (FragmentOpt.transport = "deploy-zip" /\ ~TitlesDiffer)'
  BY <1>4, <1>5 DEF FragmentsBack
<1> QED BY <1>1, <1>5, <1>6, <1>7, <1>8 DEF FragmentsBack

\* Steps that only move on.
LEMMA MovingBack ==
  ASSUME FragmentTypes, FragmentPlace, FragmentsBack, ExportAgain,
         StartFragments \/ EnterSite \/ SitesDone \/ JsonwsDone \/ CopyZip \/ ZipFails \/ FragmentsAgain
  PROVE  FragmentsBack'
<1>1. UNCHANGED <<frag, projects, FragmentPortal>>
  BY DEF StartFragments, EnterSite, SitesDone, JsonwsDone, CopyZip, ZipFails, FragmentsAgain
<1>2. (cache' = cache /\ fragSite' = fragSite) \/ cache' = NoneRead
  BY DEF StartFragments, EnterSite, SitesDone, JsonwsDone, CopyZip, ZipFails, FragmentsAgain
<1>3. DOMAIN NoneRead = {}
  BY DEF NoneRead
<1>4. results' = results \/ results' = {}
  BY DEF StartFragments, EnterSite, SitesDone, JsonwsDone, CopyZip, ZipFails, FragmentsAgain
<1>5. \A r \in results : r.error = ""
  BY DEF FragmentsBack
<1>6. \A r \in Report(results) : r.error = ""
  <2> TAKE r \in Report(results)
  <2>1. PICK q \in results : r = [site |-> fragSite, by |-> fragPc, fragment |-> q.fragment, error |-> q.error]
    BY DEF Report
  <2> QED BY <1>5, <2>1
<1>7. reported' \in {reported, {}, reported \cup Report(results)}
  BY DEF StartFragments, EnterSite, SitesDone, JsonwsDone, CopyZip, ZipFails, FragmentsAgain
<1>8. ~Unsupported
  BY <1>5 DEF Unsupported
<1>9. fragPc' \in {"zip", "poll"} => FragmentOpt.transport = "deploy-zip"
  BY <1>8 DEF FragmentsBack, StartFragments, EnterSite, SitesDone, JsonwsDone, CopyZip, ZipFails, FragmentsAgain
<1>10. 0 \in DOMAIN cache' => \A i \in DOMAIN collections : collections[i].group = fragSite' => collections[i].key \in DOMAIN cache'[0]
  BY <1>2, <1>3 DEF FragmentsBack
<1>11. \A k \in DOMAIN cache' \ {0} : \A i \in DOMAIN entries : entries[i].collection = k => entries[i].key \in DOMAIN cache'[k]
  BY <1>2, <1>3 DEF FragmentsBack
<1> QED BY <1>1, <1>4, <1>5, <1>6, <1>7, <1>9, <1>10, <1>11, BackKept

\* What the portal has already is seen at the first poll, if collections go by different names.
LEMMA PollBack ==
  ASSUME FragmentTypes, FragmentPlace, FragmentsBack, ExportAgain, PollZip
  PROVE  FragmentsBack'
<1>1. UNCHANGED <<frag, projects, FragmentPortal, cache, results, fragSite>> /\ fragPc = "poll" /\ fragPc' \in {"poll", "site"}
  BY DEF PollZip
<1>2. ASSUME NEW first \in FirstLocals, NEW f \in Project, TitlesDiffer
      PROVE  f \in Present(first)
  <2>1. BackIn(fragSite, f)
    BY SomeFragment DEF Project, FragmentsBack
  <2>2. PICK i \in DOMAIN entries : /\ CollectionOf(i) = [group |-> fragSite, key |-> f.collection, name |-> f.title]
                                    /\ entries[i].key = f.slug /\ entries[i].name = f.name /\ entries[i].body = f.body
    BY <2>1 DEF BackIn
  <2> DEFINE c == entries[i].collection
  <2>3. c \in DOMAIN collections /\ collections[c].name = f.title /\ collections[c].key = f.collection /\ collections[c].group = fragSite
    BY <2>2, FragmentRows DEF CollectionOf
  <2>4. \A x \in LocalOf(c) : x = f.collection
    <3> TAKE x \in LocalOf(c)
    <3>1. PICK g \in Project : x = g.collection /\ (g.title = collections[c].name \/ g.collection = collections[c].key)
      BY DEF LocalOf
    <3>2. fragSite \in DOMAIN projects
      BY SomeFragment DEF Project
    <3> QED BY <1>2, <2>3, <3>1, <3>2 DEF TitlesDiffer, Project
  <2>5. f.collection \in LocalOf(c)
    BY <2>3 DEF LocalOf
  <2>6. first[c] = f.collection
    BY <2>3, <2>4, <2>5 DEF FirstLocals
  <2>7. entries[i] \in Range(entries)
    BY DEF Range
  <2> QED BY <2>2, <2>3, <2>6, <2>7 DEF Present
<1>3. \A r \in reported' : r \in reported \/ r.error = "" \/ ~TitlesDiffer
  <2> SUFFICES ASSUME TitlesDiffer, NEW r \in reported', r \notin reported
               PROVE  r.error = ""
    OBVIOUS
  <2>1. PICK first \in FirstLocals :
          reported' = reported \cup Report({[fragment |-> f, error |-> IF f \in Present(first) THEN "" ELSE "missing"] : f \in Project})
    BY DEF PollZip
  <2>2. \A f \in Project : f \in Present(first)
    BY <1>2
  <2>3. r \in Report({[fragment |-> f, error |-> IF f \in Present(first) THEN "" ELSE "missing"] : f \in Project})
    BY <2>1
  <2>4. PICK q \in {[fragment |-> f, error |-> IF f \in Present(first) THEN "" ELSE "missing"] : f \in Project} :
          r = [site |-> fragSite, by |-> fragPc, fragment |-> q.fragment, error |-> q.error]
    BY <2>3 DEF Report
  <2>5. q.error = ""
    <3>1. PICK f \in Project : q = [fragment |-> f, error |-> IF f \in Present(first) THEN "" ELSE "missing"]
      BY <2>4
    <3> QED BY <2>2, <3>1
  <2> QED BY <2>4, <2>5
<1>4. FragmentOpt.transport = "deploy-zip"
  BY <1>1 DEF FragmentsBack
<1> QED BY <1>1, <1>3, <1>4, BackKept DEF FragmentsBack

\* The cache knows every row by its key.
LEMMA AllKnown ==
  ASSUME FragmentTypes, FragmentsBack, ExportAgain
  PROVE  /\ \A i \in DOMAIN collections : collections[i].group = fragSite => collections[i].key \in DOMAIN CollectionIds
         /\ collectionId # 0 => \A i \in DOMAIN entries : entries[i].collection = collectionId => entries[i].key \in DOMAIN EntryIds
<1>1. ASSUME NEW rows, NEW own, NEW i \in own
      PROVE  rows[i].key \in DOMAIN IdsOf(rows, own)
  BY DEF IdsOf, Tokens
<1>2. ASSUME NEW i \in DOMAIN collections, collections[i].group = fragSite
      PROVE  collections[i].key \in DOMAIN CollectionIds
  <2>1. CASE 0 \in DOMAIN cache
    BY <1>2, <2>1 DEF CollectionIds, FragmentsBack
  <2>2. CASE 0 \notin DOMAIN cache
    <3> DEFINE own == {j \in DOMAIN collections : collections[j].group = fragSite}
    <3>1. i \in own /\ CollectionIds = IdsOf(collections, own)
      BY <1>2, <2>2 DEF CollectionIds
    <3> HIDE DEF own
    <3> QED BY <1>1, <3>1
  <2> QED BY <2>1, <2>2
<1>3. ASSUME collectionId # 0, NEW i \in DOMAIN entries, entries[i].collection = collectionId
      PROVE  entries[i].key \in DOMAIN EntryIds
  <2>1. CASE collectionId \in DOMAIN cache
    BY <1>3, <2>1 DEF EntryIds, FragmentsBack
  <2>2. CASE collectionId \notin DOMAIN cache
    <3> DEFINE own == {j \in DOMAIN entries : entries[j].collection = collectionId}
    <3>1. i \in own /\ EntryIds = IdsOf(entries, own)
      BY <1>3, <2>2 DEF EntryIds
    <3> HIDE DEF own
    <3> QED BY <1>1, <3>1
  <2> QED BY <2>1, <2>2
<1> QED BY <1>2, <1>3

\* Writing what is there already changes nothing.
LEMMA SameRows ==
  ASSUME FragmentTypes, NEW f, f.title \in STRING, f.name \in STRING, frag.stored[f.body] \in STRING
  PROVE  /\ \A id \in DOMAIN collections : collections[id].name = f.title => Renamed(f, id) = collections
         /\ \A id \in DOMAIN entries : entries[id].name = f.name /\ entries[id].body = frag.stored[f.body] => Overwritten(id, f) = entries
<1>1. ASSUME NEW id \in DOMAIN collections, collections[id].name = f.title
      PROVE  Renamed(f, id) = collections
  <2>1. id \in Nat
    BY FragmentRows
  <2>2. /\ Renamed(f, id) \in Seq(CollectionType) /\ DOMAIN Renamed(f, id) = DOMAIN collections
        /\ \A i \in DOMAIN collections : /\ Renamed(f, id)[i].group = collections[i].group
                                         /\ Renamed(f, id)[i].key = collections[i].key
                                         /\ Renamed(f, id)[i].name = IF i = id THEN f.title ELSE collections[i].name
    BY <2>1, Renaming
  <2>3. \A i \in DOMAIN collections : Renamed(f, id)[i] \in CollectionType /\ collections[i] \in CollectionType
    BY <2>2, SeqRows, FragmentRows DEF CollectionType
  <2>4. \A i \in DOMAIN collections : Renamed(f, id)[i] = collections[i]
    BY <1>1, <2>2, <2>3 DEF CollectionType
  <2>5. Renamed(f, id) = [i \in DOMAIN collections |-> Renamed(f, id)[i]] /\ collections = [i \in DOMAIN collections |-> collections[i]]
    BY <2>2 DEF FragmentTypes
  <2> QED BY <2>4, <2>5
<1>2. ASSUME NEW id \in DOMAIN entries, entries[id].name = f.name, entries[id].body = frag.stored[f.body]
      PROVE  Overwritten(id, f) = entries
  <2>1. id \in Nat
    BY FragmentRows
  <2>2. /\ Overwritten(id, f) \in Seq(EntryType) /\ DOMAIN Overwritten(id, f) = DOMAIN entries
        /\ \A i \in DOMAIN entries : /\ Overwritten(id, f)[i].collection = entries[i].collection
                                     /\ Overwritten(id, f)[i].key = entries[i].key
                                     /\ Overwritten(id, f)[i].name = IF i = id THEN f.name ELSE entries[i].name
                                     /\ Overwritten(id, f)[i].body = IF i = id THEN frag.stored[f.body] ELSE entries[i].body
    BY <2>1, Overwriting
  <2>3. \A i \in DOMAIN entries : Overwritten(id, f)[i] \in EntryType /\ entries[i] \in EntryType
    BY <2>2, SeqRows, FragmentRows DEF EntryType
  <2>4. \A i \in DOMAIN entries : Overwritten(id, f)[i] = entries[i]
    BY <1>2, <2>2, <2>3 DEF EntryType
  <2>5. Overwritten(id, f) = [i \in DOMAIN entries |-> Overwritten(id, f)[i]] /\ entries = [i \in DOMAIN entries |-> entries[i]]
    BY <2>2 DEF FragmentTypes
  <2> QED BY <2>4, <2>5
<1> QED BY <1>1, <1>2

\* A fragment is back in the collection of its key.
LEMMA BackRow ==
  ASSUME FragmentTypes, KeysOnce, FragmentsBack, ExportAgain, NEW s, NEW f \in ProjectOf(s)
  PROVE  \E c \in DOMAIN collections : \E i \in DOMAIN entries :
           /\ collections[c].group = s /\ collections[c].key = f.collection /\ collections[c].name = f.title
           /\ \A d \in DOMAIN collections : collections[d].group = s /\ collections[d].key \in {f.collection, "auto"} => d = c
           /\ entries[i].collection = c /\ entries[i].key = f.slug /\ entries[i].name = f.name /\ entries[i].body = f.body
           /\ \A j \in DOMAIN entries : entries[j].collection = c /\ entries[j].key = f.slug => j = i
           /\ frag.stored[f.body] = f.body
<1>1. s \in DOMAIN projects /\ f \in projects[s] /\ f.collection # "auto" /\ f.body \in DOMAIN frag.stored
  BY SomeFragment
<1>2. PICK i \in DOMAIN entries : /\ CollectionOf(i) = [group |-> s, key |-> f.collection, name |-> f.title]
                                  /\ entries[i].key = f.slug /\ entries[i].name = f.name /\ entries[i].body = f.body
  BY <1>1 DEF FragmentsBack, BackIn
<1>3. PICK c \in DOMAIN collections : c = entries[i].collection
  BY FragmentRows
<1>4. collections[c].group = s /\ collections[c].key = f.collection /\ collections[c].name = f.title
  BY <1>2, <1>3 DEF CollectionOf
<1>5. \A d \in DOMAIN collections : collections[d].key # "auto"
  BY FragmentRows DEF FragmentsBack, FragmentPortal
<1>6. \A d \in DOMAIN collections : collections[d].group = s /\ collections[d].key \in {f.collection, "auto"} => d = c
  BY <1>4, <1>5 DEF KeysOnce
<1>7. \A j \in DOMAIN entries : entries[j].collection = c /\ entries[j].key = f.slug => j = i
  BY <1>2, <1>3 DEF KeysOnce
<1>8. frag.stored[f.body] = f.body
  BY <1>1 DEF ExportAgain
<1> QED BY <1>2, <1>3, <1>4, <1>6, <1>7, <1>8

\* The collection is found by its key, and already has its name.
LEMMA SyncCollectionBack ==
  ASSUME FragmentTypes, KeysOnce, FragmentPlace, ~Ambiguous, FragmentNames, FragmentsBack, ExportAgain, fragmentFaults' = 0,
         SyncCollection
  PROVE  FragmentsBack'
<1>1. PICK f \in fragmentsLeft :
        LET id == Known(CollectionIds, f.collection)
        IN  IF id = 0 THEN CreateCollection(f) ELSE RenameCollection(f, id)
  BY DEF SyncCollection
<1>2. /\ UNCHANGED <<frag, projects, entries, fragSite, results, reported>> /\ fragPc = "collection" /\ fragPc' = "fragment"
      /\ f \in ProjectOf(fragSite)
  BY DEF SyncCollection, FragmentPlace, Project
<1>3. PICK c \in DOMAIN collections :
        /\ collections[c].group = fragSite /\ collections[c].key = f.collection /\ collections[c].name = f.title
        /\ \A d \in DOMAIN collections : collections[d].group = fragSite /\ collections[d].key \in {f.collection, "auto"} => d = c
  BY <1>2, BackRow
<1>4. f.collection \in DOMAIN CollectionIds
  BY <1>3, AllKnown
<1>5. PICK id : id = Known(CollectionIds, f.collection)
  OBVIOUS
<1>6. id = c
  <2>1. ToFind(f)
    BY <1>2 DEF ToFind
  <2>2. id \in DOMAIN collections /\ FoundAs(collections[id], f)
    BY <1>2, <1>4, <1>5, <2>1, FoundCollection DEF Known
  <2> QED BY <1>3, <2>2 DEF FoundAs
<1>7. RenameCollection(f, id) /\ id # 0
  BY <1>1, <1>3, <1>5, <1>6, FragmentRows
<1>8. ~RequestRefused
  BY Faulting DEF ExportAgain
<1>9. collections' = Renamed(f, id) /\ cache' = PutAt(cache, {0}, Cached(CollectionIds, id, LocalRow(f)))
  BY <1>7, <1>8 DEF RenameCollection
<1>10. f.title \in STRING /\ f.name \in STRING /\ frag.stored[f.body] \in STRING
  BY <1>2, SomeFragment
<1>11. Renamed(f, id) = collections
  BY <1>3, <1>6, <1>10, SameRows
<1>12. UNCHANGED FragmentPortal
  BY <1>2, <1>9, <1>11 DEF FragmentPortal
<1>13. 0 \in DOMAIN cache' => \A i \in DOMAIN collections : collections[i].group = fragSite' => collections[i].key \in DOMAIN cache'[0]
  <2>1. DOMAIN CollectionIds \subseteq DOMAIN cache'[0]
    BY <1>9 DEF PutAt, Cached
  <2> QED BY <1>2, <2>1, AllKnown
<1>14. \A k \in DOMAIN cache' \ {0} : k \in DOMAIN cache \ {0} /\ cache'[k] = cache[k]
  BY <1>9 DEF PutAt
<1>15. \A k \in DOMAIN cache' \ {0} : \A i \in DOMAIN entries : entries[i].collection = k => entries[i].key \in DOMAIN cache'[k]
  BY <1>14 DEF FragmentsBack
<1>16. /\ \A r \in results' : r.error = ""
       /\ \A r \in reported' : r \in reported \/ r.error = "" \/ (FragmentOpt.transport = "deploy-zip" /\ ~TitlesDiffer)
       /\ fragPc' \in {"zip", "poll"} => FragmentOpt.transport = "deploy-zip"
  BY <1>2 DEF FragmentsBack
<1> QED BY <1>2, <1>12, <1>13, <1>15, <1>16, BackKept

\* The entry a fragment is found as is the one it was exported from.
LEMMA OwnBack ==
  ASSUME FragmentTypes, KeysOnce, FragmentPlace, ~Ambiguous, FragmentNames, FragmentsBack, ExportAgain, fragPc = "fragment",
         NEW f \in fragmentsLeft, f.collection = collectionAt, NEW id, id = Known(EntryIds, f.slug)
  PROVE  /\ id \in DOMAIN entries /\ id # 0 /\ entries[id].name = f.name /\ entries[id].body = frag.stored[f.body]
         /\ frag.stored[f.body] = f.body
<1>1. f \in ProjectOf(fragSite) /\ collectionId \in DOMAIN collections /\ collectionId # 0
  BY FragmentRows DEF FragmentPlace, Project
<1>2. PICK c \in DOMAIN collections : \E i \in DOMAIN entries :
           /\ \A d \in DOMAIN collections : collections[d].group = fragSite /\ collections[d].key \in {f.collection, "auto"} => d = c
           /\ entries[i].collection = c /\ entries[i].key = f.slug /\ entries[i].name = f.name /\ entries[i].body = f.body
           /\ \A j \in DOMAIN entries : entries[j].collection = c /\ entries[j].key = f.slug => j = i
           /\ frag.stored[f.body] = f.body
  BY <1>1, BackRow
<1>3. PICK i \in DOMAIN entries :
           /\ \A d \in DOMAIN collections : collections[d].group = fragSite /\ collections[d].key \in {f.collection, "auto"} => d = c
           /\ entries[i].collection = c /\ entries[i].key = f.slug /\ entries[i].name = f.name /\ entries[i].body = f.body
           /\ \A j \in DOMAIN entries : entries[j].collection = c /\ entries[j].key = f.slug => j = i
           /\ frag.stored[f.body] = f.body
  BY <1>2
<1>4. collectionId = c
  BY <1>1, <1>3 DEF FragmentNames, RightCollection
<1>5. f.slug \in DOMAIN EntryIds
  BY <1>1, <1>3, <1>4, AllKnown
<1>6. id = EntryIds[f.slug]
  BY <1>5 DEF Known
<1>7. id \in DOMAIN entries /\ entries[id].collection = collectionId /\ TokenOf(id, f.slug)
  BY <1>5, <1>6, KnownEntry
<1>8. entries[id].key = f.slug
  BY <1>7, OwnEntry
<1>9. id = i
  BY <1>3, <1>4, <1>7, <1>8
<1> QED BY <1>3, <1>9, FragmentRows

\* The fragment is found by its key, and written as it was.
LEMMA SyncFragmentBack ==
  ASSUME FragmentTypes, KeysOnce, FragmentPlace, ~Ambiguous, FragmentNames, FragmentsBack, ExportAgain, SyncFragment
  PROVE  FragmentsBack'
<1>1. PICK f \in fragmentsLeft :
        LET id == Known(EntryIds, f.slug)
        IN  /\ f.collection = collectionAt
            /\ entries' = WrittenEntries(id, f)
            /\ cache' = PutAt(cache, {collectionId},
                              Cached(EntryIds, IF id = 0 THEN Len(entries) + 1 ELSE id, FragmentRow(f)))
            /\ Finished({f}, f.collection, IF frag.stored[f.body] = f.body THEN "" ELSE "mismatch")
  BY DEF SyncFragment
<1>2. PICK id : id = Known(EntryIds, f.slug)
  OBVIOUS
<1>3. /\ f \in ProjectOf(fragSite) /\ fragPc = "fragment" /\ collectionId # 0
      /\ UNCHANGED <<frag, projects, collections, fragSite, reported>>
  <2>1. fragPc = "fragment" /\ UNCHANGED <<frag, projects, collections, fragSite, reported>>
    BY DEF SyncFragment
  <2>2. collectionId # 0 /\ f \in ProjectOf(fragSite)
    BY <2>1, FragmentRows DEF FragmentPlace, Project
  <2> QED BY <2>1, <2>2
<1>4. /\ id \in DOMAIN entries /\ id # 0 /\ entries[id].name = f.name /\ entries[id].body = frag.stored[f.body]
      /\ frag.stored[f.body] = f.body
  BY <1>1, <1>2, <1>3, OwnBack
<1>5. f.title \in STRING /\ f.name \in STRING /\ frag.stored[f.body] \in STRING
  BY <1>3, SomeFragment
<1>6. entries' = Overwritten(id, f) /\ cache' = PutAt(cache, {collectionId}, Cached(EntryIds, id, FragmentRow(f)))
  BY <1>1, <1>2, <1>4 DEF WrittenEntries
<1>7. UNCHANGED FragmentPortal
  BY <1>3, <1>4, <1>5, <1>6, SameRows DEF FragmentPortal
<1>8. \A r \in results' : r.error = ""
  <2>1. results' = results \cup {[fragment |-> g, error |-> ""] : g \in {f}}
    BY <1>1, <1>4 DEF Finished
  <2>2. ASSUME NEW r \in results'
        PROVE  r.error = ""
    <3>1. r \in results \/ \E g \in {f} : r = [fragment |-> g, error |-> ""]
      BY <2>1
    <3>2. \A q \in results : q.error = ""
      BY DEF FragmentsBack
    <3>3. ASSUME NEW g, r = [fragment |-> g, error |-> ""]
          PROVE  r.error = ""
      BY <3>3
    <3> QED BY <3>1, <3>2, <3>3
  <2> QED BY <2>2
<1>9. 0 \in DOMAIN cache' => 0 \in DOMAIN cache /\ cache'[0] = cache[0]
  BY <1>3, <1>6 DEF PutAt
<1>10. DOMAIN EntryIds \subseteq DOMAIN cache'[collectionId]
  BY <1>6 DEF PutAt, Cached
<1>11. \A k \in DOMAIN cache' : k = collectionId \/ (k \in DOMAIN cache /\ cache'[k] = cache[k])
  BY <1>6 DEF PutAt
<1>12. \A k \in DOMAIN cache' \ {0} : \A i \in DOMAIN entries : entries[i].collection = k => entries[i].key \in DOMAIN cache'[k]
  BY <1>3, <1>10, <1>11, AllKnown DEF FragmentsBack
<1>13. fragPc' \notin {"zip", "poll"}
  BY <1>1 DEF Finished, Advance
<1>14. 0 \in DOMAIN cache' => \A i \in DOMAIN collections : collections[i].group = fragSite' => collections[i].key \in DOMAIN cache'[0]
  BY <1>3, <1>9 DEF FragmentsBack
<1> QED BY <1>3, <1>7, <1>8, <1>12, <1>13, <1>14, BackKept

\* Without a fault nothing fails.
LEMMA NothingFails ==
  ASSUME FragmentTypes, KeysOnce, FragmentPlace, ~Ambiguous, FragmentNames, FragmentsBack, ExportAgain, fragmentFaults' = 0
  PROVE  ~CollectionFails /\ ~FragmentFails
<1>1. ~CollectionFails
  BY CollectionLeft DEF CollectionFails, ExportAgain
<1>2. ~FragmentFails
  <2> SUFFICES ASSUME FragmentFails
               PROVE  FALSE
    OBVIOUS
  <2>1. PICK f \in fragmentsLeft, error \in {"list", "url"} : f.collection = collectionAt /\ FragmentRefused(f, error)
    BY DEF FragmentFails
  <2>2. PICK id : id = Known(EntryIds, f.slug)
    OBVIOUS
  <2>3. id # 0
    BY <2>1, <2>2, OwnBack DEF FragmentFails
  <2>4. id = 0 /\ TakenInSite(f)
    BY <2>1, <2>2, FragmentRefusal DEF ExportAgain
  <2> QED BY <2>3, <2>4
<1> QED BY <1>1, <1>2

\* The zip brings what is there.
LEMMA AutodeployBack ==
  ASSUME FragmentTypes, KeysOnce, FragmentPlace, FragmentsBack, ExportAgain, NEW z \in zips, Autodeploy(z)
  PROVE  FragmentsBack'
<1>1. UNCHANGED <<frag, projects, fragSite, cache, results, reported, fragPc>>
  BY DEF Autodeploy
<1>2. UNCHANGED FragmentPortal
  <2> SUFFICES ASSUME Installed(z.site, z.fragment)
               PROVE  UNCHANGED FragmentPortal
    BY DEF Autodeploy
  <2>1. PICK s, f : s = z.site /\ f = z.fragment
    OBVIOUS
  <2>2. f \in ProjectOf(s)
    BY <2>1 DEF FragmentPlace
  <2>3. PICK c \in DOMAIN collections : \E i \in DOMAIN entries :
           /\ collections[c].group = s /\ collections[c].key = f.collection /\ collections[c].name = f.title
           /\ \A d \in DOMAIN collections : collections[d].group = s /\ collections[d].key \in {f.collection, "auto"} => d = c
           /\ entries[i].collection = c /\ entries[i].key = f.slug /\ entries[i].name = f.name /\ entries[i].body = f.body
           /\ \A j \in DOMAIN entries : entries[j].collection = c /\ entries[j].key = f.slug => j = i
           /\ frag.stored[f.body] = f.body
    BY <2>2, BackRow
  <2>4. PICK i \in DOMAIN entries :
           /\ entries[i].collection = c /\ entries[i].key = f.slug /\ entries[i].name = f.name /\ entries[i].body = f.body
           /\ \A j \in DOMAIN entries : entries[j].collection = c /\ entries[j].key = f.slug => j = i
           /\ frag.stored[f.body] = f.body
    BY <2>3
  <2> DEFINE own == {d \in DOMAIN collections : collections[d].group = s /\ collections[d].key = f.collection}
             same == {j \in DOMAIN entries : entries[j].collection \in own /\ entries[j].key = f.slug}
  <2>5. own = {c}
    BY <2>3
  <2>6. same = {i}
    BY <2>4, <2>5
  <2>7. collections' = collections /\ entries' = Overwritten(i, f)
    BY <2>1, <2>5, <2>6 DEF Installed
  <2>8. f.title \in STRING /\ f.name \in STRING /\ frag.stored[f.body] \in STRING
    BY <2>2, SomeFragment
  <2> QED BY <2>4, <2>7, <2>8, SameRows DEF FragmentPortal
<1> QED BY <1>1, <1>2, BackKept DEF FragmentsBack

\* An export writes what the portal has.
LEMMA ExportBack ==
  ASSUME FragmentTypes, FragmentPlace, ExportAgain, fragmentFaults' = 0, ExportFragments
  PROVE  FragmentsBack'
<1>1. PICK new \in SUBSET ExportedFragments :
        /\ projects' = IF new = {} THEN projects ELSE PutAt(projects, {FragmentOpt.site}, new)
        /\ fragPc' \in {"ready", "error"}
  BY DEF ExportFragments
<1>2. /\ UNCHANGED <<frag, FragmentPortal, cache, results, reported>> /\ fragPc = "start"
  BY DEF ExportFragments
<1>3. /\ FragmentPortal = <<frag.collections, frag.entries>> /\ projects = frag.local /\ cache = NoneRead
      /\ results = {} /\ reported = {}
  BY <1>2 DEF FragmentPlace
<1>4. UNCHANGED <<collections, entries>> /\ FragmentPortal' = <<frag.collections, frag.entries>>'
  BY <1>2, <1>3 DEF FragmentPortal
<1>5. DOMAIN projects = {}
  BY <1>3 DEF ExportAgain
<1>6. ASSUME NEW s \in DOMAIN projects', NEW f \in projects'[s]
      PROVE  BackIn(s, f)'
  <2>1. s = FragmentOpt.site /\ f \in new
    BY <1>1, <1>5, <1>6 DEF PutAt
  <2>2. PICK e \in Range(entries) :
          /\ collections[e.collection].group = FragmentOpt.site
          /\ f = [collection |-> collections[e.collection].key, title |-> collections[e.collection].name,
                  slug |-> e.key, name |-> e.name, body |-> e.body]
    BY <2>1 DEF ExportedFragments
  <2>3. PICK i \in DOMAIN entries : e = entries[i]
    BY DEF Range
  <2>4. CollectionOf(i) \in CollectionType /\ CollectionOf(i).group = s /\ CollectionOf(i).key = f.collection /\ CollectionOf(i).name = f.title
    BY <2>1, <2>2, <2>3, FragmentRows DEF CollectionOf, CollectionType
  <2>5. CollectionOf(i) = [group |-> s, key |-> f.collection, name |-> f.title]
    BY <2>4 DEF CollectionType
  <2> QED BY <1>4, <2>2, <2>3, <2>5 DEF BackIn, CollectionOf
<1>7. DOMAIN cache' = {}
  BY <1>2, <1>3 DEF NoneRead
<1> QED BY <1>1, <1>2, <1>3, <1>4, <1>6, <1>7 DEF FragmentsBack

\* A step of any kind.
LEMMA StepBack ==
  ASSUME FragmentTypes, FragmentTypes', KeysOnce, FragmentPlace, ~Ambiguous => FragmentNames /\ FragmentsBack, FragmentNext
  PROVE  ~Ambiguous' => FragmentsBack'
<1> SUFFICES ASSUME ExportAgain', ~Ambiguous'
             PROVE  FragmentsBack'
  BY DEF FragmentsBack
<1>1. frag' = frag /\ fragmentFaults' = 0 /\ ExportAgain
  BY AgainKept
<1>2. CASE ExportFragments
  BY <1>1, <1>2, ExportBack
<1>3. CASE ~ExportFragments
  <2>1. UNCHANGED <<frag, projects>>
    BY <1>3 DEF FragmentNext, FragmentStep, StartFragments, EnterSite, SitesDone, SyncCollection, CollectionFails, SyncFragment,
                FragmentFails, JsonwsDone, CopyZip, PollZip, ZipFails, FragmentsAgain, Autodeploy
  <2>2. ~Ambiguous
    BY <2>1, SameProjects
  <2>3. FragmentNames /\ FragmentsBack
    BY <2>2
  <2> QED BY <1>1, <1>3, <2>2, <2>3, MovingBack, PollBack, SyncCollectionBack, SyncFragmentBack, NothingFails, AutodeployBack
          DEF FragmentNext, FragmentStep
<1> QED BY <1>2, <1>3

-----------------------------------------------------------------------------
(* The invariant of fragments, and what it says of the properties.          *)
\* A sequence over a smaller set is one over a larger.
LEMMA WiderRows ==
  ASSUME NEW T, NEW U, NEW s \in Seq(T), \A i \in DOMAIN s : s[i] \in U
  PROVE  s \in Seq(U)
OBVIOUS

\* The invariant holds at the start.
LEMMA FragmentsStart ==
  ASSUME NEW pc \in {"start", "off"}, FragmentStart(pc)
  PROVE  FragmentInv
<1>1. /\ FragmentCaseOK(frag) /\ frag \in FragmentCases
      /\ collections = frag.collections /\ entries = frag.entries /\ projects = frag.local
      /\ fragPc \in {"start", "off"} /\ sitesLeft = {} /\ fragSite = frag.opt.site /\ fragmentsLeft = {}
      /\ cache = NoneRead /\ collectionId = 0 /\ results = {} /\ reported = {} /\ zips = {} /\ fragmentFaults = 0
  BY TheFragments DEF FragmentStart, FragmentOpt
<1>2. DOMAIN cache = {}
  BY <1>1 DEF NoneRead
<1>3. /\ frag.collections \in Seq([group : STRING, key : STRING, name : STRING])
      /\ frag.entries \in Seq([collection : DOMAIN frag.collections, key : STRING, name : STRING, body : STRING])
  BY <1>1 DEF FragmentCaseOK, OnPortal
<1>4. /\ DOMAIN collections = 1 .. Len(collections) /\ Len(collections) \in Nat
      /\ \A i \in DOMAIN collections : collections[i] \in [group : STRING, key : STRING, name : STRING]
  BY <1>1, <1>3, SeqRows, Zenon
<1>5. /\ DOMAIN entries = 1 .. Len(entries) /\ Len(entries) \in Nat
      /\ \A i \in DOMAIN entries : entries[i] \in [collection : DOMAIN frag.collections, key : STRING, name : STRING, body : STRING]
  BY <1>1, <1>3, SeqRows, Zenon
<1>6. collections \in Seq([group : STRING, key : STRING \cup {"auto"}, name : STRING])
  <2>1. \A i \in DOMAIN collections : collections[i] \in [group : STRING, key : STRING \cup {"auto"}, name : STRING]
    BY <1>4
  <2> QED BY <1>1, <1>3, <2>1, WiderRows
<1>7. entries \in Seq([collection : Nat, key : STRING, name : STRING, body : STRING])
  <2>1. \A i \in DOMAIN entries : entries[i] \in [collection : Nat, key : STRING, name : STRING, body : STRING]
    BY <1>1, <1>4, <1>5
  <2>2. PICK T : T = [collection : DOMAIN frag.collections, key : STRING, name : STRING, body : STRING]
    OBVIOUS
  <2>3. entries \in Seq(T)
    BY <1>1, <1>3, <2>2
  <2> QED BY <2>1, <2>3, WiderRows
<1>8. \A i \in DOMAIN entries : entries[i].collection \in 1 .. Len(collections)
  BY <1>1, <1>4, <1>5
<1>9. \A s \in DOMAIN projects : LocalFiles(projects[s]) /\ \A f \in projects[s] : f.collection # "auto" /\ f.body \in DOMAIN frag.stored
  <2> TAKE s \in DOMAIN projects
  <2>1. LocalFiles(projects[s]) /\ \A f \in projects[s] : f.collection # "auto"
    BY <1>1 DEF FragmentCaseOK
  <2>2. \A f \in projects[s] : f.body \in UNION {{g.body : g \in frag.local[q]} : q \in DOMAIN frag.local}
    BY <1>1
  <2>3. UNION {{g.body : g \in frag.local[q]} : q \in DOMAIN frag.local} \subseteq DOMAIN frag.stored
    BY <1>1 DEF FragmentCaseOK
  <2> QED BY <2>1, <2>2, <2>3
<1>10. DOMAIN projects \subseteq STRING /\ fragSite \in STRING
  BY <1>1 DEF FragmentCaseOK
<1>11. FragmentTypes
  BY <1>1, <1>2, <1>4, <1>5, <1>6, <1>7, <1>8, <1>9, <1>10 DEF FragmentTypes
<1>12. KeysOnce
  BY <1>1 DEF KeysOnce, FragmentCaseOK, OnPortal
<1>13. FragmentPlace
  BY <1>1 DEF FragmentPlace, FragmentPortal, Sending
<1>14. NoSecondImport
  BY <1>1 DEF NoSecondImport
<1>15. FragmentNames
  <2>1. \A i \in DOMAIN collections : CollectionRow(i)
    BY <1>1, <1>4 DEF CollectionRow, OldCollection
  <2>2. \A i \in DOMAIN entries : EntryRow(i)
    BY <1>1, <1>5 DEF EntryRow, OldEntry
  <2> QED BY <1>1, <1>2, <2>1, <2>2 DEF FragmentNames, CacheKnows, RightCollection
<1>16. FragmentsBack
  <2> SUFFICES ASSUME ExportAgain
               PROVE  FragmentsBack
    BY DEF FragmentsBack
  <2>1. DOMAIN projects = {}
    BY <1>1 DEF ExportAgain
  <2> QED BY <1>1, <1>2, <2>1 DEF FragmentsBack, FragmentPortal
<1> QED BY <1>11, <1>12, <1>13, <1>14, <1>15, <1>16 DEF FragmentInv

\* Nothing happens to the import while another command runs.
LEMMA FragmentsStutter ==
  ASSUME FragmentInv, UNCHANGED fragmentVars
  PROVE  FragmentInv'
<1> USE DEF FragmentInv
<1>1. UNCHANGED <<frag, collections, entries, projects, fragPc, sitesLeft, fragSite, fragmentsLeft, collectionAt,
                  cache, collectionId, results, reported, zips, fragmentFaults>>
  BY DEF fragmentVars
<1>2. UNCHANGED FragmentPortal
  BY <1>1 DEF FragmentPortal
<1>3. FragmentTypes' /\ KeysOnce'
  <2>1. fragSite' \in STRING /\ sitesLeft' \subseteq STRING /\ fragmentFaults' \in Nat
    BY <1>1 DEF FragmentTypes
  <2> QED BY <1>1, <1>2, <2>1, QuietTypes
<1>4. /\ \A s : ProjectOf(s)' = ProjectOf(s)
      /\ TargetSites' = TargetSites /\ Project' = Project
  BY <1>1, QuietPlace DEF Project
<1>5. FragmentPlace'
  BY <1>1, <1>2, <1>4 DEF FragmentPlace, NoneRead
<1>6. NoSecondImport'
  BY <1>1 DEF NoSecondImport
<1>7. Ambiguous' = Ambiguous
  BY <1>1, SameProjects
<1>8. ASSUME ~Ambiguous
      PROVE  FragmentNames'
  <2>1. SameFocus
    BY <1>1 DEF SameFocus
  <2>2. PortalGrows /\ NewNames /\ NewBodies
    BY <1>1, <1>2, <1>8, <2>1, QuietGrows
  <2>3. RightCollection'
    BY <1>1, <1>8, <2>2, RightStays
  <2>4. \A f : ToFind(f)' <=> ToFind(f)
    BY <1>1 DEF ToFind
  <2>5. 0 \in DOMAIN cache => CollectionIds = cache[0]
    BY DEF CollectionIds
  <2>6. \A k \in DOMAIN cache' \ {0} : \A t \in DOMAIN cache'[k] :
          cache'[k][t] \in DOMAIN entries /\ entries[cache'[k][t]].collection = k /\ TokenOf(cache'[k][t], t)
    BY <1>1, <1>8 DEF FragmentNames, CacheKnows
  <2>7. CacheKnows'
    BY <1>1, <1>3, <1>8, <2>2, <2>4, <2>5, <2>6, CachesKept
  <2> QED BY <1>1, <1>3, <1>8, <2>2, <2>3, <2>7, NamesKept
<1>9. ASSUME ~Ambiguous
      PROVE  FragmentsBack'
  <2> SUFFICES ASSUME ExportAgain'
               PROVE  FragmentsBack'
    BY DEF FragmentsBack
  <2>1. ExportAgain
    BY <1>1 DEF ExportAgain, FragmentOpt
  <2>2. \A r \in results : r.error = ""
    BY <1>9, <2>1 DEF FragmentsBack
  <2> QED BY <1>1, <1>2, <1>9, <2>1, <2>2, BackKept DEF FragmentsBack
<1> QED BY <1>3, <1>5, <1>6, <1>7, <1>8, <1>9

\* Every step keeps the invariant.
LEMMA FragmentsKeep == FragmentInv /\ [FragmentNext]_fragmentVars => FragmentInv'
<1> SUFFICES ASSUME FragmentInv, [FragmentNext]_fragmentVars PROVE FragmentInv'
  OBVIOUS
<1>1. ASSUME FragmentNext PROVE FragmentInv'
  <2>1. FragmentTypes /\ KeysOnce /\ FragmentPlace /\ NoSecondImport /\ (~Ambiguous => FragmentNames /\ FragmentsBack)
    BY DEF FragmentInv
  <2>2. FragmentTypes' /\ KeysOnce'
    BY <1>1, <2>1, StepTypes
  <2>3. FragmentPlace' /\ NoSecondImport'
    BY <1>1, <2>1, <2>2, StepPlace, StepNoSecond
  <2>4. ~Ambiguous' => FragmentNames' /\ FragmentsBack'
    BY <1>1, <2>1, <2>2, StepNames, StepBack
  <2> QED BY <2>2, <2>3, <2>4 DEF FragmentInv
<1> QED BY <1>1, FragmentsStutter

\* A local fragment has a row.
LEMMA HasRow ==
  ASSUME FragmentTypes, NEW s, NEW f \in ProjectOf(s)
  PROVE  [site |-> s, collection |-> f.collection, title |-> f.title, key |-> f.slug, name |-> f.name] \in LocalRows
<1>1. s \in DOMAIN projects
  BY SomeFragment
<1> QED BY <1>1 DEF LocalRows

\* What was imported is in the portal, once.
LEMMA FragmentsDoLand == FragmentInv => FragmentsLand
<1> SUFFICES ASSUME FragmentInv, ~Ambiguous
             PROVE  /\ \A r \in reported : r.by = "jsonws" /\ r.error = "" => IsInPortal(r.site, r.fragment)
                    /\ OnceEach
                    /\ fragPc = "ok" => \A s \in TargetSites : \A f \in ProjectOf(s) : \E r \in reported : r.site = s /\ r.fragment = f
                    /\ \A i \in DOMAIN frag.entries :
                         LET c == frag.collections[frag.entries[i].collection]
                         IN  entries[i] # frag.entries[i] => \E r \in LocalRows :
                               <<r.site, r.collection, r.key>> = <<c.group, c.key, entries[i].key>>
  BY DEF FragmentsLand
<1> USE DEF FragmentInv
<1>1. ASSUME NEW r \in reported, r.by = "jsonws", r.error = ""
      PROVE  IsInPortal(r.site, r.fragment)
  <2>1. FragmentLanded(r.site, r.fragment)
    BY <1>1 DEF FragmentNames, FragmentImported
  <2>2. PICK i \in DOMAIN entries : /\ CollectionOf(i).group = r.site /\ CameFrom(i, r.fragment)
                                    /\ entries[i].body = r.fragment.body
    BY <2>1 DEF FragmentLanded
  <2>3. entries[i] \in Range(entries)
    BY DEF Range
  <2> QED BY <2>2, <2>3 DEF IsInPortal, CameFrom, CollectionOf, StandsFor
<1>2. OnceEach
  <2> SUFFICES ASSUME NEW i \in DOMAIN entries, NEW j \in DOMAIN entries,
                      CollectionOf(i).group = CollectionOf(j).group, CollectionOf(i).key = CollectionOf(j).key,
                      entries[i].key = entries[j].key,
                      CollectionOf(i).key = "auto" => entries[i].collection = entries[j].collection
               PROVE  i = j
    BY DEF OnceEach, CollectionOf
  <2>1. entries[i].collection \in DOMAIN collections /\ entries[j].collection \in DOMAIN collections
    BY FragmentRows
  <2>2. entries[i].collection = entries[j].collection
    BY <2>1 DEF KeysOnce, CollectionOf
  <2> QED BY <2>2 DEF KeysOnce
<1>3. fragPc = "ok" => \A s \in TargetSites : \A f \in ProjectOf(s) : \E r \in reported : r.site = s /\ r.fragment = f
  BY DEF FragmentPlace
<1>4. ASSUME NEW i \in DOMAIN frag.entries, entries[i] # frag.entries[i]
      PROVE  LET c == frag.collections[frag.entries[i].collection]
             IN  \E r \in LocalRows : <<r.site, r.collection, r.key>> = <<c.group, c.key, entries[i].key>>
  <2> DEFINE k == frag.entries[i].collection
  <2>1. i \in DOMAIN entries /\ OldEntry(i)
    BY FragmentRows DEF FragmentTypes, OldEntry
  <2>2. entries[i].collection = k
    BY <2>1 DEF FragmentNames, EntryRow
  <2>3. PICK f \in ProjectOf(CollectionOf(i).group) : CameFrom(i, f)
    BY <1>4, <2>1 DEF FragmentNames, EntryRow
  <2>4. k \in DOMAIN frag.collections /\ k \in DOMAIN collections /\ OldCollection(k) /\ frag.collections[k].key # "auto"
    BY FragmentRows DEF FragmentTypes, OldCollection
  <2>5. collections[k].group = frag.collections[k].group /\ collections[k].key = frag.collections[k].key
    BY <2>4 DEF FragmentNames, CollectionRow
  <2>6. CollectionOf(i) = collections[k]
    BY <2>2 DEF CollectionOf
  <2>7. f.collection = frag.collections[k].key /\ f.slug = entries[i].key
    BY <2>3, <2>4, <2>5, <2>6 DEF CameFrom, StandsFor
  <2>8. PICK r \in LocalRows : /\ r.site = frag.collections[k].group /\ r.collection = f.collection /\ r.key = f.slug
    <3>1. f \in ProjectOf(frag.collections[k].group)
      BY <2>3, <2>5, <2>6
    <3>2. PICK s : s = frag.collections[k].group
      OBVIOUS
    <3>3. [site |-> s, collection |-> f.collection, title |-> f.title, key |-> f.slug, name |-> f.name] \in LocalRows
      BY <3>1, <3>2, HasRow
    <3> QED BY <3>2, <3>3
  <2> QED BY <2>7, <2>8
<1> QED BY <1>1, <1>2, <1>3, <1>4

\* What was exported and is imported again changes nothing.
LEMMA FragmentsComeBack == FragmentInv => FragmentsRoundTrip
<1> SUFFICES ASSUME FragmentInv, FragmentOpt.export, fragmentFaults = 0, ~Ambiguous,
                    DOMAIN frag.local = {}, frag.jsonws, \A b \in DOMAIN frag.stored : frag.stored[b] = b
             PROVE  /\ FragmentPortal = <<frag.collections, frag.entries>>
                    /\ \/ \A r \in reported : r.error = ""
                       \/ /\ FragmentOpt.transport = "deploy-zip"
                          /\ \E r, q \in LocalRows : r.title = q.title /\ r.collection # q.collection
  BY DEF FragmentsRoundTrip
<1>1. ExportAgain
  BY DEF ExportAgain
<1>2. /\ FragmentPortal = <<frag.collections, frag.entries>>
      /\ \A r \in reported : r.error = "" \/ (FragmentOpt.transport = "deploy-zip" /\ ~TitlesDiffer)
  BY <1>1 DEF FragmentInv, FragmentsBack
<1>3. ASSUME ~TitlesDiffer
      PROVE  \E r, q \in LocalRows : r.title = q.title /\ r.collection # q.collection
  <2>1. PICK s \in DOMAIN projects : \E f, g \in ProjectOf(s) : f.title = g.title /\ f.collection # g.collection
    BY <1>3 DEF TitlesDiffer
  <2>2. PICK f \in ProjectOf(s), g \in ProjectOf(s) : f.title = g.title /\ f.collection # g.collection
    BY <2>1
  <2>3. /\ [site |-> s, collection |-> f.collection, title |-> f.title, key |-> f.slug, name |-> f.name] \in LocalRows
        /\ [site |-> s, collection |-> g.collection, title |-> g.title, key |-> g.slug, name |-> g.name] \in LocalRows
    BY HasRow DEF FragmentInv
  <2> QED BY <2>2, <2>3
<1> QED BY <1>2, <1>3

-----------------------------------------------------------------------------
(* Whatever is imported to whatever portal, with any number of faults and   *)
(* of runs: an import that ends well has every script in its place, no      *)
(* entry makes two bound templates, no other template is touched, and an    *)
(* export is brought back unchanged.                                        *)
THEOREM ImportFaithful == ImportSpec => []ImportIsFaithful
<1>1. ImportInit => ImportInv
  BY ImportStarts DEF ImportInit
<1> QED BY <1>1, ImportKeeps, ImportHolds, PTL DEF ImportSpec

(* Whatever fragments are imported to whatever portal, with any number of   *)
(* faults and of runs: what is reported as imported through JSONWS is there *)
(* with its body, once; an import that ends well reported every fragment;   *)
(* nothing else in the portal changes; an export that is imported again     *)
(* changes nothing; and what JSONWS took is not sent again as a zip.        *)
THEOREM FragmentsFaithful == FragmentSpec => []FragmentsAreFaithful
<1>1. FragmentInit => FragmentInv
  BY FragmentsStart DEF FragmentInit
<1>2. FragmentInv => FragmentsAreFaithful
  BY FragmentsDoLand, FragmentsComeBack DEF FragmentsAreFaithful, FragmentInv
<1> QED BY <1>1, <1>2, FragmentsKeep, PTL DEF FragmentSpec
=============================================================================
