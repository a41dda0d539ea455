----------------------------- MODULE MCResources -----------------------------
(***************************************************************************)
(* Small instances of the imports and exports of resources.  The modules   *)
(* share no state: each behaviour runs one of them, chosen in the initial  *)
(* state, with the others at their end.                                    *)
(***************************************************************************)
EXTENDS ResourceImport, FragmentImport, ObjectImport, StyleBookImport, TLC

\* Templates A and B, the second of the company; ADTs in the global site and in the guest's.
Names == {"A", "B", "b b", "b_b", "auto", "x1", "x2", "x3", "nameA", "nameB"}
Clean == [n \in Names |-> IF n = "b b" THEN "b_b" ELSE n]
Remote(g, c, k, e, n, s) == [group |-> g, class |-> c, key |-> k, erc |-> e, name |-> n, script |-> s]
Local(t, d, k, s) == [top |-> t, dir |-> d, key |-> k, script |-> s]
Line(type, extra) == extra @@ [type |-> type, all |-> FALSE, check |-> FALSE, create |-> TRUE, go |-> TRUE,
   export |-> FALSE, continue |-> FALSE, site |-> "guest", keys |-> {}, structure |-> "", widget |-> "", single |-> ""]
Case(portal, fs, line) == [portal |-> portal, files |-> fs, opt |-> line, clean |-> Clean,
   sites |-> {"guest", "global"}, classes |-> {"menu", "list"}]
TemplatePortal == <<Remote("guest", "S", "x1", "A", "nameA", "a0"), Remote("company", "S", "x2", "B", "nameB", "b0")>>
TemplateFiles == {Local("guest", "guest", "A", "a1"), Local("guest", "guest", "B", "b1"), Local("global", "global", "B", "b2")}
AdtPortal == <<Remote("global", "menu", "x1", "A", "nameA", "a0"), Remote("guest", "list", "x2", "B", "B", "b0")>>
AdtFiles == {Local("global", "menu", "nameA", "a1"), Local("guest", "list", "B", "b1"), Local("guest", "menu", "nameA", "a2")}
FileSets == {TemplateFiles, {Local("guest", "guest", "A", "a1")},
             {Local("x", "x", "B", "b3"), Local("y", "y", "B", "b4")},
             {Local("none", "none", "B", "b5"), Local("x", "x", "B", "b3")}}

SingleImports ==
  {Case(TemplatePortal, fs, Line("template", [single |-> "B", site |-> g])) :
     g \in {"guest", "global", "other"}, fs \in FileSets}
  \cup {Case(AdtPortal, AdtFiles, Line("adt", [single |-> "nameA", widget |-> "menu"]))}
TemplateImports ==
  {Case(TemplatePortal, TemplateFiles,
        Line("template", [all |-> a, check |-> c, create |-> m, continue |-> t, structure |-> st])) :
      a \in BOOLEAN, c \in BOOLEAN, m \in BOOLEAN, t \in BOOLEAN, st \in {"", "S"}}
  \cup {Case(TemplatePortal, TemplateFiles, Line("template", [go |-> FALSE, keys |-> k])) : k \in {{}, {"B"}}}
AdtImports ==
  {Case(AdtPortal, AdtFiles, Line("adt", [all |-> a, create |-> m, continue |-> t, site |-> st])) :
      a \in BOOLEAN, m \in BOOLEAN, t \in BOOLEAN, st \in {"guest", "other"}}
  \cup {Case(Append(AdtPortal, Remote("guest", "menu", "x3", "A", "nameA", "a3")), AdtFiles,
             Line("adt", [all |-> a, create |-> m, continue |-> TRUE])) : a \in BOOLEAN, m \in BOOLEAN}
\* A portal that has none of them yet.
Creations ==
  {Case(<<>>, TemplateFiles, Line("template", [all |-> a, structure |-> "S"])) : a \in BOOLEAN}
  \cup {Case(<<>>, AdtFiles, Line("adt", [all |-> TRUE, continue |-> t])) : t \in BOOLEAN}
  \cup {Case(TemplatePortal, {Local("guest", "guest", "b b", "c1")}, Line("template", [structure |-> "S"]))}
Exports ==
  {Case(p, fs, Line(ty, [export |-> TRUE, site |-> st])) :
      p \in {TemplatePortal, AdtPortal, [TemplatePortal EXCEPT ![1].erc = "b b"]},
      fs \in {{}, TemplateFiles}, ty \in {"template", "adt"}, st \in {"guest", "global"}}
\* A site with two files of one name, which only the company has, as another site does.
Twins ==
  {Case(<<Remote("company", "S", "x2", "B", "nameB", "b0")>>,
        {Local("guest", "guest", "B", "b1"), Local("guest", "sub", "B", "b2"), Local("global", "global", "B", "b3")},
        Line("template", [all |-> TRUE, continue |-> t, structure |-> "S"])) : t \in BOOLEAN}
SomeImports == SingleImports \cup TemplateImports \cup AdtImports \cup Creations \cup Twins \cup Exports

Body(slug, name, body) == [slug |-> slug, name |-> name, body |-> body]
Coll(slug, name, fs) ==
  {[collection |-> slug, title |-> name, slug |-> f.slug, name |-> f.name, body |-> f.body] : f \in fs}
Row0(c, k, n, b) == [collection |-> c, key |-> k, name |-> n, body |-> b]
Tokenized == [n \in {"c", "d", "f", "g", "F", "f f", "C"} |-> IF n = "F" THEN "f" ELSE n]
Kept0 == [b \in {"b0", "b1", "b2", "bad"} |-> IF b = "bad" THEN "b0" ELSE b]
FragmentLine == [transport |-> "auto", all |-> FALSE, site |-> "guest", filter |-> "", export |-> FALSE, only |-> ""]
Frag(line, local, cs, es, jsonws, docker, installs) ==
  [opt |-> line @@ FragmentLine, local |-> local, collections |-> cs, entries |-> es, token |-> Tokenized,
   stored |-> Kept0, jsonws |-> jsonws, docker |-> docker, installs |-> installs, sites |-> {"guest", "global"}]
OneFragment(b) == Coll("c", "c", {Body("f", "f", b)})
TwoCollections == Coll("c", "c", {Body("f", "f", "b1"), Body("g", "g", "bad")}) \cup Coll("d", "C", {Body("f", "f f", "b2")})
Clashing == Coll("c", "c", {Body("f", "g", "b1"), Body("g", "F", "b2")})
GuestRow(k, n) == [group |-> "guest", key |-> k, name |-> n]
OldC == <<GuestRow("c", "C"), [group |-> "global", key |-> "c", name |-> "c"]>>
OldE == <<Row0(1, "f", "f", "b0"), Row0(1, "g", "g", "b2"), Row0(2, "f", "f", "b0")>>
Guest(p) == "guest" :> p
Both(p, q) == Guest(p) @@ ("global" :> q)
SomeFragments ==
  {Frag([transport |-> t], Guest(p), OldC, OldE, j, TRUE, i) :
     t \in {"auto", "jsonws", "deploy-zip"}, p \in {TwoCollections, Clashing, {}}, j \in BOOLEAN, i \in BOOLEAN}
  \cup {Frag([all |-> TRUE, filter |-> x], Both(OneFragment("b1"), OneFragment("b2")), cs, IF cs = <<>> THEN <<>> ELSE OldE, j, k, TRUE) :
          x \in {"", "f"}, cs \in {<<>>, OldC}, j \in BOOLEAN, k \in BOOLEAN}
  \cup {Frag([all |-> TRUE], Both(TwoCollections, OneFragment("b2")), OldC, OldE, TRUE, FALSE, FALSE)}
  \cup {Frag(<<>>, Guest(OneFragment("b1") \cup Coll("d", "C", {Body("f", "f f", "b2")})), <<GuestRow("g", "g")>>,
             <<Row0(1, "f", "f", "b0")>>, TRUE, TRUE, TRUE)}
  \cup {Frag([filter |-> x], Guest(TwoCollections), OldC, OldE, TRUE, TRUE, TRUE) : x \in {"f", "none"}}
  \cup {Frag([export |-> TRUE, only |-> x, site |-> st], l, OldC, OldE, TRUE, TRUE, TRUE) :
          x \in {"", "g", "none"}, st \in {"guest", "global"}, l \in {<<>>, Guest(TwoCollections)}}
  \cup {[Frag([export |-> TRUE, transport |-> t], <<>>, <<GuestRow("c", "C"), GuestRow("d", n)>>,
               <<Row0(1, "f", "f", "b0"), Row0(2, "f", "f", "b1")>>, TRUE, TRUE, TRUE) EXCEPT !.stored = [b \in {"b0", "b1"} |-> b]] :
          t \in {"auto", "deploy-zip"}, n \in {"C", "d"}}

\* Objects and picklists: the file, the portal and what else there is.
Field(e, p) == [erc |-> e, props |-> p]
Label(v) == "label" :> v
To(e, t, v) == Field(e, ("to" :> t) @@ Label(v))
Artifact(fs, ps) == [exists |-> TRUE, approved |-> TRUE, props |-> Label("v0"), fields |-> fs, parts |-> ps]
NoArtifact == [exists |-> FALSE, approved |-> FALSE, props |-> <<>>, fields |-> <<>>, parts |-> <<>>]
File(p, fs, ps) == [erc |-> "E", valid |-> TRUE, props |-> p, fields |-> fs, parts |-> ps]
Kept == [v \in {"v0", "v1", "v2", "E", "T", "P", "self"} |-> v]
ObjectLine == [type |-> "object", check |-> FALSE, create |-> TRUE, breaking |-> FALSE, export |-> FALSE, key |-> "E"]
Obj(line, f, portal, manages) == [opt |-> line @@ ObjectLine, file |-> f, portal |-> portal, manages |-> manages,
                                  stores |-> Kept, others |-> {"P", "T"}]
ObjectFile == File(Label("v1"), "a" :> Field("", Label("v1") @@ ("list" :> "P")) @@ ("b" :> Field("eb", Label("v2"))),
                   "r" :> To("", "T", "v1") @@ ("s" :> To("es", "E", "v2")))
ObjectPortal == Artifact("a" :> Field("ea", Label("v0")) @@ ("b" :> Field("eb", Label("v2") @@ ("more" :> "v0"))),
                         "r" :> To("er", "T", "v0") @@ ("q" :> To("eq", "T", "v0")))
\* Its relationship r is given the ERC e.
RenamedFile(e) == [ObjectFile EXCEPT !.parts["r"].erc = e]
ListFile == File(Label("v1"), <<>>, "k" :> Field("", Label("v1")) @@ ("l" :> Field("el", Label("v2"))))
ListPortal == Artifact(<<>>, "k" :> Field("ek", Label("v0")))
ObjectPortals == {ObjectPortal, NoArtifact, [ObjectPortal EXCEPT !.approved = FALSE],
                  [ObjectPortal EXCEPT !.fields = @ @@ ("c" :> Field("ec", Label("v0")))],
                  [ObjectPortal EXCEPT !.fields["b"].erc = "eB"]}
SomeObjects ==
  {Obj([breaking |-> b, check |-> c], ObjectFile, p, g) :
      b \in BOOLEAN, c \in BOOLEAN, p \in ObjectPortals, g \in BOOLEAN}
  \cup {Obj(<<>>, RenamedFile(e), ObjectPortal, g) : e \in {"er", "eR", "eq"}, g \in BOOLEAN}
  \cup {Obj([create |-> FALSE, key |-> k], ObjectFile, NoArtifact, TRUE) : k \in {"", "F"}}
  \cup {[Obj(<<>>, ObjectFile, p, TRUE) EXCEPT !.others = o] : o \in {{"P"}, {"T"}}, p \in {NoArtifact, ObjectPortal}}
  \cup {[Obj(<<>>, ObjectFile, ObjectPortal, TRUE) EXCEPT !.stores = [Kept EXCEPT !["v2"] = "v0"]]}
  \cup {Obj([export |-> TRUE], ObjectFile, p, g) : p \in ObjectPortals, g \in BOOLEAN}
  \cup {Obj([type |-> "picklist", breaking |-> b, check |-> c, export |-> e], ListFile, p, g) :
          b \in BOOLEAN, c \in BOOLEAN, e \in BOOLEAN, g \in BOOLEAN,
          p \in {ListPortal, NoArtifact, [ListPortal EXCEPT !.parts = @ @@ ("m" :> Field("em", Label("v0")))]}}

Book(e, k, n, tk) == [erc |-> e, key |-> k, name |-> n, theme |-> "classic", tokens |-> tk]
StyleLine == [check |-> FALSE, create |-> TRUE, key |-> "", export |-> FALSE]
SomeStyles ==
  {[check |-> c, key |-> k, file |-> Book("e", "k", "n", "t1"), entries |-> es] @@ StyleLine :
     c \in BOOLEAN, k \in {"", "e", "x"},
     es \in {<<>>, <<Book("f", "g", "m", "t0"), Book("e", "k", "N", "t0")>>, <<Book("e", "K", "n", "t1")>>,
            <<Book("f", "g", "e", "t0"), Book("e", "k", "n", "t1")>>}}
  \cup {[create |-> FALSE, file |-> Book("e", "k", "n", "t1"), entries |-> <<>>] @@ StyleLine,
        [export |-> TRUE, key |-> "e", file |-> Book("none", "", "", ""), entries |-> <<>>] @@ StyleLine,
        [export |-> TRUE, key |-> "e", file |-> Book("none", "", "", ""), entries |-> <<Book("e", "k", "n", "t1")>>] @@ StyleLine}

resourceVars == <<importVars, fragmentVars, objectVars, styleVars>>
NoImport == (imp = CHOOSE c \in ImportCases : TRUE) /\ ImportStart("off")
NoFragments == (frag = CHOOSE c \in FragmentCases : TRUE) /\ FragmentStart("off")
NoObject == (obj = CHOOSE c \in ObjectCases : TRUE) /\ ObjectStart("off")
NoStyle == (style = CHOOSE c \in StyleCases : TRUE) /\ StyleStart("off")
NoResource == NoImport /\ NoFragments /\ NoObject /\ NoStyle
ResourceInit == \/ ImportInit /\ NoFragments /\ NoObject /\ NoStyle
                \/ NoImport /\ FragmentInit /\ NoObject /\ NoStyle
                \/ NoImport /\ NoFragments /\ ObjectInit /\ NoStyle
                \/ NoImport /\ NoFragments /\ NoObject /\ StyleInit
ResourceNext == \/ ImportNext /\ UNCHANGED <<fragmentVars, objectVars, styleVars>>
                \/ FragmentNext /\ UNCHANGED <<importVars, objectVars, styleVars>>
                \/ ObjectNext /\ UNCHANGED <<importVars, fragmentVars, styleVars>>
                \/ StyleNext /\ UNCHANGED <<importVars, fragmentVars, objectVars>>

\* What is sent whole to the portal, by its ERC.
DefinitionsAreFaithful == ObjectsAreFaithful /\ StyleBooksAreFaithful
=============================================================================
