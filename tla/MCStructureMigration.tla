------------------------ MODULE MCStructureMigration ------------------------
(***************************************************************************)
(* Small instances of StructureMigration: one mapping from a field that    *)
(* the local file keeps, drops or reshapes to a field that is new.         *)
(***************************************************************************)
EXTENDS StructureMigration, TLC

CONSTANTS old, other, new, en, es

MCField == {old, other, new}
MCMappings ==
  <<[source |-> old, target |-> new, cleanupSource |-> TRUE],
    [source |-> other, target |-> new, cleanupSource |-> FALSE]>>
Shapes(o, x, n) == (old :> o) @@ (other :> x) @@ (new :> n)

Holds(o, x, n) == (old :> o) @@ (other :> x) @@ (new :> n)

MCRuntimes == {Shapes(0, 0, 0), Shapes(1, 1, 0), Shapes(1, 1, 1)}
MCLocals == {Shapes(0, 0, 1), Shapes(1, 1, 1), Shapes(2, 1, 1)}
MCEntered == {Holds(FALSE, FALSE, FALSE), Holds(TRUE, FALSE, FALSE), Holds(TRUE, TRUE, FALSE), Holds(TRUE, FALSE, TRUE)}

Mono == [a \in Article |-> {en}]
Bilingual(a) == [Mono EXCEPT ![a] = {en, es}]
Both == {[articles |-> Article, langs |-> Mono]}
OneMono == {[articles |-> {a}, langs |-> Mono] : a \in Article}
BothBilingual == {[articles |-> Article, langs |-> Bilingual(a)] : a \in Article}

Import(phase, plan) ==
  [pipeline |-> FALSE, runCleanup |-> FALSE, checkOnly |-> FALSE, skipUpdate |-> FALSE,
   createMissing |-> TRUE, plan |-> plan, phase |-> phase, dryRun |-> FALSE, cleanup |-> FALSE,
   scope |-> Article]
Pipeline(clean) ==
  [Import("post", TRUE) EXCEPT !.pipeline = TRUE, !.runCleanup = clean, !.createMissing = FALSE]
Checked(c) == {c, [c EXCEPT !.checkOnly = TRUE]}
Scoped(c) == {c} \cup {[c EXCEPT !.scope = {a}] : a \in Article}

Real ==
  {Import("post", FALSE), Import("both", TRUE), Import("pre", TRUE), Import("post", TRUE),
   [Import("post", TRUE) EXCEPT !.cleanup = TRUE], Pipeline(TRUE), Pipeline(FALSE)}
Others ==
  Real \cup UNION {Checked(c) : c \in Real} \cup UNION {Scoped(c) : c \in Real}
  \cup {[c EXCEPT !.skipUpdate = TRUE] : c \in {d \in Real : ~d.pipeline}}
  \cup {[c EXCEPT !.createMissing = FALSE] : c \in Real}

MCWorlds == {{}, {"edit"}, {"create", "scoped"}}
MCCommands == ({} :> Real) @@ ({"edit"} :> Real) @@ ({"create", "scoped"} :> Others)
MCStarts == ({} :> Both \cup BothBilingual) @@ ({"edit"} :> OneMono) @@ ({"create", "scoped"} :> BothBilingual \cup OneMono)
MCLaunches == ({} :> 3) @@ ({"edit"} :> 1) @@ ({"create", "scoped"} :> 1)

MCSymmetry == Permutations(Article)
=============================================================================
