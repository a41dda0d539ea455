------------------------------- MODULE MCPortal -------------------------------
(***************************************************************************)
(* Small instances of what commands do with the portal.  The modules share *)
(* no state: each behaviour runs one of them, chosen in the initial state, *)
(* with the others at their end.                                           *)
(***************************************************************************)
EXTENDS ContentPrune, PortalClient, FolderWalk

\* Prune: a folder 1 with two folders below it; the last article may come late.
PruneSite == [parent |-> <<0, 1, 1>>, folder |-> <<1, 2, 2, 3>>,
              structure |-> <<"news", "news", "event", "event">>, date |-> <<1, 1, 2, 3>>,
              exists |-> {1, 2, 3}, foreign |-> {}, known |-> {"news"}, late |-> {4}]
SmallSite == [PruneSite EXCEPT !.late = {}, !.exists = {1, 2}]
ApartSite == [PruneSite EXCEPT !.parent[3] = 0]   \* folder 3 below no other
PruneOptions == [roots : {<<1>>, <<1, 2>>, <<2, 3>>}, keep : {0, 1}, scope : {"folder", "structure"},
                 structures : {{}, {"news"}}, dry : BOOLEAN]
SomePrunes ==
  {[site |-> s, opt |-> o] : s \in {PruneSite, SmallSite}, o \in PruneOptions}
  \cup {[site |-> ApartSite, opt |-> o] : o \in {p \in PruneOptions : p.keep = 1 /\ p.scope = "structure"}}

\* Requests of two processes.
TwoProcesses == [r \in {"r1", "r3"} |-> IF r = "r3" THEN "q" ELSE "p"]

\* Three shapes of tree, each with more folders than places.
Tree(c) == [children |-> [n \in 0 .. 6 |-> c[n + 1]], contents |-> [n \in 0 .. 6 |-> n]]
SomeWalks == {Tree(<< <<1, 2, 3>>, <<4, 5, 6>>, <<>>, <<>>, <<>>, <<>>, <<>> >>),
              Tree(<< <<1>>, <<2>>, <<3>>, <<4, 5, 6>>, <<>>, <<>>, <<>> >>),
              Tree(<< <<1, 2>>, <<3, 4>>, <<5, 6>>, <<>>, <<>>, <<>>, <<>> >>)}

vars == <<pruneVars, clientVars, walkVars>>
NoPrune == (case = CHOOSE c \in PruneCases : TRUE) /\ PruneStart("off")
NoRequest == ClientStart("none")
NoWalk == (walk = CHOOSE w \in Walks : TRUE) /\ WalkStart("failed")
Init == \/ PruneInit /\ NoRequest /\ NoWalk
        \/ NoPrune /\ ClientInit /\ NoWalk
        \/ NoPrune /\ NoRequest /\ WalkInit
Next == \/ PruneNext /\ UNCHANGED <<clientVars, walkVars>>
        \/ ClientNext /\ UNCHANGED <<pruneVars, walkVars>>
        \/ WalkNext /\ UNCHANGED <<pruneVars, clientVars>>
Spec == /\ Init /\ [][Next]_vars
        /\ WF_pruneVars(PruneStep) /\ WalkFairness
        /\ \A r \in Requests : WF_clientVars(ClientStep(r))
=============================================================================
