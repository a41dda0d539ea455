--------------------------- MODULE RedirectImport ---------------------------
(***************************************************************************)
(* `ldev resource import-redirects`: a redirect map against the redirects  *)
(* of one site.  A map is a sequence of [source, to, permanent]; rows of   *)
(* the file are read by RowOf, which may make two sources the same, and a  *)
(* CSV whose first source looks like a header loses it.                    *)
(***************************************************************************)
EXTENDS Integers, Sequences, TLC

CONSTANTS RedirectCases, RedirectFaults,   \* bound: requests refused or answers lost
          RedirectRuns                     \* bound: times the command is given

ASSUME RedirectAssumption ==
  /\ \A c \in RedirectCases :
       /\ DOMAIN c = {"rows", "csv", "headers", "clean", "inside", "remote", "check", "probe", "served", "ends"}
       /\ c.rows \in Seq({c.rows[i] : i \in DOMAIN c.rows})
  /\ {RedirectFaults, RedirectRuns} \subseteq Nat

VARIABLES redir,       \* the case
          stored,      \* redirects of the site: [to, permanent] by source
          redirPc,
          todoRedirects, \* rows of the map that are yet to be written
          planned,     \* what the run said it would do: [create, update, unchanged], sets of sources
          redirRuns, redirFaults

redirVars == <<redir, stored, redirPc, todoRedirects, planned, redirRuns, redirFaults>>

(* Sources lose their leading slashes; permanent is the default.            *)
RowOf(r) == [source |-> redir.clean[r.source], to |-> r.to,
             permanent |-> r.permanent \notin {"false", "0", "302", "no"}]
HasHeader == redir.csv /\ redir.rows # <<>> /\ Head(redir.rows).source \in redir.headers
Rows == IF HasHeader THEN Tail(redir.rows) ELSE redir.rows
Map == [i \in DOMAIN Rows |-> RowOf(Rows[i])]
Target(m) == [to |-> m.to, permanent |-> m.permanent]

(* A map with an empty or a repeated source, or a destination that ends in  *)
(* its own source, is refused.                                              *)
InvalidMap == \E i \in DOMAIN Map :
  \/ "" \in {Map[i].source, Map[i].to}
  \/ \E j \in 1 .. i - 1 : Map[j].source = Map[i].source
  \/ <<Map[i].source, Map[i].to>> \in redir.inside
Matches_(m, rs) == m.source \in DOMAIN rs /\ rs[m.source] = Target(m)
Sources(is) == {Map[i].source : i \in is}

RedirectStart(pc) ==
  /\ redir \in RedirectCases
  /\ stored = redir.remote /\ redirPc = pc /\ todoRedirects = {}
  /\ planned = [create |-> {}, update |-> {}, unchanged |-> {}]
  /\ redirRuns = 0 /\ redirFaults = 0
RedirectInit == RedirectStart("start")

PlanRedirects ==
  /\ redirPc = "start" /\ redirRuns' = redirRuns + 1
  /\ LET missing == {i \in DOMAIN Map : Map[i].source \notin DOMAIN stored}
         same == {i \in DOMAIN Map : Matches_(Map[i], stored)}
         differs == DOMAIN Map \ (missing \cup same)
     IN  /\ planned' = [create |-> Sources(missing), update |-> Sources(differs), unchanged |-> Sources(same)]
         /\ todoRedirects' = missing \cup differs
  /\ redirPc' = IF InvalidMap THEN "error" ELSE IF redir.check THEN "checked" ELSE "write"
  /\ UNCHANGED <<redir, stored, redirFaults>>

(* Creations come before updates, each in the order of the map.             *)
Creates(i) == Map[i].source \in planned.create
Before(i, j) == \/ Creates(i) /\ ~Creates(j)
                \/ (Creates(i) <=> Creates(j)) /\ i < j
NextRedirects == {i \in todoRedirects : \A j \in todoRedirects : ~Before(j, i)}
WithRedirect(i) ==
  [s \in DOMAIN stored \cup {Map[i].source} |-> IF s = Map[i].source THEN Target(Map[i]) ELSE stored[s]]
WriteRedirect ==
  /\ redirPc = "write"
  /\ \E i \in NextRedirects : stored' = WithRedirect(i) /\ todoRedirects' = todoRedirects \ {i}
  /\ UNCHANGED <<redir, redirPc, planned, redirRuns, redirFaults>>

(* served[source] is what the portal answers to a request for it, if it is  *)
(* not what is stored; ends has the pairs <<answered, asked for>> of which  *)
(* the first ends with the second, as an address with its host does.        *)
Served(s) == IF s \in DOMAIN redir.served THEN redir.served[s] ELSE stored[s]
ServesRow(i) == LET answer == Served(Map[i].source)
                IN  /\ answer.permanent = Map[i].permanent
                    /\ answer.to = Map[i].to \/ <<answer.to, Map[i].to>> \in redir.ends
BugAllServed == TRUE
AllServed == ~redir.probe \/ \A i \in DOMAIN Map : ServesRow(i)
ReadRedirects ==
  /\ redirPc = "write" /\ todoRedirects = {}
  /\ redirPc' = CASE \E i \in DOMAIN Map : ~Matches_(Map[i], stored) -> "mismatch"
                  [] AllServed -> "applied"
                  [] OTHER -> "unserved"
  /\ UNCHANGED <<redir, stored, todoRedirects, planned, redirRuns, redirFaults>>

RedirectFails ==
  /\ redirPc = "write" /\ redirPc' = "failed"
  /\ redirFaults < RedirectFaults /\ redirFaults' = redirFaults + 1
  /\ stored' \in {stored} \cup {WithRedirect(i) : i \in NextRedirects}
  /\ UNCHANGED <<redir, todoRedirects, planned, redirRuns>>

RedirectAgain ==
  /\ redirPc \in {"applied", "failed", "unserved"} /\ redirRuns < RedirectRuns
  /\ redirPc' = "start"
  /\ UNCHANGED <<redir, stored, todoRedirects, planned, redirRuns, redirFaults>>

RedirectStep == PlanRedirects \/ WriteRedirect \/ ReadRedirects
RedirectNext == RedirectStep \/ RedirectFails \/ RedirectAgain

-----------------------------------------------------------------------------
(* Redirects that the map does not name stay as they are.  An import that   *)
(* applied stored all of the map, and serves it if probed; given again      *)
(* after a failure it needs to write only what the failed run left, so that *)
(* no source is ever both created and there already.                        *)
RedirectsAreFaithful ==
  /\ \A s \in DOMAIN redir.remote : s \notin {Map[i].source : i \in DOMAIN Map} =>
        s \in DOMAIN stored /\ stored[s] = redir.remote[s]
  /\ redirPc = "applied" => \A i \in DOMAIN Map :
        Matches_(Map[i], stored) /\ (redir.probe => ServesRow(i))
  /\ redirPc # "mismatch"
  /\ redirPc = "write" => \A i \in todoRedirects : Creates(i) => Map[i].source \notin DOMAIN stored
=============================================================================
