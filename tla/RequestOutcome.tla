--------------------------- MODULE RequestOutcome ---------------------------
(***************************************************************************)
(* What a command may rely on when it sends a request, whatever tokens,    *)
(* caches and retries do: the request stays pending until it is answered   *)
(* or given up, an answer says what the portal did, and only a connection  *)
(* that broke makes the portal carry it out without an answer, or twice.   *)
(***************************************************************************)
EXTENDS Naturals

CONSTANT Requests

VARIABLES outcome,   \* "none" when it is not made, "pending", "ok", "unauthorized" or "error"
          carried,   \* times the portal carried the request out
          broken     \* a connection of the request broke

outcomeVars == <<outcome, carried, broken>>

Init == /\ outcome \in [Requests -> {"none", "pending"}]
        /\ carried = [r \in Requests |-> 0]
        /\ broken = [r \in Requests |-> FALSE]

Ends(r, o) == outcome' = [outcome EXCEPT ![r] = o]

CarriedOut(r) ==
  /\ outcome[r] = "pending" /\ Ends(r, "ok")
  /\ carried' = [carried EXCEPT ![r] = @ + 1]
  /\ UNCHANGED broken

Refused(r) ==
  /\ outcome[r] = "pending"
  /\ \E o \in {"unauthorized", "error"} : Ends(r, o)
  /\ UNCHANGED <<carried, broken>>

Breaks(r) ==
  /\ outcome[r] = "pending"
  /\ broken' = [broken EXCEPT ![r] = TRUE]
  /\ UNCHANGED outcome \/ Ends(r, "error")
  /\ UNCHANGED carried \/ carried' = [carried EXCEPT ![r] = @ + 1]

Next == \E r \in Requests : CarriedOut(r) \/ Refused(r) \/ Breaks(r)
Spec == Init /\ [][Next]_outcomeVars

\* Every request is answered or given up.
FairSpec == Spec /\ \A r \in Requests : <>(outcome[r] # "pending")
=============================================================================
