--------------------------- MODULE MCDeployCache ---------------------------
(***************************************************************************)
(* Small instances of DeployCache.  Two modules tell a whole cache from a  *)
(* partial one; one of them is a client extension zip.                     *)
(***************************************************************************)
EXTENDS DeployCache, TLC

CONSTANTS web, cx

(* One world of users who keep to the discipline, one of races and kills, one of everything else. *)
Worlds3 == {{}, {"together", "kill"}, {"checkout", "edit", "wipe", "midrun", "unprepared"}}
Launches3 == [w \in Worlds3 |-> IF w = {} THEN 5 ELSE IF "kill" \in w THEN 3 ELSE 2]

Unprepared == {{"unprepared"}}
UnpreparedLaunches == [w \in Unprepared |-> 3]
=============================================================================
