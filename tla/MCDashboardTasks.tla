-------------------------- MODULE MCDashboardTasks --------------------------
(***************************************************************************)
(* Small instances of DashboardTasks: two kinds of task on one worktree    *)
(* and one kind that names no worktree (worktree-gc).                      *)
(***************************************************************************)
EXTENDS DashboardTasks

CONSTANTS start, delete, gc, wa

MCKind == {start, delete, gc}
MCWorktree == {wa}
MCRequest ==
  {[kind |-> start, worktreeName |-> wa], [kind |-> delete, worktreeName |-> wa],
   [kind |-> gc, worktreeName |-> NoWorktree]}
=============================================================================
