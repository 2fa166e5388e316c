----------------------------- MODULE MCTaskQueue -----------------------------
(* TaskQueue on small instances.  Task 2 depends on task 1, and task 3     *)
(* repeats; in the sample of the repository, a task depends on one that    *)
(* repeats.                                                                *)
EXTENDS TaskQueue

MCTasks == 1 .. 3
MCPriority == <<"high", "medium", "low">>
MCDepends == <<{}, {1}, {}>>
MCDependsOnRepeating == <<{}, {3}, {}>>
MCRepeating == {3}
=============================================================================
