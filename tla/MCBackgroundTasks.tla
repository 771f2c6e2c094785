-------------------------- MODULE MCBackgroundTasks --------------------------
(* A small instance of BackgroundTasks: two jobs of any kind.                 *)
EXTENDS BackgroundTasks

CONSTANTS j1, j2

TwoJobs == {j1, j2}
=============================================================================
