-------------------------- MODULE MCTaskLifecycle --------------------------
(* TaskLifecycle for TLC.  One merge request shows every handler; two are    *)
(* needed where a sibling decides (lifecycle_live).                          *)
EXTENDS TaskLifecycle

============================================================================
