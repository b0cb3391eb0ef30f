-------------------------- MODULE MCJobLifecycle --------------------------
(* Instances of JobLifecycle for TLC: one job, with or without a pod.      *)
EXTENDS JobLifecycle

=============================================================================
