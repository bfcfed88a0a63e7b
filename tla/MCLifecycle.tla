---------------------------- MODULE MCLifecycle ----------------------------
(* Model-checking instance of Lifecycle: the constants are set in the cfgs. *)
EXTENDS Lifecycle
====
