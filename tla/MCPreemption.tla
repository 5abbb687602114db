---------------------------- MODULE MCPreemption ----------------------------
(* Model-checking instance of Preemption. *)
EXTENDS Preemption
=============================================================================
