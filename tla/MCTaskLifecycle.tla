---------------------------- MODULE MCTaskLifecycle ----------------------------
(****************************************************************************)
(* Instances of TaskLifecycle for TLC.                                      *)
(****************************************************************************)
EXTENDS TaskLifecycle, TLC

(* Tasks and sessions are interchangeable where no initial row singles one out. *)
Symmetry == Permutations(Tasks) \cup Permutations(Dispatchers) \cup Permutations(Runs)
===============================================================================
