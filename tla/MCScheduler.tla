---------------------------- MODULE MCScheduler ----------------------------
(* Scheduler with symmetric slots, for the runs without temporal           *)
(* properties.                                                             *)
EXTENDS Scheduler, TLC

Symmetry == Permutations(Slots)

(* Nothing is claimed of what follows the use of what an earlier call      *)
(* freed: such states are reached and checked, not continued.              *)
Defined == ~dangling
=============================================================================
