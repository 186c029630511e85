---------------------------- MODULE MCCowMemory ----------------------------
(* CowMemory with symmetric process slots and page contents. *)
EXTENDS CowMemory, TLC

Symmetry == Permutations(Procs) \cup Permutations(Values)

(* Nothing is claimed of what follows a saturated count or a reused shared *)
(* page: such states are reached and checked, not continued.               *)
NotTainted == ~tainted
=============================================================================
