----------------------------- MODULE MCSeenFlood -----------------------------
(***************************************************************************)
(* SeenFlood with three slots, and more queries than slots on a clock on   *)
(* which the window and an ignore run out.                                 *)
(***************************************************************************)
EXTENDS SeenFlood, TLC

Symmetry == Permutations(Users)

=============================================================================
