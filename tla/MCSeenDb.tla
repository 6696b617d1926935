------------------------------- MODULE MCSeenDb -------------------------------
(***************************************************************************)
(* SeenDb with two nicks on two channels and a database limited to one     *)
(* record, so that trims, torn files and removals meet.                    *)
(***************************************************************************)
EXTENDS SeenDb, TLC

Symmetry == Permutations(Nicks) \cup Permutations(Chans)

=============================================================================
