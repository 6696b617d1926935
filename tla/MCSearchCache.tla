---------------------------- MODULE MCSearchCache ----------------------------
(***************************************************************************)
(* SearchCache with queries that are typed in two spellings, more queries  *)
(* than the cap allows, and a clock that outlives entries.                 *)
(***************************************************************************)
EXTENDS SearchCache, TLC

CONSTANTS rust, go, zig, Rust

MCTexts == {rust, Rust, go, zig}
MCFolded == [t \in MCTexts |-> IF t = Rust THEN rust ELSE t]

Symmetry == Permutations({go, zig}) \cup Permutations(Answers)

=============================================================================
