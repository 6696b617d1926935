----------------------------- MODULE MCSearchBot -----------------------------
(***************************************************************************)
(* SearchBot with two nicks, two queries of which one has two spellings,   *)
(* and a clock on which cooldowns and entries run out between and during   *)
(* upstream calls.                                                         *)
(***************************************************************************)
EXTENDS SearchBot

CONSTANTS rust, Rust, go

MCTexts == {rust, Rust, go}
MCFolded == [t \in MCTexts |-> IF t = Rust THEN rust ELSE t]

=============================================================================
