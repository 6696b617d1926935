--------------------------- MODULE MCUrlShortener ---------------------------
(***************************************************************************)
(* Small instances of UrlShortener.  There is nothing to bound but the     *)
(* constants: the table is bounded by the number of short IDs.             *)
(***************************************************************************)
EXTENDS UrlShortener, TLC

\* Handlers, short IDs and URLs are only compared for equality.
Symmetry == Permutations(Handlers) \cup Permutations(ShortIds)
              \cup Permutations(Urls)

=============================================================================
