---------------------------- MODULE MCRateLimiter ----------------------------
(***************************************************************************)
(* RateLimiter with a few nicks and a clock long enough for several        *)
(* per-user cooldowns to start, overlap and elapse.                        *)
(***************************************************************************)
EXTENDS RateLimiter, TLC

Symmetry == Permutations(Nicks)

=============================================================================
