--------------------------- MODULE MCRateLimiter ---------------------------
(* Small instances of RateLimiter. *)
EXTENDS RateLimiter, TLC

\* Requests are interchangeable, and so are keys.
LimiterSymmetry == Permutations(Requests) \union Permutations(Keys)
=============================================================================
