--------------------------- MODULE MCRateLimiter ----------------------------
(***************************************************************************)
(* TLC instance of RateLimiter: checks and keys are interchangeable.       *)
(***************************************************************************)
EXTENDS RateLimiter, TLC

CheckSymmetry == Permutations(Checks) \cup Permutations(Keys)

=============================================================================
