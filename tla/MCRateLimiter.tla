--------------------------- MODULE MCRateLimiter ---------------------------
(* Small instances of RateLimiter.  Threads are interchangeable.           *)
EXTENDS RateLimiter, TLC

ThreadSymmetry == Permutations(Threads)
=============================================================================
