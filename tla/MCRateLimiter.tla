---------------------------- MODULE MCRateLimiter ----------------------------
(* Small instances of RateLimiter for TLC.                                 *)
EXTENDS RateLimiter, TLC

(* The executions are interchangeable.                                     *)
Symmetry == Permutations(Executions)

=============================================================================
