--------------------------- MODULE MCRateLimiter ---------------------------
(* The symmetry of the runs of RateLimiter.                                 *)
EXTENDS RateLimiter, TLC

AddressSymmetry == Permutations(Address)

=============================================================================
