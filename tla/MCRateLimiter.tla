--------------------------- MODULE MCRateLimiter ---------------------------
(* Values for TLC: two requests per three ticks on the auth routes, one    *)
(* per two ticks on uploads.                                               *)
EXTENDS RateLimiter, TLC

CONSTANTS ip1, ip2

MCMax == [auth |-> 2, upload |-> 1]
MCWindow == [auth |-> 3, upload |-> 2]

Symmetry == Permutations(IP)
=============================================================================
