--------------------------- MODULE MCRateLimiter ---------------------------
(***************************************************************************)
(* Instances of RateLimiter for TLC.                                        *)
(***************************************************************************)
EXTENDS RateLimiter

CONSTANTS w1, w2, c1, c2

FirstInstance == [c \in Callers |-> w1]
OwnInstance == [c \in Callers |-> IF c = c1 THEN w1 ELSE w2]
=============================================================================
