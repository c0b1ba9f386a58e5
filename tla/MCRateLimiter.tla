--------------------------- MODULE MCRateLimiter ----------------------------
(* Instances of RateLimiter for TLC: a rate file of one line. *)
EXTENDS RateLimiter

SlowDown == <<2>>        \* to one operation per second and client
=============================================================================
