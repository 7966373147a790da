--------------------------- MODULE MCRateLimiter ---------------------------
(* An instance of RateLimiter for TLC.                                       *)
EXTENDS RateLimiter

CONSTANTS h1, h2
=============================================================================
