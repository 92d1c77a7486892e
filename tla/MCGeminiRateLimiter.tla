------------------------ MODULE MCGeminiRateLimiter ------------------------
(* A small instance of GeminiRateLimiter: three threads and two attempts, a *)
(* backoff longer or shorter than the interval.                             *)
EXTENDS GeminiRateLimiter

CONSTANTS c1, c2, c3

MCCallers == {c1, c2, c3}
=============================================================================
