--------------------------- MODULE MCRedisLimiter ---------------------------
(* Values for the runs of RedisLimiter. *)
EXTENDS RedisLimiter, TLC

CONSTANTS c1, c2

\* Clocks that agree, and clocks one tick apart.
InStep == (c1 :> 0) @@ (c2 :> 0)
OneApart == (c1 :> 0) @@ (c2 :> 1)
=============================================================================
