----------------------------- MODULE MCMetering -----------------------------
(* Allowances on the token dimension, on the arena dimension, which        *)
(* charge_arena also draws on, and on both; the other two stay at zero.    *)
EXTENDS Metering

Allow(tokens, arena) == [d \in Dims |-> CASE d = 0 -> tokens
                                          [] d = DIM_ARENA_BYTES -> arena
                                          [] OTHER -> 0]
MCLimits == {Allow(3, 0), Allow(0, 2), Allow(1, 1)}
MCAmounts == {-1, 0, 1, 2}
=============================================================================
