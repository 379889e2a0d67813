------------------------- MODULE MCRedisConnection --------------------------
(***************************************************************************)
(* Constants of the TLC run of RedisConnection.                            *)
(***************************************************************************)
EXTENDS RedisConnection

CONSTANTS p, s

OnePublisher == {p}
OneSubscriber == {s}
=============================================================================
