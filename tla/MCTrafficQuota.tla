---------------------------- MODULE MCTrafficQuota ----------------------------
(* Instances of TrafficQuota for TLC. *)
EXTENDS TrafficQuota, TLC
=============================================================================
