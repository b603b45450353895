----------------------------- MODULE MCSentinels -----------------------------
(* Sentinels.tla with the constants of MCSentinels.cfg: integers of four   *)
(* bits, and instants beyond both ends of their range.                     *)
EXTENDS Sentinels

MCInstants == -20..20
MCMinI == -8
=============================================================================
