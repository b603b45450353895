----------------------------- MODULE MCTimedSend -----------------------------
(* TimedSend.tla with the constants of MCTimedSend.cfg.                    *)
EXTENDS TimedSend, TLC
=============================================================================
