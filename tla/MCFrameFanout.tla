---------------------------- MODULE MCFrameFanout ----------------------------
(* The fan-out with two sessions that publish two frames each, and two      *)
(* subscriptions, of capacity 0 or 2, that may be opened at any moment.     *)
EXTENDS FrameFanout
=============================================================================
