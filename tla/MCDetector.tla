------------------------------ MODULE MCDetector ------------------------------
(* One replica that hears of one client. *)
EXTENDS Detector, TLC

CONSTANT client1
=============================================================================
