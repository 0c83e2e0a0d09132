------------------------------ MODULE MCDetector ------------------------------
(* Instances of Detector for TLC: one jail with a short window and one with  *)
(* a long one that tolerates more, as in a protect.json with two jails.      *)
EXTENDS DetectorHistory, TLC

CONSTANTS ssh, web, i1, i2

MCMaxRetries == ssh :> 2 @@ web :> 3
MCFindTime   == ssh :> 1 @@ web :> 3
IPs          == Permutations(IP)
=============================================================================
