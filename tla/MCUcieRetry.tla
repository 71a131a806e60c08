---------------------------- MODULE MCUcieRetry ----------------------------
(* Instances of UcieRetry for TLC; the .cfg files give the constants.       *)
EXTENDS UcieRetry
=============================================================================
