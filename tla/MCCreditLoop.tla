----------------------------- MODULE MCCreditLoop -----------------------------
(* Two resource planes of the direction towards FlitUnpacker.  Scaled down:   *)
(* a read beat has 2 granules instead of 8.                                   *)
EXTENDS CreditLoop, TLC

MCKinds == {"RDATA", "WRESP"}
MCNarrowKinds == {"WRESP"}
MCMsgGranules == [RDATA |-> {2}, WRESP |-> {1}]

\* 16 granules of WRESP are one grant in a 3-bit field and two in the 2-bit
\* field; every amount below 16 is met as well.  The planes are unequal.
MCCapacity == 0 :> [RDATA |-> 2, WRESP |-> 0] @@ 1 :> [RDATA |-> 0, WRESP |-> 16]
=============================================================================
