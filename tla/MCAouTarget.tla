---------------------------- MODULE MCAouTarget ----------------------------
(* Flits of 2 granules and read data of 2: read data behind a write response *)
(* is cut.                                                                   *)
EXTENDS AouTarget

Ask(id, beats) == [id |-> id, beats |-> beats]

\* Two writes of one ID on plane 0, a read with the same ID on plane 1.
MCWrites == [rp \in {0, 1} |-> IF rp = 0 THEN <<Ask(1, 2), Ask(1, 1)>> ELSE <<>>]
MCReads  == [rp \in {0, 1} |-> IF rp = 0 THEN <<>> ELSE <<Ask(1, 2)>>]

MCGranules == [RDATA |-> 2, WRESP |-> 1]
=============================================================================
