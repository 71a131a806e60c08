---------------------------- MODULE MCFlitStream ----------------------------
(* Flits of 4 granules; requests take 1 or 2, write data 3, a CrdtGrant 2, so *)
(* that messages start at every granule and are cut at every place.           *)
EXTENDS FlitStream

MCGranules == [RREQ |-> 1, WREQ |-> 2, WDATA |-> 3, MISC |-> 2]

\* Plane 0 writes, plane 1 reads.
MCMaxMsgs == [RREQ |-> <<0, 1>>, WREQ |-> <<0, 0>>, WDATA |-> <<2, 0>>]
MCMsgs == [k \in {"RREQ", "WREQ", "WDATA"} |-> [rp \in 0 .. 1 |-> MCMaxMsgs[k][rp + 1]]]

\* Credit for one message of each class in use.
MCCredit ==
    [k \in DOMAIN MCMsgs |-> [rp \in 0 .. 1 |-> IF MCMsgs[k][rp] = 0 THEN 0 ELSE MCGranules[k]]]
=============================================================================
