------------------------------ MODULE DramTables ------------------------------
(***************************************************************************)
(* What the timed part of mem_sim shares: the coordinates of a bank and    *)
(* the scopes of a timing rule, the tables of minimum distances between    *)
(* commands (dram/spec.cpp) and clocks that run down.                      *)
(*                                                                         *)
(* A bank is the tuple <<pseudo channel, SID, rank, bank group, bank>> in  *)
(* the channel of its controller.  scope_index() encodes a prefix of it,   *)
(* so a bucket of a scope is that prefix.                                  *)
(***************************************************************************)
EXTENDS DramCommands, Sequences, FiniteSetsExt, TLC

Channel       == 0
PseudoChannel == 1
Sid           == 2
Rank          == 3
BankGroup     == 4
BankScope     == 5

\* scope_index
Bucket(scope, b) == SubSeq(b, 1, scope)

\* sibling_range without the bucket of b itself, among a set of banks.
Siblings(scope, b, all) ==
    {Bucket(scope, x) : x \in {y \in all : Bucket(scope - 1, y) = Bucket(scope - 1, b)}}
        \ {Bucket(scope, b)}

InRank(b, all) == {x \in all : Bucket(Rank, x) = Bucket(Rank, b)}

\* lpddr_refdb_partner: the same bank of the other group of the pair.
Partner(b) == [b EXCEPT ![BankGroup] = IF @ % 2 = 0 THEN @ + 1 ELSE @ - 1]

Reads      == {"RD", "RDA"}
Writes     == {"WR", "WRA"}
Precharges == {"PREPB", "PREAB"}

\* One rule: a command of prec holds back those of foll in its bucket, or in
\* the sibling buckets, for lat clocks.
tc(scope, prec, foll, lat) ==
    [scope |-> scope, prec |-> prec, foll |-> foll, lat |-> lat, sibling |-> FALSE]

tc_sibling(scope, prec, foll, lat) == [tc(scope, prec, foll, lat) EXCEPT !.sibling = TRUE]

Or(n, other) == IF n > 0 THEN n ELSE other
Later(m, n)  == IF m > n THEN m ELSE n

\* The nFAW entries only carry a window, which readers of the table skip.
make_hbm_constraints(t) ==
    {tc(PseudoChannel, Reads, Reads, t.nBL),
     tc(PseudoChannel, Writes, Writes, t.nBL),
     tc(PseudoChannel, Reads, Writes, t.nRTW),
     tc(PseudoChannel, Writes, Reads, t.nCWL + t.nBL + t.nWTRS),
     tc(PseudoChannel, {"ACT"}, {"ACT"}, t.nRRDS),
     tc(Sid, Reads, Reads, t.nCCDS),
     tc_sibling(Sid, Reads, Reads, Or(t.nCCDR, t.nCCDS)),
     tc(Sid, Writes, Writes, t.nCCDS),
     tc(BankGroup, Reads, Reads, t.nCCDL),
     tc(BankGroup, Writes, Writes, t.nCCDL),
     tc(BankGroup, Writes, Reads, t.nCWL + t.nBL + t.nWTRL),
     tc(BankGroup, {"ACT"}, {"ACT"}, t.nRRDL),
     tc(PseudoChannel, Precharges, Precharges, t.nPPD),
     tc(BankScope, {"ACT"}, {"ACT"}, t.nRC),
     tc(BankScope, {"ACT"}, Reads, t.nRCDRD),
     tc(BankScope, {"ACT"}, Writes, t.nRCDWR),
     tc(BankScope, {"ACT"}, {"PREPB"}, t.nRAS),
     tc(BankScope, {"PREPB"}, {"ACT"}, t.nRP),
     tc(BankScope, {"RD"}, {"PREPB"}, t.nRTP),
     tc(BankScope, {"WR"}, {"PREPB"}, t.nCWL + t.nBL + t.nWR),
     tc(BankScope, {"REFPB"}, {"ACT"}, t.nRFCpb),
     tc(PseudoChannel, {"REFPB"}, {"ACT"}, Or(t.nRREFD, t.nRFCpb)),
     tc(PseudoChannel, {"REFAB"}, {"ACT", "PREPB", "REFPB"}, t.nRFC),
     tc(BankScope, {"RFMPB"}, {"ACT"}, t.nRFMpb),
     tc(PseudoChannel, {"RFMAB"}, {"ACT", "PREPB", "RFMPB"}, t.nRFMab),
     tc(Channel, {"MRW"}, {"ACT", "RD", "WR", "MRW", "MRR"}, t.nMRW),
     tc(Channel, {"MRR"}, {"ACT", "RD", "WR", "MRW", "MRR"}, t.nMRR),
     tc(Channel, {"ECCSCRUB", "RASERR"}, {"ACT", "REFPB", "RFMPB", "MRW", "MRR"},
        Later(t.nECCSCRUB, t.nRASERR)),
     tc(Channel, {"RASERR"}, {"RD", "WR"}, t.nLINKRETRY)}

make_lpddr_constraints(t) ==
    LET refdb2act == Or(t.nREFDB2ACT, Or(t.nRREFD, t.nRRDS))
    IN  {tc(Channel, Reads, Reads, t.nBL),
         tc(Channel, Writes, Writes, t.nBL),
         tc(BankScope, {"CASRD"}, Reads, t.nCAS),
         tc(BankScope, {"CASWR"}, Writes, t.nCAS),
         tc(Rank, Reads, Reads, t.nCCDS),
         tc(Rank, Writes, Writes, t.nCCDS),
         tc(Rank, Reads, Writes, t.nCL + t.nBL + 2 - t.nCWL),
         tc(Rank, Writes, Reads, t.nCWL + t.nBL + t.nWTRS),
         tc(Rank, {"ACT1"}, {"ACT1"}, t.nRRDS),
         tc(BankGroup, Reads, Reads, t.nCCDL),
         tc(BankGroup, Writes, Writes, t.nCCDL),
         tc(BankGroup, Writes, Reads, t.nCWL + t.nBL + t.nWTRL),
         tc(BankGroup, {"ACT1"}, {"ACT1"}, t.nRRDL),
         tc(Channel, Precharges, Precharges, t.nPPD),
         tc(BankScope, {"ACT1"}, {"ACT1"}, t.nRC),
         tc(BankScope, {"ACT1"}, Reads, t.nRCDRD),
         tc(BankScope, {"ACT1"}, Writes, t.nRCDWR),
         tc(BankScope, {"ACT1"}, {"PREPB"}, t.nRAS),
         tc(BankScope, {"PREPB"}, {"ACT1", "REFDB"}, t.nRP),
         tc(Rank, {"PREAB"}, {"REFDB"}, t.nRPab),
         tc(BankScope, {"RD"}, {"PREPB"}, t.nRTP),
         tc(BankScope, {"WR"}, {"PREPB"}, t.nCWL + t.nBL + t.nWR),
         tc(BankScope, {"REFPB", "REFDB"}, {"ACT1"}, t.nRFCpb),
         tc(BankScope, {"RFMPB"}, {"ACT1"}, Or(t.nRFMpb, t.nRFCpb)),
         tc(PseudoChannel, {"REFDB", "RFMPB"}, {"ACT1"}, refdb2act),
         tc(BankScope, {"REFDB"}, {"REFDB"}, t.nRFCpb),
         tc(Rank, {"REFDB"}, {"REFAB"}, t.nRFCpb),
         tc(Rank, {"REFAB"}, {"REFDB", "REFAB", "ACT1", "PREAB"}, t.nRFC),
         tc(PseudoChannel, {"RFMPB"}, {"RFMPB"}, t.nRRDL),
         tc(Rank, {"RFMAB"}, {"ACT1", "PREAB", "RFMPB"}, Or(t.nRFMab, t.nRFC)),
         tc(Channel, {"MRW"}, {"ACT1", "CASRD", "CASWR", "MRW", "MRR"}, t.nMRW),
         tc(Channel, {"MRR"}, {"ACT1", "CASRD", "CASWR", "MRW", "MRR"}, t.nMRR),
         tc(PseudoChannel, {"WCKSYNC"}, {"RD", "WR"}, t.nWCKSYNC),
         tc(Channel, {"WCKTRAIN"}, {"ACT1", "CASRD", "CASWR"}, t.nWCKTRAIN),
         tc(Channel, {"DVFS"}, {"ACT1", "CASRD", "CASWR", "MRW"}, t.nDVFS),
         tc(Channel, {"PDE", "PDX"}, {"ACT1", "CASRD", "CASWR"}, t.nPDEX),
         tc(Channel, {"SREFEN", "SREFEX"}, {"ACT1", "REFDB", "RFMPB"}, t.nSREFEX),
         tc(Channel, {"ECCSCRUB", "RASERR"}, {"ACT1", "REFDB", "RFMPB", "CASRD", "CASWR"},
            Later(t.nECCSCRUB, t.nRASERR))}

\* finalize_spec
timing_constraints(c) == IF c.lpddr THEN make_lpddr_constraints(c.t) ELSE make_hbm_constraints(c.t)

\* The part of validate_spec that is about a split activation, the pairs of
\* banks and the cycle of a row.
ValidSpec(c) ==
    /\ c.lpddr => c.t.nAADMin > 0 /\ c.t.nAADMax >= c.t.nAADMin
    /\ c.refdb => \A b \in c.banks : Partner(b) \in c.banks
    /\ c.t.nRAS >= 0 /\ c.t.nRP >= 0 /\ c.t.nRC >= c.t.nRAS + c.t.nRP

(***************************************************************************)
(* A clock map gives the ticks from now to each time stamp that lies       *)
(* ahead; a stamp that has passed is not in it.                            *)
(***************************************************************************)
NoClocks      == [k \in {} |-> 0]
Left(w, k)    == IF k \in DOMAIN w THEN w[k] ELSE 0
Passed(w, k)  == k \notin DOMAIN w

\* Stamps of set are overwritten, those of raise only move later.
Stamp(w, set, raise) ==
    LET new  == [k \in DOMAIN w \union DOMAIN set \union DOMAIN raise |->
                    Later(IF k \in DOMAIN set THEN set[k] ELSE Left(w, k), Left(raise, k))]
        live == {k \in DOMAIN new : new[k] > 0}
    IN  [k \in live |-> new[k]]

Elapse(w) ==
    LET live == {k \in DOMAIN w : w[k] > 1}
    IN  [k \in live |-> w[k] - 1]
===============================================================================
