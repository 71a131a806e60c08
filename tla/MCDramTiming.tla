----------------------------- MODULE MCDramTiming -----------------------------
(***************************************************************************)
(* Small instances of DramTiming.  The distances are those of the profiles *)
(* scaled down with their order kept: nRC = nRAS + nRP, nRRDL > nRRDS,     *)
(* nCCDL > nCCDS, an LPDDR6 window of WCK that is one tick wide.           *)
(***************************************************************************)
EXTENDS DramTiming

B(pc, sid, rank, bg) == <<pc, sid, rank, bg, 0>>
B6(bg, ba)           == <<0, 0, 0, bg, ba>>

Req(type, b, row, addr) == [type |-> type, bank |-> b, row |-> row, addr |-> addr]

HbmT ==
    [nBL |-> 1, nCL |-> 2, nCWL |-> 1, nRTW |-> 2, nWTRS |-> 1, nWTRL |-> 2, nRRDS |-> 1, nRRDL |-> 2,
     nCCDS |-> 1, nCCDL |-> 2, nCCDR |-> 2, nPPD |-> 1, nRC |-> 5, nRCDRD |-> 2, nRCDWR |-> 1,
     nRAS |-> 3, nRP |-> 2, nRPab |-> 3, nRTP |-> 2, nWR |-> 2, nRFCpb |-> 3, nRFC |-> 4, nRREFD |-> 2,
     nRFMpb |-> 2, nRFMab |-> 3, nMRW |-> 2, nMRR |-> 1, nECCSCRUB |-> 1, nRASERR |-> 1,
     nLINKRETRY |-> 2, nFAW |-> 10, nPDEX |-> 2, nSREFEX |-> 3, nREFDB2ACT |-> 2, nREFDB2REFDBS |-> 2,
     nREFDB2REFDBL |-> 3, nAADMin |-> 1, nAADMax |-> 3, nCAS |-> 2, nWCK2CK |-> 2, nWCKPST |-> 1,
     nWCKSYNC |-> 2, nWCKTRAIN |-> 3, nDVFS |-> 2]

\* HBM: two command buses, two pseudo channels, a row conflict in one bank.
Hbm ==
    [lpddr |-> FALSE, refdb |-> FALSE, ras |-> FALSE, retrain |-> FALSE, ticks |-> 2,
     banks |-> {B(0, 0, 0, 0), B(1, 0, 0, 0)},
     act_scope |-> Rank, row_scope |-> PseudoChannel, col_scope |-> PseudoChannel,
     wck_scope |-> PseudoChannel, t |-> HbmT, closed |-> FALSE, sched |-> "FRFCFS", high |-> 1, low |-> 1,
     refresh |-> None, rotation |-> <<B(0, 0, 0, 0)>>, refreshes |-> 0, scripts |-> {}, submits |-> 0,
     work |-> <<Req("R", B(0, 0, 0, 0), 0, 1), Req("W", B(0, 0, 0, 0), 1, 2), Req("R", B(1, 0, 0, 0), 0, 3)>>]

\* Refresh of one bank and of the rank, and two stack identifiers.
HbmRefresh(cmd, sched) ==
    [Hbm EXCEPT !.refresh = cmd, !.refreshes = 1, !.sched = sched,
                !.banks = {B(0, 0, 0, 0), B(0, 0, 0, 1)}, !.rotation = <<B(0, 0, 0, 1)>>,
                !.work = <<Req("R", B(0, 0, 0, 0), 0, 1), Req("W", B(0, 0, 0, 1), 0, 2)>>]

HbmSids ==
    [Hbm EXCEPT !.banks = {B(0, 0, 0, 0), B(0, 1, 0, 0)}, !.col_scope = Sid,
                !.work = <<Req("R", B(0, 0, 0, 0), 0, 1), Req("R", B(0, 1, 0, 0), 0, 2),
                           Req("R", B(0, 1, 0, 0), 0, 3)>>]

\* Five activations in a window of four.
HbmFaw ==
    [Hbm EXCEPT !.banks = {B(0, 0, 0, g) : g \in 0..4}, !.refresh = "REFPB", !.refreshes = 3,
                !.rotation = <<B(0, 0, 0, 2), B(0, 0, 0, 3), B(0, 0, 0, 4)>>,
                !.work = <<Req("R", B(0, 0, 0, 0), 0, 1), Req("R", B(0, 0, 0, 1), 0, 2)>>]

\* The host changes a mode, or sends the channel to sleep and wakes it.
HbmHost ==
    [Hbm EXCEPT !.closed = TRUE, !.ras = TRUE, !.submits = 1,
                !.scripts = {<<"MRW">>, <<"MRR", "ECCSCRUB">>, <<"PDE">>, <<"SREFEN">>, <<"RASERR">>,
                             <<"RFMPB">>, <<"RFMAB">>},
                !.work = <<Req("R", B(0, 0, 0, 0), 0, 1), Req("W", B(1, 0, 0, 0), 0, 2)>>]

\* LPDDR6: split activation, dual-bank refresh, a read and a write of the
\* same bytes.
Lpddr6 ==
    [Hbm EXCEPT !.lpddr = TRUE, !.refdb = TRUE, !.retrain = TRUE, !.ticks = 1, !.act_scope = PseudoChannel,
                !.banks = {B6(g, a) : g \in 0..1, a \in 0..1},
                !.refresh = "REFDB", !.refreshes = 2, !.rotation = <<B6(0, 0), B6(0, 1)>>,
                !.work = <<Req("R", B6(0, 0), 0, 1), Req("W", B6(0, 0), 0, 1), Req("R", B6(1, 1), 0, 2)>>]

Lpddr6Fcfs == [Lpddr6 EXCEPT !.sched = "FCFS", !.refresh = "REFAB", !.refreshes = 1]

Lpddr6Host ==
    [Lpddr6 EXCEPT !.closed = TRUE, !.refreshes = 0, !.submits = 1,
                   !.scripts = {<<"DVFS", "WCKTRAIN">>, <<"WCKTRAIN">>, <<"MRW">>, <<"SREFEN">>},
                   !.work = <<Req("R", B6(0, 0), 0, 1), Req("W", B6(0, 1), 0, 1)>>]

\* LPDDR5: two ranks on the channel, WCK of the channel, no dual-bank refresh.
Lpddr5 ==
    [Lpddr6 EXCEPT !.refdb = FALSE, !.retrain = FALSE, !.act_scope = Rank, !.row_scope = Channel, !.col_scope = Channel,
                   !.wck_scope = Channel, !.t.nWCK2CK = 1, !.t.nCAS = 0,
                   !.banks = {B(0, 0, r, 0) : r \in 0..1}, !.refresh = "REFAB", !.refreshes = 1,
                   !.rotation = <<B(0, 0, 1, 0)>>,
                   !.work = <<Req("R", B(0, 0, 0, 0), 0, 1), Req("W", B(0, 0, 1, 0), 0, 2),
                              Req("R", B(0, 0, 0, 0), 1, 3)>>]

MCConfigs ==
    {Hbm, HbmRefresh("REFPB", "FCFS"), HbmRefresh("REFAB", "FRFCFS"), HbmSids, HbmFaw, HbmHost,
     Lpddr6, Lpddr6Fcfs, Lpddr6Host, Lpddr5}
===============================================================================
