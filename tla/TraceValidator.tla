---------------------------- MODULE TraceValidator ----------------------------
(***************************************************************************)
(* The command trace validator of mem_sim (validation/validator.cpp).  It  *)
(* reads the commands a controller has issued, in order, and replays the   *)
(* state of the banks, the WCK windows, the activation window, the refresh *)
(* sweep and the table of distances on its own, without the engine of the  *)
(* controller.  Replay(v, c, ...) is the body of its loop for one command; *)
(* v.ok is false once it has reported an error.                            *)
(***************************************************************************)
EXTENDS DramTables

\* ValidatorBankState, closed.
Idle == [row |-> NoRow, activating |-> FALSE, request |-> 0]

\* The state at the start of a trace.
NewReplay(c) ==
    [banks  |-> [b \in c.banks |-> Idle],
     clock  |-> NoClocks,                       \* time stamps
     acts   |-> [k \in {Bucket(c.act_scope, b) : b \in c.banks} |-> <<>>],
     swept  |-> [k \in {Bucket(Rank, b) : b \in c.banks} |-> {}],
     pair   |-> [cmd |-> None, bank |-> <<>>],  \* the last row command of a rising edge
     down   |-> FALSE, self |-> FALSE, retrain |-> FALSE, ok |-> TRUE]

Ticks(c, n) == IF n <= 0 THEN 0 ELSE n * c.ticks

BusyIn(v, banks) == \E b \in banks : v.banks[b].activating \/ v.banks[b].row # NoRow

\* require_state of validate_and_replay_bank_state
StateAllows(v, c, cmd, b, row, id) ==
    LET bank == v.banks[b]
        hit  == ~bank.activating /\ bank.row = row
        rank == BusyIn(v, InRank(b, c.banks))
        any  == BusyIn(v, c.banks)
    IN  CASE cmd = "ACT"  -> ~c.lpddr /\ ~BusyIn(v, {b})
          [] cmd = "ACT1" -> /\ c.lpddr /\ ~BusyIn(v, {b})
                             /\ \A x \in InRank(b, c.banks) : ~v.banks[x].activating
          [] cmd = "ACT2" -> /\ c.lpddr /\ bank.activating
                             /\ bank.request = id /\ bank.row = row
                             /\ Passed(v.clock, <<"act2", b>>) /\ ~Passed(v.clock, <<"late", b>>)
          [] cmd = "PREPB" -> ~bank.activating /\ bank.row # NoRow
          [] cmd = "PREAB" -> rank
          [] cmd \in CasCommands -> c.lpddr /\ hit /\ ~v.retrain
          [] cmd \in DataCommands -> hit /\ ~v.retrain
          [] cmd \in {"REFPB", "RFMPB"} -> ~BusyIn(v, {b})
          [] cmd = "REFDB" -> c.refdb /\ ~BusyIn(v, {b, Partner(b)})
          [] cmd \in {"REFAB", "RFMAB"} -> ~rank
          [] cmd \in {"MRW", "MRR", "PDE"} -> ~any /\ ~v.down /\ ~v.self
          [] cmd = "WCKSYNC" -> c.lpddr /\ ~v.self /\ ~v.retrain
          [] cmd = "WCKTRAIN" -> c.lpddr /\ ~any /\ ~v.down /\ ~v.self
          [] cmd = "DVFS" -> c.lpddr /\ ~any
          [] cmd = "PDX" -> v.down
          [] cmd = "SREFEN" -> ~any /\ ~v.self
          [] cmd = "SREFEX" -> v.self
          [] cmd = "ECCSCRUB" -> c.ras /\ ~any
          [] cmd = "RASERR" -> c.ras

\* While a bank is activating, row is the row that ACT1 selected.
BanksReplayed(v, c, cmd, b, row, id) ==
    CASE cmd \in {"ACT", "ACT2"} -> [v.banks EXCEPT ![b] = [Idle EXCEPT !.row = row]]
      [] cmd = "ACT1" -> [v.banks EXCEPT ![b] = [row |-> row, activating |-> TRUE, request |-> id]]
      [] cmd \in ClosingCommands \ {"PREAB"} -> [v.banks EXCEPT ![b] = Idle]
      [] cmd = "PREAB" -> [x \in c.banks |-> IF x \in InRank(b, c.banks) THEN Idle ELSE v.banks[x]]
      [] OTHER -> v.banks

(***************************************************************************)
(* The two command buses and the edges of the HBM clock                    *)
(***************************************************************************)
RowCommands == {"ACT", "ACT1", "ACT2", "REFPB", "REFDB", "RFMPB"} \union AllBankCommands
                  \union Precharges \union IdleCommands \union ExitCommands
                  \union {"MRR", "ECCSCRUB", "RASERR"}
WholeChannel == AllBankCommands \union IdleCommands \union ExitCommands
                  \union {"MRR", "ECCSCRUB", "RASERR"}

BusAllows(c, cmd, bus) ==
    c.lpddr \/ (bus = "row" /\ cmd \in RowCommands)
            \/ (bus = "column" /\ cmd \in ColumnCommands \union {"WCKSYNC"})

\* hbm_bank_key leaves out the pseudo channel and the rank.
SameKey(b, x) == b[Sid] = x[Sid] /\ b[BankGroup] = x[BankGroup] /\ b[BankScope] = x[BankScope]

\* validate_hbm_edge_pairing_matrix; "pair" is at 1 on the falling edge that
\* the last rising row command claims.
EdgeAllows(v, c, cmd, b, rising) ==
    c.lpddr \/ rising
    \/ /\ cmd \in Precharges
       /\ \/ Left(v.clock, <<"pair">>) # 1
          \/ v.pair.bank[PseudoChannel] # b[PseudoChannel]
          \/ v.pair.cmd \notin WholeChannel /\ cmd = "PREPB" /\ ~SameKey(b, v.pair.bank)

Claims(c, cmd, bus, rising) == ~c.lpddr /\ rising /\ bus = "row" /\ cmd \in RowCommands

(***************************************************************************)
(* Distances                                                               *)
(***************************************************************************)
\* The buckets a rule reads or writes for a command: both banks of a REFDB.
RuleBuckets(c, cmd, x, b) ==
    IF x.sibling THEN Siblings(x.scope, b, c.banks)
    ELSE {Bucket(x.scope, y) : y \in IF cmd = "REFDB" /\ c.refdb /\ x.scope = BankScope
                                     THEN {b, Partner(b)} ELSE {b}}

TableAllows(clock, c, table, cmd, b) ==
    \A x \in {y \in table : cmd \in y.foll} :
        \A k \in RuleBuckets(c, cmd, [x EXCEPT !.sibling = FALSE], b) :
            Passed(clock, <<"next", k, cmd>>)

\* What the table holds back after a command.
TableClocks(c, table, cmd, b) ==
    LET hits == {x \in table : cmd \in x.prec}
        gate == UNION {{<<"next", k, f>> : k \in RuleBuckets(c, cmd, x, b), f \in x.foll} : x \in hits}
        lats(g) == {x.lat : x \in {y \in hits : /\ g[3] \in y.foll
                                                /\ g[2] \in RuleBuckets(c, cmd, y, b)}}
    IN  [g \in gate |-> Ticks(c, Max(lats(g)))]

FawEvents == {"ACT", "ACT1", "REFPB", "REFDB"}

\* recent_acts with the events that have left the window dropped.
InWindow(acts) == SelectSeq(acts, LAMBDA n : n > 0)

FawKey(c, b) == Bucket(c.act_scope, b)

FawAllows(v, c, cmd, b) == cmd \in FawEvents => Len(InWindow(v.acts[FawKey(c, b)])) < 4

ActsReplayed(v, c, cmd, b) ==
    IF cmd \notin FawEvents THEN v.acts
    ELSE [v.acts EXCEPT ![FawKey(c, b)] = Append(InWindow(@), Ticks(c, Later(1, c.t.nFAW)))]

\* The sweep of dual-bank refreshes over a refresh row.
SweepAllows(v, c, cmd, b) ==
    c.refdb /\ cmd = "REFDB" =>
        /\ Passed(v.clock, <<"refdb", Bucket(Rank, b)>>)
        /\ {b, Partner(b)} \intersect v.swept[Bucket(Rank, b)] = {}

Swept(v, c, cmd, b) ==
    LET r == Bucket(Rank, b)
        s == v.swept[r] \union {b, Partner(b)}
    IN  CASE cmd = "REFDB" -> [v.swept EXCEPT ![r] = IF s = InRank(b, c.banks) THEN {} ELSE s]
          [] cmd = "REFAB" -> [v.swept EXCEPT ![r] = {}]
          [] cmd = "SREFEX" -> [k \in DOMAIN v.swept |-> {}]
          [] OTHER -> v.swept

SweepClocks(v, c, cmd, b) ==
    LET r    == Bucket(Rank, b)
        gapS == Or(c.t.nREFDB2REFDBS, c.t.nRRDL)
        gapL == Or(c.t.nREFDB2REFDBL, gapS)
    IN  CASE ~c.refdb -> NoClocks
          [] c.refdb /\ cmd = "REFDB" ->
                 <<"refdb", r>> :> Ticks(c, IF Swept(v, c, cmd, b)[r] = {} THEN gapL ELSE gapS)
          [] c.refdb /\ cmd = "REFAB" -> <<"refdb", r>> :> Ticks(c, c.t.nRFC)
          [] c.refdb /\ cmd = "SREFEX" -> [k \in {<<"refdb", x>> : x \in DOMAIN v.swept} |-> 0]
          [] OTHER -> NoClocks

(***************************************************************************)
(* WCK windows of LPDDR: a data command lies between "wck" and "wckend".   *)
(***************************************************************************)
WckAllows(v, c, cmd, b) ==
    LET k == Bucket(c.wck_scope, b)
    IN  c.lpddr /\ cmd \in DataCommands =>
            Passed(v.clock, <<"wck", k>>) /\ ~Passed(v.clock, <<"wckend", k>>)

WckClocks(v, c, cmd, b) ==
    LET k   == Bucket(c.wck_scope, b)
        t   == c.t
        Win(ready, end) == <<"wck", k>> :> ready @@ <<"wckend", k>> :> end
        Until(n) == <<"wckend", k>> :> Later(Left(v.clock, <<"wckend", k>>), Ticks(c, n))
    IN  CASE ~c.lpddr -> NoClocks
          [] c.lpddr /\ cmd \in CasCommands ->
                 Win(Ticks(c, Later(1, t.nWCK2CK)), Ticks(c, Later(t.nWCKPST, t.nWCK2CK + 1)))
          [] c.lpddr /\ cmd = "WCKSYNC" ->
                 Win(Ticks(c, Later(1, t.nWCKSYNC)), Ticks(c, Later(t.nWCKPST, t.nWCKSYNC + 1)))
          [] c.lpddr /\ cmd = "WCKTRAIN" ->
                 Win(Ticks(c, Later(1, t.nWCKTRAIN)),
                     Ticks(c, Later(1, t.nWCKTRAIN)) + Ticks(c, Later(1, t.nWCKPST)))
          [] c.lpddr /\ cmd \in Reads -> Until(t.nCL + t.nBL + t.nWCKPST)
          [] c.lpddr /\ cmd \in Writes -> Until(t.nCWL + t.nBL + t.nWCKPST)
          [] OTHER -> NoClocks

\* An ACT2 is early before "act2" and late once "late" has passed.
Act2Clocks(c, cmd, b) ==
    CASE cmd = "ACT1" -> <<"act2", b>> :> Ticks(c, Later(1, c.t.nAADMin))
                         @@ <<"late", b>> :> Ticks(c, Later(c.t.nAADMin, c.t.nAADMax)) + 1
      [] cmd = "ACT2" -> <<"act2", b>> :> 0 @@ <<"late", b>> :> 0
      [] OTHER -> NoClocks

\* One command of the trace.
Replay(v, c, table, cmd, b, row, id, bus, rising) ==
    [banks   |-> BanksReplayed(v, c, cmd, b, row, id),
     clock   |-> Stamp(v.clock,
                       SweepClocks(v, c, cmd, b) @@ WckClocks(v, c, cmd, b) @@ Act2Clocks(c, cmd, b)
                         @@ IF Claims(c, cmd, bus, rising)
                            THEN <<"pair">> :> (IF cmd = "ACT" THEN 3 ELSE 1) + 1 ELSE NoClocks,
                       TableClocks(c, table, cmd, b)),
     acts    |-> ActsReplayed(v, c, cmd, b),
     swept   |-> IF c.refdb THEN Swept(v, c, cmd, b) ELSE v.swept,
     pair    |-> IF Claims(c, cmd, bus, rising) THEN [cmd |-> cmd, bank |-> b] ELSE v.pair,
     down    |-> IF cmd = "PDE" THEN TRUE ELSE IF cmd = "PDX" THEN FALSE ELSE v.down,
     self    |-> IF cmd = "SREFEN" THEN TRUE ELSE IF cmd = "SREFEX" THEN FALSE ELSE v.self,
     retrain |-> IF cmd = "DVFS" THEN c.retrain ELSE IF cmd = "WCKTRAIN" THEN FALSE ELSE v.retrain,
     ok      |-> /\ v.ok /\ BusAllows(c, cmd, bus) /\ EdgeAllows(v, c, cmd, b, rising)
                 /\ StateAllows(v, c, cmd, b, row, id) /\ SweepAllows(v, c, cmd, b)
                 /\ TableAllows(v.clock, c, table, cmd, b)
                 /\ FawAllows(v, c, cmd, b) /\ WckAllows(v, c, cmd, b)]

\* The clock of the trace advances by one tick.
ReplayTick(v) ==
    [v EXCEPT !.clock = Elapse(@),
              !.acts = [k \in DOMAIN @ |-> [n \in DOMAIN @[k] |-> Later(@[k][n] - 1, 0)]]]
===============================================================================
