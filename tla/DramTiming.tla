------------------------------ MODULE DramTiming ------------------------------
(***************************************************************************)
(* The channel controller of mem_sim in time: when a command may be issued *)
(* (Controller::timing_ok, TimingEngine), what it holds back               *)
(* (CommandExecutor), and which one a tick chooses.  Every command issued  *)
(* is also given to the trace validator, which judges it on its own.       *)
(*                                                                         *)
(* MemController models the queues, the data and the managers around this  *)
(* and leaves the distances open; here they are exact, and a request is    *)
(* only what the choice depends on: its direction, bank, row and address.  *)
(* A refresh becomes due at any tick and the host submits requests and     *)
(* maintenance commands between any two ticks.  gate holds the time stamps *)
(* of BankState and TimingScopeState as ticks from now.                    *)
(***************************************************************************)
EXTENDS TraceValidator, SequencesExt

CONSTANT Configs      \* the configurations looked at, each with its workload

ASSUME TimingAssumption ==
    \A c \in Configs :
        /\ ValidSpec(c) /\ c.ticks \in Nat \ {0} /\ c.sched \in {"FCFS", "FRFCFS"}
        /\ 0 <= c.low /\ c.low <= c.high + 1    \* watermarks, in writes, rounded up and down
        /\ \A i \in DOMAIN c.work : c.work[i].bank \in c.banks
        /\ \A i, j \in DOMAIN c.work :          \* writes to merge are in MemController
              c.work[i].type = "W" /\ c.work[j].type = "W" /\ c.work[i].addr = c.work[j].addr => i = j

VARIABLES
    cfg,                   \* spec_ and options_, never changed
    phase,                 \* where tick() is
    rising,                \* is_rising_edge()
    q,                     \* request_queues_
    pending_maintenance_,
    arrival,               \* arrivals so far, as ticks that had one
    fresh,                 \* a request arrived since the last tick
    banks_,
    gate,                  \* time stamps of the engine, the banks and reads in flight
    recent_acts,
    refdb_states_,
    rising_edge_,          \* the row command of the last rising edge that had one
    power,
    wck_retrain_required_,
    write_mode_,
    waiting,               \* requests the host has not sent yet
    budget,                \* bounds: refreshes due and scripts the host sends
    cursor,                \* place of the refresh rotation
    v                      \* the validator on the trace so far

hostVars == <<waiting, arrival, fresh, budget, cursor>>
dramVars == <<banks_, gate, recent_acts, refdb_states_, rising_edge_, power,
              wck_retrain_required_, v>>
Bus == {"column", "row", "unified"}

vars == <<cfg, phase, rising, q, pending_maintenance_, write_mode_, hostVars, dramVars>>

\* The tables, worked out once for every configuration.
Tables == [c \in Configs |-> timing_constraints(c)]
Table  == Tables[cfg]

T          == cfg.t
Wait(n)    == Ticks(cfg, n)                   \* timing_delay
AtLeast(n) == Wait(Later(1, n))

Init ==
    /\ cfg \in Configs
    /\ phase = "idle" /\ rising = FALSE
    /\ q = [active |-> <<>>, priority |-> <<>>, read |-> <<>>, write |-> <<>>]
    /\ pending_maintenance_ = <<>>
    /\ arrival = 0 /\ fresh = FALSE
    /\ banks_ = [b \in cfg.banks |-> ClosedBank]
    /\ gate = NoClocks
    /\ recent_acts = [k \in {Bucket(cfg.act_scope, b) : b \in cfg.banks} |-> <<>>]
    /\ refdb_states_ = [k \in {Bucket(Rank, b) : b \in cfg.banks} |-> [count |-> 0, visited |-> {}]]
    /\ rising_edge_ = [cmd |-> None, bank |-> <<>>]
    /\ power = [down |-> FALSE, self |-> FALSE, exit |-> None]
    /\ wck_retrain_required_ = FALSE
    /\ write_mode_ = FALSE
    /\ waiting = DOMAIN cfg.work
    /\ budget = [refreshes |-> 0, scripts |-> 0]
    /\ cursor = 1
    /\ v = NewReplay(cfg)

(***************************************************************************)
(* The host                                                                *)
(***************************************************************************)
HostActs == phase = "idle"

Buffered(a) == \E e \in Range(q.write) \union Range(q.active) : e.type = "W" /\ e.addr = a

Now == arrival + (IF fresh THEN 0 ELSE 1)

\* enqueue of a read or write: it ends explicit low power, and a read of a
\* buffered write is answered without a command.
Enqueue(i) ==
    LET x == cfg.work[i]
        e == [id |-> i, type |-> x.type, bank |-> x.bank, row |-> x.row, addr |-> x.addr,
              arrival |-> Now, first |-> FALSE]
        wake == (power.down \/ power.self) /\ power.exit = None
        exit == IF power.self THEN "SREFEX" ELSE "PDX"
    IN  /\ HostActs /\ i \in waiting
        /\ waiting' = waiting \ {i}
        /\ q' = CASE x.type = "W" -> [q EXCEPT !.write = Append(@, e)]
                  [] x.type = "R" /\ Buffered(x.addr) -> q
                  [] x.type = "R" /\ ~Buffered(x.addr) -> [q EXCEPT !.read = Append(@, e)]
        /\ power' = IF wake THEN [power EXCEPT !.exit = exit] ELSE power
        /\ pending_maintenance_' = IF wake THEN Append(pending_maintenance_, [cmd |-> exit, bank |-> x.bank])
                                   ELSE pending_maintenance_
        /\ arrival' = Now /\ fresh' = TRUE
        /\ UNCHANGED <<cfg, phase, rising, write_mode_, budget, cursor, banks_, gate, recent_acts,
                       refdb_states_, rising_edge_, wck_retrain_required_, v>>

\* Maintenance commands the host sends one after the other.
Submit(script) ==
    /\ HostActs /\ budget.scripts < cfg.submits
    /\ q' = [q EXCEPT !.priority = @ \o [n \in DOMAIN script |->
                                             [cmd |-> script[n], bank |-> cfg.rotation[1]]]]
    /\ budget' = [budget EXCEPT !.scripts = @ + 1]
    /\ UNCHANGED <<cfg, phase, rising, pending_maintenance_, write_mode_, waiting, arrival, fresh,
                   cursor, dramVars>>

(***************************************************************************)
(* Time passes.                                                            *)
(***************************************************************************)
\* prune_recent_acts
Pruned(acts) == InWindow([n \in DOMAIN acts |-> acts[n] - 1])

\* A tick up to the choice of a command: refresh and the maintenance that
\* waits go to the priority queue.
Tick ==
    \E due \in {p \in BOOLEAN : p => cfg.refresh # None /\ budget.refreshes < cfg.refreshes} :
        LET ref == IF due THEN <<[cmd |-> cfg.refresh, bank |-> cfg.rotation[cursor]]>> ELSE <<>>
        IN  /\ phase = "idle"
            /\ phase' = CASE cfg.lpddr -> "unified"
                          [] ~cfg.lpddr /\ ~rising -> "column"
                          [] ~cfg.lpddr /\ rising -> "row"
            /\ rising' = (~cfg.lpddr /\ ~rising)
            /\ gate' = Elapse(gate)
            /\ recent_acts' = [k \in DOMAIN recent_acts |-> Pruned(recent_acts[k])]
            /\ v' = ReplayTick(v)
            /\ q' = [q EXCEPT !.priority = @ \o pending_maintenance_ \o ref]
            /\ pending_maintenance_' = <<>>
            /\ budget' = [budget EXCEPT !.refreshes = @ + Len(ref)]
            /\ cursor' = IF due THEN (cursor % Len(cfg.rotation)) + 1 ELSE cursor
            /\ fresh' = FALSE
            /\ UNCHANGED <<cfg, write_mode_, waiting, arrival, banks_, refdb_states_, rising_edge_,
                           power, wck_retrain_required_>>

(***************************************************************************)
(* TimingEngine: the table                                                 *)
(***************************************************************************)
Rules(cmd) == {x \in Table : cmd \in x.foll}

constraint_ready(cmd, b) ==
    /\ \A x \in Rules(cmd) :
        /\ Passed(gate, <<"next", Bucket(x.scope, b), cmd>>)
        /\ cmd = "REFDB" /\ cfg.refdb /\ x.scope = BankScope =>
               Passed(gate, <<"next", Bucket(x.scope, Partner(b)), cmd>>)
    /\ cmd = "REFDB" /\ cfg.refdb =>
           LET r == Bucket(Rank, b) IN Passed(gate, <<"refdb", r>>) /\ b \notin refdb_states_[r].visited

\* For the data commands, the only ones it is asked about.
constraint_ready_at(cmd, b) == Max({0} \union {Left(gate, <<"next", Bucket(x.scope, b), cmd>>) : x \in Rules(cmd)})

\* apply_constraints: the new stamps, which only move later.
apply_constraints(cmd, b) ==
    LET hits == {x \in Table : cmd \in x.prec}
        where(x) == IF x.sibling THEN Siblings(x.scope, b, cfg.banks)
                    ELSE {Bucket(x.scope, b)}
                         \union (IF cmd = "REFDB" /\ cfg.refdb /\ x.scope = BankScope THEN {Partner(b)} ELSE {})
        stamps == UNION {{<<k, f, x.lat>> : k \in where(x), f \in x.foll} : x \in hits}
    IN  [g \in {<<"next", s[1], s[2]>> : s \in stamps} |->
            Wait(Max({s[3] : s \in {z \in stamps : z[1] = g[2] /\ z[2] = g[3]}}))]

Pairs(r) == Cardinality({b \in cfg.banks : Bucket(Rank, b) = r}) \div 2

\* The counter of dual-bank refreshes, and when the next one may come.
RefdbAfter(cmd, b) ==
    LET r    == Bucket(Rank, b)
        n    == (refdb_states_[r].count + 1) % Pairs(r)
        none == [count |-> 0, visited |-> {}]
    IN  CASE cmd = "REFDB" -> [refdb_states_ EXCEPT ![r] =
                 [count |-> n, visited |-> IF n = 0 THEN {} ELSE @.visited \union {b, Partner(b)}]]
          [] cmd = "REFAB" -> [refdb_states_ EXCEPT ![r] = none]
          [] cmd = "SREFEX" -> [k \in DOMAIN refdb_states_ |-> none]
          [] OTHER -> refdb_states_

RefdbReady(cmd, b) ==
    LET r     == Bucket(Rank, b)
        short == Or(T.nREFDB2REFDBS, T.nRRDL)
    IN  CASE cmd = "REFDB" -> <<"refdb", r>> :> Wait(IF RefdbAfter(cmd, b)[r].count = 0
                                                     THEN Or(T.nREFDB2REFDBL, short) ELSE short)
          [] cmd = "REFAB" -> <<"refdb", r>> :> Wait(T.nRFC)
          [] cmd = "SREFEX" -> [k \in {<<"refdb", x>> : x \in DOMAIN refdb_states_} |-> 0]
          [] OTHER -> NoClocks

faw_ready(b) == Len(recent_acts[Bucket(cfg.act_scope, b)]) < 4

wck_ready_for_data(b) ==
    LET k == Bucket(cfg.wck_scope, b)
    IN  cfg.lpddr => Passed(gate, <<"wck", k>>) /\ ~Passed(gate, <<"wckend", k>>)

(***************************************************************************)
(* timing_ok                                                               *)
(***************************************************************************)
RankBusy(b) == \E x \in InRank(b, cfg.banks) : Busy(banks_[x])

\* state_ok
State(cmd, b, row, owner) ==
    [lpddr |-> cfg.lpddr, bank |-> banks_[b], owner |-> owner, row_hit |-> banks_[b].row = row,
     any_busy |-> IF cmd \in AllBankCommands THEN RankBusy(b) ELSE \E x \in cfg.banks : Busy(banks_[x]),
     wck_ready |-> wck_ready_for_data(b), retrain |-> wck_retrain_required_,
     down |-> power.down, self |-> power.self, ras |-> cfg.ras]

RowGate(b) == <<"row", Bucket(cfg.row_scope, b)>>
RowAct(b)  == <<"row_act", Bucket(cfg.row_scope, b)>>
ColGate(b) == <<"col", Bucket(cfg.col_scope, b)>>
BgAct(b)   == <<"bg_act", Bucket(BankGroup, b)>>
BgCol(b)   == <<"bg_col", Bucket(BankGroup, b)>>
CasGate(b) == <<"cas", Bucket(cfg.wck_scope, b)>>

\* The time stamps a command waits for.
Gates(cmd, b) ==
    CASE cmd \in OpeningCommands -> {<<"act", b>>, RowGate(b), RowAct(b), BgAct(b)}
      [] cmd = "ACT2"            -> {<<"act2", b>>, RowGate(b)}
      [] cmd = "PREPB"           -> {<<"pre", b>>, RowGate(b)}
      [] cmd \in CasCommands \union {"WCKSYNC"} -> {ColGate(b), CasGate(b)}
      [] cmd \in Reads           -> {<<"rd", b>>, <<"any_col", b>>, ColGate(b), BgCol(b)}
      [] cmd \in Writes          -> {<<"wr", b>>, <<"any_col", b>>, ColGate(b), BgCol(b)}
      [] cmd \in {"REFPB", "RFMPB"} -> {<<"act", b>>, RowGate(b)}
      [] cmd = "REFDB"           -> {<<"act", b>>, <<"act", Partner(b)>>, RowGate(b)}
      [] OTHER                   -> {RowGate(b)}

timing_ok(cmd, b, row, owner) ==
    /\ Legal(cmd, State(cmd, b, row, owner))
    /\ constraint_ready(cmd, b)
    /\ \A g \in Gates(cmd, b) : Passed(gate, g)
    /\ cmd \in FawEvents => faw_ready(b)
    /\ cmd = "ACT1" => \A x \in InRank(b, cfg.banks) : ~banks_[x].activating
    /\ cmd = "REFDB" => ~Busy(banks_[Partner(b)])

(***************************************************************************)
(* next_command                                                            *)
(***************************************************************************)
\* The window that a CAS sent now opens is over before the data command can
\* come.
CasTooEarly(e) ==
    LET data == IF e.type = "R" THEN "RD" ELSE "WR"
        own  == Left(gate, <<IF e.type = "R" THEN "rd" ELSE "wr", e.bank>>)
    IN  Max({own, constraint_ready_at(data, e.bank), AtLeast(Later(T.nCAS, T.nWCK2CK))})
            >= Wait(Later(T.nWCKPST, T.nWCK2CK + 1))

\* A CAS has been sent and its window is not open yet.
Synchronizing(b) ==
    LET k == Bucket(cfg.wck_scope, b) IN ~Passed(gate, <<"wck", k>>) /\ ~Passed(gate, <<"wckend", k>>)

DataCommand(e) == IF e.type = "R" THEN (IF cfg.closed THEN "RDA" ELSE "RD")
                                  ELSE (IF cfg.closed THEN "WRA" ELSE "WR")

NextCommand(e) ==
    LET bank == banks_[e.bank]
        hit  == bank.row = e.row
        cas  == ~wck_ready_for_data(e.bank)
    IN  CASE hit /\ cas /\ (Synchronizing(e.bank) \/ CasTooEarly(e)) -> None
          [] hit /\ cas /\ ~Synchronizing(e.bank) /\ ~CasTooEarly(e) ->
                 IF e.type = "R" THEN "CASRD" ELSE "CASWR"
          [] hit /\ ~cas -> DataCommand(e)
          [] ~hit /\ bank.row # NoRow -> "PREPB"
          [] ~hit /\ bank.row = NoRow /\ bank.activating -> IF e.first THEN "ACT2" ELSE None
          [] ~hit /\ bank.row = NoRow /\ ~bank.activating ->
                 IF ~cfg.lpddr THEN "ACT" ELSE IF e.first THEN "ACT2" ELSE "ACT1"

\* dual_bank_target_idle, which also waits for both banks to recover.
dual_bank_target_idle(b) ==
    \A x \in {b, Partner(b)} : ~Busy(banks_[x]) /\ Passed(gate, <<"act", x>>)

NextMaintenance(m) ==
    CASE m.cmd \in {"REFAB", "RFMAB"} /\ RankBusy(m.bank) -> "PREAB"
      [] m.cmd \in PerBankRefresh /\ Busy(banks_[m.bank]) -> "PREPB"
      [] m.cmd = "REFDB" /\ ~Busy(banks_[m.bank])
            /\ ~dual_bank_target_idle(m.bank) /\ RankBusy(m.bank) -> "PREAB"
      [] OTHER -> m.cmd

(***************************************************************************)
(* choose                                                                  *)
(***************************************************************************)
\* Variant: it may also close the bank that the rising edge used, or all.
CanPrechargeOwn(cmd, b) ==
    \/ Left(gate, <<"pair">>) # 1
    \/ rising_edge_.bank[PseudoChannel] # b[PseudoChannel]
    \/ rising_edge_.cmd \notin WholeChannel

\* can_issue_falling_edge_pre; "pair" is at 1 at next_pairing_falling_edge.
CanPrechargeFalling(cmd, b) ==
    \/ Left(gate, <<"pair">>) # 1
    \/ rising_edge_.bank[PseudoChannel] # b[PseudoChannel]
    \/ /\ rising_edge_.cmd \notin WholeChannel
       /\ cmd = "PREPB" /\ ~SameKey(b, rising_edge_.bank)

BusMatches(cmd, b, bus) ==
    CASE bus = "unified" -> TRUE
      [] bus # "unified" /\ ~rising -> cmd \in Precharges /\ CanPrechargeFalling(cmd, b)
      [] OTHER -> bus = (IF cmd \in RowCommands THEN "row" ELSE "column")

ActiveIn(banks) == \E e \in Range(q.active) : e.bank \in banks

WouldCloseActive(cmd, b) ==
    \/ cmd \in AllBankCommands /\ ActiveIn(InRank(b, cfg.banks))
    \/ cmd \in {"PREPB"} \union PerBankRefresh /\ ActiveIn({b})

\* Reads of the same bytes that came earlier and have not returned; one that
\* came later than a write that waits was answered from it.
UnresolvedRead(e) ==
    \/ \E o \in Range(q.read) \union Range(q.active) : o.type = "R" /\ o.addr = e.addr
    \/ ~Passed(gate, <<"data", e.addr>>)

Eligible(e, cmd, bus, buf) ==
    /\ e.type = "W" => ~UnresolvedRead(e)
    /\ BusMatches(cmd, e.bank, bus)
    /\ buf = "active" \/ ~WouldCloseActive(cmd, e.bank)

Pick(buf, i) == [buf |-> buf, i |-> i, cmd |-> NextCommand(q[buf][i])]

\* The oldest of some picks; those of one tick go by their place.
Oldest(picks) ==
    {p \in picks : \A o \in picks \ {p} :
        LET a == q[p.buf][p.i].arrival
            z == q[o.buf][o.i].arrival
        IN  a < z \/ (a = z /\ p.i < o.i)}

ReadyPick(p) == LET e == q[p.buf][p.i] IN timing_ok(p.cmd, e.bank, e.row, e.first)

\* pick_best_ready_from with select_scheduled_request; a set of at most one.
PickFrom(buf, bus) ==
    LET all == {p \in {Pick(buf, i) : i \in DOMAIN q[buf]} :
                    p.cmd # None /\ Eligible(q[buf][p.i], p.cmd, bus, buf)}
    IN  IF cfg.sched = "FCFS" THEN {p \in Oldest(all) : ReadyPick(p)}
        ELSE Oldest({p \in all : ReadyPick(p)})

\* pick_urgent_act2: an ACT2 at the last tick allowed.
UrgentAct2(bus) ==
    IF ~cfg.lpddr THEN {}
    ELSE Oldest({p \in {Pick("active", i) : i \in DOMAIN q.active} :
                    /\ p.cmd = "ACT2" /\ Left(gate, <<"late", q.active[p.i].bank>>) = 1
                    /\ Eligible(q.active[p.i], p.cmd, bus, "active") /\ ReadyPick(p)})

\* It throws when that tick has passed.
Act2Missed ==
    cfg.lpddr /\ \E e \in Range(q.active) : NextCommand(e) = "ACT2" /\ Passed(gate, <<"late", e.bank>>)

\* Active requests are looked at for their column commands, and on a bus for
\* all commands.
PickActive(bus) == IF bus = "row" THEN {} ELSE PickFrom("active", bus)

\* pick_priority_if looks at the head only.
PickPriority(bus) ==
    IF q.priority = <<>> THEN {}
    ELSE LET m   == Head(q.priority)
             cmd == NextMaintenance(m)
         IN  IF /\ BusMatches(cmd, m.bank, bus) /\ ~WouldCloseActive(cmd, m.bank)
                /\ timing_ok(cmd, m.bank, NoRow, FALSE)
             THEN {[buf |-> "priority", i |-> 1, cmd |-> cmd]} ELSE {}

\* set_write_mode
WriteModeNow ==
    IF write_mode_ THEN ~(Len(q.write) < cfg.low /\ q.read # <<>>)
    ELSE Len(q.write) > cfg.high \/ q.read = <<>>

\* Variant: while writes drain, reads wait, also those that a write waits for.
PickRwDrain(bus) == IF WriteModeNow THEN PickFrom("write", bus) ELSE PickFrom("read", bus)

\* pick_rw_if
PickRw(bus) ==
    LET writes == PickFrom("write", bus)
    IN  IF ~WriteModeNow THEN PickFrom("read", bus)
        ELSE IF writes # {} \/ \A e \in Range(q.write) : ~UnresolvedRead(e) THEN writes
        ELSE PickFrom("read", bus)

\* What comes before reads and writes.
Preferred(bus) ==
    LET urgent == UrgentAct2(bus)
        active == PickActive(bus)
    IN  IF urgent # {} THEN urgent ELSE IF active # {} THEN active ELSE PickPriority(bus)

(***************************************************************************)
(* CommandExecutor::issue                                                  *)
(***************************************************************************)
WckEnd(b)      == <<"wckend", Bucket(cfg.wck_scope, b)>>
Window(b, ready, end) == <<"wck", Bucket(cfg.wck_scope, b)>> :> ready @@ WckEnd(b) :> end

\* An activation, split or not.
Activated(b) ==
    <<"rd", b>> :> Wait(T.nRCDRD) @@ <<"wr", b>> :> Wait(T.nRCDWR)
        @@ <<"pre", b>> :> Wait(T.nRAS) @@ <<"act", b>> :> Wait(T.nRC)
        @@ RowGate(b) :> 1 @@ RowAct(b) :> Wait(T.nRRDS) @@ BgAct(b) :> Wait(T.nRRDL)

ColumnUsed(b) ==
    <<"any_col", b>> :> Wait(T.nCCDL) @@ ColGate(b) :> Wait(T.nCCDS) @@ BgCol(b) :> Wait(T.nCCDL)

RowBusy(b, n) == RowGate(b) :> AtLeast(n)

\* The stamps a command overwrites.
Assigned(cmd, b) ==
    CASE cmd = "ACT"  -> Activated(b)
      [] cmd = "ACT1" -> Activated(b) @@ <<"act2", b>> :> AtLeast(T.nAADMin)
                           @@ <<"late", b>> :> Wait(Later(T.nAADMin, T.nAADMax)) + 1
      [] cmd = "ACT2" -> <<"act2", b>> :> 0 @@ <<"late", b>> :> 0 @@ RowGate(b) :> 1
      [] cmd = "PREPB" -> <<"act", b>> :> Wait(T.nRP) @@ RowGate(b) :> 1
      [] cmd \in CasCommands ->
             ColGate(b) :> 1 @@ CasGate(b) :> 1
                @@ Window(b, AtLeast(T.nWCK2CK), Wait(Later(T.nWCKPST, T.nWCK2CK + 1)))
      [] cmd \in Reads  -> ColumnUsed(b) @@ <<"rd", b>> :> Wait(T.nCCDL)
      [] cmd \in Writes -> ColumnUsed(b) @@ <<"wr", b>> :> Wait(T.nCCDL)
      [] cmd \in {"REFPB", "REFDB"} -> <<"act", b>> :> Wait(T.nRFCpb) @@ RowGate(b) :> 1
      [] cmd = "RFMPB" -> <<"act", b>> :> Wait(Or(T.nRFMpb, T.nRFCpb)) @@ RowGate(b) :> 1
      [] cmd \in AllBankCommands \union {"PDE", "SREFEN"} -> RowGate(b) :> 1
      [] cmd = "MRW" -> RowBusy(b, T.nMRW)
      [] cmd = "MRR" -> RowBusy(b, T.nMRR)
      [] cmd = "WCKSYNC" -> ColGate(b) :> 1 @@ CasGate(b) :> AtLeast(T.nWCKSYNC)
                              @@ <<"wck", Bucket(cfg.wck_scope, b)>> :> AtLeast(T.nWCKSYNC)
      [] cmd = "WCKTRAIN" -> RowBusy(b, T.nWCKTRAIN) @@ CasGate(b) :> AtLeast(T.nWCKTRAIN)
                               @@ Window(b, AtLeast(T.nWCKTRAIN), AtLeast(T.nWCKTRAIN) + AtLeast(T.nWCKPST))
      [] cmd = "DVFS" -> RowBusy(b, T.nDVFS) @@ ColGate(b) :> AtLeast(T.nDVFS) @@ CasGate(b) :> AtLeast(T.nDVFS)
      [] cmd = "PDX" -> RowBusy(b, T.nPDEX)
      [] cmd = "SREFEX" -> RowBusy(b, T.nSREFEX)
      [] cmd = "ECCSCRUB" -> RowBusy(b, T.nECCSCRUB)
      [] cmd = "RASERR" -> RowBusy(b, T.nRASERR)

WriteRecovery == T.nCWL + T.nBL + T.nWR

\* Every bank of the rank waits, unless it waits longer already.
RankWaits(b, n) == [k \in {<<"act", x>> : x \in InRank(b, cfg.banks)} |-> Wait(n)]

\* The stamps a command only moves later.
Raised(cmd, b) ==
    LET wck(n) == IF cfg.lpddr THEN WckEnd(b) :> Wait(n + T.nBL + T.nWCKPST) ELSE NoClocks
        auto(n) == IF cmd \in {"RDA", "WRA"} THEN <<"act", b>> :> Wait(n) + Wait(T.nRP) ELSE NoClocks
    IN  CASE cmd \in Reads  -> <<"pre", b>> :> Wait(T.nRTP) @@ wck(T.nCL) @@ auto(T.nRTP)
          [] cmd \in Writes -> <<"pre", b>> :> Wait(WriteRecovery) @@ wck(T.nCWL) @@ auto(WriteRecovery)
          [] cmd = "REFDB"  -> <<"act", Partner(b)>> :> Wait(T.nRFCpb)
          [] cmd = "PREAB"  -> RankWaits(b, Or(T.nRPab, T.nRP))
          [] cmd = "REFAB"  -> RankWaits(b, T.nRFC)
          [] cmd = "RFMAB"  -> RankWaits(b, Or(T.nRFMab, T.nRFC))
          [] cmd = "WCKSYNC" -> WckEnd(b) :> Wait(Later(T.nWCKPST, T.nWCKSYNC + 1))
          [] cmd = "RASERR" -> ColGate(b) :> AtLeast(T.nLINKRETRY)
          [] OTHER -> NoClocks

BanksAfter(cmd, b, row) ==
    IF cmd = "PREAB" THEN [x \in cfg.banks |-> IF x \in InRank(b, cfg.banks) THEN ClosedBank ELSE banks_[x]]
    ELSE Executed(banks_, cmd, b, row)

PowerAfter(cmd) ==
    LET e == IF power.exit = cmd THEN None ELSE power.exit
    IN  CASE cmd = "PDE"    -> [power EXCEPT !.down = TRUE]
          [] cmd = "SREFEN" -> [power EXCEPT !.self = TRUE]
          [] cmd = "PDX"    -> [power EXCEPT !.down = FALSE, !.exit = e]
          [] cmd = "SREFEX" -> [power EXCEPT !.self = FALSE, !.exit = e]
          [] OTHER          -> power

RecordsEdge(bus) == ~cfg.lpddr /\ bus = "row" /\ rising

\* retire_or_advance
Advanced(p, e) ==
    CASE p.buf = "priority" ->
             IF p.cmd = e.cmd THEN [q EXCEPT !.priority = Tail(@)] ELSE q
      [] p.buf # "priority" /\ p.cmd \in OpeningCommands /\ p.buf # "active" ->
             LET f == [e EXCEPT !.first = (p.cmd = "ACT1")]
             IN  [q EXCEPT ![p.buf] = RemoveAt(@, p.i), !.active = Append(@, f)]
      [] p.cmd \in DataCommands -> [q EXCEPT ![p.buf] = RemoveAt(@, p.i)]
      [] OTHER -> q

\* A read returns after its latency; it is in flight until then.
ReadLatency(cmd) == IF cmd = "RDA" THEN Later(T.nCL + T.nBL, T.nRTP) ELSE T.nCL + T.nBL
InFlight(p, e) == IF p.cmd \in Reads THEN <<"data", e.addr>> :> Wait(ReadLatency(p.cmd)) ELSE NoClocks

IssueCommand(p, bus) ==
    LET e   == q[p.buf][p.i]
        cmd == p.cmd
        b   == e.bank
        row == IF p.buf = "priority" THEN NoRow ELSE e.row
        id  == IF p.buf = "priority" THEN 0 ELSE e.id
        k   == Bucket(cfg.act_scope, b)
    IN  /\ banks_' = BanksAfter(cmd, b, row)
        /\ gate' = Stamp(gate,
                         Assigned(cmd, b) @@ InFlight(p, e)
                            @@ (IF cfg.refdb THEN RefdbReady(cmd, b) ELSE NoClocks)
                            @@ (IF RecordsEdge(bus) THEN <<"pair">> :> (IF cmd = "ACT" THEN 3 ELSE 1) + 1 ELSE NoClocks),
                         Raised(cmd, b) @@ apply_constraints(cmd, b))
        /\ recent_acts' = IF cmd \in FawEvents
                          THEN [recent_acts EXCEPT ![k] = Append(@, Wait(Later(1, T.nFAW)))] ELSE recent_acts
        /\ refdb_states_' = IF cfg.refdb THEN RefdbAfter(cmd, b) ELSE refdb_states_
        /\ rising_edge_' = IF RecordsEdge(bus) THEN [cmd |-> cmd, bank |-> b] ELSE rising_edge_
        /\ power' = PowerAfter(cmd)
        /\ wck_retrain_required_' = IF cmd = "DVFS" THEN cfg.retrain
                                    ELSE wck_retrain_required_ /\ cmd # "WCKTRAIN"
        /\ q' = Advanced(p, e)
        /\ v' = Replay(v, cfg, Table, cmd, b, row, id, bus, rising)

\* The rest of tick(), for one bus: choose and issue a command, or nothing.  A
\* tick that throws ends the program: it has no step here, and shows as a
\* deadlock.
Choose(bus) ==
    LET first == Preferred(bus)
        asks  == first = {} /\ q.priority = <<>>
        picks == IF asks THEN PickRw(bus) ELSE first
    IN  /\ phase = bus /\ ~(bus = "unified" /\ Act2Missed)
        /\ \/ \E p \in picks : IssueCommand(p, bus)
           \/ picks = {} /\ UNCHANGED <<q, dramVars>>
        /\ write_mode_' = IF asks THEN WriteModeNow ELSE write_mode_
        /\ phase' = IF bus = "column" THEN "row" ELSE "idle"
        /\ UNCHANGED <<cfg, rising, pending_maintenance_, hostVars>>

Next ==
    \/ Tick
    \/ \E bus \in Bus : Choose(bus)
    \/ \E i \in waiting : Enqueue(i)
    \/ \E s \in cfg.scripts : Submit(s)

\* The owner of the controller keeps calling tick(), which runs to its end.
\* Every step of Tick and Choose changes phase and no other step does, and in
\* every phase one of the two can be taken (a tick that throws is a deadlock):
\* this is weak fairness of both, with a condition that is cheap to evaluate.
TickAdvances == phase' \in Bus \union {"idle"} /\ phase' # phase

Fairness == WF_phase(TickAdvances)

Spec == Init /\ [][Next]_vars /\ Fairness

(***************************************************************************)
(* Properties                                                              *)
(***************************************************************************)
Settled == q.active = <<>> /\ q.read = <<>> /\ q.write = <<>> /\ q.priority = <<>>
             /\ pending_maintenance_ = <<>>

\* The validator accepts every command the controller issues, whatever the
\* gates of the engine, the executor and the scheduler made it issue at this
\* tick, and no ACT1 is left without its ACT2 when the queues are empty.
TraceAccepted == v.ok /\ (Settled /\ phase = "idle" => \A b \in cfg.banks : ~v.banks[b].activating)

\* No request and no refresh waits forever for a gate, a WCK window, the bus
\* or another request: the queues are empty again and again, and an ACT2 is
\* never missed, which ends the program.
AllServed == []<>Settled
===============================================================================
