----------------------------- MODULE MemController -----------------------------
(***************************************************************************)
(* The controller of one memory channel of mem_sim, with its PHY, refresh  *)
(* manager, RFM manager, row policy and scheduler.  The host enqueues      *)
(* reads, writes and maintenance commands; every tick completes what is    *)
(* due, schedules refreshes, and issues at most one command on each        *)
(* command bus.                                                            *)
(*                                                                         *)
(* Controller::tick() runs to its end without a break; phase is its        *)
(* program counter, and the host acts when it is "idle".  Distances in     *)
(* time are not modelled: a legal command for a bank becomes ready at some *)
(* tick, two requests that need the same command of the same bank become   *)
(* ready together, and latencies are any number of ticks.  A byte of data  *)
(* is the sequence number of the write that stored it, 0 before any.       *)
(* There is one rank.                                                      *)
(***************************************************************************)
EXTENDS DramCommands, Sequences, FiniteSets, SequencesExt

CONSTANTS
    Configs,        \* the configurations looked at, each with its workload
    Bytes,          \* addresses
    BankCount       \* banks of the rank

Banks == 0 .. (BankCount - 1)

Shape == [type : {"R", "W"}, addr : Bytes, len : Nat \ {0}, mask : SUBSET Bytes,
          bank : Banks, row : Nat]

\* ControllerOptions, MemPhyOptions and the parts of DramSpec that matter.
Config == [dram : {"HBM", "LPDDR"}, phy : {"Direct", "Behavioral"},
           sched : {"FCFS", "FRFCFS"},
           policy : {"OpenPage", "ClosedPage", "ClosedCap"}, cap : Nat \ {0},
           reads : Nat \ {0}, writes : Nat \ {0}, priority : Nat \ {0},
           high : Nat, low : Nat,                      \* write watermarks
           responses : Nat,                            \* 0: no limit
           fifo : Nat \ {0},                           \* data FIFOs of the PHY
           boot : {"Reset", "Ready"},                  \* first state of the PHY
           refresh : {"off", "AB", "PB", "DB"},
           postpone : Nat, pullin : Nat, credit : Nat, \* refresh limits
           rfm : Nat, rfm_all : BOOLEAN,               \* ACT threshold, 0: off
           low_power : {"Off", "PowerDown", "SelfRefresh"},
           \* the workload, with its bounds
           shapes : SUBSET Shape, requests : Nat,
           commands : SUBSET (IdleCommands \union ExitCommands), submits : Nat,
           deadlines : Nat]

Span(x)       == x.addr .. (x.addr + x.len - 1)
Overlap(x, y) == Span(x) \intersect Span(y) # {}

\* The watermarks are compared with a number of writes: low is the fraction
\* rounded up, high rounded down.
ConfigAssumption(c) ==
    /\ c \in Config
    /\ c.low <= c.high + 1 /\ c.high <= c.writes
    /\ \A x \in c.shapes : /\ Span(x) \subseteq Bytes
                           /\ x.mask \subseteq Span(x) /\ (x.type = "W" => x.mask # {})

ASSUME ControllerAssumption ==
    /\ BankCount \in Nat \ {0} /\ Bytes \subseteq Nat
    /\ \A c \in Configs : ConfigAssumption(c)

VARIABLES
    cfg,                    \* options_ and spec_, never changed
    phase,                  \* where tick() is
    q,                      \* request_queues_
    pending_maintenance_,
    pending_,               \* accepted or issued, not yet answered
    responses_,
    buffered_writes_,       \* by address: the writes not yet issued
    image,                  \* the memory image
    banks_,
    write_mode_,
    power,                  \* low power flags
    phy,                    \* MemPhy
    refresh_,               \* RefreshManager
    row_policy_,            \* RowPolicyEngine
    rfm_,                   \* RfmManager
    wck,                    \* WCK window and training debt
    next_sequence,          \* next_controller_sequence_
    golden,                 \* history: the last accepted write of each byte
    answered,               \* history: requests whose response was taken
    budget,                 \* bounds: commands and deadlines used, those that passed in blocked ticks
    fatal                   \* tick() threw, which pick_urgent_act2 may do

queueVars == <<q, pending_maintenance_, pending_, responses_, buffered_writes_>>
dramVars  == <<image, banks_, phy, wck, rfm_, row_policy_>>
ctrlVars  == <<write_mode_, power, refresh_>>
histVars  == <<next_sequence, golden, answered, budget>>
vars == <<cfg, phase, queueVars, dramVars, ctrlVars, histVars, fatal>>

Lpddr      == cfg.dram = "LPDDR"
Behavioral == cfg.phy = "Behavioral"

Init ==
    /\ cfg \in Configs
    /\ phase = "idle"
    /\ q = [active |-> <<>>, priority |-> <<>>, read |-> <<>>, write |-> <<>>]
    /\ pending_maintenance_ = <<>> /\ pending_ = <<>> /\ responses_ = <<>>
    /\ buffered_writes_ = [a \in {} |-> 0]
    /\ image = [a \in Bytes |-> 0]
    /\ banks_ = [b \in Banks |-> ClosedBank]
    /\ write_mode_ = FALSE
    /\ power = [active |-> FALSE, down |-> FALSE, self |-> FALSE,
                exit |-> None, waking |-> FALSE]
    /\ phy = [state |-> cfg.boot, reads |-> <<>>, writes |-> <<>>, done |-> {}]
    /\ refresh_ = [credit |-> 0, missed |-> 0, postponed |-> 0, pulled |-> 0, cursor |-> 0]
    /\ row_policy_ = [b \in Banks |-> [accesses |-> 0, precharge |-> FALSE]]
    /\ rfm_ = [b \in Banks |-> [count |-> 0, due |-> FALSE]]
    /\ wck = [window |-> "off", retrain |-> FALSE]
    /\ next_sequence = 1
    /\ golden = [a \in Bytes |-> 0]
    /\ answered = {}
    /\ budget = [commands |-> 0, deadlines |-> 0, blocked |-> 0]
    /\ fatal = FALSE

(***************************************************************************)
(* Order of reads and writes of the same bytes.                            *)
(***************************************************************************)
\* A request in a queue; want is what a read must return, first records that
\* it sent an ACT1.
Entry(x) == [seq |-> next_sequence, sh |-> x, first |-> FALSE,
             want |-> IF x.type = "R" THEN [a \in Span(x) |-> golden[a]] ELSE <<>>]

\* Variant: reads that were issued and wait for their data are not looked at.
UnresolvedReadInQueuesOnly(x, before) ==
    \E e \in Range(q.read) \union Range(q.active) :
        e.sh.type = "R" /\ (before = 0 \/ e.seq < before) /\ Overlap(e.sh, x)

\* has_unresolved_overlapping_read; before 0 means any.
UnresolvedRead(x, before) ==
    \E e \in Range(q.read) \union Range(q.active) \union Range(pending_) :
        e.sh.type = "R" /\ (before = 0 \/ e.seq < before) /\ Overlap(e.sh, x)

\* has_unresolved_overlapping_write
UnresolvedWrite(x) == \E e \in Range(pending_) : e.sh.type = "W" /\ Overlap(e.sh, x)

\* The bytes a buffered write stores, among those its own length covers.
StoredBytes(a) ==
    {c \in DOMAIN buffered_writes_[a].by :
        c < a + buffered_writes_[a].len /\ buffered_writes_[a].by[c] # 0}

ReadHitsBufferedWrite(x) ==
    \E a \in DOMAIN buffered_writes_ : StoredBytes(a) \intersect Span(x) # {}

\* read_forward_payload: each byte from the newest buffered write of it, else
\* from the image.
ReadForwardPayload(x) ==
    [c \in Span(x) |->
        LET by == {buffered_writes_[a].by[c] : a \in {d \in DOMAIN buffered_writes_ : c \in StoredBytes(d)}}
        IN  IF by = {} THEN image[c] ELSE CHOOSE s \in by : \A t \in by : s >= t]

\* The payload of a write as it is queued; 0 where its mask is clear.
Payload(x, seq) == [c \in Span(x) |-> IF c \in x.mask THEN seq ELSE 0]

\* Coalescing: an unmasked write replaces the buffered one, a masked write is
\* merged byte by byte.
Merged(x, seq) ==
    LET old == buffered_writes_[x.addr]
    IN  IF x.mask = Span(x)
        THEN [len |-> x.len, by |-> Payload(x, seq)]
        ELSE [len |-> old.len,
              by |-> [c \in DOMAIN old.by \union Span(x) |->
                          IF c \in x.mask THEN seq
                          ELSE IF c \in DOMAIN old.by THEN old.by[c] ELSE 0]]

Committed(by) == [a \in Bytes |-> IF a \in DOMAIN by /\ by[a] # 0 THEN by[a] ELSE image[a]]

(***************************************************************************)
(* enqueue                                                                 *)
(***************************************************************************)
Explicit == power.down \/ power.self

\* Leaving low power for a read or write: explicit modes need a command.
WakePower ==
    IF ~power.active THEN power
    ELSE IF ~Explicit THEN [power EXCEPT !.active = FALSE, !.waking = TRUE]
    ELSE IF power.exit # None THEN power
    ELSE [power EXCEPT !.exit = IF power.self THEN "SREFEX" ELSE "PDX"]

WakeCommand(x) ==
    IF power.active /\ Explicit /\ power.exit = None
    THEN <<[cmd |-> IF power.self THEN "SREFEX" ELSE "PDX", bank |-> x.bank]>>
    ELSE <<>>

Wake(x) == /\ power' = WakePower
           /\ pending_maintenance_' = pending_maintenance_ \o WakeCommand(x)

HostActs == phase = "idle" /\ ~fatal

Accept(x) ==
    /\ next_sequence' = next_sequence + 1
    /\ golden' = IF x.type = "R" THEN golden
                 ELSE [a \in Bytes |-> IF a \in x.mask THEN next_sequence ELSE golden[a]]

\* A request that waits in pending_ and needs no command.
Bypass(x, data) == [seq |-> next_sequence, sh |-> x, want |-> Entry(x).want,
                    via |-> "bypass", ap |-> FALSE, data |-> data]

EnqueueRead(x) ==
    /\ HostActs /\ x.type = "R" /\ next_sequence <= cfg.requests
    /\ Accept(x) /\ Wake(x)
    /\ \/ /\ ReadHitsBufferedWrite(x)
          /\ pending_' = Append(pending_, Bypass(x, ReadForwardPayload(x)))
          /\ q' = q
       \/ /\ ~ReadHitsBufferedWrite(x) /\ Len(q.read) < cfg.reads
          /\ q' = [q EXCEPT !.read = Append(@, Entry(x))]
          /\ pending_' = pending_
    /\ UNCHANGED <<cfg, phase, responses_, buffered_writes_, dramVars, write_mode_,
                   refresh_, answered, budget, fatal>>

Coalesce(x) ==
    /\ x.addr \in DOMAIN buffered_writes_ /\ ~UnresolvedRead(x, 0)
    /\ buffered_writes_' = [buffered_writes_ EXCEPT ![x.addr] = Merged(x, next_sequence)]
    /\ pending_' = Append(pending_, Bypass(x, <<>>))
    /\ q' = q

QueueWrite(x) ==
    /\ x.addr \notin DOMAIN buffered_writes_ /\ Len(q.write) < cfg.writes
    /\ buffered_writes_' = [a \in DOMAIN buffered_writes_ \union {x.addr} |->
            IF a = x.addr THEN [len |-> x.len, by |-> Payload(x, next_sequence)]
                          ELSE buffered_writes_[a]]
    /\ q' = [q EXCEPT !.write = Append(@, Entry(x))]
    /\ pending_' = pending_

EnqueueWrite(x) ==
    /\ HostActs /\ x.type = "W" /\ next_sequence <= cfg.requests
    /\ Accept(x) /\ Wake(x)
    /\ Coalesce(x) \/ QueueWrite(x)
    /\ UNCHANGED <<cfg, phase, responses_, dramVars, write_mode_, refresh_,
                   answered, budget, fatal>>

Rejected(x) ==
    IF x.type = "R" THEN ~ReadHitsBufferedWrite(x) /\ Len(q.read) >= cfg.reads
    ELSE IF x.addr \in DOMAIN buffered_writes_ THEN UnresolvedRead(x, 0)
    ELSE Len(q.write) >= cfg.writes

\* enqueue() returns false, after it has asked for the end of low power.
EnqueueRejected(x) ==
    /\ HostActs /\ next_sequence <= cfg.requests /\ Rejected(x)
    /\ power.active /\ Wake(x)
    /\ UNCHANGED <<cfg, phase, q, pending_, responses_, buffered_writes_, dramVars,
                   write_mode_, refresh_, histVars, fatal>>

EnqueueMaintenance(cmd) ==
    /\ HostActs /\ budget.commands < cfg.submits /\ Len(q.priority) < cfg.priority
    /\ q' = [q EXCEPT !.priority = Append(@, [cmd |-> cmd, bank |-> 0])]
    /\ budget' = [budget EXCEPT !.commands = @ + 1]
    /\ UNCHANGED <<cfg, phase, pending_maintenance_, pending_, responses_,
                   buffered_writes_, dramVars, ctrlVars, next_sequence, golden,
                   answered, fatal>>

PopResponse ==
    /\ HostActs /\ responses_ # <<>>
    /\ answered' = answered \union {Head(responses_).seq}
    /\ responses_' = Tail(responses_)
    /\ UNCHANGED <<cfg, phase, q, pending_maintenance_, pending_, buffered_writes_,
                   dramVars, ctrlVars, next_sequence, golden, budget, fatal>>

(***************************************************************************)
(* The first half of tick(): the PHY, completions, refresh, row policy.    *)
(***************************************************************************)
\* advance_lifecycle; each stage of the start lasts a number of ticks.
AdvancedState == CASE phy.state = "Reset" -> "Initialization"
                   [] phy.state = "Initialization" -> "Training"
                   [] phy.state = "Training" -> "Ready"
                   [] OTHER -> phy.state

\* The image after the first n slots of the write FIFO complete, in order.
ImageAfter(n) ==
    [a \in Bytes |->
        LET ks == {k \in 1 .. n : a \in DOMAIN phy.writes[k].data /\ phy.writes[k].data[a] # 0}
        IN  IF ks = {} THEN image[a]
            ELSE phy.writes[CHOOSE k \in ks : \A j \in ks : k >= j].data[a]]

\* MemPhy::tick: the first nr reads sample the image, then the first nw
\* writes change it.
PhyAfter(advance, nr, nw) ==
    [state  |-> IF advance THEN AdvancedState ELSE phy.state,
     reads  |-> SubSeq(phy.reads, nr + 1, Len(phy.reads)),
     writes |-> SubSeq(phy.writes, nw + 1, Len(phy.writes)),
     done   |-> phy.done
                \union {[seq |-> phy.reads[k].seq, data |-> [a \in Span(phy.reads[k].sh) |-> image[a]]] :
                            k \in 1 .. nr}
                \union {[seq |-> phy.writes[k].seq, data |-> <<>>] : k \in 1 .. nw}]

\* What completes at its own time: reads through the direct PHY, and data
\* commands with an automatic precharge.
Timed(p) == p.via # "bypass" /\ (p.ap \/ (p.via = "direct" /\ p.sh.type = "R"))

SameLatency(p, r) == p.sh.type = r.sh.type /\ p.ap = r.ap

\* late: the requests whose completion is still in the future.  Equal
\* latencies complete in the order of issue.
LateSets ==
    {L \in SUBSET {i \in DOMAIN pending_ : Timed(pending_[i])} :
        \A i \in L : \A j \in (i + 1) .. Len(pending_) :
            (Timed(pending_[j]) /\ SameLatency(pending_[i], pending_[j])) => j \in L}

Completion(p, done) == {d \in done : d.seq = p.seq}

\* complete_read and complete_write
Answer(p, done) ==
    [seq |-> p.seq, want |-> p.want,
     data |-> CASE p.sh.type = "W" -> <<>>
                [] p.via = "bypass" -> p.data
                [] p.via = "phy"    -> (CHOOSE d \in Completion(p, done) : TRUE).data
                [] p.via = "direct" -> [a \in Span(p.sh) |-> image[a]]]

\* Variant: a completion is taken from the PHY although no response fits.
RoomAlways == Len(pending_)

ResponseRoom == IF cfg.responses = 0 THEN Len(pending_) ELSE cfg.responses - Len(responses_)

\* complete_pending: in order, while a response fits.
CompletedOf(late, done) ==
    LET due == {i \in DOMAIN pending_ :
                    i \notin late /\ (pending_[i].via = "phy" => Completion(pending_[i], done) # {})}
    IN  {i \in due : Cardinality({j \in due : j < i}) < ResponseRoom}

Without(s, is) == LET keep == {i \in DOMAIN s : i \notin is}
                  IN  [n \in 1 .. Cardinality(keep) |->
                          s[CHOOSE i \in keep : Cardinality({j \in keep : j <= i}) = n]]

Only(s, is) == Without(s, DOMAIN s \ is)

CompletePending(late, p) ==
    LET taken == CompletedOf(late, p.done)
        out   == Only(pending_, taken)
    IN  /\ responses_' = responses_ \o [n \in DOMAIN out |-> Answer(out[n], p.done)]
        /\ pending_' = Without(pending_, taken)
        /\ phy' = [p EXCEPT !.done = {d \in @ : \A n \in DOMAIN out : out[n].via = "phy" => d.seq # out[n].seq}]

OrdinaryWork == q.active # <<>> \/ q.read # <<>> \/ q.write # <<>>

\* Variant: a refresh is postponed however many were postponed before.
CanPostponeForever(r, due) == due /\ OrdinaryWork /\ cfg.postpone > 0

CanPostpone(r, due) ==
    /\ due /\ OrdinaryWork
    /\ cfg.postpone > 0 /\ r.postponed < cfg.postpone
    /\ cfg.credit = 0 \/ r.credit <= cfg.credit

\* seed_refresh_batch
RefreshBatch ==
    CASE cfg.refresh = "AB" -> <<[cmd |-> "REFAB", bank |-> 0]>>
      [] cfg.refresh = "PB" -> <<[cmd |-> "REFPB", bank |-> refresh_.cursor]>>
      [] cfg.refresh = "DB" -> <<[cmd |-> "REFDB", bank |-> 2 * refresh_.cursor]>>

Positions == CASE cfg.refresh = "AB" -> 1 [] cfg.refresh = "PB" -> BankCount
               [] cfg.refresh = "DB" -> BankCount \div 2

Passed(due) == IF due THEN 1 ELSE 0

\* RefreshManager::tick, as the pair of the new state and the commands.  due:
\* a deadline passes, and is counted with those missed in blocked ticks;
\* window: the next one is near enough to pull it in.
RefreshTick(due, window, idle) ==
    LET n    == refresh_.missed + Passed(due)
        newly == n > 0
        c    == refresh_.credit + n
        r    == [refresh_ EXCEPT !.credit = c, !.missed = 0, !.pulled = IF c >= 0 THEN 0 ELSE @]
        sent == [r EXCEPT !.credit = c - 1, !.cursor = (@ + 1) % Positions]
        wait == OrdinaryWork /\ ~newly /\ r.postponed > 0 /\ r.postponed < cfg.postpone
    IN  IF cfg.refresh = "off" THEN <<refresh_, <<>>>>
        ELSE IF c > 0 /\ CanPostpone(r, newly) THEN <<[r EXCEPT !.postponed = @ + 1], <<>>>>
        ELSE IF c > 0 /\ ~wait
             THEN <<[sent EXCEPT !.postponed = IF c - 1 <= 0 THEN 0 ELSE @], RefreshBatch>>
        ELSE IF c = 0 /\ idle /\ window /\ r.pulled < cfg.pullin
             THEN <<[sent EXCEPT !.pulled = @ + 1], RefreshBatch>>
        ELSE <<r, <<>>>>

ActiveCount(b) == Cardinality({i \in DOMAIN q.active : q.active[i].sh.bank = b})

\* should_schedule_precharge, for a bank whose PREPB is legal
CapReached(b) ==
    /\ cfg.policy = "ClosedCap" /\ row_policy_[b].accesses >= cfg.cap
    /\ ActiveCount(b) = 0 /\ ~row_policy_[b].precharge /\ Opened(banks_[b])

\* schedule_refresh, service_pending_maintenance and
\* apply_row_policy_pre_schedule; closed: the banks whose PREPB is ready.
ScheduleMaintenance(due, window, closed, done) ==
    LET idle  == ~OrdinaryWork /\ q.priority = <<>> /\ pending_maintenance_ = <<>> /\ done = <<>>
        tick  == RefreshTick(due, window, idle)
        all   == pending_maintenance_ \o tick[2]
        room  == cfg.priority - Len(q.priority)
        moved == IF Len(all) <= room THEN Len(all) ELSE room
        pres  == SetToSortSeq(closed, LAMBDA a, b : a < b)
    IN  /\ moved + Len(pres) <= room
        /\ refresh_' = tick[1]
        /\ q' = [q EXCEPT !.priority = @ \o SubSeq(all, 1, moved)
                                         \o [n \in DOMAIN pres |-> [cmd |-> "PREPB", bank |-> pres[n]]]]
        /\ pending_maintenance_' = SubSeq(all, moved + 1, Len(all))
        /\ row_policy_' = [b \in Banks |-> IF b \in closed THEN [row_policy_[b] EXCEPT !.precharge = TRUE]
                                                         ELSE row_policy_[b]]

FirstBus == IF cfg.dram = "HBM" THEN "column" ELSE "unified"

\* The WCK window opens after a CAS and closes some time after its last use.
WckSteps == CASE wck.window = "sync" -> {"sync", "ready"}
              [] wck.window = "ready" -> {"ready", "off"}
              [] OTHER -> {wck.window}

TickBegins ==
    \E advance \in {p \in BOOLEAN : p => AdvancedState # phy.state},
       nr \in 0 .. Len(phy.reads), nw \in 0 .. Len(phy.writes), late \in LateSets,
       w \in WckSteps, waking \in {p \in BOOLEAN : p => power.waking},
       due \in {p \in BOOLEAN : p => cfg.refresh # "off" /\ budget.deadlines < cfg.deadlines},
       window \in {p \in BOOLEAN : p => cfg.pullin > 0},
       closed \in SUBSET {b \in Banks : CapReached(b)} :
        /\ phase = "idle" /\ ~fatal
        /\ CompletePending(late, PhyAfter(advance, nr, nw))
        /\ image' = ImageAfter(nw)
        /\ wck' = [wck EXCEPT !.window = w]
        /\ power' = [power EXCEPT !.waking = waking]
        /\ \/ /\ waking /\ ~window /\ closed = {}
              /\ phase' = "idle"
              /\ refresh_' = [refresh_ EXCEPT !.missed = @ + Passed(due)]
              /\ budget' = [budget EXCEPT !.deadlines = @ + Passed(due), !.blocked = @ + Passed(due)]
              /\ UNCHANGED <<q, pending_maintenance_, row_policy_>>
           \/ /\ ~waking
              /\ ScheduleMaintenance(due, window, closed, pending_')
              /\ budget' = [budget EXCEPT !.deadlines = @ + Passed(due)]
              /\ phase' = FirstBus
        /\ UNCHANGED <<cfg, buffered_writes_, banks_, rfm_, write_mode_,
                       next_sequence, golden, answered, fatal>>

(***************************************************************************)
(* The second half of tick(): what to issue.                               *)
(***************************************************************************)
AnyBusy == \E b \in Banks : Busy(banks_[b])

\* state_ok: the automatic low power state counts as the configured mode.
State(b, owner, hit) ==
    [lpddr |-> Lpddr, bank |-> banks_[b], owner |-> owner, row_hit |-> hit,
     any_busy |-> AnyBusy, wck_ready |-> wck.window = "ready", retrain |-> wck.retrain,
     down |-> power.down \/ (power.active /\ cfg.low_power # "SelfRefresh"),
     self |-> power.self \/ (power.active /\ cfg.low_power = "SelfRefresh")]

Partner(b) == IF b % 2 = 0 THEN (IF b + 1 \in Banks THEN b + 1 ELSE b) ELSE b - 1

\* timing_ok, but for the distances in time
Ready(cmd, b, s) ==
    /\ Legal(cmd, s)
    /\ cmd = "ACT1" => \A o \in Banks : ~banks_[o].activating
    /\ cmd = "REFDB" => ~Busy(banks_[Partner(b)])

\* can_accept_command and can_accept_data
PhyAccepts(cmd) ==
    Behavioral =>
        /\ \/ phy.state = "Ready"
           \/ phy.state = "LowPower" /\ cmd \in ExitCommands
           \/ phy.state = "Retrain" /\ cmd = "WCKTRAIN"
        /\ cmd \in {"RD", "RDA"} => Len(phy.reads) < cfg.fifo
        /\ cmd \in {"WR", "WRA"} => Len(phy.writes) < cfg.fifo

\* next_command for a read or write
NextCommand(e) ==
    LET bank == banks_[e.sh.bank]
    IN  CASE bank.row = e.sh.row /\ Lpddr /\ wck.window # "ready" ->
                IF wck.window = "sync" THEN None ELSE IF e.sh.type = "R" THEN "CASRD" ELSE "CASWR"
          [] bank.row = e.sh.row /\ ~(Lpddr /\ wck.window # "ready") ->
                IF e.sh.type = "R" THEN ReadCommandFor(cfg.policy) ELSE WriteCommandFor(cfg.policy)
          [] bank.row \notin {e.sh.row, NoRow} -> "PREPB"
          [] bank.row = NoRow /\ bank.activating -> IF e.first THEN "ACT2" ELSE None
          [] bank.row = NoRow /\ ~bank.activating ->
                IF ~Lpddr THEN "ACT" ELSE IF e.first THEN "ACT2" ELSE "ACT1"

\* next_command for a maintenance request: close first what is open.  The
\* banks of a REFDB may still recover while another one is open.
NextMaintenance(m) ==
    CASE m.cmd \in {"REFAB", "RFMAB"} /\ AnyBusy -> {"PREAB"}
      [] m.cmd \in PerBankRefresh /\ Busy(banks_[m.bank]) -> {"PREPB"}
      [] m.cmd = "REFDB" /\ ~Busy(banks_[m.bank]) /\ AnyBusy -> {"PREAB", "REFDB"}
      [] OTHER -> {m.cmd}

BusMatches(cmd, bus) ==
    bus = "unified" \/ (cmd \in ColumnCommands <=> bus = "column")

\* Variant: a precharge may close the bank of an active request.
NeverClosesActive(cmd, b) == FALSE

\* would_close_active, for a command from another queue than active
WouldCloseActive(cmd, b) ==
    \/ cmd \in AllBankCommands /\ q.active # <<>>
    \/ cmd \in {"PREPB"} \union PerBankRefresh /\ ActiveCount(b) > 0

\* candidate_eligible
Eligible(e, cmd, bus, buf) ==
    /\ ~(Behavioral /\ e.sh.type = "R" /\ cmd \in DataCommands /\ UnresolvedWrite(e.sh))
    /\ ~(e.sh.type = "W" /\ UnresolvedRead(e.sh, e.seq))
    /\ BusMatches(cmd, bus)
    /\ buf = "active" \/ ~WouldCloseActive(cmd, e.sh.bank)

EntryReady(e, cmd) ==
    Ready(cmd, e.sh.bank, State(e.sh.bank, e.first, banks_[e.sh.bank].row = e.sh.row))

Pick(buf, i) == [buf |-> buf, i |-> i, cmd |-> NextCommand(q[buf][i]), bank |-> q[buf][i].sh.bank]

SameKey(x, y) == x.cmd = y.cmd /\ x.bank = y.bank

\* pick_best_ready_from: the picks some timing allows.  FRFCFS takes the
\* oldest ready request, FCFS the oldest one if it is ready.  Requests of the
\* same arrival go by their place in the queue.
Picks(buf, bus) ==
    LET all  == {p \in {Pick(buf, i) : i \in DOMAIN q[buf]} :
                    p.cmd # None /\ Eligible(q[buf][p.i], p.cmd, bus, buf)}
        may(p)       == EntryReady(q[buf][p.i], p.cmd)
        before(o, p) == o.i < p.i /\ q[buf][o.i].seq < q[buf][p.i].seq
    IN  {p \in all :
            /\ may(p) /\ PhyAccepts(p.cmd)
            /\ \A o \in all : before(o, p) =>
                   IF cfg.sched = "FCFS" THEN may(o) /\ ~PhyAccepts(o.cmd)
                   ELSE ~(may(o) /\ PhyAccepts(o.cmd) /\ SameKey(o, p))}

\* A lower choice is made only if none of these picks was ready.
Below(picks, higher) == {p \in picks : \A h \in higher : ~SameKey(p, h)}

\* Row commands of active requests are looked for only on a unified bus.
ActivePicks(bus) == IF bus = "row" THEN {} ELSE Picks("active", bus)

\* set_write_mode
WriteModeNow ==
    IF write_mode_ THEN ~(Len(q.write) < cfg.low /\ q.read # <<>>)
    ELSE Len(q.write) > cfg.high \/ q.read = <<>>

ReadDependency == \E e \in Range(q.write) : UnresolvedRead(e.sh, e.seq)

\* pick_rw_if
RwPicks(bus) ==
    IF ~WriteModeNow THEN Picks("read", bus)
    ELSE Picks("write", bus)
         \union (IF ReadDependency THEN Below(Picks("read", bus), Picks("write", bus)) ELSE {})

Satisfied(m) == m.cmd = "PREPB" /\ ~Busy(banks_[m.bank])

\* pick_priority_if first retires precharges that something else did.
PriorityRest ==
    LET p  == q.priority
        ks == {k \in 0 .. Len(p) : \A j \in 1 .. k : Satisfied(p[j])}
    IN  SubSeq(p, (CHOOSE k \in ks : \A j \in ks : j <= k) + 1, Len(p))

RetiredBanks == {q.priority[j].bank : j \in 1 .. (Len(q.priority) - Len(PriorityRest))}

\* pick_urgent_act2 throws: an active request waits for its ACT2 but the
\* deadline of its bank has passed, which a bank without an ACT1 has as 0.
Act2Missed == Lpddr /\ \E e \in Range(q.active) : NextCommand(e) = "ACT2" /\ ~banks_[e.sh.bank].activating

(***************************************************************************)
(* issue                                                                   *)
(***************************************************************************)
\* RfmManager::on_activate, on_rfmpb, on_rfmab.  One flag stands for all
\* banks when RFM is for the whole rank.
RfmDue(b) == IF cfg.rfm_all THEN rfm_[0].due ELSE rfm_[b].due

RfmTriggered(cmd, b) ==
    /\ cmd \in OpeningCommands /\ cfg.rfm > 0
    /\ rfm_[b].count + 1 >= cfg.rfm /\ ~RfmDue(b)

RfmCommand(cmd, b) ==
    IF RfmTriggered(cmd, b) THEN <<[cmd |-> IF cfg.rfm_all THEN "RFMAB" ELSE "RFMPB", bank |-> b]>> ELSE <<>>

RfmAfter(cmd, b) ==
    LET less(n) == IF n > cfg.rfm THEN n - cfg.rfm ELSE 0
    IN  [o \in Banks |->
            CASE cmd = "RFMAB" \/ (cmd = "RFMPB" /\ o = b) -> [count |-> less(rfm_[o].count), due |-> FALSE]
              [] cmd \in OpeningCommands /\ cfg.rfm > 0 ->
                    [count |-> rfm_[o].count + (IF o = b THEN 1 ELSE 0),
                     due |-> rfm_[o].due \/ (RfmTriggered(cmd, b) /\ o = (IF cfg.rfm_all THEN 0 ELSE b))]
              [] OTHER -> rfm_[o]]

\* RowPolicyEngine::on_issue
RowPolicyAfter(rp, cmd, b) ==
    IF cfg.policy # "ClosedCap" THEN rp
    ELSE [o \in Banks |->
            IF cmd = "PREAB" \/ (o = b /\ cmd \in ClosingCommands) THEN [accesses |-> 0, precharge |-> FALSE]
            ELSE IF o = b /\ cmd \in {"RD", "WR"} THEN [rp[o] EXCEPT !.accesses = @ + 1]
            ELSE rp[o]]

PowerAfter(cmd) ==
    LET e == IF power.exit = cmd THEN None ELSE power.exit
    IN  CASE cmd = "PDE"    -> [power EXCEPT !.down = TRUE, !.active = TRUE]
          [] cmd = "SREFEN" -> [power EXCEPT !.self = TRUE, !.active = TRUE]
          [] cmd = "PDX"    -> [power EXCEPT !.down = FALSE, !.exit = e, !.active = power.self]
          [] cmd = "SREFEX" -> [power EXCEPT !.self = FALSE, !.exit = e, !.active = power.down]
          [] OTHER          -> power

\* accept_command
PhyStateAfter(cmd) ==
    CASE ~Behavioral               -> phy.state
      [] Behavioral /\ cmd \in {"PDE", "SREFEN"} -> "LowPower"
      [] Behavioral /\ cmd = "DVFS" -> "Retrain"
      [] Behavioral /\ cmd \in ExitCommands \union {"WCKTRAIN"} -> "Ready"
      [] OTHER                     -> phy.state

WckAfter(cmd) ==
    [window  |-> IF cmd \in CasCommands \union {"WCKTRAIN"} THEN "sync" ELSE wck.window,
     retrain |-> IF cmd = "DVFS" THEN TRUE ELSE IF cmd = "WCKTRAIN" THEN FALSE ELSE wck.retrain]

\* Variant: the request is copied to the active queue and not erased from its own.
PromotedCopied(q0, buf, i, e) == [q0 EXCEPT !.active = Append(@, e)]

\* RequestQueues::promote: the active queue holds one request for each bank.
Promoted(q0, buf, i, e) ==
    IF Len(q0.active) < BankCount
    THEN [q0 EXCEPT !.active = Append(@, e), ![buf] = RemoveAt(@, i)]
    ELSE [q0 EXCEPT ![buf][i] = e]

IssuedEntry(e, cmd, by) ==
    [seq |-> e.seq, sh |-> e.sh, want |-> e.want, via |-> IF Behavioral THEN "phy" ELSE "direct",
     ap |-> cmd \in {"RDA", "WRA"}, data |-> by]

\* Variant: the payload of the queued write is sent, not what was merged into it.
WritePayloadUnmerged(e) == Payload(e.sh, e.seq)

\* A write sends what was merged into it.
WritePayload(e) == buffered_writes_[e.sh.addr].by

\* retire_or_advance after a data command
RetireData(q0, buf, i, e, cmd) ==
    LET by == IF e.sh.type = "W" THEN WritePayload(e) ELSE <<>>
        p  == IssuedEntry(e, cmd, by)
    IN  /\ q' = [q0 EXCEPT ![buf] = RemoveAt(@, i)]
        /\ pending_' = Append(pending_, p)
        /\ buffered_writes_' = IF e.sh.type = "R" THEN buffered_writes_
                               ELSE [a \in DOMAIN buffered_writes_ \ {e.sh.addr} |-> buffered_writes_[a]]
        /\ image' = IF e.sh.type = "W" /\ ~Behavioral THEN Committed(by) ELSE image
        /\ phy' = IF ~Behavioral THEN phy
                  ELSE IF e.sh.type = "R" THEN [phy EXCEPT !.reads = Append(@, p)]
                  ELSE [phy EXCEPT !.writes = Append(@, p)]

\* retire_or_advance after any other command of a read or write
Advance(q0, buf, i, e, cmd) ==
    LET e1 == [e EXCEPT !.first = @ \/ cmd = "ACT1"]
    IN  /\ q' = IF cmd \in OpeningCommands /\ buf # "active" THEN Promoted(q0, buf, i, e1)
                ELSE [q0 EXCEPT ![buf][i] = e1]
        /\ UNCHANGED <<pending_, buffered_writes_, image, phy>>

\* What a command does beside the request it belongs to.
Effects(cmd, b, row, rp) ==
    /\ banks_' = Executed(banks_, cmd, b, row)
    /\ rfm_' = RfmAfter(cmd, b)
    /\ pending_maintenance_' = pending_maintenance_ \o RfmCommand(cmd, b)
    /\ row_policy_' = RowPolicyAfter(rp, cmd, b)
    /\ power' = PowerAfter(cmd)
    /\ wck' = WckAfter(cmd)

\* try_upgrade_row_policy_command
Upgrades(p) ==
    IF cfg.policy = "ClosedCap" /\ p.cmd \in {"RD", "WR"} /\ row_policy_[p.bank].accesses >= cfg.cap
    THEN {p.cmd, IF p.cmd = "RD" THEN "RDA" ELSE "WRA"} ELSE {p.cmd}

IssueEntry(q0, rp, p) ==
    LET e == q[p.buf][p.i]
    IN  \E cmd \in Upgrades(p) :
            /\ Effects(cmd, e.sh.bank, e.sh.row, rp)
            /\ IF cmd \in DataCommands THEN RetireData(q0, p.buf, p.i, e, cmd)
               ELSE Advance(q0, p.buf, p.i, e, cmd)

IssueMaintenance(q0, rp, bus) ==
    LET m == Head(q0.priority)
    IN  \E cmd \in NextMaintenance(m) :
            /\ BusMatches(cmd, bus) /\ ~WouldCloseActive(cmd, m.bank)
            /\ Ready(cmd, m.bank, State(m.bank, FALSE, FALSE)) /\ PhyAccepts(cmd)
            /\ Effects(cmd, m.bank, NoRow, rp)
            /\ q' = IF cmd = m.cmd THEN [q0 EXCEPT !.priority = Tail(@)] ELSE q0
            /\ phy' = [phy EXCEPT !.state = PhyStateAfter(cmd)]
            /\ UNCHANGED <<pending_, buffered_writes_, image>>

NoIssue(q0, rp) ==
    /\ q' = q0 /\ row_policy_' = rp
    /\ UNCHANGED <<pending_maintenance_, pending_, buffered_writes_, image, banks_, phy, wck, rfm_, power>>

\* After the last bus, automatic low power may begin.
AfterBus(bus) == IF bus = "column" THEN "row" ELSE IF cfg.low_power # "Off" THEN "end" ELSE "idle"

Choosing(bus) ==
    /\ phase = bus /\ ~fatal
    /\ phase' = AfterBus(bus)
    /\ fatal' = (bus # "column" /\ Act2Missed)
    /\ UNCHANGED <<cfg, responses_, refresh_, histVars>>

\* choose() and issue() for an active request
IssueActive(bus) ==
    /\ Choosing(bus)
    /\ \E p \in ActivePicks(bus) : IssueEntry(q, row_policy_, p)
    /\ UNCHANGED write_mode_

\* No active request is ready: the head of the priority queue, if there is one.
Rest        == [q EXCEPT !.priority = PriorityRest]
RestPolicy  == [b \in Banks |-> IF b \in RetiredBanks /\ cfg.policy = "ClosedCap"
                                THEN [accesses |-> 0, precharge |-> FALSE] ELSE row_policy_[b]]

IssuePriority(bus) ==
    /\ Choosing(bus) /\ PriorityRest # <<>>
    /\ IssueMaintenance(Rest, RestPolicy, bus)
    /\ UNCHANGED write_mode_

\* Neither: a read or a write, when the priority queue is empty.
IssueReadWrite(bus) ==
    /\ Choosing(bus) /\ PriorityRest = <<>>
    /\ write_mode_' = WriteModeNow
    /\ \E p \in Below(RwPicks(bus), ActivePicks(bus)) : IssueEntry(Rest, RestPolicy, p)

\* Nothing that could be issued is ready.
IssueNothing(bus) ==
    /\ Choosing(bus)
    /\ write_mode_' = IF PriorityRest = <<>> THEN WriteModeNow ELSE write_mode_
    /\ NoIssue(Rest, RestPolicy)

Done == /\ ~OrdinaryWork /\ q.priority = <<>> /\ pending_maintenance_ = <<>> /\ pending_ = <<>>
        /\ phy.reads = <<>> /\ phy.writes = <<>> /\ phy.done = {}

TickEnds ==
    /\ phase = "end" /\ phase' = "idle"
    /\ \E enter \in {p \in BOOLEAN : p => Done} :
           power' = IF enter THEN [power EXCEPT !.active = TRUE] ELSE power
    /\ UNCHANGED <<cfg, queueVars, dramVars, write_mode_, refresh_, histVars, fatal>>

Buses == {"column", "row", "unified"}

Issue == \E bus \in Buses : IssueActive(bus) \/ IssuePriority(bus) \/ IssueReadWrite(bus)

Tick == TickBegins \/ Issue \/ (\E bus \in Buses : IssueNothing(bus)) \/ TickEnds

Host == \/ \E x \in cfg.shapes : EnqueueRead(x) \/ EnqueueWrite(x) \/ EnqueueRejected(x)
        \/ \E cmd \in cfg.commands : EnqueueMaintenance(cmd)
        \/ PopResponse

Next == Host \/ Tick

Spec == Init /\ [][Next]_vars

(***************************************************************************)
(* Properties                                                              *)
(***************************************************************************)
\* Type invariant.  No queue, FIFO or response buffer grows over its limit.
TypeOK ==
    /\ cfg \in Configs /\ phase \in Buses \union {"idle", "end"}
    /\ banks_ \in [Banks -> Bank]
    /\ next_sequence \in 1 .. (cfg.requests + 1)
    /\ image \in [Bytes -> 0 .. cfg.requests]
    /\ Len(q.active) <= BankCount /\ Len(q.read) <= cfg.reads /\ Len(q.write) <= cfg.writes
    /\ Len(q.priority) <= cfg.priority
    /\ cfg.responses > 0 => Len(responses_) <= cfg.responses
    /\ Behavioral => Len(phy.reads) <= cfg.fifo /\ Len(phy.writes) <= cfg.fifo

\* Every read returns, for each byte, the last write of it that was accepted
\* before the read.
ReadsSeeLatestWrite == \A n \in DOMAIN responses_ : responses_[n].data = responses_[n].want

\* When nothing is left to do the image holds every accepted write.
ImageConverges == Done => image = golden

SeqsIn(s) == [n \in DOMAIN s |-> s[n].seq]

\* Every accepted request is in exactly one place until its response is taken.
ExactlyOneResponse ==
    LET all == SeqsIn(q.active) \o SeqsIn(q.read) \o SeqsIn(q.write) \o SeqsIn(pending_) \o SeqsIn(responses_)
    IN  /\ IsInjective(all)
        /\ Range(all) \intersect answered = {}
        /\ Range(all) \union answered = 1 .. (next_sequence - 1)

\* The bank of an active request is opening or open for it.
ActiveOwnsBank ==
    \A e \in Range(q.active) :
        \/ banks_[e.sh.bank].row = e.sh.row
        \/ banks_[e.sh.bank].activating /\ e.first

\* No request is left waiting for an ACT2 after the deadline of its ACT1
\* (pick_urgent_act2 throws then), and no queue overflows.
NoFatal == TypeOK /\ ~fatal

\* However long reads and writes keep the controller busy, no more refreshes
\* are owed than the postpone limit and the deadlines that passed in ticks
\* blocked by the exit from low power, of which several may be counted at once.
RefreshDebtBounded == refresh_.credit <= cfg.postpone + budget.blocked
=============================================================================
