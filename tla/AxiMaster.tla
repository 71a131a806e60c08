----------------------------- MODULE AxiMaster -----------------------------
(***************************************************************************)
(* The AXI masters of the two integrations and the Fabric of AouBackend,   *)
(* composed with the bridge.                                               *)
(*                                                                         *)
(*   vortex  gem5's TLM target: one pending request, slots transactions,   *)
(*           bursts of a transaction one after the other under one ID      *)
(*   coral   the NPU's adapter: one burst for a request, answers returned  *)
(*           in the order of the native ID                                 *)
(*   free    any AXI master on the bridge itself, which chooses IDs and    *)
(*           QoS, and may reset the bridge                                 *)
(*                                                                         *)
(* cfg.work is the sequence of requests of the device.  The stall patterns *)
(* of rready and bready are any pattern; a delay of three cycles is        *)
(* cfg.lead.                                                               *)
(***************************************************************************)
EXTENDS AxiBridge, TLC

VARIABLES
    m,              \* the master
    drv,            \* the valid and ready signals it drives
    writes, reads,  \* Fabric: beats left, in AW order and by ID
    resets          \* resets so far

masterVars == <<m, drv, writes, reads, resets>>
vars == <<bridgeVars, masterVars>>

Quiet == [aw |-> FALSE, w |-> FALSE, ar |-> FALSE, rready |-> FALSE, bready |-> FALSE]
Idle  == [active |-> <<>>, awq |-> <<>>, wq |-> <<>>, arq |-> <<>>, responses |-> <<>>, nextId |-> 1,
          pending |-> <<>>, responding |-> <<>>, order |-> <<>>, serial |-> 0, done |-> <<>>]

Init == /\ BridgeInit
        /\ m = Idle /\ drv = Quiet /\ writes = <<>> /\ reads = <<>> /\ resets = 0

Work(serial) == cfg.work[serial]

(***************************************************************************)
(* Transactions.  s is the state of the master on its way through tick.    *)
(***************************************************************************)
\* A burst in a channel queue; wait is how many edges until it may be shown.
Burst(id, qos, tag, w) ==
    [id |-> id, qos |-> qos, tag |-> tag, beats |-> w.segs[tag[2]], beat |-> 1, wait |-> 0,
     bad |-> {beat \in 1 .. w.segs[tag[2]] : <<tag[2], beat>> \in w.bad}]

\* enqueueSegment and the end of submit.  With stalls an odd ID delays the
\* address of a write, an even one its data.
Queue(s, burst, write) ==
    LET lead(parity) == IF cfg.stalls /\ burst.id % 2 = parity THEN cfg.lead ELSE 0
    IN  IF write THEN [s EXCEPT !.awq = Append(@, [burst EXCEPT !.wait = lead(1)]),
                                !.wq  = Append(@, [burst EXCEPT !.wait = lead(0)])]
        ELSE [s EXCEPT !.arq = Append(@, burst)]

\* AouBackend spreads IDs over the planes.
PlaneOf(id) == id % cfg.planes

enqueueSegment(s, id) ==
    LET t == s.active[id]
    IN  Queue([s EXCEPT !.active[id].rbeat = 0, !.active[id].wbeat = 0],
              Burst(id, PlaneOf(id), <<t.serial, t.segment>>, Work(t.serial)), Work(t.serial).write)

\* A transaction is over on AXI: vortex queues the response, coral marks it.
finishSegment(s, id) ==
    LET t == s.active[id]
    IN  IF t.segment < Len(Work(t.serial).segs)
        THEN enqueueSegment([s EXCEPT !.active[id].segment = @ + 1], id)
        ELSE IF cfg.master = "vortex" THEN [s EXCEPT !.responses = Append(@, id)]
        ELSE [s EXCEPT !.active[id].ready = TRUE]

After(id) == IF id = cfg.maxId THEN 1 ELSE id + 1

\* Variant: the next ID is taken whether or not it is in use.
NextInOrder(s) == s.nextId

\* The first ID from nextId that is not in use.
NextFree(s) ==
    LET from == [k \in 1 .. cfg.maxId |-> ((s.nextId + k - 2) % cfg.maxId) + 1]
    IN  Head(SelectSeq(from, LAMBDA id : id \notin DOMAIN s.active))

\* The part of admit and submit that enters a transaction.
Enter(s, serial) ==
    LET id == NextFree(s)
        w  == Work(serial)
        t  == [serial |-> serial, segment |-> 1, rbeat |-> 0, wbeat |-> 0, ready |-> FALSE, err |-> ~w.valid]
        s1 == [s EXCEPT !.active = (id :> t) @@ @, !.nextId = After(id)]
    IN  IF w.valid THEN enqueueSegment(s1, id) ELSE [s1 EXCEPT !.responses = Append(@, id)]

admit(s) ==
    IF s.pending = <<>> \/ Cardinality(DOMAIN s.active) >= cfg.slots \/ Head(s.pending).due > 0 THEN s
    ELSE Enter([s EXCEPT !.pending = <<>>], Head(s.pending).serial)

respond(s) ==
    IF s.responding # <<>> \/ s.responses = <<>> THEN s
    ELSE [s EXCEPT !.responding = <<Head(s.responses)>>, !.responses = Tail(@)]

(***************************************************************************)
(* tick: what the edge took from the master and gave to it.                *)
(***************************************************************************)
Ticks(q) == [k \in DOMAIN q |-> [q[k] EXCEPT !.wait = IF @ > 0 THEN @ - 1 ELSE 0]]

Sent(q, taken) == IF taken = <<>> THEN q ELSE Tail(q)

SentBeat(q, taken) ==
    IF taken = <<>> THEN q
    ELSE IF Head(q).beat = Head(q).beats THEN Tail(q)
    ELSE <<[Head(q) EXCEPT !.beat = @ + 1]>> \o Tail(q)

OnW(s, taken) ==
    IF taken = <<>> \/ cfg.master = "free" THEN s ELSE [s EXCEPT !.active[Head(taken).id].wbeat = @ + 1]

\* Variant: the status is that of the last beat.
LastStatus(so_far, err) == err

\* An error of any beat is an error of the transaction.
Status(so_far, err) == so_far \/ err

OnR(s, message) ==
    LET id == message.id
        s1 == [s EXCEPT !.active[id].rbeat = @ + 1, !.active[id].err = Status(@, message.err)]
    IN  IF message.last THEN finishSegment(s1, id) ELSE s1

OnB(s, message) == finishSegment([s EXCEPT !.active[message.id].err = Status(@, message.err)], message.id)

Apply(Op(_, _), s, taken) == IF taken = <<>> \/ cfg.master = "free" THEN s ELSE Op(s, Head(taken))

\* active.at and the assertions of tick, for a response.
Expected(s, message) ==
    /\ message.id \in DOMAIN s.active
    /\ LET t     == s.active[message.id]
           w     == Work(t.serial)
           beats == w.segs[t.segment]
       IN  /\ w.write = (message.kind = "B")
           /\ message.kind = "R" => message.last = (t.rbeat + 1 = beats)
           /\ cfg.master = "coral" => ~t.ready /\ (message.kind = "B" => t.wbeat = beats)

Master(in) ==
    LET s0 == [m EXCEPT !.awq = Sent(Ticks(@), AwTaken(in)), !.arq = Sent(Ticks(@), ArTaken(in)),
                        !.wq = SentBeat(Ticks(@), WTaken(in)),
                        !.pending = [k \in DOMAIN @ |-> [@[k] EXCEPT !.due = IF @ > 0 THEN @ - 1 ELSE 0]]]
        s1 == Apply(OnR, OnW(s0, WTaken(in)), RTaken(in))
        s2 == Apply(OnB, s1, BTaken(in))
    IN  IF cfg.master = "vortex" THEN admit(s2) ELSE s2

Shown(q) == q # <<>> /\ Head(q).wait = 0

\* drive, and respond after it.
Drives(s, rready, bready) ==
    /\ drv' = [aw |-> Shown(s.awq), w |-> Shown(s.wq), ar |-> Shown(s.arq), rready |-> rready, bready |-> bready]
    /\ m' = respond(s)

(***************************************************************************)
(* Fabric: comb gives the bridge what the master drives; tick keeps the    *)
(* cursors.                                                                *)
(***************************************************************************)
Offer(on, q) == IF on THEN <<Head(q)>> ELSE <<>>

Beat(q) == [k \in DOMAIN q |-> [tag |-> q[k].tag, beat |-> q[k].beat, last |-> q[k].beat = q[k].beats, id |-> q[k].id]]

comb ==
    LET fabric == cfg.master # "free"
    IN  [aw |-> Offer(drv.aw /\ (fabric => Len(writes) < cfg.cursors), m.awq),
         w  |-> Beat(Offer(drv.w /\ (fabric => writes # <<>>), m.wq)),
         ar |-> Offer(drv.ar, m.arq), rready |-> drv.rready, bready |-> drv.bready]

FabricTick(in) ==
    IF cfg.master = "free" THEN UNCHANGED <<writes, reads>>
    ELSE LET w1 == writes \o [k \in DOMAIN AwTaken(in) |-> AwTaken(in)[k].beats]
             rd == [k \in DOMAIN RTaken(in) |-> RTaken(in)[k].id]
             r1 == IF ArTaken(in) = <<>> THEN reads ELSE (Head(ArTaken(in)).id :> Head(ArTaken(in)).beats) @@ reads
         IN  /\ writes' = IF WTaken(in) = <<>> THEN w1
                          ELSE IF Head(w1) = 1 THEN Tail(w1) ELSE [w1 EXCEPT ![1] = @ - 1]
             /\ reads' = IF rd = <<>> \/ Head(rd) \notin DOMAIN r1 THEN r1
                         ELSE IF r1[Head(rd)] = 1 THEN Restrict(r1, DOMAIN r1 \ {Head(rd)})
                         ELSE [r1 EXCEPT ![Head(rd)] = @ - 1]

\* The assertions of Fabric::tick and of the masters.
MasterFault(in) ==
    /\ cfg.master # "free"
    /\ \/ \E k \in DOMAIN WTaken(in) : writes # <<>> /\ WTaken(in)[k].last # (Head(writes) = 1)
       \/ \E k \in DOMAIN ArTaken(in) : ArTaken(in)[k].id \in DOMAIN reads
       \/ \E k \in DOMAIN RTaken(in) :
              LET x == RTaken(in)[k] IN x.id \notin DOMAIN reads \/ x.last # (reads[x.id] = 1)
       \/ \E x \in Range(RTaken(in) \o BTaken(in)) : ~Expected(m, x)

Readies == IF cfg.stalls THEN BOOLEAN ELSE {TRUE}

\* A rising edge.  A failed assertion ends the program.
EdgeWith(rready, bready) ==
    /\ ~fatal
    /\ BridgeEdge(comb) /\ FabricTick(comb)
    /\ fatal' = (RequestFault(comb) \/ MasterFault(comb))
    /\ IF MasterFault(comb) THEN UNCHANGED <<m, drv>> ELSE Drives(Master(comb), rready, bready)
    /\ UNCHANGED resets

Edge == \E rready, bready \in Readies : EdgeWith(rready, bready)

(***************************************************************************)
(* The device behind the master, between edges.                            *)
(***************************************************************************)
Fresh == m.serial < Len(cfg.work) /\ ~fatal

\* transport, BEGIN_REQ.
BeginReq ==
    /\ cfg.master = "vortex" /\ Fresh /\ m.pending = <<>>
    /\ \E due \in cfg.due : m' = [m EXCEPT !.serial = @ + 1, !.pending = <<[serial |-> m.serial + 1, due |-> due]>>]
    /\ UNCHANGED <<bridgeVars, drv, writes, reads, resets>>

Complete(s, id) ==
    [s EXCEPT !.active = Restrict(@, DOMAIN @ \ {id}),
              !.done = Append(@, [serial |-> s.active[id].serial, err |-> s.active[id].err])]

\* transport, END_RESP.
EndResp ==
    /\ cfg.master = "vortex" /\ ~fatal /\ m.responding # <<>>
    /\ m' = Complete([m EXCEPT !.responding = <<>>], Head(m.responding))
    /\ UNCHANGED <<bridgeVars, drv, writes, reads, resets>>

Native(id) == [write |-> Work(m.active[id].serial).write, native |-> Work(m.active[id].serial).native]

\* Variant: whatever is ready is returned.
RetiresReady(k) == m.active[m.order[k]].ready

\* What is ready and heads the queue of its direction and native ID.
RetiresHead(k) ==
    /\ m.active[m.order[k]].ready
    /\ \A j \in 1 .. (k - 1) : Native(m.order[j]) = Native(m.order[k]) => m.active[m.order[j]].ready

\* nativeTick: retire everything that may be, then the device runs and may
\* submit one request.
retire ==
    LET ids == SelectSeq([k \in DOMAIN m.order |-> IF RetiresHead(k) THEN m.order[k] ELSE 0], LAMBDA id : id # 0)
    IN  FoldLeft(Complete, [m EXCEPT !.order = SelectSeq(@, LAMBDA id : ~Contains(ids, id))], ids)

submit(s) ==
    LET id == NextFree(s) IN Enter([s EXCEPT !.serial = @ + 1, !.order = Append(@, id)], s.serial + 1)

NativeTick ==
    /\ cfg.master = "coral" /\ ~fatal
    /\ \/ m' = retire
       \/ Fresh /\ Cardinality(DOMAIN retire.active) < cfg.slots /\ m' = submit(retire)
    /\ UNCHANGED <<bridgeVars, drv, writes, reads, resets>>

\* A master of its own making.
FreeSubmit ==
    /\ cfg.master = "free" /\ Fresh
    /\ LET w == Work(m.serial + 1)
       IN  m' = [Queue(m, Burst(w.id, w.qos, <<m.serial + 1, 1>>, w), w.write) EXCEPT !.serial = @ + 1]
    /\ UNCHANGED <<bridgeVars, drv, writes, reads, resets>>

\* rst_n falls: the master, the bridge and the link start again.
Reset ==
    /\ cfg.master = "free" /\ ~fatal /\ resets < cfg.resets
    /\ ResetBridge
    /\ m' = [Idle EXCEPT !.serial = m.serial] /\ drv' = Quiet /\ resets' = resets + 1
    /\ UNCHANGED <<writes, reads>>

Outside == Between /\ ~fatal /\ UNCHANGED masterVars

Next == Edge \/ Outside \/ BeginReq \/ EndResp \/ NativeTick \/ FreeSubmit \/ Reset

\* The clock runs, both ready signals are up together again and again, the
\* link and the target go on, the device ends its responses.
Fairness ==
    /\ WF_vars(EdgeWith(TRUE, TRUE)) /\ WF_vars(Outside)
    /\ WF_vars(EndResp) /\ WF_vars(NativeTick)

Spec == Init /\ [][Next]_vars /\ Fairness

(***************************************************************************)
(* Properties.                                                             *)
(***************************************************************************)
\* Type invariant: every queue of the bridge within its depth, IDs in range.
TypeOK ==
    /\ {aw_ready, w_ready, ar_ready, violations, misordered, fatal} \subseteq BOOLEAN
    /\ \A rp \in Planes : /\ Len(sig_wreq_fifo[rp]) <= cfg.requests /\ Len(sig_rreq_fifo[rp]) <= cfg.requests
                          /\ Len(sig_wdata_fifo[rp]) <= cfg.data
                          /\ Len(sig_rdata_fifo[rp]) <= cfg.depth /\ Len(sig_wresp_fifo[rp]) <= cfg.depth
    /\ Len(sig_write_route_fifo) <= cfg.routes /\ route.rp \in Planes
    /\ \A q \in {rx, holding, r, b} : Len(q) <= 1
    /\ m.nextId \in 1 .. cfg.maxId /\ DOMAIN m.active \subseteq Ids /\ m.serial \in 0 .. Len(cfg.work)

\* No assertion of Axi2Flit, Fabric or a master fails: ready of an edge is a
\* reservation that what is written at the next one has room, WLAST and RLAST
\* agree with the addresses, and every response has its transaction.
NoAssertFails == TypeOK /\ ~fatal

\* When an answer comes before an older one of its ID, RpOrderGuard has
\* reported the ID.  IDs spread by AouBackend are never reported and never
\* answered out of order.
OrderKept == /\ misordered => violations
             /\ cfg.master # "free" => ~violations /\ ~misordered

\* W has no ID: w_channel_thread gives data to the plane of its own address,
\* so that on every plane the data is that of the write requests, in order.
WriteDataFollowsAddress ==
    \A rp \in Planes :
        LET lacking == remote[rp].wreq \o sig_wreq_fifo[rp]
            BeatsOf(q) == [k \in 1 .. (q.beats - q.got) |-> [tag |-> q.tag, beat |-> q.got + k]]
        IN  IsPrefix(remote[rp].wdata \o sig_wdata_fifo[rp],
                     FlattenSeq([k \in DOMAIN lacking |-> BeatsOf(lacking[k])]))

\* IDs are used again by the next burst and by the next transaction: a response
\* anywhere on the way belongs to the burst its ID now executes, and none of
\* its beats is there twice or already taken.
ResponsesBelong ==
    cfg.master # "free" =>
        /\ \A x \in Range(InFlight) :
              /\ x.id \in DOMAIN m.active
              /\ LET t == m.active[x.id]
                 IN  /\ x.tag = <<t.serial, t.segment>>
                     /\ Work(t.serial).write = (x.kind = "B")
                     /\ x.kind = "R" => x.beat > t.rbeat
        /\ Cardinality(Range(InFlight)) = Len(InFlight)

\* What the device is told of a request: once, and an error exactly if some
\* beat of some burst had one (or the request was not valid).
StatusFaithful ==
    \A k \in DOMAIN m.done :
        LET w == Work(m.done[k].serial)
        IN  /\ m.done[k].err = (~w.valid \/ w.bad # {})
            /\ \A j \in DOMAIN m.done \ {k} : m.done[j].serial # m.done[k].serial

\* The NPU gets the answers of one direction and native ID in the order of the
\* requests, although their AXI IDs differ and complete in any order.
NativeOrder ==
    cfg.master = "coral" =>
        \A k \in DOMAIN m.done : \A j \in 1 .. (k - 1) :
            LET v == Work(m.done[j].serial)
                w == Work(m.done[k].serial)
            IN  v.write = w.write /\ v.native = w.native => m.done[j].serial < m.done[k].serial

Over == /\ DOMAIN m.active = {} /\ m.pending = <<>> /\ m.awq \o m.wq \o m.arq = <<>>
        /\ \A id \in Ids : issued.write[id] = <<>> /\ issued.read[id] = <<>>

\* Everything asked for is answered, whatever the stalls, the order of the
\* target and the back pressure of the unpacker.
CompletesAll == []<>Over
=============================================================================
