----------------------------- MODULE AxiBridge -----------------------------
(***************************************************************************)
(* The AXI side of the bridge: the five channel threads of Axi2Flit with   *)
(* their registered handshakes, write routing and order guard, and the     *)
(* receive path of UcieAouAdapter and FlitUnpacker.                        *)
(*                                                                         *)
(* All these threads run at the rising edge and see the signals and FIFOs  *)
(* as they were before it (an sc_fifo shows what is read or written only   *)
(* after the edge), so an edge is one step, a function of the inputs.  The *)
(* packer, the link and the target are between edges: the packer takes     *)
(* messages as credit allows (FlitStream), the target answers the requests *)
(* of one ID on one plane in order (AouTarget), within its credit          *)
(* (CreditLoop).  An optional value is a sequence of at most one.          *)
(***************************************************************************)
EXTENDS Integers, Sequences, FiniteSets, SequencesExt

CONSTANTS
    Configs,        \* the configurations looked at
    Ids             \* AXI IDs

VARIABLES
    cfg,                        \* depths and the workload, never changed
    aw_ready, w_ready, ar_ready,
    sig_wreq_fifo, sig_rreq_fifo, sig_wdata_fifo,       \* by plane, to the packer
    sig_write_route_fifo, route,
    guard, violations,          \* rd_order_guard_, wr_order_guard_
    fifo_rx,                    \* flits from the link
    rx,                         \* the flit that the adapter shows
    holding,                    \* messages and credits still to be routed
    sig_credit_update_fifo,     \* how many events are in it
    sig_rdata_fifo, sig_wresp_fifo,                     \* by plane, from the unpacker
    r, b, next_rp,              \* what the response channels show
    remote,                     \* the target, by plane
    fatal,                      \* a failed assertion or a fatal report
    issued,                     \* history: tags accepted and not answered, by ID
    misordered                  \* history: an answer overtook one of its ID

awVars  == <<aw_ready, w_ready, ar_ready, sig_wreq_fifo, sig_rreq_fifo, sig_wdata_fifo, sig_write_route_fifo, route>>
rxVars  == <<rx, holding, sig_credit_update_fifo, sig_rdata_fifo, sig_wresp_fifo, r, b, next_rp>>
histVars == <<guard, violations, issued, misordered>>
bridgeVars == <<cfg, awVars, rxVars, histVars, fifo_rx, remote, fatal>>

Planes == 0 .. (cfg.planes - 1)
NoRoute == [rp |-> 0, beats |-> 0]
Unbound == [rp |-> 0, outstanding |-> 0]

\* The reset state, and the state after reset_queues_and_order and the reset
\* of every thread.  The other end of the link is reset with the bridge.
Cleared(c) ==
    LET none == [rp \in 0 .. (c.planes - 1) |-> <<>>]
    IN  [ready |-> FALSE, fifo |-> none, routes |-> <<>>, route |-> NoRoute,
         guard |-> [write |-> [id \in Ids |-> Unbound], read |-> [id \in Ids |-> Unbound]],
         next |-> [r |-> 0, b |-> 0],
         remote |-> [rp \in 0 .. (c.planes - 1) |-> [rreq |-> <<>>, wreq |-> <<>>, wdata |-> <<>>]],
         issued |-> [write |-> [id \in Ids |-> <<>>], read |-> [id \in Ids |-> <<>>]]]

BridgeInit ==
    /\ cfg \in Configs
    /\ LET z == Cleared(cfg)
       IN  /\ aw_ready = z.ready /\ w_ready = z.ready /\ ar_ready = z.ready
           /\ sig_wreq_fifo = z.fifo /\ sig_rreq_fifo = z.fifo /\ sig_wdata_fifo = z.fifo
           /\ sig_write_route_fifo = z.routes /\ route = z.route /\ guard = z.guard /\ violations = FALSE
           /\ fifo_rx = <<>> /\ rx = <<>> /\ holding = <<>> /\ sig_credit_update_fifo = 0
           /\ sig_rdata_fifo = z.fifo /\ sig_wresp_fifo = z.fifo
           /\ r = <<>> /\ b = <<>> /\ next_rp = z.next /\ remote = z.remote
           /\ fatal = FALSE /\ issued = z.issued /\ misordered = FALSE

\* Variant: the routes of the writes before the reset are not dropped.
RoutesKept(z) == sig_write_route_fifo

\* The write routes after a reset.
RoutesReset(z) == z.routes

ResetBridge ==
    LET z == Cleared(cfg)
    IN  /\ aw_ready' = z.ready /\ w_ready' = z.ready /\ ar_ready' = z.ready
        /\ sig_wreq_fifo' = z.fifo /\ sig_rreq_fifo' = z.fifo /\ sig_wdata_fifo' = z.fifo
        /\ sig_write_route_fifo' = RoutesReset(z) /\ route' = z.route /\ guard' = z.guard /\ violations' = FALSE
        /\ fifo_rx' = <<>> /\ rx' = <<>> /\ holding' = <<>> /\ sig_credit_update_fifo' = 0
        /\ sig_rdata_fifo' = z.fifo /\ sig_wresp_fifo' = z.fifo
        /\ r' = <<>> /\ b' = <<>> /\ next_rp' = z.next /\ remote' = z.remote
        /\ issued' = z.issued /\ misordered' = FALSE
        /\ UNCHANGED <<cfg, fatal>>

(***************************************************************************)
(* aw_channel_thread, w_channel_thread, ar_channel_thread.  in holds what  *)
(* the master shows at this edge.                                          *)
(***************************************************************************)
AwTaken(in) == IF aw_ready THEN in.aw ELSE <<>>
WTaken(in)  == IF w_ready  THEN in.w  ELSE <<>>
ArTaken(in) == IF ar_ready THEN in.ar ELSE <<>>

map_qos_to_rp(a) == a.qos % cfg.planes

Request(a) == [id |-> a.id, rp |-> map_qos_to_rp(a), tag |-> a.tag, beats |-> a.beats, bad |-> a.bad, got |-> 0]

\* A request goes to the queue of its plane.
Routed(fifo, taken) ==
    [rp \in Planes |-> fifo[rp] \o SelectSeq([k \in DOMAIN taken |-> Request(taken[k])], LAMBDA m : m.rp = rp)]

\* Room for one more after what is written at this edge.
Room(before, after, depth) == Len(after) < depth

AddressChannels(in) ==
    LET aw == AwTaken(in)
    IN  /\ sig_wreq_fifo' = Routed(sig_wreq_fifo, aw)
        /\ sig_rreq_fifo' = Routed(sig_rreq_fifo, ArTaken(in))
        /\ aw_ready' = /\ Room(sig_write_route_fifo, sig_write_route_fifo \o aw, cfg.routes)
                       /\ \A rp \in Planes : Room(sig_wreq_fifo[rp], sig_wreq_fifo'[rp], cfg.requests)
        /\ ar_ready' = \A rp \in Planes : Room(sig_rreq_fifo[rp], sig_rreq_fifo'[rp], cfg.requests)

\* Variant: the plane is taken from the write address that came last.
NextRouteLast(routes) == Last(routes)

\* Data has no ID: its plane is that of the oldest write address.
NextRoute(routes) == Head(routes)

DataChannel(in) ==
    LET w     == WTaken(in)
        left  == route.beats - Len(w)
        takes == left = 0 /\ sig_write_route_fifo # <<>>
        aw    == [k \in DOMAIN AwTaken(in) |-> [rp |-> map_qos_to_rp(AwTaken(in)[k]), beats |-> AwTaken(in)[k].beats]]
    IN  /\ sig_wdata_fifo' = [sig_wdata_fifo EXCEPT ![route.rp] =
                                  @ \o [k \in DOMAIN w |-> [tag |-> w[k].tag, beat |-> w[k].beat]]]
        /\ route' = IF takes THEN NextRoute(sig_write_route_fifo) ELSE [route EXCEPT !.beats = left]
        /\ sig_write_route_fifo' = (IF takes THEN Tail(sig_write_route_fifo) ELSE sig_write_route_fifo) \o aw
        /\ w_ready' = (route'.beats > 0 /\ Room(sig_wdata_fifo[route'.rp], sig_wdata_fifo'[route'.rp], cfg.data))

\* axi_wlast_matches, and the assertions on nb_write.
RequestFault(in) ==
    \/ \E k \in DOMAIN WTaken(in) : WTaken(in)[k].last # (route.beats = 1)
    \/ \E rp \in Planes : Len(sig_wreq_fifo'[rp]) > cfg.requests \/ Len(sig_rreq_fifo'[rp]) > cfg.requests
                          \/ Len(sig_wdata_fifo'[rp]) > cfg.data
    \/ Len(sig_write_route_fifo) + Len(AwTaken(in)) > cfg.routes

(***************************************************************************)
(* The receive path: UcieAouAdapter::transfer, FlitUnpacker.               *)
(***************************************************************************)
\* Variant: the flit is dropped when the unpacker is busy.
KeptNever == <<>>

\* The adapter shows a flit until the unpacker is ready.
Kept == IF holding = <<>> THEN <<>> ELSE rx

AdapterReceives ==
    LET reads == Kept = <<>> /\ fifo_rx # <<>>
    IN  /\ rx' = IF reads THEN <<Head(fifo_rx)>> ELSE Kept
        /\ fifo_rx' = IF reads THEN Tail(fifo_rx) ELSE fifo_rx

Of(kind, rp, messages) == SelectSeq(messages, LAMBDA m : m.kind = kind /\ m.rp = rp)

\* How many messages fit at this edge: a message without room blocks those
\* behind it.
Fits(messages) ==
    CHOOSE n \in 0 .. Len(messages) :
        LET ok(k) == /\ k <= cfg.unpack
                     /\ \A rp \in Planes :
                            /\ Len(sig_rdata_fifo[rp]) + Len(Of("R", rp, SubSeq(messages, 1, k))) <= cfg.depth
                            /\ Len(sig_wresp_fifo[rp]) + Len(Of("B", rp, SubSeq(messages, 1, k))) <= cfg.depth
        IN  ok(n) /\ (n < Len(messages) => ~ok(n + 1))

Min2(m, n) == IF m < n THEN m ELSE n

\* The flit being routed: the one held, else the one shown (flit_in_ready is
\* holding = <<>>).
Flits == IF holding # <<>> THEN holding ELSE rx

CreditsNow ==
    IF Flits = <<>> THEN 0 ELSE Min2(Head(Flits).credits, cfg.events - sig_credit_update_fifo)

\* route_messages: credits first, then messages.
MessagesNow ==
    IF Flits = <<>> \/ CreditsNow < Head(Flits).credits THEN <<>>
    ELSE SubSeq(Head(Flits).messages, 1, Fits(Head(Flits).messages))

\* unpacking_thread: a flit is released when all of it is routed.  The packer
\* drains the credit events at every edge.
Unpacks ==
    LET rest == SubSeq(Head(Flits).messages, Len(MessagesNow) + 1, Len(Head(Flits).messages))
        left == Head(Flits).credits - CreditsNow
    IN  /\ sig_credit_update_fifo' = CreditsNow
        /\ holding' = IF Flits = <<>> \/ (rest = <<>> /\ left = 0) THEN <<>>
                      ELSE <<[messages |-> rest, credits |-> left]>>

(***************************************************************************)
(* b_channel_thread, r_channel_thread.                                     *)
(***************************************************************************)
\* The channel may show another message.
Free(shown, ready) == shown = <<>> \/ ready

\* The plane read next, in rotation from next; none if all are empty.
Turn(fifo, next) ==
    SelectSeq([k \in 1 .. cfg.planes |-> (next + k - 1) % cfg.planes], LAMBDA rp : fifo[rp] # <<>>)

Pick(shown, ready, fifo, next) == IF Free(shown, ready) THEN Turn(fifo, next) ELSE <<>>

Shows(shown, ready, fifo, turn) ==
    IF turn # <<>> THEN <<Head(fifo[Head(turn)])>> ELSE IF ready THEN <<>> ELSE shown

Passes(fifo, turn, kind) ==
    [rp \in Planes |-> (IF turn # <<>> /\ Head(turn) = rp THEN Tail(fifo[rp]) ELSE fifo[rp])
                       \o Of(kind, rp, MessagesNow)]

ResponseChannels(in) ==
    LET rt == Pick(r, in.rready, sig_rdata_fifo, next_rp.r)
        bt == Pick(b, in.bready, sig_wresp_fifo, next_rp.b)
        After(turn, next) == IF turn = <<>> THEN next ELSE (Head(turn) + 1) % cfg.planes
    IN  /\ r' = Shows(r, in.rready, sig_rdata_fifo, rt)
        /\ b' = Shows(b, in.bready, sig_wresp_fifo, bt)
        /\ sig_rdata_fifo' = Passes(sig_rdata_fifo, rt, "R")
        /\ sig_wresp_fifo' = Passes(sig_wresp_fifo, bt, "B")
        /\ next_rp' = [r |-> After(rt, next_rp.r), b |-> After(bt, next_rp.b)]

RTaken(in) == IF in.rready THEN r ELSE <<>>
BTaken(in) == IF in.bready THEN b ELSE <<>>

(***************************************************************************)
(* RpOrderGuard, one for each direction.                                   *)
(***************************************************************************)
\* Another plane is noted but not bound while the ID has transactions.
Conflict(e, rp) == e.outstanding # 0 /\ e.rp # rp

Bind(g, taken) ==
    IF taken = <<>> THEN g
    ELSE LET a == Head(taken)
         IN  [g EXCEPT ![a.id] = [rp |-> IF Conflict(@, map_qos_to_rp(a)) THEN @.rp ELSE map_qos_to_rp(a),
                                  outstanding |-> @.outstanding + 1]]

Binds(g, taken) == taken # <<>> /\ Conflict(g[Head(taken).id], map_qos_to_rp(Head(taken)))

\* Variant: every beat of a read counts as the end of a transaction.
RetiresBeat(message) == TRUE

\* A read ends with its last beat, a write with its response.
Retires(message) == message.last

Retire(g, taken) ==
    IF taken = <<>> \/ ~Retires(Head(taken)) THEN g
    ELSE [g EXCEPT ![Head(taken).id].outstanding = IF @ > 0 THEN @ - 1 ELSE 0]

\* The threads that bind and retire run in an order SystemC does not define.
Guards(in) ==
    \E first \in {"bind", "retire"} :
        LET before(g, done)  == IF first = "bind" THEN g ELSE Retire(g, done)
            both(g, new, done) == IF first = "bind" THEN Retire(Bind(g, new), done) ELSE Bind(Retire(g, done), new)
        IN  /\ guard' = [write |-> both(guard.write, AwTaken(in), BTaken(in)),
                         read  |-> both(guard.read, ArTaken(in), RTaken(in))]
            /\ violations' = (\/ violations
                              \/ Binds(before(guard.write, BTaken(in)), AwTaken(in))
                              \/ Binds(before(guard.read, RTaken(in)), ArTaken(in)))

\* What is not answered yet, and whether an answer was not the one due.
Due(open, taken) == taken # <<>> => /\ open[Head(taken).id] # <<>>
                                    /\ Head(open[Head(taken).id]) = Head(taken).tag

Opened(open, new, done) ==
    [id \in Ids |->
        SelectSeq(open[id], LAMBDA t : ~(done # <<>> /\ Head(done).last /\ Head(done).tag = t))
        \o (IF new # <<>> /\ Head(new).id = id THEN <<Head(new).tag>> ELSE <<>>)]

History(in) ==
    /\ issued' = [write |-> Opened(issued.write, AwTaken(in), BTaken(in)),
                  read  |-> Opened(issued.read, ArTaken(in), RTaken(in))]
    /\ misordered' = (misordered \/ ~Due(issued.write, BTaken(in)) \/ ~Due(issued.read, RTaken(in)))

BridgeEdge(in) ==
    /\ AddressChannels(in) /\ DataChannel(in)
    /\ AdapterReceives /\ Unpacks /\ ResponseChannels(in)
    /\ Guards(in) /\ History(in)
    /\ UNCHANGED <<cfg, remote>>

(***************************************************************************)
(* The packer, the link and the target, between edges: what FlitStream,    *)
(* UcieRetry, CreditLoop and AouTarget, which model them whole, show.      *)
(***************************************************************************)
PackerTakes(rp) ==
    /\ \/ /\ sig_rreq_fifo[rp] # <<>>
          /\ remote' = [remote EXCEPT ![rp].rreq = Append(@, Head(sig_rreq_fifo[rp]))]
          /\ sig_rreq_fifo' = [sig_rreq_fifo EXCEPT ![rp] = Tail(@)]
          /\ UNCHANGED <<sig_wreq_fifo, sig_wdata_fifo>>
       \/ /\ sig_wreq_fifo[rp] # <<>>
          /\ remote' = [remote EXCEPT ![rp].wreq = Append(@, Head(sig_wreq_fifo[rp]))]
          /\ sig_wreq_fifo' = [sig_wreq_fifo EXCEPT ![rp] = Tail(@)]
          /\ UNCHANGED <<sig_rreq_fifo, sig_wdata_fifo>>
       \/ /\ sig_wdata_fifo[rp] # <<>>
          /\ remote' = [remote EXCEPT ![rp].wdata = Append(@, Head(sig_wdata_fifo[rp]))]
          /\ sig_wdata_fifo' = [sig_wdata_fifo EXCEPT ![rp] = Tail(@)]
          /\ UNCHANGED <<sig_rreq_fifo, sig_wreq_fifo>>
    /\ UNCHANGED <<cfg, aw_ready, w_ready, ar_ready, sig_write_route_fifo, route, rxVars, histVars, fifo_rx, fatal>>

\* The target gives data to the oldest write of the plane that lacks some.
Assembles(rp) ==
    \E k \in DOMAIN remote[rp].wreq :
        /\ remote[rp].wdata # <<>>
        /\ remote[rp].wreq[k].got < remote[rp].wreq[k].beats
        /\ \A j \in 1 .. (k - 1) : remote[rp].wreq[j].got = remote[rp].wreq[j].beats
        /\ remote' = [remote EXCEPT ![rp].wreq[k].got = @ + 1, ![rp].wdata = Tail(@)]
        /\ UNCHANGED <<cfg, awVars, rxVars, histVars, fifo_rx, fatal>>

\* Messages that have left the target and are not taken by the master.
InFlight ==
    FlattenSeq([k \in DOMAIN (fifo_rx \o rx \o holding) |-> (fifo_rx \o rx \o holding)[k].messages])
    \o FlattenSeq([k \in 1 .. cfg.planes |-> sig_rdata_fifo[k - 1] \o sig_wresp_fifo[k - 1]]) \o r \o b

\* A response joins the last flit on its way or starts another, which carries
\* credits; it needs credit for the FIFO where it ends.
Sends(message) ==
    /\ Len(Of(message.kind, message.rp, InFlight)) < cfg.depth
    /\ \/ /\ fifo_rx # <<>> /\ Len(Last(fifo_rx).messages) < cfg.flit
          /\ fifo_rx' = [fifo_rx EXCEPT ![Len(fifo_rx)].messages = Append(@, message)]
       \/ /\ Len(fifo_rx) < cfg.rxdepth
          /\ \E c \in cfg.credits : fifo_rx' = Append(fifo_rx, [messages |-> <<message>>, credits |-> c])

\* The requests of one ID are answered in order; the beats of a read are sent
\* before those of another of its plane.
Answers(rp) ==
    /\ \/ \E k \in DOMAIN remote[rp].rreq :
            LET q == remote[rp].rreq[k]
            IN  /\ \A j \in 1 .. (k - 1) : remote[rp].rreq[j].id # q.id
                /\ \A j \in DOMAIN remote[rp].rreq \ {k} : remote[rp].rreq[j].got = 0
                /\ Sends([kind |-> "R", rp |-> rp, id |-> q.id, tag |-> q.tag, beat |-> q.got + 1,
                          last |-> q.got + 1 = q.beats, err |-> q.got + 1 \in q.bad])
                /\ remote' = [remote EXCEPT ![rp].rreq = IF q.got + 1 = q.beats THEN RemoveAt(@, k)
                                                         ELSE [@ EXCEPT ![k].got = q.got + 1]]
       \/ \E k \in DOMAIN remote[rp].wreq :
            LET q == remote[rp].wreq[k]
            IN  /\ q.got = q.beats
                /\ \A j \in 1 .. (k - 1) : remote[rp].wreq[j].id # q.id
                /\ Sends([kind |-> "B", rp |-> rp, id |-> q.id, tag |-> q.tag, beat |-> 1,
                          last |-> TRUE, err |-> q.bad # {}])
                /\ remote' = [remote EXCEPT ![rp].wreq = RemoveAt(@, k)]
    /\ UNCHANGED <<cfg, awVars, rxVars, histVars, fatal>>

Between == \E rp \in Planes : PackerTakes(rp) \/ Assembles(rp) \/ Answers(rp)
=============================================================================
