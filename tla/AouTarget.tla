------------------------------- MODULE AouTarget -------------------------------
(***************************************************************************)
(* AouTarget, the memory side of the bridge: it stores requests and write  *)
(* data, puts write bursts together, submits whole requests to the memory, *)
(* matches the responses, and packs them into flits for the way back.      *)
(*                                                                         *)
(* run() is one thread that calls its steps in a fixed order on every      *)
(* clock edge; stage is its program counter, and its surroundings act      *)
(* where it waits.  Flits of the request direction are the subject of      *)
(* FlitStream, so an edge receives any number of messages.  Credits are    *)
(* counted in messages; their encoding is the subject of CreditLoop.       *)
(***************************************************************************)
EXTENDS Naturals, Sequences, FiniteSets, SequencesExt

CONSTANTS
    RpCount,            \* rp_count_
    Writes, Reads,      \* what the AXI master asks of each plane, in order
    REQUEST_SLOTS,      \* stored requests of each plane and direction
    WDATA_SLOTS,        \* stored write data messages of each plane
    MAX_OUTSTANDING,    \* requests in the memory or not yet answered
    MemDepth, TxDepth,  \* depths of mem_req and link_tx
    GranuleCount,       \* granules of a flit
    Granules,           \* size of a response by kind
    MaxCredit           \* bound: response credit of each kind and plane

Planes == 0 .. (RpCount - 1)

Request == [write : BOOLEAN, rp : Planes, n : Nat \ {0}]

Asked(req) == (IF req.write THEN Writes ELSE Reads)[req.rp][req.n]
Id(req)    == Asked(req).id
Beats(req) == Asked(req).beats

ReqKinds == {"RREQ", "WREQ", "WDATA"}

\* A message to the target: request n of its plane and direction, or a beat
\* of write n.
Message == [kind : ReqKinds, rp : Planes, n : Nat \ {0}, beat : Nat]

RequestOf(m) == [write |-> m.kind = "WREQ", rp |-> m.rp, n |-> m.n]

\* Variant: room for one more beat of write data is announced than there is.
CapacityOneMore ==
    [RREQ |-> REQUEST_SLOTS, WREQ |-> REQUEST_SLOTS, WDATA |-> WDATA_SLOTS + 1]

Capacity == [RREQ |-> REQUEST_SLOTS, WREQ |-> REQUEST_SLOTS, WDATA |-> WDATA_SLOTS]

AskedFor == [id : Nat, beats : Nat \ {0}]

ASSUME TargetAssumption ==
    /\ RpCount \in Nat \ {0}
    /\ Writes \in [Planes -> Seq(AskedFor)] /\ Reads \in [Planes -> Seq(AskedFor)]
    /\ REQUEST_SLOTS \in Nat \ {0} /\ WDATA_SLOTS \in Nat \ {0}
    /\ MAX_OUTSTANDING \in Nat \ {0} /\ MemDepth \in Nat \ {0} /\ TxDepth \in Nat \ {0}
    /\ GranuleCount \in Nat \ {0} /\ MaxCredit \in Nat \ {0}
    /\ Granules \in [{"RDATA", "WRESP"} -> 1 .. GranuleCount]

VARIABLES
    \* the bridge
    sent,               \* requests sent, by kind and plane
    w_next,             \* the next beat of write data of each plane
    free,               \* credit for requests and write data
    carry,              \* a response of which the tail is still to come
    answered,           \* history: responses received, by direction and plane
    decoder_ok,         \* no flit was rejected
    \* the link
    link_rx, link_tx,
    \* the memory
    mem_req, mem_rsp,
    \* AouTarget
    stage,
    reads_, writes_, data_,
    tickets_, outstanding_, next_submit_,
    replies_, next_reply_,
    flit, spill_, spill_completes_,
    returns,            \* credits_: rx_pending_return_
    tx_available        \* credits_: tx_available_, in granules

bridgeVars  == <<sent, w_next, free, carry, answered, decoder_ok>>
linkVars    == <<link_rx, link_tx>>
memoryVars  == <<mem_req, mem_rsp>>
storeVars   == <<reads_, writes_, data_>>
submitVars  == <<tickets_, outstanding_, next_submit_>>
replyVars   == <<replies_, next_reply_, flit, spill_, spill_completes_>>
creditVars  == <<returns, tx_available>>
others == <<bridgeVars, linkVars, memoryVars, storeVars, submitVars, replyVars,
            creditVars>>
vars == <<stage, others>>

NoMsg   == [kind |-> "NONE"]
NoCarry == [msg |-> NoMsg, have |-> 0]

EmptyFlit == [fragments |-> <<>>, used_granules |-> 0]

NoReturns == [k \in ReqKinds |-> 0]

Init ==
    /\ sent = [k \in {"RREQ", "WREQ"} |-> [rp \in Planes |-> 0]]
    /\ w_next = [rp \in Planes |-> [n |-> 1, beat |-> 1]]
    /\ free = [rp \in Planes |-> NoReturns]
    /\ carry = NoCarry /\ decoder_ok = TRUE
    /\ answered = [w \in BOOLEAN |-> [rp \in Planes |-> <<>>]]
    /\ link_rx = <<>> /\ link_tx = <<>> /\ mem_req = <<>> /\ mem_rsp = <<>>
    /\ stage = "receive"
    /\ reads_ = [rp \in Planes |-> <<>>]
    /\ writes_ = [rp \in Planes |-> <<>>]
    /\ data_ = [rp \in Planes |-> <<>>]
    /\ tickets_ = <<>> /\ outstanding_ = 0 /\ next_submit_ = 0
    /\ replies_ = [w \in BOOLEAN |-> [rp \in Planes |-> <<>>]]
    /\ next_reply_ = 0
    /\ flit = EmptyFlit /\ spill_ = NoCarry /\ spill_completes_ = FALSE
    /\ returns = [rp \in Planes |-> Capacity]
    /\ tx_available = [k \in {"RDATA", "WRESP"} |-> [rp \in Planes |-> 0]]

\* A failed require() is fatal: the thread goes no further.
Require(ok, next) == stage' = IF ok THEN next ELSE "fatal"

\* A step that has nothing to do.
Pass(from, to) == stage = from /\ stage' = to /\ UNCHANGED others

\* release
Release(rp, k) == [returns EXCEPT ![rp][k] = @ + 1]

-----------------------------------------------------------------------------
(* receive: read and write requests and write data are stored apart.       *)

Incoming == Head(link_rx)

Receive(k) ==
    /\ stage = "receive" /\ link_rx # <<>> /\ Incoming.kind = k
    /\ link_rx' = Tail(link_rx)
    /\ UNCHANGED <<bridgeVars, link_tx, memoryVars, submitVars, replyVars, creditVars>>

ReceiveRead ==
    /\ Receive("RREQ")
    /\ Require(Len(reads_[Incoming.rp]) < REQUEST_SLOTS, "receive")
    /\ reads_' = [reads_ EXCEPT ![Incoming.rp] = Append(@, RequestOf(Incoming))]
    /\ UNCHANGED <<writes_, data_>>

ReceiveWrite ==
    /\ Receive("WREQ")
    /\ Require(Len(writes_[Incoming.rp]) < REQUEST_SLOTS, "receive")
    /\ writes_' = [writes_ EXCEPT ![Incoming.rp] =
                     Append(@, [req |-> RequestOf(Incoming), write_beats |-> <<>>])]
    /\ UNCHANGED <<reads_, data_>>

ReceiveData ==
    /\ Receive("WDATA")
    /\ Require(Len(data_[Incoming.rp]) < WDATA_SLOTS, "receive")
    /\ data_' = [data_ EXCEPT ![Incoming.rp] = Append(@, Incoming)]
    /\ UNCHANGED <<reads_, writes_>>

ReceiveDone == Pass("receive", "collect")

-----------------------------------------------------------------------------
(* collect: the oldest ticket of the same direction, plane and ID.         *)

Matches(ticket, req) ==
    ticket.write = req.write /\ ticket.rp = req.rp /\ ticket.id = Id(req)

Collect ==
    /\ stage = "collect" /\ mem_rsp # <<>>
    /\ LET req   == Head(mem_rsp)
           found == {i \in 1 .. Len(tickets_) : Matches(tickets_[i], req)}
           first == CHOOSE i \in found : \A j \in found : i <= j
       IN  /\ Require(/\ found # {}
                      /\ ~req.write => tickets_[first].beats = Beats(req), "assemble")
           /\ tickets_' = IF found = {} THEN tickets_ ELSE RemoveAt(tickets_, first)
           /\ replies_' = [replies_ EXCEPT ![req.write][req.rp] =
                             Append(@, [req |-> req, beat |-> 1])]
    /\ mem_rsp' = Tail(mem_rsp)
    /\ UNCHANGED <<bridgeVars, linkVars, mem_req, storeVars, outstanding_,
                   next_submit_, next_reply_, flit, spill_, spill_completes_,
                   creditVars>>

CollectNothing == mem_rsp = <<>> /\ Pass("collect", "assemble")

-----------------------------------------------------------------------------
(* assemble: on every plane one beat goes to the first write that lacks    *)
(* one, whatever request it was sent for.                                  *)

Complete(job) == Len(job.write_beats) = Beats(job.req)

Lacking(rp) == {i \in 1 .. Len(writes_[rp]) : ~Complete(writes_[rp][i])}

Takes(rp) == Lacking(rp) # {} /\ data_[rp] # <<>>

\* Variant: the last write that lacks a beat.
FirstLackingLast(rp) == CHOOSE i \in Lacking(rp) : \A j \in Lacking(rp) : j <= i

FirstLacking(rp) == CHOOSE i \in Lacking(rp) : \A j \in Lacking(rp) : i <= j

\* What a data message carries, by which it can be told.
Payload(m) == [n |-> m.n, beat |-> m.beat]

Assemble ==
    /\ stage = "assemble"
    /\ writes_' = [rp \in Planes |->
         IF Takes(rp)
           THEN [writes_[rp] EXCEPT ![FirstLacking(rp)].write_beats =
                                      Append(@, Payload(Head(data_[rp])))]
           ELSE writes_[rp]]
    /\ data_' = [rp \in Planes |-> IF Takes(rp) THEN Tail(data_[rp]) ELSE data_[rp]]
    /\ returns' = [rp \in Planes |-> IF Takes(rp) THEN [returns[rp] EXCEPT !.WDATA = @ + 1]
                                                  ELSE returns[rp]]
    /\ stage' = "submit"
    /\ UNCHANGED <<bridgeVars, linkVars, memoryVars, reads_, submitVars, replyVars,
                   tx_available>>

-----------------------------------------------------------------------------
(* submit: at most one request, planes and directions in turn.             *)

Slots == 0 .. (2 * RpCount - 1)
SlotPlane(slot) == slot \div 2
IsWrite(slot)   == slot % 2 = 1

Submittable(slot) ==
    LET rp == SlotPlane(slot)
    IN  IF IsWrite(slot) THEN writes_[rp] # <<>> /\ Complete(Head(writes_[rp]))
                         ELSE reads_[rp] # <<>>

Turn(slot) == (slot + 2 * RpCount - next_submit_) % (2 * RpCount)

Chosen(slot) ==
    Submittable(slot) /\ \A s \in Slots : Submittable(s) => Turn(slot) <= Turn(s)

CanSubmit == outstanding_ # MAX_OUTSTANDING /\ Len(mem_req) < MemDepth

Submit(slot) ==
    /\ stage = "submit" /\ CanSubmit /\ Chosen(slot)
    /\ LET rp  == SlotPlane(slot)
           w   == IsWrite(slot)
           req == IF w THEN Head(writes_[rp]).req ELSE Head(reads_[rp])
           beats == IF w THEN Head(writes_[rp]).write_beats ELSE <<>>
       IN  /\ mem_req' = Append(mem_req, [req |-> req, write_beats |-> beats])
           /\ tickets_' = Append(tickets_, [write |-> w, rp |-> rp, id |-> Id(req),
                                            beats |-> Beats(req)])
           /\ writes_' = IF w THEN [writes_ EXCEPT ![rp] = Tail(@)] ELSE writes_
           /\ reads_' = IF w THEN reads_ ELSE [reads_ EXCEPT ![rp] = Tail(@)]
           /\ returns' = Release(rp, IF w THEN "WREQ" ELSE "RREQ")
    /\ outstanding_' = outstanding_ + 1
    /\ next_submit_' = (slot + 1) % (2 * RpCount)
    /\ stage' = "transmit"
    /\ UNCHANGED <<bridgeVars, linkVars, mem_rsp, data_, replyVars, tx_available>>

SubmitNothing ==
    /\ ~CanSubmit \/ \A slot \in Slots : ~Submittable(slot)
    /\ Pass("submit", "transmit")

-----------------------------------------------------------------------------
(* transmit: the tail of the last response first, then as many responses   *)
(* as the flit and the credit allow, with returned credit in the header.   *)

\* Variant: the beat before the last one is marked as the last.
ResponseLastEarly(req, beat) ==
    [kind |-> IF req.write THEN "WRESP" ELSE "RDATA", req |-> req, beat |-> beat,
     last |-> req.write \/ beat + 1 >= Beats(req)]

Response(req, beat) ==
    [kind |-> IF req.write THEN "WRESP" ELSE "RDATA", req |-> req, beat |-> beat,
     last |-> req.write \/ beat = Beats(req)]

Smaller(a, b) == IF a <= b THEN a ELSE b

\* AouFlit::pack_fragment: granules of msg from one on, as many as fit.
Take(f, msg, from) ==
    Smaller(Granules[msg.kind] - from, GranuleCount - f.used_granules)

PackFragment(f, msg, from) ==
    [fragments |-> Append(f.fragments, [msg |-> msg, from |-> from,
                                        take |-> Take(f, msg, from)]),
     used_granules |-> f.used_granules + Take(f, msg, from)]

TransmitStalled == Len(link_tx) = TxDepth /\ Pass("transmit", "receive")

\* The flit starts with the tail of the last one; the request is done when
\* the tail of its last response is packed.
ResumeSpill ==
    /\ stage = "transmit" /\ Len(link_tx) < TxDepth /\ spill_ # NoCarry
    /\ flit' = PackFragment(EmptyFlit, spill_.msg, spill_.have)
    /\ LET have == spill_.have + Take(EmptyFlit, spill_.msg, spill_.have)
           done == have = Granules[spill_.msg.kind]
       IN  /\ spill_' = IF done THEN NoCarry ELSE [spill_ EXCEPT !.have = have]
           /\ outstanding_' = IF done /\ spill_completes_ THEN outstanding_ - 1
                                                          ELSE outstanding_
    /\ stage' = "pack"
    /\ UNCHANGED <<bridgeVars, linkVars, memoryVars, storeVars, tickets_, next_submit_,
                   replies_, next_reply_, spill_completes_, creditVars>>

NewFlit ==
    /\ stage = "transmit" /\ Len(link_tx) < TxDepth /\ spill_ = NoCarry
    /\ flit' = EmptyFlit
    /\ stage' = "pack"
    /\ UNCHANGED <<bridgeVars, linkVars, memoryVars, storeVars, submitVars, replies_,
                   next_reply_, spill_, spill_completes_, creditVars>>

\* next_message: write responses before read data, planes in turn, the ones
\* without credit passed over.
Sendable(w, rp) ==
    /\ replies_[w][rp] # <<>>
    /\ LET k == IF w THEN "WRESP" ELSE "RDATA"
       IN  tx_available[k][rp] >= Granules[k]

ReplyTurn(rp) == (rp + RpCount - next_reply_) % RpCount

NextMessage(w, rp) ==
    /\ Sendable(w, rp)
    /\ ~w => \A q \in Planes : ~Sendable(TRUE, q)
    /\ \A q \in Planes : Sendable(w, q) => ReplyTurn(rp) <= ReplyTurn(q)

RoomInFlit == spill_ = NoCarry /\ flit.used_granules < GranuleCount

\* Variant: the request is done as soon as its last response is cut.
DoneWhenCut(msg, cut) == msg.last

\* The request is done if its last response is packed whole; if it is cut
\* that is left to ResumeSpill.
DoneNow(msg, cut) == msg.last /\ ~cut

PackReply(w, rp) ==
    /\ stage = "pack" /\ RoomInFlit /\ NextMessage(w, rp)
    /\ LET reply == Head(replies_[w][rp])
           msg   == Response(reply.req, reply.beat)
           took  == Take(flit, msg, 0)
           cut   == took < Granules[msg.kind]
       IN  /\ tx_available' = [tx_available EXCEPT ![msg.kind][rp] = @ - Granules[msg.kind]]
           /\ replies_' = [replies_ EXCEPT ![w][rp] =
                             IF msg.last THEN Tail(@)
                             ELSE [@ EXCEPT ![1].beat = reply.beat + 1]]
           /\ flit' = PackFragment(flit, msg, 0)
           /\ spill_' = IF cut THEN [msg |-> msg, have |-> took] ELSE spill_
           /\ spill_completes_' = IF cut THEN msg.last ELSE spill_completes_
           /\ outstanding_' = IF DoneNow(msg, cut) THEN outstanding_ - 1 ELSE outstanding_
    /\ next_reply_' = (rp + 1) % RpCount
    /\ UNCHANGED <<bridgeVars, linkVars, memoryVars, stage, storeVars, tickets_,
                   next_submit_, returns>>

\* Variant: credit is only returned along with responses.
OwedWithResponses ==
    {rp \in Planes : returns[rp] # NoReturns /\ flit.used_granules > 0}

\* A header returns credit to one plane; which one and how much of it is the
\* subject of CreditLoop.
Owed == {rp \in Planes : returns[rp] # NoReturns}

PackedAll ==
    stage = "pack" /\ (~RoomInFlit \/ \A w \in BOOLEAN, rp \in Planes : ~Sendable(w, rp))

SendFlit(grant_rp, grant) ==
    /\ link_tx' = Append(link_tx, [fragments |-> flit.fragments,
                                   rp |-> grant_rp, credit |-> grant])
    /\ flit' = EmptyFlit
    /\ stage' = "receive"
    /\ UNCHANGED <<bridgeVars, link_rx, memoryVars, storeVars, submitVars, replies_,
                   next_reply_, spill_, spill_completes_, tx_available>>

SendWithCredit(rp) ==
    /\ PackedAll /\ rp \in Owed
    /\ SendFlit(rp, returns[rp])
    /\ returns' = [returns EXCEPT ![rp] = NoReturns]

SendWithoutCredit ==
    /\ PackedAll /\ Owed = {} /\ flit.used_granules > 0
    /\ SendFlit(0, NoReturns)
    /\ UNCHANGED returns

SendNothing ==
    PackedAll /\ Owed = {} /\ flit.used_granules = 0 /\ Pass("pack", "receive")

-----------------------------------------------------------------------------
(* The bridge, as far as the target can tell: it sends requests and write  *)
(* data in the order of its AXI master, write data possibly before its     *)
(* request, as far as its credit goes.                                     *)

SpendCredit(rp, k) ==
    free[rp][k] > 0 /\ free' = [free EXCEPT ![rp][k] = @ - 1]

SendRequest(k, rp) ==
    /\ stage = "receive"
    /\ sent[k][rp] < Len((IF k = "WREQ" THEN Writes ELSE Reads)[rp])
    /\ SpendCredit(rp, k)
    /\ sent' = [sent EXCEPT ![k][rp] = @ + 1]
    /\ link_rx' = Append(link_rx, [kind |-> k, rp |-> rp, n |-> sent[k][rp] + 1, beat |-> 0])
    /\ UNCHANGED <<w_next, carry, answered, decoder_ok, link_tx, memoryVars, stage,
                   storeVars, submitVars, replyVars, creditVars>>

SendData(rp) ==
    /\ stage = "receive"
    /\ w_next[rp].n <= Len(Writes[rp])
    /\ SpendCredit(rp, "WDATA")
    /\ link_rx' = Append(link_rx, [kind |-> "WDATA", rp |-> rp, n |-> w_next[rp].n,
                                   beat |-> w_next[rp].beat])
    /\ w_next' = [w_next EXCEPT ![rp] =
         IF @.beat = Writes[rp][@.n].beats THEN [n |-> @.n + 1, beat |-> 1]
                                           ELSE [n |-> @.n, beat |-> @.beat + 1]]
    /\ UNCHANGED <<sent, carry, answered, decoder_ok, link_tx, memoryVars, stage,
                   storeVars, submitVars, replyVars, creditVars>>

\* The bridge's stream decoder wants the tail of a response at the start of
\* the next flit, and nothing else cut.
Finished(f) == f.from + f.take = Granules[f.msg.kind]

Acceptable(fragments) ==
    /\ carry # NoCarry => /\ fragments # <<>>
                          /\ fragments[1].msg = carry.msg /\ fragments[1].from = carry.have
    /\ \A i \in 1 .. Len(fragments) :
         /\ i > 1 \/ carry = NoCarry => fragments[i].from = 0
         /\ i < Len(fragments) => Finished(fragments[i])

Answer(msg) == [n |-> msg.req.n, beat |-> msg.beat, last |-> msg.last]

\* A response that is whole goes to its direction and plane.
Answered(log, f) ==
    IF Finished(f)
      THEN [log EXCEPT ![f.msg.req.write][f.msg.req.rp] = Append(@, Answer(f.msg))]
      ELSE log

BridgeReceive ==
    /\ stage = "receive" /\ link_tx # <<>> /\ decoder_ok
    /\ LET in == Head(link_tx).fragments
       IN  /\ decoder_ok' = Acceptable(in)
           /\ carry' = IF in = <<>> \/ Finished(Last(in)) THEN NoCarry
                       ELSE [msg |-> Last(in).msg, have |-> Last(in).from + Last(in).take]
           /\ answered' = FoldLeft(Answered, answered, in)
    /\ free' = [free EXCEPT ![Head(link_tx).rp] =
                  [k \in ReqKinds |-> @[k] + Head(link_tx).credit[k]]]
    /\ link_tx' = Tail(link_tx)
    /\ UNCHANGED <<sent, w_next, link_rx, memoryVars, stage, storeVars, submitVars,
                   replyVars, creditVars>>

\* Credit for a response comes with some flit.
AddTxCredit(k, rp) ==
    /\ stage = "receive"
    /\ tx_available[k][rp] + Granules[k] <= MaxCredit
    /\ tx_available' = [tx_available EXCEPT ![k][rp] = @ + Granules[k]]
    /\ UNCHANGED <<bridgeVars, linkVars, memoryVars, stage, storeVars, submitVars,
                   replyVars, returns>>

\* The memory completes requests of the same direction, plane and ID in order.
Group(req) == <<req.write, req.rp, Id(req)>>

MemComplete(i) ==
    /\ stage = "receive"
    /\ i <= Len(mem_req)
    /\ \A j \in 1 .. (i - 1) : Group(mem_req[j].req) # Group(mem_req[i].req)
    /\ mem_rsp' = Append(mem_rsp, mem_req[i].req)
    /\ mem_req' = RemoveAt(mem_req, i)
    /\ UNCHANGED <<bridgeVars, linkVars, stage, storeVars, submitVars, replyVars,
                   creditVars>>

-----------------------------------------------------------------------------
Thread ==
    \/ ReceiveDone \/ Collect \/ CollectNothing \/ Assemble
    \/ (\E slot \in Slots : Submit(slot)) \/ SubmitNothing
    \/ TransmitStalled \/ ResumeSpill \/ NewFlit
    \/ \E w \in BOOLEAN, rp \in Planes : PackReply(w, rp)
    \/ (\E rp \in Planes : SendWithCredit(rp)) \/ SendWithoutCredit \/ SendNothing

\* What arrives at the target, and what happens around it.
Surroundings ==
    \/ ReceiveRead \/ ReceiveWrite \/ ReceiveData
    \/ \E k \in {"RREQ", "WREQ"}, rp \in Planes : SendRequest(k, rp)
    \/ \E rp \in Planes : SendData(rp)
    \/ BridgeReceive
    \/ \E k \in {"RDATA", "WRESP"}, rp \in Planes : AddTxCredit(k, rp)
    \/ \E i \in 1 .. MemDepth : MemComplete(i)

Next == Thread \/ Surroundings

SafeSpec == Init /\ [][Next]_vars

\* The clock runs, and around the target something happens as long as it can:
\* the link delivers (UcieRetry, FlitStream), the AXI master supplies what it
\* announced, the memory completes, the bridge returns credit (CreditLoop).
\* The surroundings act where the thread waits, again and again but not
\* always, hence SF.  Each of their steps is possible a bounded number of
\* times for given Writes and Reads, so that none is passed over for ever.
Fairness == WF_vars(Thread) /\ SF_vars(Surroundings)

Spec == SafeSpec /\ Fairness

-----------------------------------------------------------------------------
(* Properties.                                                             *)

Stages == {"receive", "collect", "assemble", "submit", "transmit", "pack", "fatal"}

\* Types; counters stay within the sizes of the tables and FIFOs they index,
\* and no write takes more beats than it has.
TypeOK ==
    /\ stage \in Stages /\ decoder_ok \in BOOLEAN
    /\ sent \in [{"RREQ", "WREQ"} -> [Planes -> Nat]]
    /\ free \in [Planes -> [ReqKinds -> Nat]] /\ returns \in [Planes -> [ReqKinds -> Nat]]
    /\ link_rx \in Seq(Message) /\ data_ \in [Planes -> Seq(Message)]
    /\ reads_ \in [Planes -> Seq(Request)]
    /\ \A rp \in Planes : \A i \in 1 .. Len(writes_[rp]) :
         writes_[rp][i].req \in Request /\ Len(writes_[rp][i].write_beats) <= Beats(writes_[rp][i].req)
    /\ outstanding_ \in 0 .. MAX_OUTSTANDING /\ next_submit_ \in Slots
    /\ next_reply_ \in Planes /\ spill_completes_ \in BOOLEAN
    /\ flit.used_granules \in 0 .. GranuleCount
    /\ tx_available \in [{"RDATA", "WRESP"} -> [Planes -> Nat]]
    /\ Len(link_tx) <= TxDepth /\ Len(mem_req) <= MemDepth

\* Nothing throws: no buffer of the target overflows, every memory response
\* finds a ticket of its length, and the bridge's decoder accepts every flit
\* of the target (the tail of a cut response is the first thing in the next).
NoFatal == TypeOK /\ stage # "fatal" /\ decoder_ok

\* Every write reaches the memory with exactly its own beats in their order,
\* although data carries no name and may overtake its request.
WritesHaveTheirData ==
    \A i \in 1 .. Len(mem_req) :
      LET m == mem_req[i]
      IN  m.req.write => m.write_beats = [b \in 1 .. Beats(m.req) |->
                                            [n |-> m.req.n, beat |-> b]]

\* outstanding_ counts the requests handed to the memory whose last response
\* has not been packed to its last granule: a slot is released exactly once,
\* also when that response is cut at the end of a flit.
QueuedReplies ==
    {q \in BOOLEAN \X Planes \X (1 .. MAX_OUTSTANDING) : q[3] <= Len(replies_[q[1]][q[2]])}

OutstandingExact ==
    outstanding_ = Len(tickets_) + Cardinality(QueuedReplies)
                     + IF spill_ # NoCarry /\ spill_completes_ THEN 1 ELSE 0

\* Responses of one direction, plane and ID come back in request order, each
\* once, and the beats of a read come together, the last one marked.
AnswersInOrder ==
    \A w \in BOOLEAN, rp \in Planes :
      LET a == answered[w][rp]
          req(i) == [write |-> w, rp |-> rp, n |-> a[i].n]
      IN  \A i \in 1 .. Len(a) :
            /\ ~w => a[i].last = (a[i].beat = Beats(req(i)))
            /\ i > 1 /\ ~a[i - 1].last =>
                 a[i].n = a[i - 1].n /\ a[i].beat = a[i - 1].beat + 1
            /\ (i = 1 \/ a[i - 1].last) =>
                 /\ a[i].beat = 1
                 /\ \A n \in 1 .. (a[i].n - 1) :
                      Id([req(i) EXCEPT !.n = n]) = Id(req(i)) =>
                        \E j \in 1 .. (i - 1) : a[j].n = n /\ a[j].last
                 /\ \A j \in 1 .. (i - 1) : a[j].n # a[i].n

\* Every request of the AXI master is answered: write data that has overtaken
\* its request, a full outstanding table, a stalled link and used-up credit
\* in either direction never wait for each other.
EverythingAnswered ==
    <>(\A w \in BOOLEAN, rp \in Planes :
         \A n \in 1 .. Len((IF w THEN Writes ELSE Reads)[rp]) :
           \E i \in 1 .. Len(answered[w][rp]) :
             answered[w][rp][i].n = n /\ answered[w][rp][i].last)
=============================================================================
