------------------------------ MODULE FlitStream ------------------------------
(***************************************************************************)
(* The request direction of the bridge: FlitPacker cuts messages into      *)
(* granules and granules into flits, UcieAouAdapter hands the flits to the *)
(* link, and AouStreamDecoder puts the messages together again in          *)
(* AouTarget::receive.                                                     *)
(*                                                                         *)
(* Packer and adapter are threads on the same clock.  A signal or FIFO     *)
(* written on one edge is seen on the next, so an edge is one action in    *)
(* which both read the old state.  The link is a reliable FIFO (UcieRetry) *)
(* between the adapter's FIFO and the target's.                            *)
(*                                                                         *)
(* A granule is a pair of a message and an offset; the offset is 0 exactly *)
(* where MsgStart is set.  Amounts of returned credit are the subject of   *)
(* CreditLoop: here a flit carries some or all of what is pending.         *)
(***************************************************************************)
EXTENDS Naturals, Sequences, FiniteSets, SequencesExt

CONSTANTS
    RpCount,         \* rp_count_
    GranuleCount,    \* GRANULE_COUNT, granules of a flit (48)
    Granules,        \* size of a message by kind; "MISC" is CrdtGrant
    PackMsgs,        \* PACK_MSGS_PER_CYCLE
    FlushTimeout,    \* flush_timeout_cycles_
    GrantTimeout,    \* CREDIT_RETURN_TIMEOUT_CYCLES
    FdiDepth,        \* depth of the FIFO between adapter and link
    MaxMsgs,         \* bound: messages of each kind and plane
    MaxCredit,       \* bound: credit balance of each kind and plane
    MaxReturns,      \* bound: units of credit the bridge returns
    LinkMayFail      \* whether UcieLink may go to Failed

Planes == 0 .. (RpCount - 1)

KindSet == {"RREQ", "WREQ", "WDATA"}

\* Read requests first, then write requests, then write data.
Priority(k) == CASE k = "RREQ" -> 1 [] k = "WREQ" -> 2 [] k = "WDATA" -> 3

ASSUME StreamAssumption ==
    /\ RpCount \in Nat \ {0} /\ GranuleCount \in Nat \ {0}
    /\ Granules \in [KindSet \cup {"MISC"} -> 1 .. GranuleCount]
    /\ PackMsgs \in Nat \ {0} /\ FlushTimeout \in Nat
    /\ GrantTimeout \in Nat \ {0} /\ FdiDepth \in Nat \ {0}
    /\ LinkMayFail \in BOOLEAN

VARIABLES
    enqueued,        \* history: messages queued so far, by kind and plane
    returned,        \* history: units of credit returned so far
    \* FlitPacker
    packer,          \* what pack_cycle works on, see PackerState
    returns,         \* credits_: rx_pending_return_, in units
    output,          \* output register: a sequence of at most one flit
    timeout_cnt, credit_return_idle_cnt,
    \* UcieAouAdapter and link
    link_state,      \* Training, Active (or Degraded) or Failed
    ready,           \* the ready the adapter published on the last edge
    fdi,             \* flits in the link's FIFOs, on their way to the target
    \* AouTarget
    carry,           \* granules of an unfinished message
    delivered,       \* history: messages decoded, by kind and plane
    granted,         \* history: units of credit received
    decoder_ok       \* no flit was rejected

sourceVars == <<enqueued, returned>>
packerVars == <<packer, returns, output, timeout_cnt, credit_return_idle_cnt>>
linkVars   == <<link_state, ready, fdi>>
targetVars == <<carry, delivered, granted, decoder_ok>>
vars == <<sourceVars, packerVars, linkVars, targetVars>>

-----------------------------------------------------------------------------
(* Messages and flits.                                                     *)

Message(k, rp, id) == [kind |-> k, rp |-> rp, id |-> id]

Size(msg) == Granules[msg.kind]

Granule(msg, offset) == [msg |-> msg, offset |-> offset]

\* A CrdtGrant of n units.
CrdtGrant(n) == Message("MISC", 0, n)

EmptyFlit == <<>>

Remaining(flit) == GranuleCount - Len(flit)

Smaller(a, b) == IF a <= b THEN a ELSE b

\* AouFlit::pack_fragment takes what is left of the message and fits.
Fragment(flit, msg, offset) ==
    LET take == Smaller(Size(msg) - offset, Remaining(flit))
    IN  [i \in 1 .. take |-> Granule(msg, offset + i - 1)]

-----------------------------------------------------------------------------
(* pack_cycle, as a function of the packer's state.                        *)

NoMsg == [kind |-> "NONE", rp |-> 0, id |-> 0]
NoSpill == [msg |-> NoMsg, done |-> 0]

\* messages holds a staging slot and the FIFO behind it: fill_staging_slots
\* comes before every selection, so the slot holds the head of the two.
\* cur_flit holds the granules packed so far; it is valid if not empty.
PackerState == [messages : [KindSet -> [Planes -> Seq([kind : KindSet, rp : Planes,
                                                       id : Nat])]],
                tx_available : [KindSet -> [Planes -> Nat]],
                cur_flit : Seq([msg : [kind : KindSet \cup {"MISC"}, rp : Planes,
                                       id : Nat], offset : Nat]),
                spill : [msg : {NoMsg} \cup [kind : KindSet, rp : Planes, id : Nat],
                         done : Nat],
                next_rp : Planes]

\* A message is in the staging slot and credits_.can_consume.
Payable(s, k, rp) ==
    s.messages[k][rp] # <<>> /\ s.tx_available[k][rp] >= Granules[k]

Distance(s, rp) == (rp + RpCount - s.next_rp) % RpCount

\* select_candidate: kinds by priority, planes in turn.
Candidates(s) ==
    {c \in KindSet \X Planes :
       /\ Payable(s, c[1], c[2])
       /\ \A d \in KindSet \X Planes :
            Payable(s, d[1], d[2]) =>
              \/ Priority(c[1]) < Priority(d[1])
              \/ c[1] = d[1] /\ Distance(s, c[2]) <= Distance(s, d[2])}

\* consume_candidate: the message is paid for as a whole; what does not fit
\* is left to the next flit.
ConsumeCandidate(s, k, rp) ==
    LET msg  == Head(s.messages[k][rp])
        frag == Fragment(s.cur_flit, msg, 0)
    IN  [messages |-> [s.messages EXCEPT ![k][rp] = Tail(@)],
         tx_available |-> [s.tx_available EXCEPT ![k][rp] = @ - Size(msg)],
         cur_flit |-> s.cur_flit \o frag,
         spill |-> IF Len(frag) < Size(msg)
                     THEN [msg |-> msg, done |-> Len(frag)] ELSE s.spill,
         next_rp |-> (rp + 1) % RpCount]

\* A run of pack_cycle: the packer's state, whether the loop goes on, and
\* the result: there was nothing more to pack.
Run(s, go, exhausted) == [s |-> s, go |-> go, exhausted |-> exhausted]

\* One turn of the packing loop, as the set of its outcomes (one).
PackMessage(r) ==
    IF ~r.go \/ Remaining(r.s.cur_flit) = 0 THEN {Run(r.s, FALSE, r.exhausted)}
    ELSE IF Candidates(r.s) = {} THEN {Run(r.s, FALSE, TRUE)}
    ELSE {Run(s, s.spill = NoSpill, FALSE) :
            s \in {ConsumeCandidate(r.s, c[1], c[2]) : c \in Candidates(r.s)}}

\* Variant: the part already sent is sent again.
ResumeSpillFromStart(s) ==
    LET frag == Fragment(s.cur_flit, s.spill.msg, 0)
        done == s.spill.done + Len(frag)
    IN  [s EXCEPT !.cur_flit = @ \o frag,
                  !.spill = IF done >= Size(s.spill.msg) THEN NoSpill
                            ELSE [s.spill EXCEPT !.done = done]]

\* The tail of a message cut off in the last flit comes first, at G0 of a
\* new flit.
ResumeSpill(s) ==
    LET frag == Fragment(s.cur_flit, s.spill.msg, s.spill.done)
        done == s.spill.done + Len(frag)
    IN  [s EXCEPT !.cur_flit = @ \o frag,
                  !.spill = IF done >= Size(s.spill.msg) THEN NoSpill
                            ELSE [s.spill EXCEPT !.done = done]]

\* Variant: the test for a flit still waiting is the wrong way round.
AfterSpillInverted(s) ==
    IF s.spill = NoSpill \/ s.cur_flit = EmptyFlit THEN s ELSE ResumeSpill(s)

AfterSpill(s) ==
    IF s.spill = NoSpill \/ s.cur_flit # EmptyFlit THEN s ELSE ResumeSpill(s)

PackCycle(start) ==
    LET loop[n \in 0 .. PackMsgs] ==
          IF n = 0 THEN {Run(s, s.spill = NoSpill, FALSE) : s \in {AfterSpill(start)}}
          ELSE UNION {PackMessage(r) : r \in loop[n - 1]}
    IN  loop[PackMsgs]

-----------------------------------------------------------------------------
Init ==
    /\ enqueued = [k \in KindSet |-> [rp \in Planes |-> 0]]
    /\ returned = 0
    /\ packer = [messages |-> [k \in KindSet |-> [rp \in Planes |-> <<>>]],
                 tx_available |-> [k \in KindSet |-> [rp \in Planes |-> 0]],
                 cur_flit |-> EmptyFlit, spill |-> NoSpill, next_rp |-> 0]
    /\ returns = 0 /\ output = <<>>
    /\ timeout_cnt = 0 /\ credit_return_idle_cnt = GrantTimeout - 1
    /\ link_state = "Training" /\ ready = FALSE /\ fdi = <<>>
    /\ carry = <<>> /\ granted = 0 /\ decoder_ok = TRUE
    /\ delivered = [k \in KindSet |-> [rp \in Planes |-> <<>>]]

-----------------------------------------------------------------------------
(* packing_thread on a clock edge.                                         *)

\* flush_flit puts a flit with n units of credit into the output register.
FlushFlit(granules, n) ==
    /\ output' = <<[granules |-> granules, msg_credit |-> n]>>
    /\ timeout_cnt' = 0

\* A flit goes out with whatever the header can grant.
SendFlit(s) ==
    /\ \E n \in 0 .. returns :
         /\ returns > 0 => n > 0
         /\ FlushFlit(s.cur_flit, n)
         /\ returns' = returns - n
         /\ credit_return_idle_cnt' = IF n > 0 THEN 0 ELSE credit_return_idle_cnt
    /\ packer' = [s EXCEPT !.cur_flit = EmptyFlit]

\* Nothing is sent on this edge.
Hold(s, out, timeout, idle) ==
    /\ output' = out /\ timeout_cnt' = timeout /\ credit_return_idle_cnt' = idle
    /\ packer' = s /\ returns' = returns

\* Variant: the header grants the same credit again.
SendDedicatedGrantTwice(s) ==
    /\ \E n \in 1 .. returns :
         /\ FlushFlit(Fragment(EmptyFlit, CrdtGrant(n), 0), n)
         /\ returns' = returns - n
    /\ credit_return_idle_cnt' = 0
    /\ packer' = s

\* send_dedicated_credit_grant
SendDedicatedGrant(s) ==
    /\ \E n \in 1 .. returns :
         /\ FlushFlit(Fragment(EmptyFlit, CrdtGrant(n), 0), 0)
         /\ returns' = returns - n
    /\ credit_return_idle_cnt' = 0
    /\ packer' = s

\* What to do with the flit under construction, the output register being
\* free.
FullOrTimedOut(r) ==
    \/ Remaining(r.s.cur_flit) = 0
    \/ r.exhausted /\ timeout_cnt >= FlushTimeout

Decide(r) ==
    LET s == r.s
        idle == credit_return_idle_cnt + 1
    IN  \/ /\ s.cur_flit # EmptyFlit /\ FullOrTimedOut(r)
           /\ SendFlit(s)
        \/ /\ s.cur_flit # EmptyFlit /\ ~FullOrTimedOut(r)
           /\ Hold(s, <<>>, IF r.exhausted THEN timeout_cnt + 1 ELSE 0,
                   credit_return_idle_cnt)
        \/ /\ s.cur_flit = EmptyFlit /\ returns > 0 /\ idle >= GrantTimeout
           /\ SendDedicatedGrant(s)
        \/ /\ s.cur_flit = EmptyFlit /\ returns > 0 /\ idle < GrantTimeout
           /\ Hold(s, <<>>, timeout_cnt, idle)
        \/ /\ s.cur_flit = EmptyFlit /\ returns = 0
           /\ Hold(s, <<>>, timeout_cnt, credit_return_idle_cnt)

\* Variant: a busy output register is overwritten.
PackerEdgeOverwrite ==
    \E r \in PackCycle(packer) : Decide(r)

PackerEdge ==
    \E r \in PackCycle(packer) :
      \/ (output = <<>> \/ ready) /\ Decide(r)
      \/ /\ output # <<>> /\ ~ready
         /\ Hold(r.s, output, timeout_cnt, credit_return_idle_cnt)

-----------------------------------------------------------------------------
(* UcieAouAdapter::transfer on the same edge: take the flit if ready was   *)
(* published, then publish ready for the next edge.                        *)

AdapterEdge ==
    /\ fdi' = IF ready THEN fdi \o output ELSE fdi
    /\ ready' = (link_state = "Active" /\ Len(fdi') < FdiDepth)

Edge ==
    /\ PackerEdge /\ AdapterEdge
    /\ UNCHANGED <<enqueued, returned, link_state, targetVars>>

-----------------------------------------------------------------------------
(* AouStreamDecoder::parse.                                                *)

NoGranule == Granule(NoMsg, 1)

Payload(flit) ==
    [g \in 1 .. GranuleCount |->
       IF g <= Len(flit.granules) THEN flit.granules[g] ELSE NoGranule]

IsStart(granule) == granule.offset = 0

\* What a parse has found: finished messages, the granules of the one that
\* goes on in the next flit, and whether MsgStart was where it may be.
Parsed(messages, rest, ok) == [messages |-> messages, carry |-> rest, ok |-> ok]

\* From granule first on, at a message boundary.  The length of a message is
\* known from its first granule, not from the distance of the starts.
Scan(payload, first) ==
    LET scan[g \in 1 .. (GranuleCount + 1)] ==
          IF g > GranuleCount THEN Parsed(<<>>, <<>>, TRUE)
          ELSE IF ~IsStart(payload[g]) THEN scan[g + 1]
          ELSE LET total == Size(payload[g].msg)
                   take  == Smaller(total, GranuleCount - g + 1)
                   found == SubSeq(payload, g, g + take - 1)
                   rest  == scan[g + take]
               IN  Parsed(IF take = total THEN <<found>> \o rest.messages
                                          ELSE rest.messages,
                          IF take = total THEN rest.carry ELSE found,
                          /\ \A i \in 2 .. take : ~IsStart(found[i])
                          /\ rest.ok)
    IN  scan[first]

\* With a message carried over, its tail is taken from G0 on.
Parse(payload, carried) ==
    IF carried = <<>> THEN Scan(payload, 1)
    ELSE LET total == Size(carried[1].msg)
             take  == Smaller(total - Len(carried), GranuleCount)
             whole == carried \o SubSeq(payload, 1, take)
             rest  == Scan(payload, take + 1)
         IN  Parsed(IF Len(whole) = total THEN <<whole>> \o rest.messages
                                          ELSE rest.messages,
                    IF Len(whole) = total THEN rest.carry ELSE whole,
                    (\A i \in 1 .. take : ~IsStart(payload[i])) /\ rest.ok)

\* The bytes that were put together are those of one message.
Whole(granules) ==
    \A i \in 1 .. Len(granules) : granules[i] = Granule(granules[1].msg, i - 1)

Garbled == Message("GARBLED", 0, 0)

\* Kind, plane and length are read from the first granule.
Decoded(granules) == IF Whole(granules) THEN granules[1].msg ELSE Garbled

\* receive stores a message with those of its kind and plane.
Stored(stores, granules) ==
    LET msg == granules[1].msg
    IN  IF msg.kind \in KindSet THEN [stores EXCEPT ![msg.kind][msg.rp] = Append(@, Decoded(granules))]
                                ELSE stores

\* Credit in a flit: header field and CrdtGrant messages.
AddGrant(n, granule) ==
    n + IF granule.msg.kind = "MISC" /\ granule.offset = 0 THEN granule.msg.id ELSE 0

CreditOf(flit) == FoldLeft(AddGrant, flit.msg_credit, flit.granules)

\* AouTarget::receive takes a flit; a rejected one is fatal.
TargetReceive ==
    /\ decoder_ok /\ fdi # <<>>
    /\ \E parsed \in {Parse(Payload(Head(fdi)), carry)} :
           /\ decoder_ok' = parsed.ok
           /\ carry' = IF parsed.ok THEN parsed.carry ELSE carry
           /\ granted' = IF parsed.ok THEN granted + CreditOf(Head(fdi)) ELSE granted
           /\ delivered' = IF parsed.ok THEN FoldLeft(Stored, delivered, parsed.messages) ELSE delivered
    /\ fdi' = Tail(fdi)
    /\ UNCHANGED <<sourceVars, packerVars, link_state, ready>>

-----------------------------------------------------------------------------
(* What surrounds the stream: the AXI threads, the credit events, the link. *)

Enqueue(k, rp) ==
    /\ enqueued[k][rp] < MaxMsgs[k][rp]
    /\ packer' = [packer EXCEPT
         !.messages[k][rp] = Append(@, Message(k, rp, enqueued[k][rp]))]
    /\ enqueued' = [enqueued EXCEPT ![k][rp] = @ + 1]
    /\ UNCHANGED <<returned, returns, output, timeout_cnt, credit_return_idle_cnt,
                   linkVars, targetVars>>

\* What drain_credit_events finds at the start of the next edge: credit from
\* the target ...
AddTxCredit(k, rp) ==
    /\ packer.tx_available[k][rp] < MaxCredit[k][rp]
    /\ packer' = [packer EXCEPT !.tx_available[k][rp] = @ + 1]
    /\ UNCHANGED <<sourceVars, returns, output, timeout_cnt,
                   credit_return_idle_cnt, linkVars, targetVars>>

\* ... and credit to be returned to it.
ReturnRxCredit ==
    /\ returned < MaxReturns
    /\ returned' = returned + 1
    /\ returns' = returns + 1
    /\ UNCHANGED <<enqueued, packer, output, timeout_cnt,
                   credit_return_idle_cnt, linkVars, targetVars>>

\* UcieLink::status_thread
LinkTrained ==
    /\ link_state = "Training"
    /\ link_state' = "Active"
    /\ UNCHANGED <<sourceVars, packerVars, ready, fdi, targetVars>>

LinkFails ==
    /\ LinkMayFail /\ link_state # "Failed"
    /\ link_state' = "Failed"
    /\ UNCHANGED <<sourceVars, packerVars, ready, fdi, targetVars>>

-----------------------------------------------------------------------------
Next ==
    \/ Edge
    \/ TargetReceive
    \/ \E k \in KindSet, rp \in Planes : Enqueue(k, rp) \/ AddTxCredit(k, rp)
    \/ ReturnRxCredit
    \/ LinkTrained
    \/ LinkFails

SafeSpec == Init /\ [][Next]_vars

\* The clock runs, the link trains and delivers (UcieRetry), and the target
\* keeps granting credit (CreditLoop).
Fairness ==
    /\ WF_vars(Edge) /\ WF_vars(TargetReceive) /\ WF_vars(LinkTrained)
    /\ \A k \in KindSet, rp \in Planes : WF_vars(AddTxCredit(k, rp))

Spec == SafeSpec /\ Fairness

-----------------------------------------------------------------------------
(* Properties.                                                             *)

\* Types; timers stay within their limits and the output register holds at
\* most one flit.
TypeOK ==
    /\ enqueued \in [KindSet -> [Planes -> Nat]] /\ returned \in Nat
    /\ packer \in PackerState /\ returns \in Nat
    /\ Len(output) <= 1
    /\ timeout_cnt \in 0 .. FlushTimeout /\ credit_return_idle_cnt \in 0 .. GrantTimeout
    /\ link_state \in {"Training", "Active", "Failed"} /\ ready \in BOOLEAN
    /\ granted \in Nat /\ decoder_ok \in BOOLEAN

\* Messages of a kind and plane arrive whole, once and in the order in which
\* the AXI threads queued them, however they were cut at flit boundaries,
\* mixed with other planes and CrdtGrants, and held back by the link.
MessagesIntact ==
    \A k \in KindSet, rp \in Planes :
      \A i \in 1 .. Len(delivered[k][rp]) :
        delivered[k][rp][i] = Message(k, rp, i - 1)

\* The ready the adapter has published is a reservation: when the flit comes
\* on the next edge the FIFO has room for it ("FDI FIFO" exception).
ReadyIsReservation == ready => Len(fdi) < FdiDepth

\* Nothing throws at either end: the stream decoder never meets a MsgStart
\* inside a message or in the part of G0 that continues one, and no flit finds
\* the FIFO full; all counters stay within their limits.
NoException == TypeOK /\ decoder_ok /\ ReadyIsReservation

AddCredit(n, flit) == n + CreditOf(flit)

\* Credit returned by the bridge is pending, in a flit, or with the target.
GrantsConserved == returned = returns + granted + FoldLeft(AddCredit, 0, fdi \o output)

\* Unless the link fails, again and again every message queued so far has been
\* delivered, the tail of a cut one and a partly filled flit too, and all
\* returned credit has reached the target, with or without traffic to carry
\* it: the two ends never wait for each other's credit.
EverythingArrives ==
    []<>(\/ link_state = "Failed"
         \/ /\ \A k \in KindSet, rp \in Planes : Len(delivered[k][rp]) = enqueued[k][rp]
            /\ granted = returned)
=============================================================================
