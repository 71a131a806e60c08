--------------------------- MODULE AouTargetProofs ---------------------------
(***************************************************************************)
(* Proofs about AouTarget for every number of planes, every size of its    *)
(* tables and every sequence of requests.                                  *)
(***************************************************************************)
EXTENDS AouTarget, Integers, SequenceTheorems, FiniteSetTheorems, SequenceLemmas, TLAPS

-----------------------------------------------------------------------------
(* Types.                                                                  *)

\* The requests of the AXI master.
Known == {r \in Request : r.n <= Len((IF r.write THEN Writes ELSE Reads)[r.rp])}

KnownMessage == {m \in Message : m.kind # "WDATA" => RequestOf(m) \in Known}

Beat     == [n : Nat, beat : Nat]
Job      == [req : Known, write_beats : Seq(Beat)]
Ticket   == [write : BOOLEAN, rp : Planes, id : Nat, beats : Nat]
Reply    == [req : Known, beat : Nat]
RspKinds == {"RDATA", "WRESP"}
Rsp      == [kind : RspKinds, req : Request, beat : Nat, last : BOOLEAN]
Fragment == [msg : Rsp, from : Nat, take : Nat]
Flit     == [fragments : Seq(Fragment), rp : Planes, credit : [ReqKinds -> Nat]]
PartFlit == [fragments : Seq(Fragment), used_granules : 0 .. GranuleCount]
Carry    == {NoCarry} \cup {c \in [msg : Rsp, have : Nat \ {0}] : c.have < Granules[c.msg.kind]}

TypeInv ==
    /\ stage \in Stages /\ decoder_ok \in BOOLEAN /\ spill_completes_ \in BOOLEAN
    /\ sent \in [{"RREQ", "WREQ"} -> [Planes -> Nat]]
    /\ w_next \in [Planes -> [n : Nat \ {0}, beat : Nat \ {0}]]
    /\ free \in [Planes -> [ReqKinds -> Nat]]
    /\ returns \in [Planes -> [ReqKinds -> Nat]]
    /\ spill_ \in Carry
    /\ link_rx \in Seq(KnownMessage)
    /\ link_tx \in Seq(Flit) /\ Len(link_tx) <= TxDepth
    /\ mem_req \in Seq(Job) /\ Len(mem_req) <= MemDepth
    /\ mem_rsp \in Seq(Known)
    /\ reads_ \in [Planes -> Seq(Known)]
    /\ writes_ \in [Planes -> Seq(Job)]
    /\ data_ \in [Planes -> Seq(KnownMessage)]
    /\ tickets_ \in Seq(Ticket) /\ outstanding_ \in Int /\ next_submit_ \in Slots
    /\ replies_ \in [BOOLEAN -> [Planes -> Seq(Reply)]] /\ next_reply_ \in Planes
    /\ flit \in PartFlit
    /\ tx_available \in [RspKinds -> [Planes -> Nat]]

\* The round-robin pointers of submit and transmit stay within the planes.
LEMMA PlanesFacts ==
  /\ RpCount \in Nat \ {0} /\ 0 \in Planes /\ 0 \in Slots
  /\ \A slot \in Slots : slot \in Nat /\ SlotPlane(slot) \in Planes /\ IsWrite(slot) \in BOOLEAN
  /\ \A slot \in Slots : (slot + 1) % (2 * RpCount) \in Slots
  /\ \A rp \in Planes : (rp + 1) % RpCount \in Planes
<1>1. RpCount \in Nat \ {0}
  BY TargetAssumption
<1>2. \A slot \in Slots : slot \in Nat /\ slot \div 2 \in Nat /\ slot = 2 * (slot \div 2) + (slot % 2)
                          /\ slot % 2 \in 0 .. 1
  <2>1. \A slot \in Slots : slot \in Nat
    BY <1>1 DEF Slots
  <2>2. 2 \in Nat \ {0}
    OBVIOUS
  <2> TAKE slot \in Slots
  <2>3. slot % 2 \in 0 .. (2 - 1) /\ slot \div 2 \in Nat /\ slot = 2 * (slot \div 2) + (slot % 2)
    BY <2>1, <2>2, DivModFacts, Zenon
  <2> QED BY <2>1, <2>3
<1>3. \A slot \in Slots : SlotPlane(slot) \in Planes
  BY <1>1, <1>2 DEF Slots, SlotPlane, Planes
<1>4. 2 * RpCount \in Nat \ {0}
  BY <1>1
<1>5. \A slot \in Slots : (slot + 1) % (2 * RpCount) \in Slots
  <2> TAKE slot \in Slots
  <2> DEFINE m == 2 * RpCount
  <2>1. m \in Nat \ {0} /\ slot + 1 \in Nat
    BY <1>1, <1>4 DEF Slots
  <2> HIDE DEF m
  <2>2. (slot + 1) % m \in 0 .. (m - 1)
    BY <2>1
  <2> QED BY <2>2 DEF Slots, m
<1> QED BY <1>1, <1>2, <1>3, <1>5 DEF Slots, Planes, IsWrite

\* A request of the master has an id and at least one beat.
LEMMA KnownFacts ==
  ASSUME NEW r \in Known
  PROVE  /\ r \in Request /\ Asked(r) \in AskedFor
         /\ Id(r) \in Nat /\ Beats(r) \in Nat \ {0}
<1>1. r \in Request /\ r.write \in BOOLEAN /\ r.rp \in Planes /\ r.n \in Nat \ {0}
  BY DEF Known, Request
<1>2. Writes[r.rp] \in Seq(AskedFor) /\ Reads[r.rp] \in Seq(AskedFor)
  BY <1>1, TargetAssumption
<1>3. Asked(r) \in AskedFor
  BY <1>1, <1>2 DEF Known, Asked
<1> QED BY <1>1, <1>3 DEF Id, Beats, AskedFor

\* A response is at least one granule and at most one flit.
LEMMA GranulesFacts ==
  /\ GranuleCount \in Nat \ {0}
  /\ \A k \in RspKinds : Granules[k] \in Nat \ {0} /\ Granules[k] <= GranuleCount
BY TargetAssumption DEF RspKinds

\* transmit begins with a flit that has all its granules left.
LEMMA EmptyFlitType == EmptyFlit \in PartFlit
BY GranulesFacts DEF EmptyFlit, PartFlit

\* After construction every queue and counter has its type.
LEMMA InitType == Init => TypeInv
<1> SUFFICES ASSUME Init PROVE TypeInv
  OBVIOUS
<1>1. Capacity \in [ReqKinds -> Nat] /\ NoReturns \in [ReqKinds -> Nat]
  BY TargetAssumption DEF Capacity, ReqKinds, NoReturns
<1>2. /\ sent \in [{"RREQ", "WREQ"} -> [Planes -> Nat]]
      /\ w_next \in [Planes -> [n : Nat \ {0}, beat : Nat \ {0}]]
      /\ free \in [Planes -> [ReqKinds -> Nat]]
      /\ returns \in [Planes -> [ReqKinds -> Nat]]
  <2>1. sent \in [{"RREQ", "WREQ"} -> [Planes -> Nat]]
    BY DEF Init
  <2>2. w_next \in [Planes -> [n : Nat \ {0}, beat : Nat \ {0}]]
    BY DEF Init
  <2>3. free \in [Planes -> [ReqKinds -> Nat]]
    BY <1>1 DEF Init
  <2>4. returns \in [Planes -> [ReqKinds -> Nat]]
    BY <1>1 DEF Init
  <2> QED BY <2>1, <2>2, <2>3, <2>4
<1>3. /\ stage \in Stages /\ decoder_ok \in BOOLEAN /\ spill_completes_ \in BOOLEAN
      /\ spill_ \in Carry
      /\ flit \in PartFlit
  <2>1. NoCarry \in Carry
    BY DEF Carry
  <2> QED BY <2>1, EmptyFlitType DEF Init, Stages
<1>4. /\ reads_ \in [Planes -> Seq(Known)] /\ writes_ \in [Planes -> Seq(Job)]
      /\ data_ \in [Planes -> Seq(KnownMessage)]
      /\ replies_ \in [BOOLEAN -> [Planes -> Seq(Reply)]]
      /\ tx_available \in [RspKinds -> [Planes -> Nat]]
  BY DEF Init, RspKinds
<1> QED BY <1>2, <1>3, <1>4, PlanesFacts, TargetAssumption DEF Init, TypeInv

USE DEF bridgeVars, linkVars, memoryVars, storeVars, submitVars, replyVars, creditVars

\* receive files a message of the link under its plane and kind.
LEMMA TypeReceive ==
  ASSUME TypeInv, ReceiveRead \/ ReceiveWrite \/ ReceiveData
  PROVE  TypeInv'
<1> DEFINE m == Incoming
<1>1. /\ m \in KnownMessage /\ m.rp \in Planes /\ m \in Message
      /\ link_rx' = Tail(link_rx) /\ link_rx' \in Seq(KnownMessage)
  <2>1. link_rx \in Seq(KnownMessage) /\ link_rx # <<>> /\ link_rx' = Tail(link_rx)
    BY DEF TypeInv, ReceiveRead, ReceiveWrite, ReceiveData, Receive
  <2>2. m \in KnownMessage /\ Tail(link_rx) \in Seq(KnownMessage)
    BY <2>1, HeadTail DEF Incoming
  <2>3. m \in Message /\ m.rp \in Planes
    BY <2>2 DEF KnownMessage, Message
  <2> QED BY <2>1, <2>2, <2>3
<1>2. stage' \in Stages
  BY DEF ReceiveRead, ReceiveWrite, ReceiveData, Require, Stages
<1>3. CASE ReceiveRead
  <2>1. RequestOf(m) \in Known
    BY <1>1, <1>3 DEF ReceiveRead, Receive, KnownMessage
  <2>2. reads_' \in [Planes -> Seq(Known)]
    <3>1. reads_' = [reads_ EXCEPT ![m.rp] = Append(@, RequestOf(m))]
          /\ reads_ \in [Planes -> Seq(Known)]
      BY <1>3 DEF ReceiveRead, TypeInv
    <3> QED BY <1>1, <2>1, <3>1, QueuePut
  <2> QED BY <1>1, <1>2, <1>3, <2>2 DEF ReceiveRead, Receive, TypeInv
<1>4. CASE ReceiveWrite
  <2>1. RequestOf(m) \in Known
    BY <1>1, <1>4 DEF ReceiveWrite, Receive, KnownMessage
  <2>2. [req |-> RequestOf(m), write_beats |-> <<>>] \in Job
    BY <2>1 DEF Job
  <2>3. writes_' \in [Planes -> Seq(Job)]
    <3>1. writes_' = [writes_ EXCEPT ![m.rp] =
                        Append(@, [req |-> RequestOf(m), write_beats |-> <<>>])]
          /\ writes_ \in [Planes -> Seq(Job)]
      BY <1>4 DEF ReceiveWrite, TypeInv
    <3> QED BY <1>1, <2>2, <3>1, QueuePut
  <2> QED BY <1>1, <1>2, <1>4, <2>3 DEF ReceiveWrite, Receive, TypeInv
<1>5. CASE ReceiveData
  <2>1. data_' \in [Planes -> Seq(KnownMessage)]
    <3>1. data_' = [data_ EXCEPT ![m.rp] = Append(@, m)]
          /\ data_ \in [Planes -> Seq(KnownMessage)]
      BY <1>5 DEF ReceiveData, TypeInv
    <3> QED BY <1>1, <3>1, QueuePut
  <2> QED BY <1>1, <1>2, <1>5, <2>1 DEF ReceiveData, Receive, TypeInv
<1> QED BY <1>3, <1>4, <1>5

\* A phase of run that finds nothing to do only moves on to the next.
LEMMA TypePass ==
  ASSUME TypeInv, ReceiveDone \/ CollectNothing \/ SubmitNothing \/ TransmitStalled \/ SendNothing
  PROVE  TypeInv'
BY DEF TypeInv, ReceiveDone, CollectNothing, SubmitNothing, TransmitStalled, SendNothing,
       Pass, Stages, others

\* collect turns a memory response into a reply and drops its ticket.
LEMMA TypeCollect ==
  ASSUME TypeInv, Collect
  PROVE  TypeInv'
<1> DEFINE req   == Head(mem_rsp)
           found == {i \in 1 .. Len(tickets_) : Matches(tickets_[i], req)}
           first == CHOOSE i \in found : \A j \in found : i <= j
<1>1. /\ req \in Known /\ req.write \in BOOLEAN /\ req.rp \in Planes
      /\ mem_rsp' \in Seq(Known)
  <2>1. mem_rsp \in Seq(Known) /\ mem_rsp # <<>> /\ mem_rsp' = Tail(mem_rsp)
    BY DEF TypeInv, Collect
  <2>2. req \in Known /\ Tail(mem_rsp) \in Seq(Known)
    BY <2>1, HeadTail
  <2> QED BY <2>1, <2>2 DEF Known, Request
<1>2. tickets_' \in Seq(Ticket)
  <2>1. CASE found = {}
    BY <2>1 DEF TypeInv, Collect
  <2>2. CASE found # {}
    <3>1. first \in found
      <4>1. Len(tickets_) \in Nat /\ found \subseteq 1 .. Len(tickets_)
        BY DEF TypeInv
      <4> QED BY <4>1, <2>2, FirstOf, Zenon
    <3>2. tickets_' = RemoveAt(tickets_, first)
      BY <2>2 DEF Collect
    <3> QED BY <3>1, <3>2, RemoveAtFacts DEF TypeInv
  <2> QED BY <2>1, <2>2
<1>3. replies_' \in [BOOLEAN -> [Planes -> Seq(Reply)]]
  <2>1. [req |-> req, beat |-> 1] \in Reply
    BY <1>1 DEF Reply
  <2>2. replies_' = [replies_ EXCEPT ![req.write][req.rp] = Append(@, [req |-> req, beat |-> 1])]
    BY DEF Collect
  <2>3. replies_[req.write] \in [Planes -> Seq(Reply)] /\ replies_ \in [BOOLEAN -> [Planes -> Seq(Reply)]]
    BY <1>1 DEF TypeInv
  <2>4. [replies_[req.write] EXCEPT ![req.rp] = Append(@, [req |-> req, beat |-> 1])]
          \in [Planes -> Seq(Reply)]
    BY <1>1, <2>1, <2>3, QueuePut
  <2> QED BY <1>1, <2>2, <2>3, <2>4
<1>4. stage' \in Stages
  BY DEF Collect, Require, Stages
<1> QED BY <1>1, <1>2, <1>3, <1>4 DEF Collect, TypeInv

\* assemble moves at most one data beat of every plane into a write.
LEMMA TypeAssemble ==
  ASSUME TypeInv, Assemble
  PROVE  TypeInv'
<1>1. \A rp \in Planes : Takes(rp) => /\ Head(data_[rp]) \in KnownMessage
                                     /\ Payload(Head(data_[rp])) \in Beat
                                     /\ Tail(data_[rp]) \in Seq(KnownMessage)
  <2> SUFFICES ASSUME NEW rp \in Planes, data_[rp] # <<>>
               PROVE  /\ Head(data_[rp]) \in KnownMessage /\ Payload(Head(data_[rp])) \in Beat
                      /\ Tail(data_[rp]) \in Seq(KnownMessage)
    BY DEF Takes
  <2>1. data_[rp] \in Seq(KnownMessage)
    BY DEF TypeInv
  <2>2. Head(data_[rp]) \in KnownMessage /\ Tail(data_[rp]) \in Seq(KnownMessage)
    BY <2>1, HeadTail
  <2> QED BY <2>2 DEF Payload, KnownMessage, Message, Beat
<1>2. data_' \in [Planes -> Seq(KnownMessage)]
  BY <1>1 DEF TypeInv, Assemble
<1>3. returns' \in [Planes -> [ReqKinds -> Nat]]
  <2>1. returns \in [Planes -> [ReqKinds -> Nat]] /\ "WDATA" \in ReqKinds
    BY DEF TypeInv, ReqKinds
  <2>2. \A rp \in Planes : [returns[rp] EXCEPT !.WDATA = @ + 1] \in [ReqKinds -> Nat]
    BY <2>1
  <2> QED BY <2>1, <2>2 DEF Assemble
<1>4. writes_' \in [Planes -> Seq(Job)]
  <2> SUFFICES ASSUME NEW rp \in Planes, Takes(rp)
               PROVE  [writes_[rp] EXCEPT ![FirstLacking(rp)].write_beats =
                         Append(@, Payload(Head(data_[rp])))] \in Seq(Job)
    BY DEF TypeInv, Assemble
  <2> DEFINE f == FirstLacking(rp)  job == writes_[rp][f]
             new == [job EXCEPT !.write_beats = Append(@, Payload(Head(data_[rp])))]
  <2>1. f \in Lacking(rp)
    <3>1. /\ Len(writes_[rp]) \in Nat /\ Lacking(rp) \subseteq 1 .. Len(writes_[rp])
          /\ Lacking(rp) # {}
      <4>1. writes_[rp] \in Seq(Job)
        BY DEF TypeInv
      <4> QED BY <4>1 DEF Takes, Lacking
    <3> QED BY <3>1, FirstOf, Zenon DEF FirstLacking
  <2>2. f \in 1 .. Len(writes_[rp]) /\ job \in Job /\ writes_[rp] \in Seq(Job)
    <3>1. writes_[rp] \in Seq(Job) /\ f \in 1 .. Len(writes_[rp])
      BY <2>1 DEF Lacking, TypeInv
    <3> QED BY <3>1
  <2>3. new \in Job
    <3> HIDE DEF job
    <3>1. job.write_beats \in Seq(Beat) /\ Payload(Head(data_[rp])) \in Beat /\ job \in Job
      BY <2>2, <1>1 DEF Job
    <3>2. Append(job.write_beats, Payload(Head(data_[rp]))) \in Seq(Beat)
      BY <3>1, Appended
    <3> QED BY <3>1, <3>2 DEF Job
  <2>4. [writes_[rp] EXCEPT ![f] = new] \in Seq(Job)
    BY <2>2, <2>3
  <2> QED BY <2>4
<1> QED BY <1>2, <1>3, <1>4 DEF TypeInv, Assemble, Stages

\* What a submission takes from the store.
LEMMA SubmitFacts ==
  ASSUME TypeInv, NEW slot \in Slots, Submit(slot)
  PROVE  LET rp == SlotPlane(slot)
             job == Head(writes_[rp])
         IN  /\ rp \in Planes
             /\ IsWrite(slot) => /\ writes_[rp] # <<>> /\ job \in Job /\ Complete(job)
             /\ ~IsWrite(slot) => /\ reads_[rp] # <<>> /\ Head(reads_[rp]) \in Known
<1>1. SlotPlane(slot) \in Planes
  BY PlanesFacts
<1>2. writes_[SlotPlane(slot)] \in Seq(Job) /\ reads_[SlotPlane(slot)] \in Seq(Known)
  BY <1>1 DEF TypeInv
<1>3. Submittable(slot)
  BY DEF Submit, Chosen
<1> QED BY <1>1, <1>2, <1>3, HeadTail DEF Submittable

\* submit moves a request to the memory and issues its ticket.
LEMMA TypeSubmit ==
  ASSUME TypeInv, NEW slot \in Slots, Submit(slot)
  PROVE  TypeInv'
<1> DEFINE rp  == SlotPlane(slot)
           w   == IsWrite(slot)
           req == IF w THEN Head(writes_[rp]).req ELSE Head(reads_[rp])
           beats == IF w THEN Head(writes_[rp]).write_beats ELSE <<>>
<1>1. rp \in Planes /\ w \in BOOLEAN /\ (slot + 1) % (2 * RpCount) \in Slots
  BY PlanesFacts
<1>2. req \in Known /\ beats \in Seq(Beat)
  BY SubmitFacts DEF Job
<1>3. /\ [req |-> req, write_beats |-> beats] \in Job
      /\ [write |-> w, rp |-> rp, id |-> Id(req), beats |-> Beats(req)] \in Ticket
  BY <1>1, <1>2, KnownFacts DEF Job, Ticket
<1>4. /\ mem_req' = Append(mem_req, [req |-> req, write_beats |-> beats])
      /\ tickets_' = Append(tickets_, [write |-> w, rp |-> rp, id |-> Id(req), beats |-> Beats(req)])
      /\ writes_' = IF w THEN [writes_ EXCEPT ![rp] = Tail(@)] ELSE writes_
      /\ reads_' = IF w THEN reads_ ELSE [reads_ EXCEPT ![rp] = Tail(@)]
      /\ returns' = Release(rp, IF w THEN "WREQ" ELSE "RREQ")
      /\ outstanding_' = outstanding_ + 1 /\ next_submit_' = (slot + 1) % (2 * RpCount)
      /\ stage' = "transmit" /\ Len(mem_req) < MemDepth
  BY DEF Submit, CanSubmit
<1> HIDE DEF req, beats, rp, w
<1>5. mem_req' \in Seq(Job) /\ Len(mem_req') <= MemDepth
  <2>1. mem_req \in Seq(Job)
    BY DEF TypeInv
  <2> QED BY <1>3, <1>4, <2>1, Appended, TargetAssumption
<1>6. tickets_' \in Seq(Ticket)
  <2>1. tickets_ \in Seq(Ticket)
    BY DEF TypeInv
  <2> QED BY <1>3, <1>4, <2>1, Appended
<1>7. writes_' \in [Planes -> Seq(Job)] /\ reads_' \in [Planes -> Seq(Known)]
  <2>1. writes_ \in [Planes -> Seq(Job)] /\ reads_ \in [Planes -> Seq(Known)]
    BY DEF TypeInv
  <2>2. (w => writes_[rp] # <<>>) /\ (~w => reads_[rp] # <<>>)
    BY SubmitFacts DEF w, rp
  <2> QED BY <1>1, <1>4, <2>1, <2>2, QueueTake
<1>8. returns' \in [Planes -> [ReqKinds -> Nat]]
  <2>1. returns \in [Planes -> [ReqKinds -> Nat]]
    BY DEF TypeInv
  <2>2. returns' = [returns EXCEPT ![rp][IF w THEN "WREQ" ELSE "RREQ"] = @ + 1]
    BY <1>4 DEF Release
  <2>3. (IF w THEN "WREQ" ELSE "RREQ") \in ReqKinds
    BY DEF ReqKinds
  <2> QED BY <1>1, <2>1, <2>2, <2>3
<1>9. outstanding_' \in Int /\ next_submit_' \in Slots /\ stage' \in Stages
  BY <1>1, <1>4 DEF TypeInv, Stages
<1> QED BY <1>5, <1>6, <1>7, <1>8, <1>9 DEF Submit, TypeInv

\* What pack_fragment takes is what fits.
LEMMA TakeFacts ==
  ASSUME NEW f \in PartFlit,
         NEW msg \in Rsp, NEW from \in Nat, from < Granules[msg.kind]
  PROVE  /\ Take(f, msg, from) \in Nat
         /\ Take(f, msg, from) + from <= Granules[msg.kind]
         /\ f.used_granules < GranuleCount => Take(f, msg, from) > 0
         /\ PackFragment(f, msg, from) \in PartFlit
         /\ PackFragment(f, msg, from).used_granules = f.used_granules + Take(f, msg, from)
         /\ PackFragment(f, msg, from).fragments =
              Append(f.fragments, [msg |-> msg, from |-> from, take |-> Take(f, msg, from)])
<1> DEFINE g == Granules[msg.kind]
           t == Take(f, msg, from)
<1>1. g \in Nat /\ GranuleCount \in Nat /\ f.used_granules \in 0 .. GranuleCount
      /\ f.fragments \in Seq(Fragment)
  BY GranulesFacts DEF Rsp, PartFlit
<1>2. t = IF g - from <= GranuleCount - f.used_granules THEN g - from ELSE GranuleCount - f.used_granules
  BY DEF Take, Smaller
<1> HIDE DEF g, t
<1>3. /\ t \in Nat /\ t + from <= g /\ f.used_granules + t \in 0 .. GranuleCount
      /\ f.used_granules < GranuleCount => t > 0
  <2>1. from < g
    BY DEF g
  <2> QED BY <2>1, <1>1, <1>2
<1>4. [msg |-> msg, from |-> from, take |-> t] \in Fragment
  BY <1>3 DEF Fragment
<1>5. Append(f.fragments, [msg |-> msg, from |-> from, take |-> t]) \in Seq(Fragment)
  BY <1>1, <1>4, Appended
<1>6. PackFragment(f, msg, from) =
        [fragments |-> Append(f.fragments, [msg |-> msg, from |-> from, take |-> t]),
         used_granules |-> f.used_granules + t]
  BY DEF PackFragment, t
<1> QED BY <1>3, <1>5, <1>6 DEF g, t, PartFlit

\* What is cut off has begun and is not finished.
LEMMA CarryFacts ==
  ASSUME NEW c \in Carry, c # NoCarry
  PROVE  c \in [msg : Rsp, have : Nat \ {0}] /\ c.have < Granules[c.msg.kind]
BY DEF Carry

\* A response fits into a flit of its own, so that a tail is packed whole.
LEMMA ResumeFacts ==
  ASSUME TypeInv, ResumeSpill
  PROVE  /\ spill_' = NoCarry
         /\ outstanding_' = IF spill_completes_ THEN outstanding_ - 1 ELSE outstanding_
         /\ flit' \in PartFlit
         /\ flit'.fragments = <<[msg |-> spill_.msg, from |-> spill_.have,
                                take |-> Granules[spill_.msg.kind] - spill_.have]>>
         /\ flit'.used_granules > 0
<1> DEFINE msg == spill_.msg  from == spill_.have  t == Take(EmptyFlit, msg, from)
<1>1. /\ msg \in Rsp /\ from \in Nat /\ from < Granules[msg.kind] /\ spill_ \in Carry
  BY CarryFacts DEF TypeInv, ResumeSpill
<1>2. Granules[msg.kind] \in Nat /\ Granules[msg.kind] <= GranuleCount /\ GranuleCount \in Nat
  BY <1>1, GranulesFacts DEF Rsp
<1>3. /\ flit' = PackFragment(EmptyFlit, msg, from)
      /\ spill_' = IF from + t = Granules[msg.kind] THEN NoCarry ELSE [spill_ EXCEPT !.have = from + t]
      /\ outstanding_' = IF from + t = Granules[msg.kind] /\ spill_completes_
                          THEN outstanding_ - 1 ELSE outstanding_
  BY DEF ResumeSpill
<1>4. EmptyFlit.used_granules = 0 /\ EmptyFlit.fragments = <<>>
  BY DEF EmptyFlit
<1> HIDE DEF msg, from
<1>5. t = Granules[msg.kind] - from
  BY <1>1, <1>2, <1>4 DEF Take, Smaller
<1>6. /\ PackFragment(EmptyFlit, msg, from) \in
            PartFlit
      /\ PackFragment(EmptyFlit, msg, from).used_granules = 0 + t
      /\ PackFragment(EmptyFlit, msg, from).fragments =
            Append(<<>>, [msg |-> msg, from |-> from, take |-> t])
  BY <1>1, <1>4, TakeFacts, EmptyFlitType
<1>7. from + t = Granules[msg.kind] /\ t > 0 /\ 0 + t > 0
  BY <1>1, <1>2, <1>5
<1>8. \A x : Append(<<>>, x) = <<x>>
  OBVIOUS
<1> HIDE DEF t
<1> QED BY <1>3, <1>5, <1>6, <1>7, <1>8 DEF msg, from

\* resume_spill packs the tail of the last response.
LEMMA TypeResume ==
  ASSUME TypeInv, ResumeSpill
  PROVE  TypeInv'
<1>1. spill_' \in Carry /\ outstanding_' \in Int /\ stage' \in Stages
      /\ flit' \in PartFlit
  <2>1. outstanding_ \in Int
    BY DEF TypeInv
  <2>2. stage' = "pack"
    BY DEF ResumeSpill
  <2> QED BY <2>1, <2>2, ResumeFacts DEF Stages, Carry
<1> QED BY <1>1 DEF TypeInv, ResumeSpill

\* transmit starts an empty flit.
LEMMA TypeNewFlit ==
  ASSUME TypeInv, NewFlit
  PROVE  TypeInv'
<1>1. flit' \in PartFlit /\ stage' \in Stages
  BY EmptyFlitType DEF NewFlit, Stages
<1> QED BY <1>1 DEF TypeInv, NewFlit

\* Everything stored is kept with its plane and direction.
ReadsOf(rp)      == {r \in Known : ~r.write /\ r.rp = rp}
JobsOf(rp)       == {j \in Job : j.req.write /\ j.req.rp = rp}
DataOf(rp)       == {m \in KnownMessage : m.kind = "WDATA" /\ m.rp = rp}
RepliesOf(w, rp) == {r \in Reply : r.req.write = w /\ r.req.rp = rp}

PlaceInv ==
    \A rp \in Planes :
      /\ reads_[rp] \in Seq(ReadsOf(rp))
      /\ writes_[rp] \in Seq(JobsOf(rp))
      /\ data_[rp] \in Seq(DataOf(rp))
      /\ \A w \in BOOLEAN : replies_[w][rp] \in Seq(RepliesOf(w, rp))

KindOf(w) == IF w THEN "WRESP" ELSE "RDATA"

\* The reply that PackReply takes, its response and what of it is packed.
PackedReply(w, rp) == Head(replies_[w][rp])
PackedMsg(w, rp)   == Response(PackedReply(w, rp).req, PackedReply(w, rp).beat)
PackedPart(w, rp)  == Take(flit, PackedMsg(w, rp), 0)
IsCut(w, rp)       == PackedPart(w, rp) < Granules[KindOf(w)]

\* The reply pack_reply takes: its message, its plane and the part that fits.
LEMMA PackFacts ==
  ASSUME TypeInv, PlaceInv, NEW w \in BOOLEAN, NEW rp \in Planes, PackReply(w, rp)
  PROVE  /\ replies_[w][rp] \in Seq(Reply) /\ replies_[w][rp] # <<>>
         /\ PackedReply(w, rp) \in Reply
         /\ PackedReply(w, rp).req.write = w /\ PackedReply(w, rp).req.rp = rp
         /\ PackedMsg(w, rp) \in Rsp
         /\ PackedMsg(w, rp).kind = KindOf(w)
         /\ PackedMsg(w, rp).last = (w \/ PackedReply(w, rp).beat = Beats(PackedReply(w, rp).req))
         /\ KindOf(w) \in RspKinds /\ Granules[KindOf(w)] \in Nat \ {0}
         /\ PackedPart(w, rp) \in Nat \ {0} /\ PackedPart(w, rp) <= Granules[KindOf(w)]
         /\ tx_available[KindOf(w)][rp] >= Granules[KindOf(w)]
         /\ spill_ = NoCarry /\ flit.used_granules < GranuleCount
<1> DEFINE reply == PackedReply(w, rp)
           msg   == PackedMsg(w, rp)
           took  == PackedPart(w, rp)
           k     == KindOf(w)
           g     == Granules[k]
<1>1. /\ spill_ = NoCarry /\ flit.used_granules < GranuleCount /\ Sendable(w, rp)
  BY DEF PackReply, RoomInFlit, NextMessage
<1>2. replies_[w][rp] # <<>> /\ tx_available[k][rp] >= g
  BY <1>1 DEF Sendable, KindOf
<1>3. replies_[w][rp] \in Seq(Reply) /\ flit \in PartFlit
  BY DEF TypeInv
<1>4. reply \in Reply /\ reply = replies_[w][rp][1] /\ 1 \in 1 .. Len(replies_[w][rp])
  BY <1>2, <1>3, HeadTail DEF PackedReply
<1>5. reply.req.write = w /\ reply.req.rp = rp
  <2>1. replies_[w][rp] \in Seq(RepliesOf(w, rp))
    BY DEF PlaceInv
  <2>2. reply \in RepliesOf(w, rp)
    BY <1>2, <2>1, HeadTail DEF PackedReply
  <2> QED BY <2>2 DEF RepliesOf
<1>6. reply.req \in Known /\ reply.beat \in Nat /\ Beats(reply.req) \in Nat \ {0} /\ reply.req \in Request
  BY <1>4, KnownFacts DEF Reply
<1>7. /\ msg \in Rsp /\ msg.kind = k /\ k \in RspKinds
      /\ msg.last = (w \/ reply.beat = Beats(reply.req))
  BY <1>5, <1>6 DEF Response, Rsp, RspKinds, KindOf, PackedMsg
<1>8. g \in Nat \ {0}
  BY <1>7, GranulesFacts
<1>9. took \in Nat \ {0} /\ took <= g
  <2>1. 0 \in Nat /\ 0 < Granules[msg.kind]
    BY <1>7, <1>8
  <2>2. /\ Take(flit, msg, 0) \in Nat /\ Take(flit, msg, 0) + 0 <= Granules[msg.kind]
        /\ flit.used_granules < GranuleCount => Take(flit, msg, 0) > 0
    BY <1>3, <1>7, <2>1, TakeFacts
  <2>3. took = Take(flit, msg, 0)
    BY DEF PackedPart
  <2> HIDE DEF took, msg
  <2> QED BY <1>1, <1>7, <2>2, <2>3
<1> QED BY <1>1, <1>2, <1>3, <1>4, <1>5, <1>7, <1>8, <1>9

\* What pack_reply does to the flit, the spill and the counter.
LEMMA PackEffect ==
  ASSUME TypeInv, PlaceInv, NEW w \in BOOLEAN, NEW rp \in Planes, PackReply(w, rp)
  PROVE  /\ stage = "pack" /\ stage' = "pack"
         /\ flit' \in PartFlit
         /\ flit'.used_granules = flit.used_granules + PackedPart(w, rp)
         /\ flit'.fragments = Append(flit.fragments, [msg |-> PackedMsg(w, rp), from |-> 0,
                                                      take |-> PackedPart(w, rp)])
         /\ spill_' = IF IsCut(w, rp) THEN [msg |-> PackedMsg(w, rp), have |-> PackedPart(w, rp)]
                                      ELSE NoCarry
         /\ spill_completes_' = IF IsCut(w, rp) THEN PackedMsg(w, rp).last ELSE spill_completes_
         /\ outstanding_' = IF PackedMsg(w, rp).last /\ ~IsCut(w, rp) THEN outstanding_ - 1
                                                                      ELSE outstanding_
         /\ tx_available' = [tx_available EXCEPT ![KindOf(w)][rp] = @ - Granules[KindOf(w)]]
<1> DEFINE msg   == PackedMsg(w, rp)
           took  == PackedPart(w, rp)
           k     == KindOf(w)
           g     == Granules[k]
<1>1. /\ tx_available' = [tx_available EXCEPT ![msg.kind][rp] = @ - Granules[msg.kind]]
      /\ flit' = PackFragment(flit, msg, 0)
      /\ spill_' = IF took < Granules[msg.kind] THEN [msg |-> msg, have |-> took] ELSE spill_
      /\ spill_completes_' = IF took < Granules[msg.kind] THEN msg.last ELSE spill_completes_
      /\ outstanding_' = IF msg.last /\ ~(took < Granules[msg.kind]) THEN outstanding_ - 1 ELSE outstanding_
      /\ stage = "pack" /\ stage' = stage
  BY DEF PackReply, DoneNow, PackedMsg, PackedPart, PackedReply
<1>2. msg \in Rsp /\ msg.kind = k /\ g \in Nat \ {0} /\ spill_ = NoCarry /\ flit \in PartFlit
  <2>1. flit \in PartFlit
    BY DEF TypeInv
  <2> QED BY <2>1, PackFacts
<1>3. /\ PackFragment(flit, msg, 0) \in PartFlit
      /\ PackFragment(flit, msg, 0).used_granules = flit.used_granules + took
      /\ PackFragment(flit, msg, 0).fragments = Append(flit.fragments, [msg |-> msg, from |-> 0, take |-> took])
  <2>1. 0 \in Nat /\ 0 < Granules[msg.kind]
    BY <1>2
  <2> QED BY <1>2, <2>1, TakeFacts DEF PackedPart
<1> HIDE DEF msg, took, k
<1> QED BY <1>1, <1>2, <1>3 DEF IsCut, msg, took, k

\* What PackReply does to the queue of replies.
LEMMA PackReplies ==
  ASSUME TypeInv, PlaceInv, NEW w \in BOOLEAN, NEW rp \in Planes, PackReply(w, rp)
  PROVE  LET q     == replies_[w][rp]
             reply == PackedReply(w, rp)
             last  == PackedMsg(w, rp).last
         IN  /\ replies_' \in [BOOLEAN -> [Planes -> Seq(Reply)]]
             /\ last => replies_'[w][rp] = Tail(q)
             /\ ~last => /\ replies_'[w][rp] = [q EXCEPT ![1] = [reply EXCEPT !.beat = reply.beat + 1]]
                         /\ Len(replies_'[w][rp]) = Len(q)
                         /\ replies_'[w][rp][1] = [reply EXCEPT !.beat = reply.beat + 1]
                         /\ \A i \in 2 .. Len(q) : replies_'[w][rp][i] = q[i]
             /\ \A v \in BOOLEAN, p \in Planes : v # w \/ p # rp => replies_'[v][p] = replies_[v][p]
<1> DEFINE q     == replies_[w][rp]
           reply == PackedReply(w, rp)
           last  == PackedMsg(w, rp).last
           r     == [reply EXCEPT !.beat = reply.beat + 1]
           new   == IF last THEN Tail(q) ELSE [q EXCEPT ![1] = r]
<1>1. q \in Seq(Reply) /\ q # <<>> /\ reply \in Reply /\ last \in BOOLEAN
  BY PackFacts DEF Rsp
<1>2. /\ Len(q) \in Nat \ {0} /\ reply = q[1] /\ Tail(q) \in Seq(Reply) /\ 1 \in 1 .. Len(q)
  BY <1>1, HeadTail DEF PackedReply
<1>3. replies_ \in [BOOLEAN -> [Planes -> Seq(Reply)]]
  BY DEF TypeInv
<1>4. replies_' = [replies_ EXCEPT ![w][rp] =
                    IF last THEN Tail(@) ELSE [@ EXCEPT ![1].beat = reply.beat + 1]]
  BY DEF PackReply, PackedMsg, PackedReply
<1>5. replies_' = [replies_ EXCEPT ![w][rp] = new]
  BY <1>2, <1>3, <1>4
<1>6. r \in Reply
  BY <1>1 DEF Reply
<1> HIDE DEF reply, last
<1>7. /\ [q EXCEPT ![1] = r] \in Seq(Reply) /\ Len([q EXCEPT ![1] = r]) = Len(q)
      /\ \A j \in 1 .. Len(q) : [q EXCEPT ![1] = r][j] = IF j = 1 THEN r ELSE q[j]
  <2> HIDE DEF r, q
  <2> QED BY <1>1, <1>2, <1>6, ExceptSeq
<1>8. /\ [q EXCEPT ![1] = r][1] = r /\ \A i \in 2 .. Len(q) : [q EXCEPT ![1] = r][i] = q[i]
  <2> HIDE DEF r, q
  <2> QED BY <1>2, <1>7
<1>9. new \in Seq(Reply)
  BY <1>2, <1>7
<1>10. /\ replies_' \in [BOOLEAN -> [Planes -> Seq(Reply)]]
       /\ replies_'[w][rp] = new
       /\ \A v \in BOOLEAN, p \in Planes : v # w \/ p # rp => replies_'[v][p] = replies_[v][p]
  <2> HIDE DEF new
  <2> QED BY <1>3, <1>5, <1>9
<1> HIDE DEF r, q
<1> QED BY <1>7, <1>8, <1>10 DEF reply, last, q, r

\* pack_reply keeps the types.
LEMMA TypePack ==
  ASSUME TypeInv, PlaceInv, NEW w \in BOOLEAN, NEW rp \in Planes, PackReply(w, rp)
  PROVE  TypeInv'
<1> DEFINE k == KindOf(w)
           g == Granules[k]
<1>1. spill_' \in Carry
  <2>1. spill_' = IF IsCut(w, rp) THEN [msg |-> PackedMsg(w, rp), have |-> PackedPart(w, rp)]
                                  ELSE NoCarry
    BY PackEffect
  <2>2. /\ PackedMsg(w, rp) \in Rsp /\ PackedMsg(w, rp).kind = KindOf(w)
        /\ PackedPart(w, rp) \in Nat \ {0}
    BY PackFacts
  <2> QED BY <2>1, <2>2 DEF Carry, IsCut
<1>2. spill_completes_' \in BOOLEAN /\ outstanding_' \in Int
  <2>1. spill_completes_ \in BOOLEAN /\ outstanding_ \in Int /\ PackedMsg(w, rp).last \in BOOLEAN
    BY PackFacts DEF TypeInv, Rsp
  <2>2. /\ spill_completes_' = IF IsCut(w, rp) THEN PackedMsg(w, rp).last ELSE spill_completes_
        /\ outstanding_' = IF PackedMsg(w, rp).last /\ ~IsCut(w, rp) THEN outstanding_ - 1
                                                                     ELSE outstanding_
    BY PackEffect
  <2> QED BY <2>1, <2>2
<1>3. tx_available' \in [RspKinds -> [Planes -> Nat]]
  <2>1. /\ tx_available' = [tx_available EXCEPT ![k][rp] = @ - g]
        /\ k \in RspKinds /\ g \in Nat /\ tx_available[k][rp] >= g
    BY PackFacts, PackEffect
  <2>2. tx_available \in [RspKinds -> [Planes -> Nat]]
    BY DEF TypeInv
  <2> HIDE DEF k
  <2>3. tx_available[k][rp] - g \in Nat
    BY <2>1, <2>2
  <2> QED BY <2>1, <2>2, <2>3
<1>4. next_reply_' \in Planes
  BY PlanesFacts DEF PackReply
<1>5. replies_' \in [BOOLEAN -> [Planes -> Seq(Reply)]] /\ flit' \in PartFlit /\ stage' \in Stages
  BY PackReplies, PackEffect DEF Stages
<1> QED BY <1>1, <1>2, <1>3, <1>4, <1>5 DEF TypeInv, PackReply

\* send_flit puts the flit on the link with at most one plane's credits.
LEMMA TypeSend ==
  ASSUME TypeInv, (\E rp \in Planes : SendWithCredit(rp)) \/ SendWithoutCredit,
         Len(link_tx) < TxDepth
  PROVE  TypeInv'
<1>1. PICK rp \in Planes, grant \in [ReqKinds -> Nat] :
        SendFlit(rp, grant) /\ (returns' = returns \/ returns' = [returns EXCEPT ![rp] = NoReturns])
  <2>1. NoReturns \in [ReqKinds -> Nat] /\ 0 \in Planes
    BY PlanesFacts DEF NoReturns
  <2>2. \A rp \in Planes : returns[rp] \in [ReqKinds -> Nat]
    BY DEF TypeInv
  <2> QED BY <2>1, <2>2 DEF SendWithCredit, SendWithoutCredit
<1>2. returns' \in [Planes -> [ReqKinds -> Nat]]
  <2>1. returns \in [Planes -> [ReqKinds -> Nat]] /\ NoReturns \in [ReqKinds -> Nat]
    BY DEF TypeInv, NoReturns
  <2> QED BY <1>1, <2>1
<1>3. link_tx' \in Seq(Flit) /\ Len(link_tx') <= TxDepth
  <2>1. [fragments |-> flit.fragments, rp |-> rp, credit |-> grant] \in Flit
    BY <1>1 DEF Flit, PartFlit, TypeInv
  <2>2. link_tx \in Seq(Flit) /\ TxDepth \in Nat
    BY TargetAssumption DEF TypeInv
  <2>3. link_tx' = Append(link_tx, [fragments |-> flit.fragments, rp |-> rp, credit |-> grant])
    BY <1>1 DEF SendFlit
  <2> QED BY <2>1, <2>2, <2>3, Appended
<1>4. flit' \in PartFlit /\ stage' \in Stages
  BY <1>1, EmptyFlitType DEF SendFlit, Stages
<1> QED BY <1>1, <1>2, <1>3, <1>4 DEF SendFlit, TypeInv

\* The bridge sends its next request while it holds a credit for it.
LEMMA TypeSendRequest ==
  ASSUME TypeInv, NEW k \in {"RREQ", "WREQ"}, NEW rp \in Planes, SendRequest(k, rp)
  PROVE  TypeInv'
<1> DEFINE m == [kind |-> k, rp |-> rp, n |-> sent[k][rp] + 1, beat |-> 0]
<1>1. sent \in [{"RREQ", "WREQ"} -> [Planes -> Nat]] /\ sent[k][rp] \in Nat
  BY DEF TypeInv
<1>2. sent' \in [{"RREQ", "WREQ"} -> [Planes -> Nat]]
  BY <1>1 DEF SendRequest
<1>3. free' \in [Planes -> [ReqKinds -> Nat]]
  <2>1. free \in [Planes -> [ReqKinds -> Nat]] /\ k \in ReqKinds
    BY DEF TypeInv, ReqKinds
  <2>2. free[rp][k] > 0 /\ free' = [free EXCEPT ![rp][k] = @ - 1]
    BY DEF SendRequest, SpendCredit
  <2>3. free[rp][k] - 1 \in Nat
    BY <2>1, <2>2
  <2> QED BY <2>1, <2>2, <2>3
<1>4. m \in KnownMessage
  <2>1. m \in Message /\ m.kind = k /\ RequestOf(m) \in Request
        /\ RequestOf(m) = [write |-> k = "WREQ", rp |-> rp, n |-> sent[k][rp] + 1]
    BY <1>1 DEF Message, ReqKinds, RequestOf, Request
  <2>2. sent[k][rp] < Len((IF k = "WREQ" THEN Writes ELSE Reads)[rp])
    BY DEF SendRequest
  <2>3. Writes[rp] \in Seq(AskedFor) /\ Reads[rp] \in Seq(AskedFor)
    BY TargetAssumption
  <2>4. Len(Writes[rp]) \in Nat /\ Len(Reads[rp]) \in Nat
    BY <2>3
  <2>5. RequestOf(m) \in Known
    <3> DEFINE r == RequestOf(m)
    <3>1. r \in Request /\ r.write = (k = "WREQ") /\ r.rp = rp /\ r.n = sent[k][rp] + 1
      BY <2>1
    <3> HIDE DEF r
    <3>2. r.n <= Len((IF r.write THEN Writes ELSE Reads)[r.rp])
      <4>1. CASE k = "WREQ"
        <5>1. /\ (IF r.write THEN Writes ELSE Reads) = Writes
              /\ (IF k = "WREQ" THEN Writes ELSE Reads) = Writes
          BY <4>1, <3>1
        <5>2. sent[k][rp] < Len(Writes[rp])
          BY <5>1, <2>2
        <5> QED BY <5>1, <5>2, <1>1, <2>4, <3>1
      <4>2. CASE k = "RREQ"
        <5>1. /\ (IF r.write THEN Writes ELSE Reads) = Reads
              /\ (IF k = "WREQ" THEN Writes ELSE Reads) = Reads
          BY <4>2, <3>1
        <5>2. sent[k][rp] < Len(Reads[rp])
          BY <5>1, <2>2
        <5> QED BY <5>1, <5>2, <1>1, <2>4, <3>1
      <4> QED BY <4>1, <4>2
    <3>3. r \in Known
      BY <3>1, <3>2 DEF Known
    <3> QED BY <3>3 DEF r
  <2> QED BY <2>1, <2>5 DEF KnownMessage
<1>5. link_rx' \in Seq(KnownMessage)
  <2>1. link_rx' = Append(link_rx, m) /\ link_rx \in Seq(KnownMessage)
    BY DEF SendRequest, TypeInv
  <2> QED BY <1>4, <2>1, Appended
<1> QED BY <1>2, <1>3, <1>5 DEF TypeInv, SendRequest

\* The place after p in the write data of a plane.
Succ(rp, p) ==
    IF p.beat = Writes[rp][p.n].beats THEN [n |-> p.n + 1, beat |-> 1]
                                      ELSE [n |-> p.n, beat |-> p.beat + 1]

\* The bridge sends the data of its writes beat after beat.
LEMMA TypeSendData ==
  ASSUME TypeInv, NEW rp \in Planes, SendData(rp)
  PROVE  TypeInv' /\ w_next' = [w_next EXCEPT ![rp] = Succ(rp, w_next[rp])]
<1> DEFINE m == [kind |-> "WDATA", rp |-> rp, n |-> w_next[rp].n, beat |-> w_next[rp].beat]
           p == w_next[rp]
<1>1. w_next \in [Planes -> [n : Nat \ {0}, beat : Nat \ {0}]] /\ p.n \in Nat \ {0} /\ p.beat \in Nat \ {0}
  BY DEF TypeInv
<1>2. w_next' = [w_next EXCEPT ![rp] = Succ(rp, w_next[rp])]
  BY DEF SendData, Succ
<1>3. Succ(rp, p) \in [n : Nat \ {0}, beat : Nat \ {0}]
  BY <1>1 DEF Succ
<1>4. w_next' \in [Planes -> [n : Nat \ {0}, beat : Nat \ {0}]]
  BY <1>1, <1>2, <1>3
<1>5. free' \in [Planes -> [ReqKinds -> Nat]]
  <2>1. free \in [Planes -> [ReqKinds -> Nat]] /\ "WDATA" \in ReqKinds
    BY DEF TypeInv, ReqKinds
  <2>2. free[rp]["WDATA"] > 0 /\ free' = [free EXCEPT ![rp]["WDATA"] = @ - 1]
    BY DEF SendData, SpendCredit
  <2>3. free[rp]["WDATA"] - 1 \in Nat
    BY <2>1, <2>2
  <2> QED BY <2>1, <2>2, <2>3
<1>6. m \in KnownMessage
  BY <1>1 DEF KnownMessage, Message, ReqKinds
<1>7. link_rx' \in Seq(KnownMessage)
  <2>1. link_rx' = Append(link_rx, m) /\ link_rx \in Seq(KnownMessage)
    BY DEF SendData, TypeInv
  <2> QED BY <1>6, <2>1, Appended
<1> QED BY <1>2, <1>4, <1>5, <1>7 DEF TypeInv, SendData

\* The bridge decodes a flit and takes the credits in it.
LEMMA TypeBridgeReceive ==
  ASSUME TypeInv, BridgeReceive
  PROVE  TypeInv'
<1> DEFINE f == Head(link_tx)
<1>1. link_tx \in Seq(Flit) /\ link_tx # <<>> /\ link_tx' = Tail(link_tx)
  BY DEF TypeInv, BridgeReceive
<1>2. f \in Flit /\ link_tx' \in Seq(Flit) /\ Len(link_tx') = Len(link_tx) - 1 /\ Len(link_tx) \in Nat
  BY <1>1, HeadTail
<1>3. Len(link_tx') <= TxDepth
  BY <1>2, TargetAssumption DEF TypeInv
<1>4. free' \in [Planes -> [ReqKinds -> Nat]]
  <2>1. free' = [free EXCEPT ![f.rp] = [k \in ReqKinds |-> @[k] + f.credit[k]]]
        /\ free \in [Planes -> [ReqKinds -> Nat]]
    BY DEF BridgeReceive, TypeInv
  <2>2. f.rp \in Planes /\ f.credit \in [ReqKinds -> Nat]
    BY <1>2 DEF Flit
  <2>3. [k \in ReqKinds |-> free[f.rp][k] + f.credit[k]] \in [ReqKinds -> Nat]
    BY <2>1, <2>2
  <2> QED BY <2>1, <2>2, <2>3
<1>5. decoder_ok' \in BOOLEAN
  BY DEF BridgeReceive, Acceptable
<1> QED BY <1>2, <1>3, <1>4, <1>5 DEF TypeInv, BridgeReceive

\* The bridge returns response credits to the target.
LEMMA TypeAddTxCredit ==
  ASSUME TypeInv, NEW k \in RspKinds, NEW rp \in Planes, AddTxCredit(k, rp)
  PROVE  TypeInv'
<1>1. tx_available \in [RspKinds -> [Planes -> Nat]] /\ Granules[k] \in Nat
  BY GranulesFacts DEF TypeInv
<1>2. tx_available' \in [RspKinds -> [Planes -> Nat]]
  BY <1>1 DEF AddTxCredit
<1> QED BY <1>2 DEF TypeInv, AddTxCredit

\* The memory answers one of its requests.
LEMMA TypeMemComplete ==
  ASSUME TypeInv, NEW i \in 1 .. MemDepth, MemComplete(i)
  PROVE  TypeInv'
<1>1. /\ mem_req \in Seq(Job) /\ mem_rsp \in Seq(Known) /\ i \in 1 .. Len(mem_req)
      /\ MemDepth \in Nat /\ Len(mem_req) \in Nat /\ Len(mem_req) <= MemDepth
  BY TargetAssumption DEF TypeInv, MemComplete
<1>2. mem_req[i] \in Job /\ mem_req[i].req \in Known
  <2>1. mem_req[i] \in Job
    BY <1>1
  <2> QED BY <2>1 DEF Job
<1>3. mem_rsp' \in Seq(Known)
  BY <1>1, <1>2, Appended DEF MemComplete
<1>4. mem_req' \in Seq(Job) /\ Len(mem_req') <= MemDepth
  <2>1. mem_req' \in Seq(Job) /\ Len(mem_req') = Len(mem_req) - 1
    BY <1>1, RemoveAtFacts DEF MemComplete
  <2> QED BY <1>1, <2>1
<1> QED BY <1>3, <1>4 DEF TypeInv, MemComplete

-----------------------------------------------------------------------------
(* Planes and directions are kept apart.                                   *)

\* What Assemble does on a plane that has a beat for a write.
LEMMA AssembleFacts ==
  ASSUME TypeInv, Assemble, NEW rp \in Planes, Takes(rp)
  PROVE  LET f == FirstLacking(rp)
             q == writes_[rp]
         IN  /\ f \in Lacking(rp) /\ \A j \in Lacking(rp) : f <= j
             /\ f \in 1 .. Len(q) /\ q[f] \in Job /\ Len(q) \in Nat
             /\ writes_'[rp] = [q EXCEPT ![f] = [req |-> q[f].req,
                    write_beats |-> Append(q[f].write_beats, Payload(Head(data_[rp])))]]
             /\ Append(q[f].write_beats, Payload(Head(data_[rp]))) \in Seq(Beat)
             /\ Len(writes_'[rp]) = Len(q)
             /\ writes_'[rp][f] = [req |-> q[f].req,
                                  write_beats |-> Append(q[f].write_beats, Payload(Head(data_[rp])))]
             /\ \A i \in (1 .. Len(q)) \ {f} : writes_'[rp][i] = q[i]
<1> DEFINE f == FirstLacking(rp)
           q == writes_[rp]
           new == [req |-> q[f].req, write_beats |-> Append(q[f].write_beats, Payload(Head(data_[rp])))]
<1>1. q \in Seq(Job) /\ writes_ \in [Planes -> Seq(Job)]
  BY DEF TypeInv
<1>2. Len(q) \in Nat /\ Lacking(rp) \subseteq 1 .. Len(q) /\ Lacking(rp) # {}
  BY <1>1 DEF Takes, Lacking
<1>3. f \in Lacking(rp) /\ \A j \in Lacking(rp) : f <= j
  BY <1>2, FirstOf, Zenon DEF FirstLacking
<1>4. f \in 1 .. Len(q) /\ q[f] \in Job
  BY <1>1, <1>2, <1>3
<1>5. writes_'[rp] = [q EXCEPT ![f].write_beats = Append(@, Payload(Head(data_[rp])))]
  BY DEF Assemble
<1> HIDE DEF f
<1>6. writes_'[rp] = [q EXCEPT ![f] = new]
  BY <1>1, <1>4, <1>5 DEF Job
<1>8. Append(q[f].write_beats, Payload(Head(data_[rp]))) \in Seq(Beat)
  <2>1. data_[rp] \in Seq(KnownMessage) /\ data_[rp] # <<>>
    BY DEF TypeInv, Takes
  <2>2. Head(data_[rp]) \in KnownMessage
    BY <2>1, HeadTail
  <2>3. Payload(Head(data_[rp])) \in Beat /\ q[f].write_beats \in Seq(Beat)
    BY <2>2, <1>4 DEF Payload, KnownMessage, Message, Beat, Job
  <2> QED BY <2>3, Appended
<1> HIDE DEF q, new
<1>7. Len([q EXCEPT ![f] = new]) = Len(q) /\ [q EXCEPT ![f] = new][f] = new
      /\ \A i \in (1 .. Len(q)) \ {f} : [q EXCEPT ![f] = new][i] = q[i]
  BY <1>1, <1>4
<1> QED BY <1>2, <1>3, <1>4, <1>6, <1>7, <1>8 DEF q, f, new

\* assemble works on every plane by itself.
LEMMA AssembleOthers ==
  ASSUME TypeInv, Assemble, NEW rp \in Planes
  PROVE  /\ ~Takes(rp) => writes_'[rp] = writes_[rp] /\ data_'[rp] = data_[rp]
                          /\ returns'[rp] = returns[rp]
         /\ Takes(rp) => /\ data_[rp] # <<>> /\ data_'[rp] = Tail(data_[rp])
                         /\ returns'[rp] = [returns[rp] EXCEPT !.WDATA = @ + 1]
BY DEF Assemble, Takes

\* Every step keeps what is stored under its plane and direction.
LEMMA PlaceStep ==
  ASSUME TypeInv, PlaceInv, [Next]_vars
  PROVE  PlaceInv'
<1> DEFINE Kept(rp) == /\ reads_'[rp] \in Seq(ReadsOf(rp)) /\ writes_'[rp] \in Seq(JobsOf(rp))
                       /\ data_'[rp] \in Seq(DataOf(rp))
                       /\ \A w \in BOOLEAN : replies_'[w][rp] \in Seq(RepliesOf(w, rp))
<1>0. SUFFICES ASSUME NEW rp \in Planes PROVE Kept(rp)
  BY DEF PlaceInv
<1>1. /\ reads_[rp] \in Seq(ReadsOf(rp)) /\ writes_[rp] \in Seq(JobsOf(rp))
      /\ data_[rp] \in Seq(DataOf(rp))
      /\ \A w \in BOOLEAN : replies_[w][rp] \in Seq(RepliesOf(w, rp))
  BY DEF PlaceInv
<1>2. /\ reads_ \in [Planes -> Seq(Known)] /\ writes_ \in [Planes -> Seq(Job)]
      /\ data_ \in [Planes -> Seq(KnownMessage)] /\ replies_ \in [BOOLEAN -> [Planes -> Seq(Reply)]]
      /\ link_rx \in Seq(KnownMessage) /\ mem_rsp \in Seq(Known)
  BY DEF TypeInv
<1>3. CASE UNCHANGED <<reads_, writes_, data_, replies_>>
  BY <1>1, <1>3
<1>4. CASE ReceiveRead
  <2> DEFINE m == Incoming  r == RequestOf(m)
  <2>1. m \in KnownMessage /\ m.kind = "RREQ"
    BY <1>2, <1>4, HeadTail DEF ReceiveRead, Receive, Incoming
  <2>2. r \in ReadsOf(m.rp) /\ m.rp \in Planes
    BY <2>1 DEF KnownMessage, RequestOf, Message, ReadsOf
  <2>3. reads_' = [reads_ EXCEPT ![m.rp] = Append(@, r)] /\ UNCHANGED <<writes_, data_, replies_>>
    BY <1>4 DEF ReceiveRead, Receive
  <2> HIDE DEF m, r
  <2>4. reads_'[rp] = IF rp = m.rp THEN Append(reads_[rp], r) ELSE reads_[rp]
    BY <1>2, <2>3
  <2> QED BY <1>1, <2>2, <2>3, <2>4, Appended
<1>5. CASE ReceiveWrite
  <2> DEFINE m == Incoming  r == RequestOf(m)  j == [req |-> r, write_beats |-> <<>>]
  <2>1. m \in KnownMessage /\ m.kind = "WREQ"
    BY <1>2, <1>5, HeadTail DEF ReceiveWrite, Receive, Incoming
  <2>2. r \in Known /\ r.write /\ r.rp = m.rp /\ m.rp \in Planes
    BY <2>1 DEF KnownMessage, RequestOf, Message
  <2>3. j \in JobsOf(m.rp)
    BY <2>2 DEF Job, JobsOf
  <2>4. writes_' = [writes_ EXCEPT ![m.rp] = Append(@, j)] /\ UNCHANGED <<reads_, data_, replies_>>
    BY <1>5 DEF ReceiveWrite, Receive
  <2> HIDE DEF m, j
  <2>5. writes_'[rp] = IF rp = m.rp THEN Append(writes_[rp], j) ELSE writes_[rp]
    BY <1>2, <2>4
  <2> QED BY <1>1, <2>3, <2>4, <2>5, Appended
<1>6. CASE ReceiveData
  <2> DEFINE m == Incoming
  <2>1. m \in KnownMessage /\ m.kind = "WDATA"
    BY <1>2, <1>6, HeadTail DEF ReceiveData, Receive, Incoming
  <2>2. m \in DataOf(m.rp)
    BY <2>1 DEF DataOf
  <2>3. data_' = [data_ EXCEPT ![m.rp] = Append(@, m)] /\ UNCHANGED <<reads_, writes_, replies_>>
    BY <1>6 DEF ReceiveData, Receive
  <2> HIDE DEF m
  <2>4. data_'[rp] = IF rp = m.rp THEN Append(data_[rp], m) ELSE data_[rp]
    BY <1>2, <2>3
  <2> QED BY <1>1, <2>2, <2>3, <2>4, Appended
<1>7. CASE Collect
  <2> DEFINE req == Head(mem_rsp)  r == [req |-> req, beat |-> 1]
  <2>1. req \in Known
    BY <1>2, <1>7, HeadTail DEF Collect
  <2>2. req.write \in BOOLEAN /\ req.rp \in Planes
    BY <2>1 DEF Known, Request
  <2>3. replies_' = [replies_ EXCEPT ![req.write][req.rp] = Append(@, r)]
        /\ UNCHANGED <<reads_, writes_, data_>>
    BY <1>7 DEF Collect
  <2>4. r \in RepliesOf(req.write, req.rp)
    BY <2>1 DEF Reply, RepliesOf
  <2> HIDE DEF req, r
  <2>5. \A w \in BOOLEAN : replies_'[w][rp] = IF w = req.write /\ rp = req.rp
                                             THEN Append(replies_[w][rp], r) ELSE replies_[w][rp]
    BY <1>2, <2>2, <2>3
  <2>6. ASSUME NEW w \in BOOLEAN PROVE replies_'[w][rp] \in Seq(RepliesOf(w, rp))
    <3>1. CASE w = req.write /\ rp = req.rp
      <4>1. replies_'[w][rp] = Append(replies_[w][rp], r) /\ r \in RepliesOf(w, rp)
        BY <2>4, <2>5, <3>1
      <4>2. replies_[w][rp] \in Seq(RepliesOf(w, rp))
        BY <1>1
      <4> QED BY <4>1, <4>2, Appended
    <3>2. CASE ~(w = req.write /\ rp = req.rp)
      BY <1>1, <2>5, <3>2
    <3> QED BY <3>1, <3>2
  <2> QED BY <1>1, <2>3, <2>6
<1>8. CASE Assemble
  <2>1. UNCHANGED <<reads_, replies_>>
    BY <1>8 DEF Assemble
  <2>2. CASE ~Takes(rp)
    <3>1. writes_'[rp] = writes_[rp] /\ data_'[rp] = data_[rp]
      BY <1>8, <2>2, AssembleOthers
    <3> QED BY <1>1, <2>1, <3>1
  <2>3. CASE Takes(rp)
    <3>1. data_[rp] # <<>> /\ data_'[rp] = Tail(data_[rp])
      BY <1>8, <2>3, AssembleOthers
    <3>2. data_'[rp] \in Seq(DataOf(rp))
      BY <1>1, <3>1, HeadTail
    <3> DEFINE f == FirstLacking(rp)
               b == Append(writes_[rp][f].write_beats, Payload(Head(data_[rp])))
               new == [req |-> writes_[rp][f].req, write_beats |-> b]
    <3>3. /\ f \in 1 .. Len(writes_[rp]) /\ writes_'[rp] = [writes_[rp] EXCEPT ![f] = new]
          /\ b \in Seq(Beat)
      BY <1>8, <2>3, AssembleFacts
    <3>4. writes_[rp][f] \in JobsOf(rp)
      BY <1>1, <3>3
    <3> HIDE DEF f, b
    <3>5. new \in JobsOf(rp)
      BY <3>3, <3>4 DEF JobsOf, Job
    <3> HIDE DEF new
    <3>6. writes_'[rp] \in Seq(JobsOf(rp))
      BY <1>1, <3>3, <3>5
    <3> QED BY <1>1, <2>1, <3>2, <3>6
  <2> QED BY <2>2, <2>3
<1>9. ASSUME NEW slot \in Slots, Submit(slot) PROVE Kept(rp)
  <2> DEFINE p == SlotPlane(slot)
  <2>1. /\ writes_' = IF IsWrite(slot) THEN [writes_ EXCEPT ![p] = Tail(@)] ELSE writes_
        /\ reads_' = IF IsWrite(slot) THEN reads_ ELSE [reads_ EXCEPT ![p] = Tail(@)]
        /\ UNCHANGED <<data_, replies_>>
    BY <1>9 DEF Submit
  <2>2. p \in Planes /\ (IsWrite(slot) => writes_[p] # <<>>) /\ (~IsWrite(slot) => reads_[p] # <<>>)
    BY <1>9, SubmitFacts
  <2> HIDE DEF p
  <2>3. writes_'[rp] = writes_[rp] \/ (writes_[rp] # <<>> /\ writes_'[rp] = Tail(writes_[rp]))
    BY <1>2, <2>1, <2>2
  <2>4. reads_'[rp] = reads_[rp] \/ (reads_[rp] # <<>> /\ reads_'[rp] = Tail(reads_[rp]))
    BY <1>2, <2>1, <2>2
  <2> QED BY <1>1, <2>1, <2>3, <2>4, HeadTail
<1>10. ASSUME NEW w \in BOOLEAN, NEW p \in Planes, PackReply(w, p) PROVE Kept(rp)
  <2>1. UNCHANGED <<reads_, writes_, data_>>
    BY <1>10 DEF PackReply
  <2> DEFINE r == PackedReply(w, p)
             next == [r EXCEPT !.beat = r.beat + 1]
  <2>2. /\ \A v \in BOOLEAN, o \in Planes : v # w \/ o # p => replies_'[v][o] = replies_[v][o]
        /\ replies_'[w][p] = Tail(replies_[w][p]) \/ replies_'[w][p] = [replies_[w][p] EXCEPT ![1] = next]
    BY <1>10, PackReplies, Zenon
  <2>3. replies_[w][p] # <<>> /\ r \in Reply /\ r.req.write = w /\ r.req.rp = p
    BY <1>10, PackFacts
  <2> HIDE DEF r
  <2>4. next \in RepliesOf(w, p)
    BY <2>3 DEF Reply, RepliesOf
  <2> HIDE DEF next
  <2>5. replies_[w][p] \in Seq(RepliesOf(w, p))
    BY DEF PlaceInv
  <2>6. /\ Tail(replies_[w][p]) \in Seq(RepliesOf(w, p))
        /\ [replies_[w][p] EXCEPT ![1] = next] \in Seq(RepliesOf(w, p))
    BY <2>3, <2>4, <2>5, HeadTail
  <2>7. ASSUME NEW v \in BOOLEAN PROVE replies_'[v][rp] \in Seq(RepliesOf(v, rp))
    <3>1. CASE v = w /\ rp = p
      BY <2>2, <2>6, <3>1, Zenon
    <3>2. CASE v # w \/ rp # p
      BY <1>1, <2>2, <3>2, Zenon
    <3> QED BY <3>1, <3>2
  <2> QED BY <1>1, <2>1, <2>7
<1>11. Next \/ UNCHANGED vars
  OBVIOUS
<1> HIDE DEF Kept
<1> QED
  BY <1>3, <1>4, <1>5, <1>6, <1>7, <1>8, <1>9, <1>10, <1>11
  DEF Next, Thread, Surroundings, vars, others, Pass, ReceiveDone, CollectNothing, SubmitNothing,
      TransmitStalled, ResumeSpill, NewFlit, SendWithCredit, SendWithoutCredit, SendFlit,
      SendNothing, SendRequest, SendData, BridgeReceive, AddTxCredit, MemComplete

\* Nothing is stored after construction.
LEMMA InitPlace == Init => PlaceInv
BY DEF Init, PlaceInv

\* A flit is only begun where link_tx has room for it, and the surroundings
\* do not fill it.
RoomInv == stage = "pack" => Len(link_tx) < TxDepth

\* No step fills link_tx while a flit is being packed.
LEMMA RoomStep ==
  ASSUME TypeInv, RoomInv, [Next]_vars
  PROVE  RoomInv'
<1>1. CASE stage' # "pack"
  BY <1>1 DEF RoomInv
<1>2. CASE stage' = "pack" /\ stage = "pack" /\ UNCHANGED link_tx
  BY <1>2 DEF RoomInv
<1>3. CASE ResumeSpill \/ NewFlit
  BY <1>3 DEF ResumeSpill, NewFlit, RoomInv
<1>4. ASSUME NEW w \in BOOLEAN, NEW rp \in Planes, PackReply(w, rp) PROVE RoomInv'
  BY <1>4 DEF PackReply, RoomInv
<1>5. CASE UNCHANGED vars
  BY <1>5 DEF vars, others, RoomInv
<1>6. CASE Surroundings
  <2>1. ReceiveRead \/ ReceiveWrite \/ ReceiveData => stage' # "pack"
    BY DEF ReceiveRead, ReceiveWrite, ReceiveData, Require
  <2> QED BY <1>1, <1>6, <2>1
          DEF Surroundings, SendRequest, SendData, BridgeReceive, AddTxCredit, MemComplete
<1>7. ReceiveDone \/ CollectNothing \/ SubmitNothing \/ TransmitStalled \/ SendNothing
        => stage' # "pack"
  BY DEF Pass, ReceiveDone, CollectNothing, SubmitNothing, TransmitStalled, SendNothing
<1>8. Collect \/ Assemble => stage' # "pack"
  BY DEF Collect, Assemble, Require
<1>9. \A slot \in Slots : Submit(slot) => stage' # "pack"
  BY DEF Submit
<1>10. SendWithoutCredit \/ (\E rp \in Planes : SendWithCredit(rp)) => stage' # "pack"
  BY DEF SendWithoutCredit, SendWithCredit, SendFlit
<1> QED BY <1>1, <1>3, <1>4, <1>5, <1>6, <1>7, <1>8, <1>9, <1>10 DEF Next, Thread

\* Every step keeps the types.
LEMMA TypeStep ==
  ASSUME TypeInv, PlaceInv, RoomInv, [Next]_vars
  PROVE  TypeInv'
<1>1. CASE UNCHANGED vars
  BY <1>1 DEF TypeInv, vars, others
<1>2. CASE (\E rp \in Planes : SendWithCredit(rp)) \/ SendWithoutCredit
  <2>1. Len(link_tx) < TxDepth
    BY <1>2 DEF RoomInv, SendWithCredit, SendWithoutCredit, PackedAll
  <2> QED BY <1>2, <2>1, TypeSend
<1>3. CASE Next
  BY <1>2, <1>3, TypeReceive, TypePass, TypeCollect, TypeAssemble, TypeSubmit, TypeResume,
     TypeNewFlit, TypePack, TypeSendRequest, TypeSendData, TypeBridgeReceive,
     TypeAddTxCredit, TypeMemComplete DEF Next, Thread, Surroundings, RspKinds
<1> QED BY <1>1, <1>3

Base == TypeInv /\ PlaceInv /\ RoomInv

\* The first three layers are inductive together.
LEMMA BaseStep ==
  ASSUME Base, [Next]_vars
  PROVE  Base'
BY TypeStep, PlaceStep, RoomStep DEF Base

\* The first three layers hold in every reachable state.
LEMMA BaseInvariant == SafeSpec => []Base
<1>1. Init => Base
  <2>1. Init => RoomInv
    BY DEF Init, RoomInv
  <2> QED BY <2>1, InitType, InitPlace DEF Base
<1> QED BY <1>1, BaseStep, PTL DEF SafeSpec

-----------------------------------------------------------------------------
(* Credit: what the bridge may still send, what is on its way, what is     *)
(* stored and what is still to be announced add up to the capacity.        *)

Stored(rp, k) ==
    CASE k = "RREQ"  -> Len(reads_[rp])
      [] k = "WREQ"  -> Len(writes_[rp])
      [] k = "WDATA" -> Len(data_[rp])

One(m, rp, k)  == IF m.kind = k /\ m.rp = rp THEN 1 ELSE 0
Gift(f, rp, k) == IF f.rp = rp THEN f.credit[k] ELSE 0

\* The weights of what is on the link, for one plane and kind.
InFlight(s, rp, k) == [i \in 1 .. Len(s) |-> One(s[i], rp, k)]
Granted(s, rp, k)  == [i \in 1 .. Len(s) |-> Gift(s[i], rp, k)]

CreditInv ==
    \A rp \in Planes, k \in ReqKinds : \E t \in Nat, u \in Nat :
      /\ Total(InFlight(link_rx, rp, k), t) /\ Total(Granted(link_tx, rp, k), u)
      /\ free[rp][k] + t + u + Stored(rp, k) + returns[rp][k] = Capacity[k]

\* A message put on the link counts one credit in flight.
LEMMA FlightPut ==
  ASSUME NEW s \in Seq(KnownMessage), NEW m \in KnownMessage, NEW rp, NEW k, NEW t \in Nat,
         Total(InFlight(s, rp, k), t)
  PROVE  Total(InFlight(Append(s, m), rp, k), t + One(m, rp, k))
<1>1. InFlight(s, rp, k) \in Seq(Nat) /\ One(m, rp, k) \in Nat
  BY DEF InFlight, One
<1>2. InFlight(Append(s, m), rp, k) = Append(InFlight(s, rp, k), One(m, rp, k))
  BY DEF InFlight
<1> QED BY <1>1, <1>2, TotalAppend

\* A message taken off the link counts one credit less in flight.
LEMMA FlightTake ==
  ASSUME NEW s \in Seq(KnownMessage), s # <<>>, NEW rp, NEW k, NEW t \in Nat,
         Total(InFlight(s, rp, k), t)
  PROVE  t - One(Head(s), rp, k) \in Nat /\ Total(InFlight(Tail(s), rp, k), t - One(Head(s), rp, k))
<1> DEFINE w == InFlight(s, rp, k)
<1>1. w \in Seq(Nat) /\ w # <<>> /\ w[1] = One(Head(s), rp, k)
  BY DEF InFlight, One
<1>2. InFlight(Tail(s), rp, k) = Tail(w)
  BY DEF InFlight
<1> HIDE DEF w
<1> QED BY <1>1, <1>2, TotalTail DEF w

\* A flit put on the link grants the credits it carries.
LEMMA GrantPut ==
  ASSUME NEW s \in Seq(Flit), NEW f \in Flit, NEW rp, NEW k \in ReqKinds, NEW t \in Nat,
         Total(Granted(s, rp, k), t)
  PROVE  Total(Granted(Append(s, f), rp, k), t + Gift(f, rp, k))
<1>1. \A g \in Flit : Gift(g, rp, k) \in Nat
  BY DEF Gift, Flit
<1>2. Granted(s, rp, k) \in Seq(Nat)
  BY <1>1 DEF Granted
<1>3. Granted(Append(s, f), rp, k) = Append(Granted(s, rp, k), Gift(f, rp, k))
  BY DEF Granted
<1> QED BY <1>1, <1>2, <1>3, TotalAppend

\* A flit taken off the link grants its credits no longer.
LEMMA GrantTake ==
  ASSUME NEW s \in Seq(Flit), s # <<>>, NEW rp, NEW k \in ReqKinds, NEW t \in Nat,
         Total(Granted(s, rp, k), t)
  PROVE  t - Gift(Head(s), rp, k) \in Nat /\ Total(Granted(Tail(s), rp, k), t - Gift(Head(s), rp, k))
<1> DEFINE w == Granted(s, rp, k)
<1>1. \A g \in Flit : Gift(g, rp, k) \in Nat
  BY DEF Gift, Flit
<1>2. w \in Seq(Nat) /\ w # <<>> /\ w[1] = Gift(Head(s), rp, k)
  BY <1>1 DEF Granted
<1>3. Granted(Tail(s), rp, k) = Tail(w)
  BY DEF Granted
<1> HIDE DEF w
<1> QED BY <1>2, <1>3, TotalTail DEF w

\* Every kind of message has its store, and every count is a natural.
LEMMA StoredFacts ==
  /\ \A rp : Stored(rp, "RREQ") = Len(reads_[rp]) /\ Stored(rp, "WREQ") = Len(writes_[rp])
            /\ Stored(rp, "WDATA") = Len(data_[rp])
  /\ TypeInv => \A rp \in Planes, k \in ReqKinds :
       Stored(rp, k) \in Nat /\ free[rp][k] \in Nat /\ returns[rp][k] \in Nat /\ Capacity[k] \in Nat
<1>1. \A rp : Stored(rp, "RREQ") = Len(reads_[rp]) /\ Stored(rp, "WREQ") = Len(writes_[rp])
            /\ Stored(rp, "WDATA") = Len(data_[rp])
  BY DEF Stored
<1>2. ASSUME TypeInv, NEW rp \in Planes, NEW k \in ReqKinds
      PROVE  Stored(rp, k) \in Nat /\ free[rp][k] \in Nat /\ returns[rp][k] \in Nat /\ Capacity[k] \in Nat
  <2>1. Len(reads_[rp]) \in Nat /\ Len(writes_[rp]) \in Nat /\ Len(data_[rp]) \in Nat
    <3>1. reads_[rp] \in Seq(Known) /\ writes_[rp] \in Seq(Job) /\ data_[rp] \in Seq(KnownMessage)
      BY <1>2 DEF TypeInv
    <3> QED BY <3>1
  <2>2. k = "RREQ" \/ k = "WREQ" \/ k = "WDATA"
    BY DEF ReqKinds
  <2>3. Stored(rp, k) \in Nat
    BY <1>1, <2>1, <2>2
  <2>4. Capacity[k] \in Nat
    BY <2>2, TargetAssumption DEF Capacity
  <2> QED BY <1>2, <2>3, <2>4 DEF TypeInv
<1> QED BY <1>1, <1>2

\* What the stores hold after a message was received.
LEMMA ReceiveStored ==
  ASSUME TypeInv, ReceiveRead \/ ReceiveWrite \/ ReceiveData, NEW rp \in Planes, NEW k \in ReqKinds
  PROVE  /\ link_rx \in Seq(KnownMessage) /\ link_rx # <<>> /\ link_rx' = Tail(link_rx)
         /\ UNCHANGED <<free, returns, link_tx>>
         /\ Stored(rp, k)' = Stored(rp, k) + One(Head(link_rx), rp, k)
<1> DEFINE m == Incoming
<1>1. /\ link_rx \in Seq(KnownMessage) /\ link_rx # <<>> /\ link_rx' = Tail(link_rx)
      /\ UNCHANGED <<free, returns, link_tx>>
  BY DEF TypeInv, ReceiveRead, ReceiveWrite, ReceiveData, Receive
<1>2. m \in KnownMessage /\ m = Head(link_rx)
  BY <1>1, HeadTail DEF Incoming
<1>3. reads_ \in [Planes -> Seq(Known)] /\ writes_ \in [Planes -> Seq(Job)] /\ data_ \in [Planes -> Seq(KnownMessage)]
  BY DEF TypeInv
<1>4. k = "RREQ" \/ k = "WREQ" \/ k = "WDATA"
  BY DEF ReqKinds
<1>5. /\ Stored(rp, "RREQ")' = Len(reads_'[rp]) /\ Stored(rp, "WREQ")' = Len(writes_'[rp])
      /\ Stored(rp, "WDATA")' = Len(data_'[rp])
  BY DEF Stored
<1> HIDE DEF m
<1>6. Len(reads_[rp]) \in Nat /\ Len(writes_[rp]) \in Nat /\ Len(data_[rp]) \in Nat
  BY <1>3
<1>7. CASE ReceiveRead
  <2>1. /\ m.kind = "RREQ" /\ UNCHANGED <<writes_, data_>>
        /\ reads_' = [reads_ EXCEPT ![m.rp] = Append(@, RequestOf(m))]
    BY <1>7 DEF ReceiveRead, Receive, m
  <2>2. Len(reads_'[rp]) = Len(reads_[rp]) + One(m, rp, "RREQ")
    BY <1>2, <1>3, <2>1 DEF One
  <2>3. One(m, rp, "WREQ") = 0 /\ One(m, rp, "WDATA") = 0
    BY <2>1 DEF One
  <2> QED BY <1>1, <1>2, <1>4, <1>5, <1>6, <2>1, <2>2, <2>3, StoredFacts
<1>8. CASE ReceiveWrite
  <2>1. /\ m.kind = "WREQ" /\ UNCHANGED <<reads_, data_>>
        /\ writes_' = [writes_ EXCEPT ![m.rp] = Append(@, [req |-> RequestOf(m), write_beats |-> <<>>])]
    BY <1>8 DEF ReceiveWrite, Receive, m
  <2>2. Len(writes_'[rp]) = Len(writes_[rp]) + One(m, rp, "WREQ")
    BY <1>2, <1>3, <2>1 DEF One
  <2>3. One(m, rp, "RREQ") = 0 /\ One(m, rp, "WDATA") = 0
    BY <2>1 DEF One
  <2> QED BY <1>1, <1>2, <1>4, <1>5, <1>6, <2>1, <2>2, <2>3, StoredFacts
<1>9. CASE ReceiveData
  <2>1. /\ m.kind = "WDATA" /\ UNCHANGED <<reads_, writes_>>
        /\ data_' = [data_ EXCEPT ![m.rp] = Append(@, m)]
    BY <1>9 DEF ReceiveData, Receive, m
  <2>2. Len(data_'[rp]) = Len(data_[rp]) + One(m, rp, "WDATA")
    BY <1>2, <1>3, <2>1 DEF One
  <2>3. One(m, rp, "RREQ") = 0 /\ One(m, rp, "WREQ") = 0
    BY <2>1 DEF One
  <2> QED BY <1>1, <1>2, <1>4, <1>5, <1>6, <2>1, <2>2, <2>3, StoredFacts
<1> QED BY <1>7, <1>8, <1>9

\* A message always finds room: receive never throws.
LEMMA ReceiveRoom ==
  ASSUME TypeInv, CreditInv, ReceiveRead \/ ReceiveWrite \/ ReceiveData
  PROVE  stage' = "receive"
<1> DEFINE m == Incoming  rp == m.rp  k == m.kind
<1>1. link_rx \in Seq(KnownMessage) /\ link_rx # <<>>
  BY DEF TypeInv, ReceiveRead, ReceiveWrite, ReceiveData, Receive
<1>2. m = Head(link_rx) /\ rp \in Planes /\ k \in ReqKinds
  BY <1>1, HeadTail DEF Incoming, KnownMessage, Message
<1>3. PICK t \in Nat, u \in Nat :
        /\ Total(InFlight(link_rx, rp, k), t)
        /\ free[rp][k] + t + u + Stored(rp, k) + returns[rp][k] = Capacity[k]
  BY <1>2 DEF CreditInv
<1>4. t - 1 \in Nat
  <2>1. One(Head(link_rx), rp, k) = 1
    BY <1>2 DEF One
  <2>2. t - One(Head(link_rx), rp, k) \in Nat
    BY <1>1, <1>3, FlightTake
  <2> QED BY <2>1, <2>2
<1>5. Stored(rp, k) < Capacity[k]
  <2>1. /\ Stored(rp, k) \in Nat /\ free[rp][k] \in Nat /\ returns[rp][k] \in Nat
        /\ Capacity[k] \in Nat
    BY <1>2, StoredFacts
  <2> QED BY <1>3, <1>4, <2>1
<1> HIDE DEF m
<1>6. CASE ReceiveRead
  <2>1. k = "RREQ" /\ (Len(reads_[rp]) < REQUEST_SLOTS => stage' = "receive")
    BY <1>6 DEF ReceiveRead, Receive, Require, m
  <2>2. Capacity[k] = REQUEST_SLOTS
    BY <2>1 DEF Capacity
  <2> QED BY <1>5, <2>1, <2>2, StoredFacts
<1>7. CASE ReceiveWrite
  <2>1. k = "WREQ" /\ (Len(writes_[rp]) < REQUEST_SLOTS => stage' = "receive")
    BY <1>7 DEF ReceiveWrite, Receive, Require, m
  <2>2. Capacity[k] = REQUEST_SLOTS
    BY <2>1 DEF Capacity
  <2> QED BY <1>5, <2>1, <2>2, StoredFacts
<1>8. CASE ReceiveData
  <2>1. k = "WDATA" /\ (Len(data_[rp]) < WDATA_SLOTS => stage' = "receive")
    BY <1>8 DEF ReceiveData, Receive, Require, m
  <2>2. Capacity[k] = WDATA_SLOTS
    BY <2>1 DEF Capacity
  <2> QED BY <1>5, <2>1, <2>2, StoredFacts
<1> QED BY <1>6, <1>7, <1>8

\* What leaves a store is announced again.
LEMMA ReleaseStored ==
  ASSUME TypeInv, Assemble \/ \E slot \in Slots : Submit(slot), NEW rp \in Planes, NEW k \in ReqKinds
  PROVE  Stored(rp, k)' + returns'[rp][k] = Stored(rp, k) + returns[rp][k]
<1>1. reads_ \in [Planes -> Seq(Known)] /\ writes_ \in [Planes -> Seq(Job)] /\ data_ \in [Planes -> Seq(KnownMessage)]
      /\ returns \in [Planes -> [ReqKinds -> Nat]]
  BY DEF TypeInv
<1>2. Len(reads_[rp]) \in Nat /\ Len(writes_[rp]) \in Nat /\ Len(data_[rp]) \in Nat
      /\ returns[rp] \in [ReqKinds -> Nat] /\ returns[rp][k] \in Nat
  BY <1>1
<1>3. k = "RREQ" \/ k = "WREQ" \/ k = "WDATA"
  BY DEF ReqKinds
<1>4. /\ Stored(rp, "RREQ")' = Len(reads_'[rp]) /\ Stored(rp, "WREQ")' = Len(writes_'[rp])
      /\ Stored(rp, "WDATA")' = Len(data_'[rp])
  BY DEF Stored
<1>5. CASE Assemble
  <2>1. CASE ~Takes(rp)
    <3>1. /\ reads_' = reads_ /\ writes_'[rp] = writes_[rp] /\ data_'[rp] = data_[rp]
          /\ returns'[rp] = returns[rp]
      BY <1>5, <2>1, AssembleOthers DEF Assemble
    <3> QED BY <1>2, <1>3, <1>4, <3>1, StoredFacts
  <2>2. CASE Takes(rp)
    <3>1. /\ reads_' = reads_ /\ data_[rp] # <<>> /\ data_'[rp] = Tail(data_[rp])
          /\ returns'[rp] = [returns[rp] EXCEPT !.WDATA = @ + 1]
      BY <1>5, <2>2, AssembleOthers DEF Assemble
    <3>2. Len(writes_'[rp]) = Len(writes_[rp])
      BY <1>5, <2>2, AssembleFacts
    <3>3. Len(data_'[rp]) = Len(data_[rp]) - 1
      <4>1. data_[rp] \in Seq(KnownMessage)
        BY <1>1
      <4> QED BY <3>1, <4>1, HeadTail
    <3>4. /\ returns'[rp]["WDATA"] = returns[rp]["WDATA"] + 1
          /\ returns'[rp]["RREQ"] = returns[rp]["RREQ"] /\ returns'[rp]["WREQ"] = returns[rp]["WREQ"]
      BY <1>2, <3>1 DEF ReqKinds
    <3>5. /\ Stored(rp, "RREQ")' = Stored(rp, "RREQ") /\ Stored(rp, "WREQ")' = Stored(rp, "WREQ")
          /\ Stored(rp, "WDATA")' = Stored(rp, "WDATA") - 1 /\ Stored(rp, "WDATA") \in Nat
      BY <1>2, <1>4, <3>1, <3>2, <3>3, StoredFacts
    <3> QED BY <1>2, <1>3, <3>4, <3>5
  <2> QED BY <2>1, <2>2
<1>6. ASSUME NEW slot \in Slots, Submit(slot)
      PROVE  Stored(rp, k)' + returns'[rp][k] = Stored(rp, k) + returns[rp][k]
  <2> DEFINE p == SlotPlane(slot)  w == IsWrite(slot)
  <2>1. /\ writes_' = IF w THEN [writes_ EXCEPT ![p] = Tail(@)] ELSE writes_
        /\ reads_' = IF w THEN reads_ ELSE [reads_ EXCEPT ![p] = Tail(@)]
        /\ returns' = [returns EXCEPT ![p][IF w THEN "WREQ" ELSE "RREQ"] = @ + 1]
        /\ UNCHANGED data_
    BY <1>6 DEF Submit, Release
  <2>2. p \in Planes /\ (w => writes_[p] # <<>>) /\ (~w => reads_[p] # <<>>)
    BY <1>6, SubmitFacts
  <2> HIDE DEF p, w
  <2>3. CASE p # rp
    <3>1. writes_'[rp] = writes_[rp] /\ reads_'[rp] = reads_[rp] /\ returns'[rp] = returns[rp]
      BY <1>1, <2>1, <2>2, <2>3
    <3> QED BY <1>2, <1>3, <1>4, <2>1, <3>1, StoredFacts
  <2>4. CASE p = rp /\ w
    <3>1. writes_'[rp] = Tail(writes_[rp]) /\ reads_' = reads_ /\ writes_[rp] # <<>>
      BY <1>1, <2>1, <2>2, <2>4
    <3>2. Len(writes_'[rp]) = Len(writes_[rp]) - 1
      <4>1. writes_[rp] \in Seq(Job)
        BY <1>1
      <4> QED BY <3>1, <4>1, HeadTail
    <3>3. returns' = [returns EXCEPT ![rp]["WREQ"] = @ + 1]
      BY <2>1, <2>4
    <3>4. returns'[rp]["WREQ"] = returns[rp]["WREQ"] + 1 /\ returns'[rp]["RREQ"] = returns[rp]["RREQ"]
          /\ returns'[rp]["WDATA"] = returns[rp]["WDATA"]
      BY <1>1, <3>3 DEF ReqKinds
    <3> QED BY <1>2, <1>3, <1>4, <2>1, <3>1, <3>2, <3>4, StoredFacts
  <2>5. CASE p = rp /\ ~w
    <3>1. reads_'[rp] = Tail(reads_[rp]) /\ writes_' = writes_ /\ reads_[rp] # <<>>
      BY <1>1, <2>1, <2>2, <2>5
    <3>2. Len(reads_'[rp]) = Len(reads_[rp]) - 1
      <4>1. reads_[rp] \in Seq(Known)
        BY <1>1
      <4> QED BY <3>1, <4>1, HeadTail
    <3>3. returns' = [returns EXCEPT ![rp]["RREQ"] = @ + 1]
      BY <2>1, <2>5
    <3>4. returns'[rp]["RREQ"] = returns[rp]["RREQ"] + 1 /\ returns'[rp]["WREQ"] = returns[rp]["WREQ"]
          /\ returns'[rp]["WDATA"] = returns[rp]["WDATA"]
      BY <1>1, <3>3 DEF ReqKinds
    <3> QED BY <1>2, <1>3, <1>4, <2>1, <3>1, <3>2, <3>4, StoredFacts
  <2> QED BY <2>3, <2>4, <2>5
<1> QED BY <1>5, <1>6

\* No step makes or loses a receive credit.
LEMMA CreditStep ==
  ASSUME TypeInv, CreditInv, [Next]_vars
  PROVE  CreditInv'
<1> DEFINE Goal(rp, k) == \E t \in Nat, u \in Nat :
             /\ Total(InFlight(link_rx', rp, k), t) /\ Total(Granted(link_tx', rp, k), u)
             /\ free'[rp][k] + t + u + Stored(rp, k)' + returns'[rp][k] = Capacity[k]
<1>0. SUFFICES ASSUME NEW rp \in Planes, NEW k \in ReqKinds PROVE Goal(rp, k)
  BY DEF CreditInv, InFlight, Granted, One, Gift, Capacity
<1>1. PICK t \in Nat, u \in Nat :
        /\ Total(InFlight(link_rx, rp, k), t) /\ Total(Granted(link_tx, rp, k), u)
        /\ free[rp][k] + t + u + Stored(rp, k) + returns[rp][k] = Capacity[k]
  BY DEF CreditInv
<1>2. /\ Stored(rp, k) \in Nat /\ free[rp][k] \in Nat /\ returns[rp][k] \in Nat /\ Capacity[k] \in Nat
  BY StoredFacts
<1>3. link_rx \in Seq(KnownMessage) /\ link_tx \in Seq(Flit) /\ free \in [Planes -> [ReqKinds -> Nat]]
      /\ returns \in [Planes -> [ReqKinds -> Nat]]
  BY DEF TypeInv
<1>4. CASE UNCHANGED <<free, link_rx, link_tx, returns, reads_, writes_, data_>>
  <2>1. Stored(rp, k)' = Stored(rp, k)
    BY <1>4 DEF Stored
  <2> QED BY <1>1, <1>4, <2>1
<1>5. CASE ReceiveRead \/ ReceiveWrite \/ ReceiveData
  <2> DEFINE o == One(Head(link_rx), rp, k)
  <2>1. /\ link_rx # <<>> /\ link_rx' = Tail(link_rx) /\ UNCHANGED <<free, returns, link_tx>>
        /\ Stored(rp, k)' = Stored(rp, k) + o
    BY <1>5, ReceiveStored
  <2>2. t - o \in Nat /\ Total(InFlight(link_rx', rp, k), t - o)
    BY <1>1, <1>3, <2>1, FlightTake
  <2>3. o \in Nat
    BY DEF One
  <2> HIDE DEF o
  <2>4. free'[rp][k] + (t - o) + u + Stored(rp, k)' + returns'[rp][k] = Capacity[k]
    BY <1>1, <1>2, <2>1, <2>2, <2>3
  <2> QED BY <1>1, <2>1, <2>2, <2>4
<1>6. CASE Assemble \/ \E slot \in Slots : Submit(slot)
  <2>1. UNCHANGED <<free, link_rx, link_tx>>
    BY <1>6 DEF Assemble, Submit
  <2>2. Stored(rp, k)' + returns'[rp][k] = Stored(rp, k) + returns[rp][k]
    BY <1>6, ReleaseStored
  <2>3. Stored(rp, k)' \in Nat /\ returns'[rp][k] \in Nat
    <3>1. TypeInv'
      BY <1>6, TypeAssemble, TypeSubmit
    <3>2. writes_' \in [Planes -> Seq(Job)] /\ reads_' \in [Planes -> Seq(Known)]
          /\ data_' \in [Planes -> Seq(KnownMessage)] /\ returns' \in [Planes -> [ReqKinds -> Nat]]
      BY <3>1 DEF TypeInv
    <3>3. Len(writes_'[rp]) \in Nat /\ Len(reads_'[rp]) \in Nat /\ Len(data_'[rp]) \in Nat
          /\ returns'[rp][k] \in Nat
      BY <3>2
    <3> QED BY <3>3 DEF Stored, ReqKinds
  <2>4. free'[rp][k] + t + u + Stored(rp, k)' + returns'[rp][k] = Capacity[k]
    BY <1>1, <1>2, <2>1, <2>2, <2>3
  <2> QED BY <1>1, <2>1, <2>4
<1>7. ASSUME NEW p \in Planes, NEW grant \in [ReqKinds -> Nat], SendFlit(p, grant),
             returns' = IF grant = returns[p] THEN [returns EXCEPT ![p] = NoReturns] ELSE returns,
             grant = returns[p] \/ grant = NoReturns
      PROVE  Goal(rp, k)
  <2> DEFINE f == [fragments |-> flit.fragments, rp |-> p, credit |-> grant]
  <2>1. f \in Flit
    BY DEF Flit, TypeInv, PartFlit
  <2>2. link_tx' = Append(link_tx, f) /\ UNCHANGED <<free, link_rx, reads_, writes_, data_>>
    BY <1>7 DEF SendFlit
  <2>3. Total(Granted(link_tx', rp, k), u + Gift(f, rp, k))
    BY <1>1, <1>3, <2>1, <2>2, GrantPut
  <2>4. Gift(f, rp, k) \in Nat /\ Gift(f, rp, k) + returns'[rp][k] = returns[rp][k]
    <3>1. Gift(f, rp, k) = IF p = rp THEN grant[k] ELSE 0
      BY DEF Gift
    <3>2. NoReturns[k] = 0
      BY DEF NoReturns
    <3>3. CASE p # rp
      <4>1. returns'[rp] = returns[rp]
        BY <1>3, <1>7, <3>3
      <4> QED BY <1>2, <3>1, <3>3, <4>1
    <3>4. CASE p = rp /\ grant = returns[p]
      <4>1. returns'[rp] = NoReturns
        BY <1>3, <1>7, <3>4
      <4> QED BY <1>2, <3>1, <3>2, <3>4, <4>1
    <3>5. CASE p = rp /\ grant # returns[p]
      <4>1. returns'[rp] = returns[rp] /\ grant = NoReturns
        BY <1>7, <3>5
      <4> QED BY <1>2, <3>1, <3>2, <3>5, <4>1
    <3> QED BY <3>3, <3>4, <3>5
  <2>5. Stored(rp, k)' = Stored(rp, k) /\ returns'[rp][k] \in Nat
    <3>1. NoReturns \in [ReqKinds -> Nat]
      BY DEF NoReturns
    <3>2. returns' \in [Planes -> [ReqKinds -> Nat]]
      BY <1>3, <1>7, <3>1
    <3> QED BY <2>2, <3>2 DEF Stored
  <2> HIDE DEF f
  <2>6. free'[rp][k] + t + (u + Gift(f, rp, k)) + Stored(rp, k)' + returns'[rp][k] = Capacity[k]
    <3> DEFINE g == Gift(f, rp, k)
    <3>1. g \in Nat /\ g + returns'[rp][k] = returns[rp][k] /\ free' = free
      BY <2>2, <2>4
    <3> HIDE DEF g
    <3>2. free'[rp][k] + t + (u + g) + Stored(rp, k)' + returns'[rp][k] = Capacity[k]
      BY <1>1, <1>2, <2>5, <3>1
    <3> QED BY <3>2 DEF g
  <2>7. u + Gift(f, rp, k) \in Nat
    BY <2>4
  <2> QED BY <1>1, <2>2, <2>3, <2>6, <2>7
<1>8. CASE (\E p \in Planes : SendWithCredit(p)) \/ SendWithoutCredit
  <2>1. NoReturns \in [ReqKinds -> Nat] /\ 0 \in Planes
    BY PlanesFacts DEF NoReturns
  <2>2. ASSUME NEW p \in Planes, SendWithCredit(p) PROVE Goal(rp, k)
    BY <1>3, <1>7, <2>2 DEF SendWithCredit
  <2>3. CASE SendWithoutCredit
    <3>1. returns[0] = NoReturns
      BY <2>1, <2>3 DEF SendWithoutCredit, Owed
    <3>2. SendFlit(0, NoReturns) /\ returns' = returns
      BY <2>3 DEF SendWithoutCredit
    <3>3. returns = [returns EXCEPT ![0] = NoReturns]
      BY <1>3, <2>1, <3>1
    <3> QED BY <1>7, <2>1, <3>1, <3>2, <3>3
  <2> QED BY <1>8, <2>2, <2>3
<1>9. ASSUME NEW m \in KnownMessage, link_rx' = Append(link_rx, m), m.rp \in Planes, m.kind \in ReqKinds,
             free[m.rp][m.kind] > 0, free' = [free EXCEPT ![m.rp][m.kind] = @ - 1],
             UNCHANGED <<link_tx, returns, reads_, writes_, data_>>
      PROVE  Goal(rp, k)
  <2>1. Total(InFlight(link_rx', rp, k), t + One(m, rp, k))
    BY <1>1, <1>3, <1>9, FlightPut
  <2>2. One(m, rp, k) \in Nat /\ t + One(m, rp, k) \in Nat
    BY DEF One
  <2>3. free'[rp][k] = free[rp][k] - One(m, rp, k)
    BY <1>3, <1>9 DEF One
  <2>4. Stored(rp, k)' = Stored(rp, k)
    BY <1>9 DEF Stored
  <2>5. free'[rp][k] + (t + One(m, rp, k)) + u + Stored(rp, k)' + returns'[rp][k] = Capacity[k]
    BY <1>1, <1>2, <1>9, <2>2, <2>3, <2>4
  <2> QED BY <1>1, <1>9, <2>1, <2>2, <2>5
<1>10. ASSUME NEW q \in {"RREQ", "WREQ"}, NEW p \in Planes, SendRequest(q, p) PROVE Goal(rp, k)
  <2> DEFINE m == [kind |-> q, rp |-> p, n |-> sent[q][p] + 1, beat |-> 0]
  <2>1. m \in KnownMessage
    <3>1. link_rx' = Append(link_rx, m) /\ link_rx' \in Seq(KnownMessage)
      BY <1>10, TypeSendRequest DEF SendRequest, TypeInv
    <3>2. Len(link_rx') = Len(link_rx) + 1 /\ link_rx'[Len(link_rx) + 1] = m /\ Len(link_rx) \in Nat
      BY <1>3, <3>1
    <3> QED BY <3>1, <3>2
  <2>2. m.rp = p /\ m.kind = q /\ q \in ReqKinds
    BY DEF ReqKinds
  <2>3. /\ link_rx' = Append(link_rx, m) /\ free[p][q] > 0 /\ free' = [free EXCEPT ![p][q] = @ - 1]
        /\ UNCHANGED <<link_tx, returns, reads_, writes_, data_>>
    BY <1>10 DEF SendRequest, SpendCredit
  <2> HIDE DEF m
  <2> QED BY <1>9, <2>1, <2>2, <2>3
<1>11. ASSUME NEW p \in Planes, SendData(p) PROVE Goal(rp, k)
  <2> DEFINE m == [kind |-> "WDATA", rp |-> p, n |-> w_next[p].n, beat |-> w_next[p].beat]
  <2>1. m \in KnownMessage
    BY DEF KnownMessage, Message, ReqKinds, TypeInv
  <2>2. m.rp = p /\ m.kind = "WDATA" /\ "WDATA" \in ReqKinds
    BY DEF ReqKinds
  <2>3. /\ link_rx' = Append(link_rx, m) /\ free[p]["WDATA"] > 0
        /\ free' = [free EXCEPT ![p]["WDATA"] = @ - 1]
        /\ UNCHANGED <<link_tx, returns, reads_, writes_, data_>>
    BY <1>11 DEF SendData, SpendCredit
  <2> HIDE DEF m
  <2> QED BY <1>9, <2>1, <2>2, <2>3
<1>12. CASE BridgeReceive
  <2> DEFINE f == Head(link_tx)
             g == Gift(f, rp, k)
  <2>1. link_tx # <<>> /\ link_tx' = Tail(link_tx) /\ UNCHANGED <<link_rx, returns, reads_, writes_, data_>>
        /\ free' = [free EXCEPT ![f.rp] = [q \in ReqKinds |-> free[f.rp][q] + f.credit[q]]]
    BY <1>12 DEF BridgeReceive
  <2>2. f \in Flit
    BY <1>3, <2>1, HeadTail
  <2>3. f.rp \in Planes /\ f.credit \in [ReqKinds -> Nat]
    BY <2>2 DEF Flit
  <2>4. u - g \in Nat /\ Total(Granted(link_tx', rp, k), u - g)
    BY <1>1, <1>3, <2>1, GrantTake
  <2>5. g \in Nat /\ free'[rp][k] = free[rp][k] + g
    <3> HIDE DEF f
    <3>1. CASE f.rp = rp
      BY <1>3, <2>1, <2>3, <3>1 DEF Gift
    <3>2. CASE f.rp # rp
      BY <1>3, <2>1, <2>3, <3>2 DEF Gift
    <3> QED BY <3>1, <3>2
  <2>6. Stored(rp, k)' = Stored(rp, k)
    BY <2>1 DEF Stored
  <2> HIDE DEF g
  <2>7. free'[rp][k] + t + (u - g) + Stored(rp, k)' + returns'[rp][k] = Capacity[k]
    BY <1>1, <1>2, <2>1, <2>4, <2>5, <2>6
  <2> QED BY <1>1, <2>1, <2>4, <2>7
<1>13. CASE CollectNothing \/ ReceiveDone \/ SubmitNothing \/ TransmitStalled \/ SendNothing \/ UNCHANGED vars
  BY <1>4, <1>13 DEF vars, others, Pass, ReceiveDone, CollectNothing, SubmitNothing, TransmitStalled, SendNothing
<1>14. CASE Collect \/ ResumeSpill \/ NewFlit
  BY <1>4, <1>14 DEF Collect, ResumeSpill, NewFlit
<1>15. ASSUME NEW w \in BOOLEAN, NEW p \in Planes, PackReply(w, p) PROVE Goal(rp, k)
  BY <1>4, <1>15 DEF PackReply
<1>16. CASE (\E q \in RspKinds, p \in Planes : AddTxCredit(q, p)) \/ \E i \in 1 .. MemDepth : MemComplete(i)
  BY <1>4, <1>16 DEF AddTxCredit, MemComplete
<1> HIDE DEF Goal
<1> QED BY <1>5, <1>6, <1>8, <1>10, <1>11, <1>12, <1>13, <1>14, <1>15, <1>16
        DEF Next, Thread, Surroundings, RspKinds

\* The bridge starts with the capacity of every store as credit.
LEMMA InitCredit == Init => CreditInv
<1> SUFFICES ASSUME Init, NEW rp \in Planes, NEW k \in ReqKinds
             PROVE  \E t \in Nat, u \in Nat :
                      /\ Total(InFlight(link_rx, rp, k), t) /\ Total(Granted(link_tx, rp, k), u)
                      /\ free[rp][k] + t + u + Stored(rp, k) + returns[rp][k] = Capacity[k]
  BY DEF CreditInv
<1>1. InFlight(link_rx, rp, k) = <<>> /\ Granted(link_tx, rp, k) = <<>>
  BY DEF Init, InFlight, Granted
<1>2. free[rp][k] = 0 /\ returns[rp][k] = Capacity[k] /\ Stored(rp, k) = 0 /\ Capacity[k] \in Nat
  <2>1. free[rp][k] = 0 /\ returns[rp][k] = Capacity[k]
    BY DEF Init, NoReturns
  <2>2. Stored(rp, k) = 0
    BY DEF Init, Stored, ReqKinds
  <2>3. Capacity[k] \in Nat
    BY TargetAssumption DEF Capacity, ReqKinds
  <2> QED BY <2>1, <2>2, <2>3
<1>3. free[rp][k] + 0 + 0 + Stored(rp, k) + returns[rp][k] = Capacity[k]
  BY <1>2
<1> QED BY <1>1, <1>3, TotalEmpty

-----------------------------------------------------------------------------
(* Tickets: every request in the memory has its ticket, and within one     *)
(* direction, plane and ID tickets are in the order of the responses.      *)

TicketFor(t, r) == Matches(t, r) /\ t.beats = Beats(r)

\* pi[i] is the place of the request of ticket i.
Answers(pi, n, t, r) ==
    /\ n \in Nat /\ Len(t) = n /\ Len(r) = n
    /\ pi \in [1 .. n -> 1 .. n]
    /\ \A i \in 1 .. n : TicketFor(t[i], r[pi[i]])
    /\ \A i, j \in 1 .. n : i < j /\ Group(r[pi[i]]) = Group(r[pi[j]]) => pi[i] < pi[j]
    /\ \A i, j \in 1 .. n : i # j => pi[i] # pi[j]
    /\ \A p \in 1 .. n : \E i \in 1 .. n : pi[i] = p

Answering(t, r) == \E pi, n : Answers(pi, n, t, r)

\* What it means that pi pairs the tickets with the requests.
LEMMA AnswersFacts ==
  ASSUME NEW t, NEW r, NEW pi, NEW n, Answers(pi, n, t, r)
  PROVE  /\ n \in Nat /\ Len(t) = n /\ Len(r) = n /\ pi \in [1 .. n -> 1 .. n]
         /\ \A i \in 1 .. n : pi[i] \in 1 .. n
         /\ \A i \in 1 .. n : TicketFor(t[i], r[pi[i]])
         /\ \A i, j \in 1 .. n : i < j /\ Group(r[pi[i]]) = Group(r[pi[j]]) => pi[i] < pi[j]
         /\ \A i, j \in 1 .. n : i # j => pi[i] # pi[j]
         /\ \A p \in 1 .. n : \E i \in 1 .. n : pi[i] = p
<1>1. pi \in [1 .. n -> 1 .. n]
  BY DEF Answers
<1>2. \A i \in 1 .. n : pi[i] \in 1 .. n
  BY <1>1
<1> QED BY <1>1, <1>2, Zenon DEF Answers

\* No ticket is open when nothing is in the memory.
LEMMA AnsweringEmpty == Answering(<<>>, <<>>)
<1> DEFINE pi == [i \in 1 .. 0 |-> i]
<1>1. Answers(pi, 0, <<>>, <<>>)
  BY DEF Answers
<1> QED BY <1>1 DEF Answering

\* A ticket and its request are added last.
LEMMA AnsweringAppend ==
  ASSUME NEW t \in Seq(Ticket), NEW r \in Seq(Known), Answering(t, r),
         NEW x \in Ticket, NEW y \in Known, TicketFor(x, y)
  PROVE  Answering(Append(t, x), Append(r, y))
<1>1. PICK pi, n : Answers(pi, n, t, r)
  BY DEF Answering
<1> DEFINE T == Append(t, x)
           R == Append(r, y)
           ro == [i \in 1 .. (n + 1) |-> IF i = n + 1 THEN n + 1 ELSE pi[i]]
<1>2. /\ n \in Nat /\ Len(r) = n /\ pi \in [1 .. n -> 1 .. n]
      /\ \A i \in 1 .. n : TicketFor(t[i], r[pi[i]])
      /\ \A i, j \in 1 .. n : i < j /\ Group(r[pi[i]]) = Group(r[pi[j]]) => pi[i] < pi[j]
      /\ \A i, j \in 1 .. n : i # j => pi[i] # pi[j]
      /\ \A p \in 1 .. n : \E i \in 1 .. n : pi[i] = p
      /\ \A i \in 1 .. n : pi[i] \in 1 .. n
      /\ Len(t) = n
  BY <1>1, AnswersFacts
<1>3. /\ Len(T) = n + 1 /\ T[n + 1] = x /\ \A i \in 1 .. n : T[i] = t[i]
      /\ Len(R) = n + 1 /\ R[n + 1] = y /\ \A i \in 1 .. n : R[i] = r[i]
  <2>1. Len(T) = Len(t) + 1 /\ T[Len(t) + 1] = x /\ \A i \in 1 .. Len(t) : T[i] = t[i]
    BY Appended
  <2>2. Len(R) = Len(r) + 1 /\ R[Len(r) + 1] = y /\ \A i \in 1 .. Len(r) : R[i] = r[i]
    BY Appended
  <2> HIDE DEF T, R
  <2> QED BY <1>2, <2>1, <2>2
<1> HIDE DEF T, R
<1>4. /\ ro \in [1 .. (n + 1) -> 1 .. (n + 1)] /\ ro[n + 1] = n + 1
      /\ \A i \in 1 .. n : ro[i] = pi[i] /\ ro[i] \in 1 .. n
  <2>1. \A i \in 1 .. (n + 1) : (IF i = n + 1 THEN n + 1 ELSE pi[i]) \in 1 .. (n + 1)
    <3> TAKE i \in 1 .. (n + 1)
    <3>1. CASE i = n + 1
      BY <3>1, <1>2
    <3>2. CASE i # n + 1
      <4>1. i \in 1 .. n
        BY <3>2, <1>2
      <4>2. pi[i] \in 1 .. n
        BY <4>1, <1>2
      <4>3. pi[i] \in 1 .. (n + 1)
        BY <4>2, <1>2
      <4> QED BY <4>3, <3>2
    <3> QED BY <3>1, <3>2
  <2>2. n + 1 \in 1 .. (n + 1) /\ \A i \in 1 .. n : i # n + 1 /\ i \in 1 .. (n + 1)
    BY <1>2
  <2>3. ro \in [1 .. (n + 1) -> 1 .. (n + 1)]
    BY <2>1
  <2>4. ro[n + 1] = n + 1 /\ \A i \in 1 .. n : ro[i] = pi[i]
    BY <2>2
  <2> HIDE DEF ro
  <2> QED BY <2>3, <2>4, <1>2
<1> HIDE DEF ro
<1>5. \A i \in 1 .. (n + 1) : i \in 1 .. n \/ i = n + 1
  BY <1>2
<1>6. \A i \in 1 .. (n + 1) : TicketFor(T[i], R[ro[i]])
  <2>1. \A i \in 1 .. n : T[i] = t[i] /\ R[ro[i]] = r[pi[i]]
    BY <1>3, <1>4
  <2> QED BY <2>1, <1>2, <1>3, <1>4, <1>5
<1>7. \A i, j \in 1 .. (n + 1) :
        i < j /\ Group(R[ro[i]]) = Group(R[ro[j]]) => ro[i] < ro[j]
  <2> SUFFICES ASSUME NEW i \in 1 .. (n + 1), NEW j \in 1 .. (n + 1),
                      i < j, Group(R[ro[i]]) = Group(R[ro[j]])
               PROVE  ro[i] < ro[j]
    OBVIOUS
  <2>1. i \in 1 .. n
    BY <1>2
  <2>2. CASE j = n + 1
    <3>1. ro[i] \in 1 .. n /\ ro[j] = n + 1
      BY <2>1, <2>2, <1>4
    <3> QED BY <3>1, <1>2
  <2>3. CASE j \in 1 .. n
    <3>1. R[ro[i]] = r[pi[i]] /\ R[ro[j]] = r[pi[j]]
      BY <2>1, <2>3, <1>3, <1>4
    <3> QED BY <2>1, <2>3, <3>1, <1>2, <1>4
  <2> QED BY <2>2, <2>3, <1>5
<1>8. \A i, j \in 1 .. (n + 1) : i # j => ro[i] # ro[j]
  <2> SUFFICES ASSUME NEW i \in 1 .. (n + 1), NEW j \in 1 .. (n + 1), i # j
               PROVE  ro[i] # ro[j]
    OBVIOUS
  <2>1. CASE i \in 1 .. n /\ j \in 1 .. n
    BY <2>1, <1>2, <1>4
  <2>2. CASE i = n + 1
    <3>1. j \in 1 .. n
      BY <1>5, <2>2
    <3>2. ro[j] \in 1 .. n /\ ro[i] = n + 1
      BY <2>2, <3>1, <1>4
    <3> QED BY <3>2, <1>2
  <2>3. CASE j = n + 1
    <3>1. i \in 1 .. n
      BY <1>5, <2>3
    <3>2. ro[i] \in 1 .. n /\ ro[j] = n + 1
      BY <2>3, <3>1, <1>4
    <3> QED BY <3>2, <1>2
  <2> QED BY <2>1, <2>2, <2>3, <1>5
<1>9. \A p \in 1 .. (n + 1) : \E i \in 1 .. (n + 1) : ro[i] = p
  <2> TAKE p \in 1 .. (n + 1)
  <2>1. CASE p = n + 1
    BY <2>1, <1>4
  <2>2. CASE p \in 1 .. n
    <3>1. PICK i \in 1 .. n : pi[i] = p
      BY <2>2, <1>2
    <3>2. i \in 1 .. (n + 1) /\ ro[i] = p
      BY <3>1, <1>2, <1>4
    <3> QED BY <3>2
  <2> QED BY <2>1, <2>2, <1>5
<1>10. Answers(ro, n + 1, T, R)
  BY <1>2, <1>3, <1>4, <1>6, <1>7, <1>8, <1>9 DEF Answers
<1> QED BY <1>10 DEF Answering, T, R

\* A request overtakes others of other groups.
LEMMA AnsweringMove ==
  ASSUME NEW t \in Seq(Ticket), NEW r \in Seq(Known), Answering(t, r),
         NEW k \in 1 .. Len(r), NEW l \in k .. Len(r),
         \A p \in k .. (l - 1) : Group(r[p]) # Group(r[l]),
         NEW R \in Seq(Known), Len(R) = Len(r),
         \A p \in 1 .. Len(r) : R[p] = IF p = k THEN r[l]
                                       ELSE IF k < p /\ p <= l THEN r[p - 1] ELSE r[p]
  PROVE  Answering(t, R)
<1>1. PICK pi, n : Answers(pi, n, t, r)
  BY DEF Answering
<1> DEFINE to(p) == IF p = l THEN k ELSE IF k <= p /\ p < l THEN p + 1 ELSE p
           ro == [i \in 1 .. n |-> to(pi[i])]
<1>2. /\ n \in Nat /\ Len(r) = n /\ pi \in [1 .. n -> 1 .. n]
      /\ \A i \in 1 .. n : TicketFor(t[i], r[pi[i]])
      /\ \A i, j \in 1 .. n : i < j /\ Group(r[pi[i]]) = Group(r[pi[j]]) => pi[i] < pi[j]
      /\ \A i, j \in 1 .. n : i # j => pi[i] # pi[j]
      /\ \A p \in 1 .. n : \E i \in 1 .. n : pi[i] = p
      /\ \A i \in 1 .. n : pi[i] \in 1 .. n
      /\ Len(t) = n
  <2>1. \A i \in 1 .. n : pi[i] \in 1 .. n
    BY <1>1, AnswersFacts
  <2> QED BY <1>1, <2>1, Zenon DEF Answers
<1>3. \A p \in 1 .. n : R[p] = IF p = k THEN r[l]
                                ELSE IF k < p /\ p <= l THEN r[p - 1] ELSE r[p]
  BY <1>2
<1>k. k \in 1 .. n /\ l \in 1 .. n /\ k <= l
  BY <1>2
<1>to. \A p \in 1 .. n :
         /\ p = l => to(p) = k
         /\ p # l /\ k <= p /\ p < l => to(p) = p + 1
         /\ p # l /\ ~(k <= p /\ p < l) => to(p) = p
  OBVIOUS
<1> HIDE DEF to
<1>4. \A p \in 1 .. n : to(p) \in 1 .. n /\ R[to(p)] = r[p]
  <2> TAKE p \in 1 .. n
  <2>1. CASE p = l
    BY <2>1, <1>3, <1>k, <1>to
  <2>2. CASE k <= p /\ p < l
    <3>0. p \in Int /\ l \in Int /\ k \in Int /\ n \in Int /\ l <= n /\ 1 <= p
      BY <1>2, <1>k
    <3>1. p # l /\ p + 1 \in 1 .. n /\ k < p + 1 /\ p + 1 <= l /\ p + 1 # k /\ (p + 1) - 1 = p
      BY <2>2, <3>0
    <3>2. R[p + 1] = r[(p + 1) - 1]
      BY <3>1, <1>3
    <3>3. to(p) = p + 1
      BY <2>2, <3>1, <1>to
    <3> QED BY <3>1, <3>2, <3>3
  <2>3. CASE p # l /\ ~(k <= p /\ p < l)
    <3>1. p # k /\ ~(k < p /\ p <= l)
      BY <2>3, <1>k
    <3>2. to(p) = p
      BY <2>3, <1>to
    <3>3. R[p] = r[p]
      BY <3>1, <1>3
    <3> QED BY <3>2, <3>3
  <2> QED BY <2>1, <2>2, <2>3
<1>5. \A p, q \in 1 .. n : p < q /\ Group(r[p]) = Group(r[q]) => to(p) < to(q)
  <2> SUFFICES ASSUME NEW p \in 1 .. n, NEW q \in 1 .. n, p < q, Group(r[p]) = Group(r[q])
               PROVE  to(p) < to(q)
    OBVIOUS
  <2> DEFINE a == to(p)
             b == to(q)
  <2>a. /\ p = l => a = k
        /\ p # l /\ k <= p /\ p < l => a = p + 1
        /\ p # l /\ ~(k <= p /\ p < l) => a = p
    BY <1>to
  <2>b. /\ q = l => b = k
        /\ q # l /\ k <= q /\ q < l => b = q + 1
        /\ q # l /\ ~(k <= q /\ q < l) => b = q
    BY <1>to
  <2>c. q = l => ~(k <= p)
    <3> SUFFICES ASSUME q = l, k <= p PROVE FALSE
      OBVIOUS
    <3>1. p \in k .. (l - 1)
      BY <1>k
    <3>2. Group(r[p]) # Group(r[l])
      BY <3>1
    <3> QED BY <3>2
  <2> HIDE DEF a, b
  <2>d. a < b
    BY <2>a, <2>b, <2>c, <1>k
  <2> QED BY <2>d DEF a, b
<1>6. \A p, q \in 1 .. n : p # q => to(p) # to(q)
  <2> SUFFICES ASSUME NEW p \in 1 .. n, NEW q \in 1 .. n, p # q
               PROVE  to(p) # to(q)
    OBVIOUS
  <2> DEFINE a == to(p)
             b == to(q)
  <2>a. /\ p = l => a = k
        /\ p # l /\ k <= p /\ p < l => a = p + 1
        /\ p # l /\ ~(k <= p /\ p < l) => a = p
    BY <1>to
  <2>b. /\ q = l => b = k
        /\ q # l /\ k <= q /\ q < l => b = q + 1
        /\ q # l /\ ~(k <= q /\ q < l) => b = q
    BY <1>to
  <2> HIDE DEF a, b
  <2>d. a # b
    BY <2>a, <2>b, <1>k
  <2> QED BY <2>d DEF a, b
<1>7. \A q \in 1 .. n : \E p \in 1 .. n : to(p) = q
  <2> TAKE q \in 1 .. n
  <2>1. CASE q = k
    BY <2>1, <1>k, <1>to
  <2>2. CASE k < q /\ q <= l
    <3>0. q \in Int /\ l \in Int /\ k \in Int /\ n \in Int /\ l <= n /\ 1 <= k
      BY <1>2, <1>k
    <3>1. q - 1 \in 1 .. n /\ q - 1 # l /\ k <= q - 1 /\ q - 1 < l /\ (q - 1) + 1 = q
      BY <2>2, <3>0
    <3>2. to(q - 1) = (q - 1) + 1
      BY <3>1, <1>to
    <3> QED BY <3>1, <3>2
  <2>3. CASE q # k /\ ~(k < q /\ q <= l)
    <3>1. q # l /\ ~(k <= q /\ q < l)
      BY <2>3, <1>k
    <3>2. to(q) = q
      BY <3>1, <1>to
    <3> QED BY <3>2
  <2> QED BY <2>1, <2>2, <2>3, <1>k
<1>8. /\ ro \in [1 .. n -> 1 .. n]
      /\ \A i \in 1 .. n : pi[i] \in 1 .. n /\ ro[i] = to(pi[i]) /\ R[ro[i]] = r[pi[i]]
  BY <1>2, <1>4
<1> HIDE DEF ro
<1>9. \A i \in 1 .. n : TicketFor(t[i], R[ro[i]])
  BY <1>2, <1>8
<1>10. \A i, j \in 1 .. n : i < j /\ Group(R[ro[i]]) = Group(R[ro[j]]) => ro[i] < ro[j]
  <2> SUFFICES ASSUME NEW i \in 1 .. n, NEW j \in 1 .. n, i < j, Group(R[ro[i]]) = Group(R[ro[j]])
               PROVE  ro[i] < ro[j]
    OBVIOUS
  <2>1. Group(r[pi[i]]) = Group(r[pi[j]])
    BY <1>8
  <2>2. pi[i] < pi[j] /\ pi[i] \in 1 .. n /\ pi[j] \in 1 .. n
    BY <2>1, <1>2, <1>8
  <2>3. to(pi[i]) < to(pi[j])
    BY <2>1, <2>2, <1>5
  <2> QED BY <2>3, <1>8
<1>11. \A i, j \in 1 .. n : i # j => ro[i] # ro[j]
  <2> SUFFICES ASSUME NEW i \in 1 .. n, NEW j \in 1 .. n, i # j
               PROVE  ro[i] # ro[j]
    OBVIOUS
  <2>1. pi[i] # pi[j] /\ pi[i] \in 1 .. n /\ pi[j] \in 1 .. n
    BY <1>2
  <2>2. to(pi[i]) # to(pi[j])
    BY <2>1, <1>6
  <2> QED BY <2>2, <1>8
<1>12. \A q \in 1 .. n : \E i \in 1 .. n : ro[i] = q
  <2> TAKE q \in 1 .. n
  <2>1. PICK p \in 1 .. n : to(p) = q
    BY <1>7
  <2>2. PICK i \in 1 .. n : pi[i] = p
    BY <1>2
  <2> QED BY <2>1, <2>2, <1>8
<1>13. Answers(ro, n, t, R)
  BY <1>2, <1>8, <1>9, <1>10, <1>11, <1>12 DEF Answers
<1> QED BY <1>13 DEF Answering

\* The ticket of the first response and that response are removed.
LEMMA AnsweringRemove ==
  ASSUME NEW t \in Seq(Ticket), NEW r \in Seq(Known), r # <<>>,
         NEW pi, NEW n, Answers(pi, n, t, r), NEW f \in 1 .. n, pi[f] = 1
  PROVE  Answering(RemoveAt(t, f), Tail(r))
<1>2. /\ n \in Nat /\ Len(r) = n /\ pi \in [1 .. n -> 1 .. n]
      /\ \A i \in 1 .. n : TicketFor(t[i], r[pi[i]])
      /\ \A i, j \in 1 .. n : i < j /\ Group(r[pi[i]]) = Group(r[pi[j]]) => pi[i] < pi[j]
      /\ \A i, j \in 1 .. n : i # j => pi[i] # pi[j]
      /\ \A p \in 1 .. n : \E i \in 1 .. n : pi[i] = p
      /\ \A i \in 1 .. n : pi[i] \in 1 .. n
      /\ Len(t) = n
  <2>1. \A i \in 1 .. n : pi[i] \in 1 .. n
    BY AnswersFacts
  <2> QED BY <2>1, Zenon DEF Answers
<1>f. f \in 1 .. n /\ pi[f] = 1
  OBVIOUS
<1> DEFINE R == Tail(r)
           U == RemoveAt(t, f)
<1>3. /\ n \in Nat \ {0} /\ Head(r) = r[1] /\ Len(R) = n - 1
      /\ \A p \in 1 .. (n - 1) : R[p] = r[p + 1]
  BY <1>2, HeadTail
<1>8. /\ Len(U) = n - 1
      /\ \A j \in 1 .. (n - 1) : U[j] = IF j < f THEN t[j] ELSE t[j + 1]
  <2>1. f \in 1 .. Len(t)
    BY <1>2, <1>f
  <2>2. /\ Len(U) = Len(t) - 1
        /\ \A j \in 1 .. (Len(t) - 1) : U[j] = IF j < f THEN t[j] ELSE t[j + 1]
    BY <2>1, RemoveAtFacts, Zenon
  <2> QED BY <2>2, <1>2
<1> DEFINE at(j) == IF j < f THEN j ELSE j + 1
           ro == [j \in 1 .. (n - 1) |-> pi[at(j)] - 1]
<1>at. \A j \in 1 .. (n - 1) :
         /\ j < f => at(j) = j
         /\ ~(j < f) => at(j) = j + 1
  OBVIOUS
<1> HIDE DEF at, R, U
<1>9. \A j \in 1 .. (n - 1) : at(j) \in 1 .. n /\ at(j) # f /\ U[j] = t[at(j)]
  <2> TAKE j \in 1 .. (n - 1)
  <2>1. CASE j < f
    <3>0. j \in Int /\ n \in Int /\ f \in Int /\ 1 <= j /\ j <= n - 1
      BY <1>2, <1>f
    <3>1. at(j) = j /\ U[j] = t[j]
      BY <2>1, <1>8, <1>at
    <3>2. j \in 1 .. n /\ j # f
      BY <2>1, <3>0
    <3> QED BY <3>1, <3>2
  <2>2. CASE ~(j < f)
    <3>0. j \in Int /\ n \in Int /\ f \in Int /\ 1 <= j /\ j <= n - 1
      BY <1>2, <1>f
    <3>a. at(j) = j + 1
      BY <2>2, <1>at
    <3>b. j + 1 \in 1 .. n /\ j + 1 # f
      BY <2>2, <3>0
    <3>1. at(j) = j + 1 /\ j + 1 \in 1 .. n /\ j + 1 # f
      BY <3>a, <3>b
    <3>2. U[j] = t[j + 1]
      BY <2>2, <1>8
    <3> QED BY <3>1, <3>2
  <2> QED BY <2>1, <2>2
<1>10. \A j \in 1 .. (n - 1) :
         pi[at(j)] - 1 \in 1 .. (n - 1) /\ R[pi[at(j)] - 1] = r[pi[at(j)]]
  <2> TAKE j \in 1 .. (n - 1)
  <2> DEFINE p == pi[at(j)]
  <2>1. at(j) \in 1 .. n /\ at(j) # f
    BY <1>9
  <2>2. p \in 1 .. n /\ p # 1
    BY <2>1, <1>2, <1>f
  <2> HIDE DEF p
  <2>3. p - 1 \in 1 .. (n - 1) /\ (p - 1) + 1 = p
    BY <2>2, <1>2
  <2>4. R[p - 1] = r[p]
    BY <2>3, <1>3
  <2>5. p - 1 \in 1 .. (n - 1) /\ R[p - 1] = r[p]
    BY <2>3, <2>4
  <2> QED BY <2>5 DEF p
<1>11. /\ ro \in [1 .. (n - 1) -> 1 .. (n - 1)]
       /\ \A j \in 1 .. (n - 1) : ro[j] = pi[at(j)] - 1 /\ R[ro[j]] = r[pi[at(j)]]
  <2>1. ro \in [1 .. (n - 1) -> 1 .. (n - 1)]
    BY <1>10
  <2>2. \A j \in 1 .. (n - 1) : ro[j] = pi[at(j)] - 1
    OBVIOUS
  <2> HIDE DEF ro
  <2> QED BY <2>1, <2>2, <1>10
<1> HIDE DEF ro
<1>12. \A j \in 1 .. (n - 1) : TicketFor(U[j], R[ro[j]])
  <2> TAKE j \in 1 .. (n - 1)
  <2>1. at(j) \in 1 .. n /\ U[j] = t[at(j)] /\ R[ro[j]] = r[pi[at(j)]]
    BY <1>9, <1>11
  <2> QED BY <2>1, <1>2
<1>13. \A i, j \in 1 .. (n - 1) : i < j /\ Group(R[ro[i]]) = Group(R[ro[j]]) => ro[i] < ro[j]
  <2> SUFFICES ASSUME NEW i \in 1 .. (n - 1), NEW j \in 1 .. (n - 1), i < j,
                      Group(R[ro[i]]) = Group(R[ro[j]])
               PROVE  ro[i] < ro[j]
    OBVIOUS
  <2> DEFINE a == at(i)
             b == at(j)
  <2>1. /\ a \in 1 .. n /\ b \in 1 .. n
        /\ i < f => a = i
        /\ ~(i < f) => a = i + 1
        /\ j < f => b = j
        /\ ~(j < f) => b = j + 1
    BY <1>9, <1>at
  <2>2. ro[i] = pi[a] - 1 /\ ro[j] = pi[b] - 1 /\ R[ro[i]] = r[pi[a]] /\ R[ro[j]] = r[pi[b]]
    BY <1>11
  <2> HIDE DEF a, b
  <2>3. a < b
    BY <2>1, <1>f
  <2>4. pi[a] < pi[b] /\ pi[a] \in 1 .. n /\ pi[b] \in 1 .. n
    BY <2>1, <2>2, <2>3, <1>2
  <2> QED BY <2>2, <2>4
<1>14. \A i, j \in 1 .. (n - 1) : i # j => ro[i] # ro[j]
  <2> SUFFICES ASSUME NEW i \in 1 .. (n - 1), NEW j \in 1 .. (n - 1), i # j
               PROVE  ro[i] # ro[j]
    OBVIOUS
  <2> DEFINE a == at(i)
             b == at(j)
  <2>1. /\ a \in 1 .. n /\ b \in 1 .. n
        /\ i < f => a = i
        /\ ~(i < f) => a = i + 1
        /\ j < f => b = j
        /\ ~(j < f) => b = j + 1
    BY <1>9, <1>at
  <2>2. ro[i] = pi[a] - 1 /\ ro[j] = pi[b] - 1
    BY <1>11
  <2> HIDE DEF a, b
  <2>3. a # b
    BY <2>1, <1>f
  <2>4. pi[a] # pi[b] /\ pi[a] \in 1 .. n /\ pi[b] \in 1 .. n
    BY <2>1, <2>3, <1>2
  <2> QED BY <2>2, <2>4
<1>15. \A p \in 1 .. (n - 1) : \E j \in 1 .. (n - 1) : ro[j] = p
  <2> TAKE p \in 1 .. (n - 1)
  <2>1. p + 1 \in 1 .. n /\ p + 1 # 1 /\ (p + 1) - 1 = p
    BY <1>2
  <2>2. PICK i \in 1 .. n : pi[i] = p + 1
    BY <2>1, <1>2
  <2>3. i # f
    BY <2>1, <2>2, <1>f
  <2>4. CASE i < f
    <3>a. i \in 1 .. (n - 1)
      BY <2>4, <1>2, <1>f
    <3>1. i \in 1 .. (n - 1) /\ at(i) = i
      BY <2>4, <3>a, <1>at
    <3> QED BY <3>1, <2>1, <2>2, <1>11
  <2>5. CASE f < i
    <3>1. i - 1 \in 1 .. (n - 1) /\ ~(i - 1 < f) /\ (i - 1) + 1 = i
      BY <2>5, <1>2, <1>f
    <3>2. at(i - 1) = i
      BY <3>1, <1>at
    <3> QED BY <3>1, <3>2, <2>1, <2>2, <1>11
  <2> QED BY <2>3, <2>4, <2>5, <1>f
<1>16. Answers(ro, n - 1, U, R)
  BY <1>3, <1>8, <1>11, <1>12, <1>13, <1>14, <1>15 DEF Answers
<1>17. Answering(U, R)
  BY <1>16 DEF Answering
<1> QED BY <1>17 DEF U, R

\* The first response takes the first ticket of its group.
Fitting(t, x)  == {i \in 1 .. Len(t) : Matches(t[i], x)}
FirstFit(t, x) == CHOOSE i \in Fitting(t, x) : \A j \in Fitting(t, x) : i <= j

\* The first response finds the ticket of its request, and dropping both
\* keeps the pairing.
LEMMA AnsweringCollect ==
  ASSUME NEW t \in Seq(Ticket), NEW r \in Seq(Known), Answering(t, r), r # <<>>
  PROVE  /\ Fitting(t, Head(r)) # {} /\ FirstFit(t, Head(r)) \in 1 .. Len(t)
         /\ t[FirstFit(t, Head(r))].beats = Beats(Head(r))
         /\ Answering(RemoveAt(t, FirstFit(t, Head(r))), Tail(r))
<1> DEFINE T == Fitting(t, Head(r))
           f == FirstFit(t, Head(r))
<1>1. PICK pi, n : Answers(pi, n, t, r)
  BY DEF Answering
<1>2. /\ n \in Nat /\ Len(r) = n /\ pi \in [1 .. n -> 1 .. n]
      /\ \A i \in 1 .. n : TicketFor(t[i], r[pi[i]])
      /\ \A i, j \in 1 .. n : i < j /\ Group(r[pi[i]]) = Group(r[pi[j]]) => pi[i] < pi[j]
      /\ \A i, j \in 1 .. n : i # j => pi[i] # pi[j]
      /\ \A p \in 1 .. n : \E i \in 1 .. n : pi[i] = p
      /\ \A i \in 1 .. n : pi[i] \in 1 .. n
      /\ Len(t) = n
  <2>1. \A i \in 1 .. n : pi[i] \in 1 .. n
    BY <1>1, AnswersFacts
  <2> QED BY <1>1, <2>1, Zenon DEF Answers
<1>3. n \in Nat \ {0} /\ Head(r) = r[1]
  BY <1>2, HeadTail
<1>4. PICK i0 \in 1 .. n : pi[i0] = 1
  <2>1. 1 \in 1 .. n
    BY <1>3
  <2> QED BY <2>1, <1>2
<1>5. i0 \in T /\ T \subseteq 1 .. n
  <2>1. TicketFor(t[i0], r[1])
    BY <1>2, <1>4
  <2> QED BY <2>1, <1>2, <1>3, <1>4 DEF TicketFor, Fitting
<1>6. f \in T /\ \A j \in T : f <= j
  <2>1. n \in Nat /\ T \subseteq 1 .. n /\ T # {}
    BY <1>2, <1>5
  <2> QED BY <2>1, FirstOf, Zenon DEF FirstFit
<1>m. Matches(t[f], r[1])
  BY <1>3, <1>6 DEF Fitting
<1> HIDE DEF T, f
<1>7. f = i0
  <2> SUFFICES ASSUME f # i0 PROVE FALSE
    OBVIOUS
  <2>1. f \in 1 .. n /\ f < i0
    BY <1>5, <1>6
  <2>2. Matches(t[f], r[1]) /\ Matches(t[f], r[pi[f]])
    <3>2. TicketFor(t[f], r[pi[f]])
      BY <2>1, <1>2
    <3> QED BY <1>m, <3>2 DEF TicketFor
  <2>3. Group(r[pi[f]]) = Group(r[pi[i0]])
    BY <2>2, <1>4 DEF Matches, Group
  <2>4. pi[f] < 1 /\ pi[f] \in 1 .. n
    BY <2>1, <2>3, <1>2, <1>4
  <2> QED BY <2>4
<1>8. f \in 1 .. n /\ pi[f] = 1
  BY <1>4, <1>7
<1>17. Answering(RemoveAt(t, f), Tail(r))
  BY <1>1, <1>8, AnsweringRemove
<1>18. t[f].beats = Beats(Head(r))
  <2>1. TicketFor(t[f], r[1])
    BY <1>2, <1>4, <1>7
  <2> QED BY <2>1, <1>3 DEF TicketFor
<1> QED BY <1>2, <1>5, <1>8, <1>17, <1>18 DEF T, f

\* The requests in the memory, the ones it has answered first.
Pending(s, m) ==
    [p \in 1 .. (Len(s) + Len(m)) |-> IF p <= Len(s) THEN s[p] ELSE m[p - Len(s)].req]

\* Pending is the answered requests followed by the waiting ones.
LEMMA PendingFacts ==
  ASSUME NEW s \in Seq(Known), NEW m \in Seq(Job)
  PROVE  /\ Len(s) \in Nat /\ Len(m) \in Nat
         /\ Pending(s, m) \in Seq(Known) /\ Len(Pending(s, m)) = Len(s) + Len(m)
         /\ \A p \in 1 .. Len(s) : Pending(s, m)[p] = s[p]
         /\ \A p \in 1 .. Len(m) : Pending(s, m)[Len(s) + p] = m[p].req
<1> DEFINE a == Len(s)
           b == Len(m)
<1>1. a \in Nat /\ b \in Nat
  OBVIOUS
<1>2. (\A p \in 1 .. a : s[p] \in Known) /\ (\A p \in 1 .. b : m[p].req \in Known)
  <2>1. \A p \in 1 .. b : m[p] \in Job
    OBVIOUS
  <2> QED BY <2>1 DEF Job
<1>3. Pending(s, m) = [p \in 1 .. (a + b) |-> IF p <= a THEN s[p] ELSE m[p - a].req]
  BY DEF Pending
<1> HIDE DEF a, b
<1>4. ASSUME NEW p \in 1 .. (a + b)
      PROVE  (IF p <= a THEN s[p] ELSE m[p - a].req) \in Known
  <2>1. CASE p <= a
    <3>1. p \in 1 .. a
      BY <2>1, <1>1
    <3> QED BY <2>1, <3>1, <1>2
  <2>2. CASE ~(p <= a)
    <3>1. p - a \in 1 .. b
      BY <2>2, <1>1
    <3> QED BY <2>2, <3>1, <1>2
  <2> QED BY <2>1, <2>2
<1>5. Pending(s, m) \in [1 .. (a + b) -> Known] /\ a + b \in Nat
  <2> DEFINE e(p) == IF p <= a THEN s[p] ELSE m[p - a].req
  <2>1. \A p \in 1 .. (a + b) : e(p) \in Known
    BY <1>4
  <2>2. Pending(s, m) = [p \in 1 .. (a + b) |-> e(p)]
    BY <1>3
  <2>3. a + b \in Nat
    BY <1>1
  <2> HIDE DEF e
  <2>4. [p \in 1 .. (a + b) |-> e(p)] \in [1 .. (a + b) -> Known]
    BY <2>1
  <2> QED BY <2>2, <2>3, <2>4
<1>6. Pending(s, m) \in Seq(Known) /\ Len(Pending(s, m)) = a + b
  BY <1>5
<1>7. \A p \in 1 .. a : Pending(s, m)[p] = s[p]
  <2> TAKE p \in 1 .. a
  <2>1. p \in 1 .. (a + b) /\ p <= a
    BY <1>1
  <2> QED BY <2>1, <1>3
<1>8. \A p \in 1 .. b : Pending(s, m)[a + p] = m[p].req
  <2> TAKE p \in 1 .. b
  <2>1. a + p \in 1 .. (a + b) /\ ~(a + p <= a) /\ (a + p) - a = p
    BY <1>1
  <2> QED BY <2>1, <1>3
<1> QED BY <1>1, <1>6, <1>7, <1>8 DEF a, b

\* A request is handed to the memory.
LEMMA PendingSubmit ==
  ASSUME NEW s \in Seq(Known), NEW m \in Seq(Job), NEW j \in Job
  PROVE  Pending(s, Append(m, j)) = Append(Pending(s, m), j.req)
<1> DEFINE a == Len(s)
           b == Len(m)
           v == Append(m, j)
           x == Pending(s, v)
           p == Pending(s, m)
           y == Append(p, j.req)
<1>1. /\ v \in Seq(Job) /\ Len(v) = b + 1 /\ v[b + 1] = j /\ \A i \in 1 .. b : v[i] = m[i]
  BY Appended
<1>2. /\ a \in Nat /\ b \in Nat /\ p \in Seq(Known) /\ Len(p) = a + b
      /\ \A i \in 1 .. a : p[i] = s[i]
      /\ \A i \in 1 .. b : p[a + i] = m[i].req
  BY PendingFacts
<1>3. /\ x \in Seq(Known) /\ Len(x) = a + Len(v)
      /\ \A i \in 1 .. a : x[i] = s[i]
      /\ \A i \in 1 .. Len(v) : x[a + i] = v[i].req
  BY <1>1, PendingFacts
<1>4. j.req \in Known
  BY DEF Job
<1> HIDE DEF p, x, v, a, b
<1>5. /\ y \in Seq(Known) /\ Len(y) = (a + b) + 1 /\ y[(a + b) + 1] = j.req
      /\ \A i \in 1 .. (a + b) : y[i] = p[i]
  BY <1>2, <1>4, Appended
<1> HIDE DEF y
<1>6. ASSUME NEW i \in 1 .. Len(x) PROVE x[i] = y[i]
  <2>1. i \in 1 .. ((a + b) + 1)
    BY <1>1, <1>2, <1>3
  <2>2. CASE i = (a + b) + 1
    <3>1. b + 1 \in 1 .. Len(v) /\ a + (b + 1) = i
      BY <2>2, <1>1, <1>2
    <3> QED BY <2>2, <3>1, <1>1, <1>3, <1>5
  <2>3. CASE i \in 1 .. a
    <3>1. i \in 1 .. (a + b)
      BY <2>3, <1>2
    <3> QED BY <2>3, <3>1, <1>2, <1>3, <1>5
  <2>4. CASE i \in (a + 1) .. (a + b)
    <3>1. i - a \in 1 .. b /\ i - a \in 1 .. Len(v) /\ a + (i - a) = i /\ i \in 1 .. (a + b)
      BY <2>4, <1>1, <1>2
    <3>2. x[a + (i - a)] = v[i - a].req /\ p[a + (i - a)] = m[i - a].req /\ v[i - a] = m[i - a]
      BY <3>1, <1>1, <1>2, <1>3
    <3> QED BY <3>1, <3>2, <1>5
  <2> QED BY <2>1, <2>2, <2>3, <2>4, <1>2
<1>7. Len(x) = Len(y)
  BY <1>1, <1>2, <1>3, <1>5
<1>8. x = y
  BY <1>3, <1>5, <1>6, <1>7, SeqEqual
<1> QED BY <1>8 DEF x, y, p, v

\* The first answer is collected.
LEMMA PendingCollect ==
  ASSUME NEW s \in Seq(Known), NEW m \in Seq(Job), s # <<>>
  PROVE  /\ Pending(s, m) # <<>> /\ Head(Pending(s, m)) = Head(s)
         /\ Tail(Pending(s, m)) = Pending(Tail(s), m)
<1> DEFINE a == Len(s)
           b == Len(m)
           v == Tail(s)
           p == Pending(s, m)
           x == Pending(v, m)
           y == Tail(p)
<1>1. /\ a \in Nat \ {0} /\ Head(s) = s[1] /\ v \in Seq(Known) /\ Len(v) = a - 1
      /\ \A i \in 1 .. (a - 1) : v[i] = s[i + 1]
  BY HeadTail
<1>2. /\ b \in Nat /\ p \in Seq(Known) /\ Len(p) = a + b
      /\ \A i \in 1 .. a : p[i] = s[i]
      /\ \A i \in 1 .. b : p[a + i] = m[i].req
  BY PendingFacts
<1>3. /\ x \in Seq(Known) /\ Len(x) = Len(v) + b
      /\ \A i \in 1 .. Len(v) : x[i] = v[i]
      /\ \A i \in 1 .. b : x[Len(v) + i] = m[i].req
  BY <1>1, PendingFacts
<1> HIDE DEF p, x, v, a, b
<1>4. p # <<>>
  BY <1>1, <1>2
<1>5. /\ Head(p) = p[1] /\ y \in Seq(Known) /\ Len(y) = (a + b) - 1
      /\ \A i \in 1 .. ((a + b) - 1) : y[i] = p[i + 1]
  BY <1>2, <1>4, HeadTail
<1>6. Head(p) = Head(s)
  <2>1. 1 \in 1 .. a
    BY <1>1
  <2> QED BY <2>1, <1>1, <1>2, <1>5
<1> HIDE DEF y
<1>7. ASSUME NEW i \in 1 .. Len(x) PROVE x[i] = y[i]
  <2>1. i \in 1 .. ((a + b) - 1)
    BY <1>1, <1>2, <1>3
  <2>2. CASE i \in 1 .. (a - 1)
    <3>1. i + 1 \in 1 .. a
      BY <2>2, <1>1
    <3> QED BY <2>1, <2>2, <3>1, <1>1, <1>2, <1>3, <1>5
  <2>3. CASE i \in a .. ((a + b) - 1)
    <3> DEFINE k == i - (a - 1)
    <3>1. k \in 1 .. b /\ (a - 1) + k = i /\ a + k = i + 1
      BY <2>3, <1>1, <1>2
    <3> HIDE DEF k
    <3>2. x[(a - 1) + k] = m[k].req /\ p[a + k] = m[k].req
      BY <3>1, <1>1, <1>2, <1>3
    <3> QED BY <3>1, <3>2, <2>1, <1>5
  <2> QED BY <2>1, <2>2, <2>3, <1>1
<1>8. Len(x) = Len(y)
  BY <1>1, <1>2, <1>3, <1>5
<1>9. x = y
  BY <1>3, <1>5, <1>7, <1>8, SeqEqual
<1> QED BY <1>4, <1>6, <1>9 DEF x, y, p, v

\* The memory completes a request.
LEMMA PendingComplete ==
  ASSUME NEW s \in Seq(Known), NEW m \in Seq(Job), NEW i \in 1 .. Len(m)
  PROVE  LET r == Pending(s, m)
             R == Pending(Append(s, m[i].req), RemoveAt(m, i))
             k == Len(s) + 1
             l == Len(s) + i
         IN  /\ R \in Seq(Known) /\ Len(R) = Len(r)
             /\ \A p \in 1 .. Len(r) : R[p] = IF p = k THEN r[l]
                                              ELSE IF k < p /\ p <= l THEN r[p - 1] ELSE r[p]
<1> DEFINE a == Len(s)
           b == Len(m)
           r == Pending(s, m)
           x == m[i].req
           u == Append(s, x)
           v == RemoveAt(m, i)
           R == Pending(u, v)
<1>1. x \in Known
  <2>1. m[i] \in Job
    OBVIOUS
  <2> QED BY <2>1 DEF Job
<1>2. /\ a \in Nat /\ b \in Nat /\ r \in Seq(Known) /\ Len(r) = a + b
      /\ \A p \in 1 .. a : r[p] = s[p]
      /\ \A p \in 1 .. b : r[a + p] = m[p].req
  BY PendingFacts
<1>3. u \in Seq(Known) /\ Len(u) = a + 1 /\ u[a + 1] = x /\ \A p \in 1 .. a : u[p] = s[p]
  BY <1>1, Appended
<1>4. /\ v \in Seq(Job) /\ Len(v) = b - 1
      /\ \A p \in 1 .. (b - 1) : v[p] = IF p < i THEN m[p] ELSE m[p + 1]
  BY RemoveAtFacts
<1>i. i \in 1 .. b
  OBVIOUS
<1> HIDE DEF u, v
<1>5. /\ R \in Seq(Known) /\ Len(R) = Len(u) + Len(v)
      /\ \A p \in 1 .. Len(u) : R[p] = u[p]
      /\ \A p \in 1 .. Len(v) : R[Len(u) + p] = v[p].req
  BY <1>3, <1>4, PendingFacts
<1> HIDE DEF R, r, x, a, b
<1>6. Len(R) = a + b
  BY <1>2, <1>3, <1>4, <1>5
<1>7. /\ \A p \in 1 .. a : R[p] = r[p]
      /\ R[a + 1] = r[a + i]
  <2>1. ASSUME NEW p \in 1 .. a PROVE R[p] = r[p]
    <3>1. p \in 1 .. Len(u)
      BY <1>2, <1>3
    <3> QED BY <3>1, <1>2, <1>3, <1>5
  <2>2. a + 1 \in 1 .. Len(u)
    BY <1>2, <1>3
  <2>3. R[a + 1] = x /\ r[a + i] = x
    BY <2>2, <1>i, <1>2, <1>3, <1>5 DEF x
  <2> QED BY <2>1, <2>3
<1>8. ASSUME NEW q \in 1 .. (b - 1)
      PROVE  R[(a + 1) + q] = IF q < i THEN r[a + q] ELSE r[a + (q + 1)]
  <2>1. q \in 1 .. Len(v) /\ q \in 1 .. b /\ q + 1 \in 1 .. b
    BY <1>2, <1>4
  <2>2. R[(a + 1) + q] = v[q].req
    BY <2>1, <1>3, <1>5
  <2>3. r[a + q] = m[q].req /\ r[a + (q + 1)] = m[q + 1].req
    BY <2>1, <1>2
  <2> QED BY <2>2, <2>3, <1>4
<1>9. ASSUME NEW p \in 1 .. (a + b)
      PROVE  R[p] = IF p = a + 1 THEN r[a + i]
                    ELSE IF a + 1 < p /\ p <= a + i THEN r[p - 1] ELSE r[p]
  <2>0. p \in Int /\ a \in Nat /\ b \in Nat /\ i \in Int
    BY <1>2, <1>i
  <2>1. CASE p = a + 1
    BY <2>1, <1>7
  <2>2. CASE p <= a
    <3>1. p \in 1 .. a /\ p # a + 1 /\ ~(a + 1 < p)
      BY <2>0, <2>2
    <3> QED BY <3>1, <1>7
  <2>3. CASE a + 1 < p
    <3> DEFINE q == p - (a + 1)
    <3>1. q \in 1 .. (b - 1) /\ (a + 1) + q = p /\ a + q = p - 1 /\ a + (q + 1) = p
      BY <2>0, <2>3
    <3>2. q < i <=> p <= a + i
      BY <2>0, <2>3
    <3>3. p # a + 1
      BY <2>0, <2>3
    <3> HIDE DEF q
    <3>4. R[(a + 1) + q] = IF q < i THEN r[a + q] ELSE r[a + (q + 1)]
      BY <3>1, <1>8
    <3>5. R[p] = IF p <= a + i THEN r[p - 1] ELSE r[p]
      BY <3>1, <3>2, <3>4
    <3> QED BY <2>3, <3>3, <3>5
  <2> QED BY <2>0, <2>1, <2>2, <2>3
<1> QED BY <1>2, <1>5, <1>6, <1>9 DEF r, R, u, v, x, a

TicketInv == Answering(tickets_, Pending(mem_rsp, mem_req))

\* A response of the memory finds a ticket of its length.
LEMMA CollectFacts ==
  ASSUME TypeInv, TicketInv, Collect
  PROVE  /\ stage' = "assemble" /\ TicketInv'
         /\ Len(tickets_') = Len(tickets_) - 1
<1> DEFINE req   == Head(mem_rsp)
           r     == Pending(mem_rsp, mem_req)
           found == Fitting(tickets_, req)
           first == FirstFit(tickets_, req)
<1>1. tickets_ \in Seq(Ticket) /\ mem_rsp \in Seq(Known) /\ mem_req \in Seq(Job)
  BY DEF TypeInv
<1>2. /\ stage' = (IF found # {} /\ (~req.write => tickets_[first].beats = Beats(req))
                     THEN "assemble" ELSE "fatal")
      /\ tickets_' = IF found = {} THEN tickets_ ELSE RemoveAt(tickets_, first)
      /\ mem_rsp # <<>> /\ mem_rsp' = Tail(mem_rsp) /\ mem_req' = mem_req
  BY DEF Collect, Require, Fitting, FirstFit
<1>3. r \in Seq(Known) /\ r # <<>> /\ Head(r) = req /\ Tail(r) = Pending(Tail(mem_rsp), mem_req)
  BY <1>1, <1>2, PendingFacts, PendingCollect
<1>4. Answering(tickets_, r)
  BY DEF TicketInv
<1> HIDE DEF r, req
<1>7. /\ found # {} /\ first \in 1 .. Len(tickets_) /\ tickets_[first].beats = Beats(req)
      /\ Answering(RemoveAt(tickets_, first), Tail(r))
  BY <1>1, <1>3, <1>4, AnsweringCollect
<1> HIDE DEF found, first
<1>8. tickets_' = RemoveAt(tickets_, first) /\ stage' = "assemble"
  BY <1>2, <1>3, <1>7
<1>9. Len(tickets_') = Len(tickets_) - 1
  BY <1>1, <1>7, <1>8, RemoveAtFacts
<1>10. Tail(r) = Pending(mem_rsp', mem_req')
  BY <1>2, <1>3
<1> QED BY <1>7, <1>8, <1>9, <1>10 DEF TicketInv

\* Every step keeps the tickets paired with the requests in the memory.
LEMMA TicketStep ==
  ASSUME TypeInv, PlaceInv, TicketInv, [Next]_vars
  PROVE  TicketInv'
<1>0. tickets_ \in Seq(Ticket) /\ mem_rsp \in Seq(Known) /\ mem_req \in Seq(Job)
  BY DEF TypeInv
<1>1. CASE UNCHANGED <<tickets_, mem_rsp, mem_req>>
  BY <1>1 DEF TicketInv
<1>2. CASE Collect
  BY <1>2, CollectFacts
<1>3. ASSUME NEW slot \in Slots, Submit(slot) PROVE TicketInv'
  <2> DEFINE rp  == SlotPlane(slot)
             w   == IsWrite(slot)
             req == IF w THEN Head(writes_[rp]).req ELSE Head(reads_[rp])
             beats == IF w THEN Head(writes_[rp]).write_beats ELSE <<>>
             job == [req |-> req, write_beats |-> beats]
             ticket == [write |-> w, rp |-> rp, id |-> Id(req), beats |-> Beats(req)]
  <2>1. /\ mem_req' = Append(mem_req, job) /\ tickets_' = Append(tickets_, ticket)
        /\ mem_rsp' = mem_rsp
    BY <1>3 DEF Submit
  <2>2. /\ rp \in Planes /\ (w => writes_[rp] # <<>> /\ Head(writes_[rp]) \in Job)
        /\ (~w => reads_[rp] # <<>> /\ Head(reads_[rp]) \in Known)
    BY <1>3, SubmitFacts
  <2>3. writes_[rp] \in Seq(JobsOf(rp)) /\ reads_[rp] \in Seq(ReadsOf(rp))
    BY <2>2 DEF PlaceInv
  <2>4. w \in BOOLEAN
    BY DEF IsWrite
  <2>5. req \in Known /\ req.rp = rp /\ req.write = w /\ beats \in Seq(Beat)
    <3>1. CASE w
      <4>1. Head(writes_[rp]) \in JobsOf(rp)
        BY <2>2, <2>3, <3>1, HeadTail
      <4> QED BY <3>1, <4>1 DEF JobsOf, Job
    <3>2. CASE ~w
      <4>1. Head(reads_[rp]) \in ReadsOf(rp)
        BY <2>2, <2>3, <3>2, HeadTail
      <4>2. req.write \in BOOLEAN
        BY <3>2, <4>1 DEF ReadsOf, Known, Request
      <4> QED BY <2>4, <3>2, <4>1, <4>2 DEF ReadsOf
    <3> QED BY <3>1, <3>2
  <2> HIDE DEF rp, w, req, beats
  <2>6. job \in Job /\ ticket \in Ticket /\ TicketFor(ticket, req) /\ job.req = req
    BY <2>2, <2>4, <2>5, KnownFacts DEF Job, Ticket, TicketFor, Matches
  <2> HIDE DEF job, ticket
  <2> DEFINE r == Pending(mem_rsp, mem_req)
  <2>7. r \in Seq(Known) /\ Pending(mem_rsp, Append(mem_req, job)) = Append(r, req)
    BY <1>0, <2>6, PendingFacts, PendingSubmit
  <2>8. Answering(tickets_, r)
    BY DEF TicketInv
  <2> HIDE DEF r
  <2>9. Answering(Append(tickets_, ticket), Append(r, req))
    BY <1>0, <2>5, <2>6, <2>7, <2>8, AnsweringAppend
  <2> QED BY <2>1, <2>7, <2>9 DEF TicketInv
<1>4. ASSUME NEW i \in 1 .. MemDepth, MemComplete(i) PROVE TicketInv'
  <2> DEFINE s == mem_rsp
             m == mem_req
             r == Pending(s, m)
             R == Pending(Append(s, m[i].req), RemoveAt(m, i))
             k == Len(s) + 1
             l == Len(s) + i
  <2>1. /\ i \in 1 .. Len(m) /\ \A j \in 1 .. (i - 1) : Group(m[j].req) # Group(m[i].req)
        /\ mem_rsp' = Append(s, m[i].req) /\ mem_req' = RemoveAt(m, i) /\ tickets_' = tickets_
    BY <1>0, <1>4 DEF MemComplete
  <2>2. /\ R \in Seq(Known) /\ Len(R) = Len(r)
        /\ \A p \in 1 .. Len(r) : R[p] = IF p = k THEN r[l]
                                         ELSE IF k < p /\ p <= l THEN r[p - 1] ELSE r[p]
    BY <1>0, <2>1, PendingComplete, Zenon
  <2>3. /\ r \in Seq(Known) /\ Len(r) = Len(s) + Len(m) /\ Len(s) \in Nat /\ Len(m) \in Nat
        /\ \A p \in 1 .. Len(m) : r[Len(s) + p] = m[p].req
    BY <1>0, PendingFacts
  <2> HIDE DEF r, R
  <2>4. k \in 1 .. Len(r) /\ l \in k .. Len(r)
    BY <2>1, <2>3
  <2>5. \A p \in k .. (l - 1) : Group(r[p]) # Group(r[l])
    <3> TAKE p \in k .. (l - 1)
    <3>1. p - Len(s) \in 1 .. (i - 1) /\ p - Len(s) \in 1 .. Len(m) /\ Len(s) + (p - Len(s)) = p
      BY <2>1, <2>3
    <3>2. r[Len(s) + (p - Len(s))] = m[p - Len(s)].req /\ r[l] = m[i].req
      BY <2>1, <2>3, <3>1
    <3> QED BY <2>1, <3>1, <3>2
  <2>6. Answering(tickets_, r)
    BY DEF TicketInv, r
  <2> HIDE DEF k, l
  <2>7. Answering(tickets_, R)
    BY <1>0, <2>2, <2>3, <2>4, <2>5, <2>6, AnsweringMove
  <2> QED BY <2>1, <2>7 DEF TicketInv, R
<1>5. CASE ReceiveRead \/ ReceiveWrite \/ ReceiveData
  BY <1>1, <1>5 DEF ReceiveRead, ReceiveWrite, ReceiveData, Receive
<1>6. CASE Assemble \/ ResumeSpill \/ NewFlit
  BY <1>1, <1>6 DEF Assemble, ResumeSpill, NewFlit
<1>7. CASE CollectNothing \/ ReceiveDone \/ SubmitNothing \/ TransmitStalled \/ SendNothing \/ UNCHANGED vars
  BY <1>1, <1>7 DEF vars, others, Pass, ReceiveDone, CollectNothing, SubmitNothing, TransmitStalled, SendNothing
<1>8. ASSUME NEW w \in BOOLEAN, NEW rp \in Planes, PackReply(w, rp) PROVE TicketInv'
  BY <1>1, <1>8 DEF PackReply
<1>9. CASE (\E rp \in Planes : SendWithCredit(rp)) \/ SendWithoutCredit
  BY <1>1, <1>9 DEF SendWithCredit, SendWithoutCredit, SendFlit
<1>10. CASE \E rp \in Planes : (\E k \in {"RREQ", "WREQ"} : SendRequest(k, rp)) \/ SendData(rp)
  BY <1>1, <1>10 DEF SendRequest, SendData
<1>11. CASE BridgeReceive \/ \E k \in RspKinds, rp \in Planes : AddTxCredit(k, rp)
  BY <1>1, <1>11 DEF BridgeReceive, AddTxCredit
<1> HIDE DEF TicketInv
<1> QED BY <1>2, <1>3, <1>4, <1>5, <1>6, <1>7, <1>8, <1>9, <1>10, <1>11
        DEF Next, Thread, Surroundings, RspKinds

\* No ticket is open after construction.
LEMMA InitTicket == Init => TicketInv
<1>1. Pending(<<>>, <<>>) = <<>>
  BY DEF Pending
<1> QED BY <1>1, AnsweringEmpty DEF Init, TicketInv

-----------------------------------------------------------------------------
(* The count of outstanding requests.                                      *)

Places == BOOLEAN \X Planes \X (1 .. MAX_OUTSTANDING)

QueuedIn(R) == {q \in Places : q[3] <= Len(R[q[1]][q[2]])}

\* There are finitely many places for a reply.
LEMMA PlacesFinite == IsFiniteSet(Places)
<1> DEFINE T == (BOOLEAN \X Planes) \X (1 .. MAX_OUTSTANDING)
           f == [q \in Places |-> <<<<q[1], q[2]>>, q[3]>>]
<1>1. IsFiniteSet(BOOLEAN) /\ IsFiniteSet(Planes) /\ IsFiniteSet(1 .. MAX_OUTSTANDING)
  <2>1. IsFiniteSet({TRUE} \cup {FALSE})
    BY FS_Singleton, FS_AddElement
  <2>2. BOOLEAN = {TRUE} \cup {FALSE}
    OBVIOUS
  <2>3. RpCount - 1 \in Int /\ MAX_OUTSTANDING \in Int
    BY TargetAssumption
  <2>4. IsFiniteSet(0 .. (RpCount - 1)) /\ IsFiniteSet(1 .. MAX_OUTSTANDING)
    <3>1. \A a, b \in Int : IsFiniteSet(a .. b)
      BY FS_Interval
    <3> QED BY <2>3, <3>1
  <2> QED BY <2>1, <2>2, <2>4, Zenon DEF Planes
<1>2. IsFiniteSet(T)
  BY <1>1, FS_Product
<1>3. f \in Injection(Places, T)
  <2>1. \A q \in Places : f[q] = <<<<q[1], q[2]>>, q[3]>> /\ q = <<q[1], q[2], q[3]>>
                          /\ q[1] \in BOOLEAN /\ q[2] \in Planes /\ q[3] \in 1 .. MAX_OUTSTANDING
    BY DEF Places
  <2>2. f \in [Places -> T]
    BY <2>1
  <2>3. \A p, q \in Places : f[p] = f[q] => p = q
    <3> SUFFICES ASSUME NEW p \in Places, NEW q \in Places, f[p] = f[q] PROVE p = q
      OBVIOUS
    <3>1. p[1] = q[1] /\ p[2] = q[2] /\ p[3] = q[3]
      BY <2>1
    <3> QED BY <2>1, <3>1
  <2> QED BY <2>2, <2>3 DEF Injection, IsInjective
<1> QED BY <1>2, <1>3, FS_Injection

\* Finitely many replies are queued.
LEMMA QueuedFinite ==
  ASSUME NEW R
  PROVE  IsFiniteSet(QueuedIn(R)) /\ Cardinality(QueuedIn(R)) \in Nat
<1>1. QueuedIn(R) \in SUBSET Places
  BY DEF QueuedIn
<1> QED BY <1>1, PlacesFinite, FS_Subset, FS_CardinalityType

\* One queue of replies becomes one longer.
LEMMA QueuedGrow ==
  ASSUME NEW R \in [BOOLEAN -> [Planes -> Seq(Reply)]],
         NEW S \in [BOOLEAN -> [Planes -> Seq(Reply)]],
         NEW w \in BOOLEAN, NEW rp \in Planes,
         Len(S[w][rp]) = Len(R[w][rp]) + 1, Len(S[w][rp]) <= MAX_OUTSTANDING,
         \A v \in BOOLEAN, p \in Planes : v # w \/ p # rp => Len(S[v][p]) = Len(R[v][p])
  PROVE  Cardinality(QueuedIn(S)) = Cardinality(QueuedIn(R)) + 1
<1> DEFINE n == Len(R[w][rp])
           x == <<w, rp, n + 1>>
<1>0. n \in Nat /\ MAX_OUTSTANDING \in Nat
  BY TargetAssumption
<1>1. x \in Places /\ x[1] = w /\ x[2] = rp /\ x[3] = n + 1
  <2>1. n + 1 \in 1 .. MAX_OUTSTANDING
    BY <1>0
  <2> QED BY <2>1 DEF Places
<1>2. x \notin QueuedIn(R)
  BY <1>0, <1>1 DEF QueuedIn
<1>3. \A q \in Places : q \in QueuedIn(S) <=> q \in QueuedIn(R) \/ q = x
  <2> TAKE q \in Places
  <2>1. /\ q = <<q[1], q[2], q[3]>> /\ q[1] \in BOOLEAN /\ q[2] \in Planes /\ q[3] \in 1 .. MAX_OUTSTANDING
        /\ Len(R[q[1]][q[2]]) \in Nat
    BY DEF Places
  <2>2. CASE q[1] # w \/ q[2] # rp
    <3>1. q # x /\ Len(S[q[1]][q[2]]) = Len(R[q[1]][q[2]])
      BY <1>1, <2>1, <2>2
    <3> QED BY <3>1 DEF QueuedIn
  <2>3. CASE q[1] = w /\ q[2] = rp
    <3> HIDE DEF n
    <3>1. q = x <=> q[3] = n + 1
      BY <2>1, <2>3, <1>1
    <3>2. q \in QueuedIn(S) <=> q[3] <= n + 1
      BY <2>3 DEF QueuedIn, n
    <3>3. q \in QueuedIn(R) <=> q[3] <= n
      BY <2>3 DEF QueuedIn, n
    <3>4. q[3] <= n + 1 <=> q[3] <= n \/ q[3] = n + 1
      BY <1>0, <2>1
    <3> QED BY <3>1, <3>2, <3>3, <3>4
  <2> QED BY <2>2, <2>3
<1>4. QueuedIn(S) = QueuedIn(R) \cup {x}
  BY <1>1, <1>3 DEF QueuedIn
<1> HIDE DEF x
<1>5. IsFiniteSet(QueuedIn(R))
  BY QueuedFinite
<1>6. Cardinality(QueuedIn(R) \cup {x}) =
        IF x \in QueuedIn(R) THEN Cardinality(QueuedIn(R)) ELSE Cardinality(QueuedIn(R)) + 1
  BY <1>5, FS_AddElement
<1> QED BY <1>2, <1>4, <1>6

\* The number of replies depends on the lengths of the queues alone.
LEMMA QueuedSame ==
  ASSUME NEW R, NEW S, \A v \in BOOLEAN, p \in Planes : Len(S[v][p]) = Len(R[v][p])
  PROVE  QueuedIn(S) = QueuedIn(R)
<1>1. \A q \in Places : q[1] \in BOOLEAN /\ q[2] \in Planes
  BY DEF Places
<1> QED BY <1>1 DEF QueuedIn

\* A queue is not longer than all of them together.
LEMMA QueuedLeast ==
  ASSUME NEW R \in [BOOLEAN -> [Planes -> Seq(Reply)]], NEW w \in BOOLEAN, NEW rp \in Planes,
         Len(R[w][rp]) <= MAX_OUTSTANDING
  PROVE  Len(R[w][rp]) <= Cardinality(QueuedIn(R))
<1> DEFINE n == Len(R[w][rp])
           f == [i \in 1 .. n |-> <<w, rp, i>>]
<1>0. n \in Nat /\ MAX_OUTSTANDING \in Nat
  BY TargetAssumption
<1>1. \A i \in 1 .. n : <<w, rp, i>> \in QueuedIn(R) /\ f[i] = <<w, rp, i>>
  <2> TAKE i \in 1 .. n
  <2>1. i \in 1 .. MAX_OUTSTANDING /\ i <= n
    BY <1>0
  <2>2. <<w, rp, i>> \in Places
    BY <2>1 DEF Places
  <2> QED BY <2>1, <2>2 DEF QueuedIn
<1>2. f \in [1 .. n -> QueuedIn(R)]
  BY <1>1
<1>3. \A i, j \in 1 .. n : f[i] = f[j] => i = j
  <2> SUFFICES ASSUME NEW i \in 1 .. n, NEW j \in 1 .. n, f[i] = f[j] PROVE i = j
    OBVIOUS
  <2>1. <<w, rp, i>> = <<w, rp, j>>
    BY <1>1
  <2> QED BY <2>1
<1>4. f \in Injection(1 .. n, QueuedIn(R))
  BY <1>2, <1>3 DEF Injection, IsInjective
<1> HIDE DEF f, n
<1>5. Cardinality(1 .. n) <= Cardinality(QueuedIn(R))
  BY <1>4, QueuedFinite, FS_Injection
<1>6. Cardinality(1 .. n) = n
  BY <1>0, FS_Interval
<1> QED BY <1>5, <1>6 DEF n

InTail == IF spill_ # NoCarry /\ spill_completes_ THEN 1 ELSE 0

CountInv ==
    /\ outstanding_ <= MAX_OUTSTANDING
    /\ \A w \in BOOLEAN, rp \in Planes : Len(replies_[w][rp]) <= MAX_OUTSTANDING
    /\ outstanding_ = Len(tickets_) + Cardinality(QueuedIn(replies_)) + InTail

\* Every step keeps outstanding_ the number of transactions in the target.
LEMMA CountStep ==
  ASSUME TypeInv, PlaceInv, TicketInv, CountInv, [Next]_vars
  PROVE  CountInv'
<1> DEFINE c == Cardinality(QueuedIn(replies_))
<1>1. /\ outstanding_ \in Int /\ tickets_ \in Seq(Ticket) /\ Len(tickets_) \in Nat
      /\ replies_ \in [BOOLEAN -> [Planes -> Seq(Reply)]] /\ MAX_OUTSTANDING \in Nat \ {0}
      /\ spill_completes_ \in BOOLEAN
  <2>1. /\ outstanding_ \in Int /\ tickets_ \in Seq(Ticket) /\ spill_completes_ \in BOOLEAN
        /\ replies_ \in [BOOLEAN -> [Planes -> Seq(Reply)]]
    BY DEF TypeInv
  <2>2. Len(tickets_) \in Nat
    BY <2>1
  <2> QED BY <2>1, <2>2, TargetAssumption
<1>2. c \in Nat /\ InTail \in 0 .. 1
  BY QueuedFinite DEF InTail
<1>3. /\ outstanding_ <= MAX_OUTSTANDING
      /\ \A w \in BOOLEAN, rp \in Planes : Len(replies_[w][rp]) <= MAX_OUTSTANDING
      /\ outstanding_ = Len(tickets_) + c + InTail
  BY DEF CountInv
<1> HIDE DEF c
<1>4. CASE UNCHANGED <<outstanding_, tickets_, replies_, spill_, spill_completes_>>
  BY <1>4 DEF CountInv, InTail
<1>5. CASE Collect
  <2> DEFINE req == Head(mem_rsp)
             r == [req |-> req, beat |-> 1]
             n == Len(replies_[req.write][req.rp])
  <2>1. req \in Known
    <3>1. mem_rsp \in Seq(Known) /\ mem_rsp # <<>>
      BY <1>5 DEF TypeInv, Collect
    <3> QED BY <3>1, HeadTail
  <2>2. req.write \in BOOLEAN /\ req.rp \in Planes /\ r \in Reply
    BY <2>1 DEF Known, Request, Reply
  <2>3. /\ replies_' = [replies_ EXCEPT ![req.write][req.rp] = Append(@, r)]
        /\ UNCHANGED <<outstanding_, spill_, spill_completes_>>
    BY <1>5 DEF Collect
  <2>4. Len(tickets_') = Len(tickets_) - 1 /\ tickets_' \in Seq(Ticket)
    BY <1>5, CollectFacts, TypeCollect DEF TypeInv
  <2>5. replies_' \in [BOOLEAN -> [Planes -> Seq(Reply)]]
    BY <1>5, TypeCollect DEF TypeInv
  <2> HIDE DEF req, r
  <2>6. Len(tickets_') \in Nat
    BY <2>4
  <2>7. n \in Nat /\ n <= MAX_OUTSTANDING /\ n <= c
    <3>1. replies_[req.write][req.rp] \in Seq(Reply)
      BY <1>1, <2>2
    <3>2. n \in Nat
      BY <3>1
    <3>3. n <= MAX_OUTSTANDING
      BY <1>3, <2>2
    <3>4. n <= c
      BY <1>1, <2>2, <3>3, QueuedLeast DEF c
    <3> QED BY <3>2, <3>3, <3>4
  <2>8. n + 1 <= MAX_OUTSTANDING
    <3> HIDE DEF n
    <3> QED BY <1>1, <1>2, <1>3, <2>4, <2>6, <2>7
  <2>9. /\ replies_'[req.write][req.rp] = Append(replies_[req.write][req.rp], r)
        /\ \A v \in BOOLEAN, p \in Planes : v # req.write \/ p # req.rp
             => replies_'[v][p] = replies_[v][p]
    BY <1>1, <2>2, <2>3
  <2>10. Len(replies_'[req.write][req.rp]) = n + 1
    <3>1. replies_[req.write][req.rp] \in Seq(Reply)
      BY <1>1, <2>2
    <3> QED BY <2>2, <2>9, <3>1, Appended
  <2>11. \A v \in BOOLEAN, p \in Planes : v # req.write \/ p # req.rp
             => Len(replies_'[v][p]) = Len(replies_[v][p])
    BY <2>9
  <2>12. Cardinality(QueuedIn(replies_')) = c + 1
    <3> HIDE DEF n
    <3>1. /\ Len(replies_'[req.write][req.rp]) = Len(replies_[req.write][req.rp]) + 1
          /\ Len(replies_'[req.write][req.rp]) <= MAX_OUTSTANDING
      BY <2>8, <2>10 DEF n
    <3> DEFINE R == replies_
               S == replies_'
               w == req.write
               rp == req.rp
    <3>2. /\ R \in [BOOLEAN -> [Planes -> Seq(Reply)]] /\ S \in [BOOLEAN -> [Planes -> Seq(Reply)]]
          /\ w \in BOOLEAN /\ rp \in Planes
          /\ Len(S[w][rp]) = Len(R[w][rp]) + 1 /\ Len(S[w][rp]) <= MAX_OUTSTANDING
          /\ \A v \in BOOLEAN, p \in Planes : v # w \/ p # rp => Len(S[v][p]) = Len(R[v][p])
      BY <1>1, <2>2, <2>5, <2>11, <3>1
    <3> HIDE DEF R, S, w, rp
    <3>3. Cardinality(QueuedIn(S)) = Cardinality(QueuedIn(R)) + 1
      BY <3>2, QueuedGrow
    <3> QED BY <3>3 DEF c, R, S
  <2>13. \A v \in BOOLEAN, p \in Planes : Len(replies_'[v][p]) <= MAX_OUTSTANDING
    <3> TAKE v \in BOOLEAN, p \in Planes
    <3>1. CASE v # req.write \/ p # req.rp
      BY <1>3, <2>11, <3>1
    <3>2. CASE v = req.write /\ p = req.rp
      BY <2>8, <2>10, <3>2
    <3> QED BY <3>1, <3>2
  <2>14. InTail' = InTail
    BY <2>3 DEF InTail
  <2>15. outstanding_' = Len(tickets_') + (c + 1) + InTail'
    BY <1>1, <1>2, <1>3, <2>3, <2>4, <2>14
  <2> QED BY <1>3, <2>3, <2>12, <2>13, <2>15 DEF CountInv
<1>6. ASSUME NEW slot \in Slots, Submit(slot) PROVE CountInv'
  <2>1. /\ outstanding_ # MAX_OUTSTANDING /\ outstanding_' = outstanding_ + 1
        /\ UNCHANGED <<replies_, spill_, spill_completes_>>
    BY <1>6 DEF Submit, CanSubmit
  <2>2. Len(tickets_') = Len(tickets_) + 1
    <3>1. PICK x : tickets_' = Append(tickets_, x)
      BY <1>6 DEF Submit
    <3> QED BY <1>1, <3>1
  <2>3. InTail' = InTail /\ Cardinality(QueuedIn(replies_')) = c
    BY <2>1 DEF InTail, c
  <2>4. outstanding_' <= MAX_OUTSTANDING /\ outstanding_' = Len(tickets_') + c + InTail'
    BY <1>1, <1>2, <1>3, <2>1, <2>2, <2>3
  <2> QED BY <1>3, <2>1, <2>3, <2>4 DEF CountInv
<1>7. CASE ResumeSpill
  <2>1. /\ spill_' = NoCarry
        /\ outstanding_' = IF spill_completes_ THEN outstanding_ - 1 ELSE outstanding_
    BY <1>7, ResumeFacts
  <2>2. spill_ # NoCarry /\ UNCHANGED <<replies_, tickets_>>
    BY <1>7 DEF ResumeSpill
  <2>3. InTail' = 0 /\ InTail = IF spill_completes_ THEN 1 ELSE 0
    BY <2>1, <2>2 DEF InTail
  <2>4. outstanding_' <= MAX_OUTSTANDING /\ outstanding_' = Len(tickets_) + c + InTail'
    BY <1>1, <1>2, <1>3, <2>1, <2>3
  <2> QED BY <1>3, <2>2, <2>4 DEF CountInv, c
<1>8. ASSUME NEW w \in BOOLEAN, NEW rp \in Planes, PackReply(w, rp) PROVE CountInv'
  <2> DEFINE last == PackedMsg(w, rp).last
             cut  == IsCut(w, rp)
             q    == replies_[w][rp]
             d    == Cardinality(QueuedIn(replies_'))
  <2>1. /\ spill_ = NoCarry /\ q \in Seq(Reply) /\ q # <<>> /\ last \in BOOLEAN
        /\ PackedPart(w, rp) \in Nat \ {0}
    BY <1>8, PackFacts DEF Rsp
  <2>2. /\ spill_' = IF cut THEN [msg |-> PackedMsg(w, rp), have |-> PackedPart(w, rp)] ELSE NoCarry
        /\ spill_completes_' = IF cut THEN last ELSE spill_completes_
        /\ outstanding_' = IF last /\ ~cut THEN outstanding_ - 1 ELSE outstanding_
    BY <1>8, PackEffect
  <2>3. cut => spill_' # NoCarry
    <3> HIDE DEF last, cut
    <3>1. [msg |-> PackedMsg(w, rp), have |-> PackedPart(w, rp)].have # NoCarry.have
      BY <2>1 DEF NoCarry
    <3> QED BY <2>2, <3>1
  <2>4. InTail = 0 /\ InTail' = IF cut /\ last THEN 1 ELSE 0
    BY <2>1, <2>2, <2>3 DEF InTail
  <2>5. tickets_' = tickets_
    BY <1>8 DEF PackReply
  <2>6. /\ replies_' \in [BOOLEAN -> [Planes -> Seq(Reply)]]
        /\ last => replies_'[w][rp] = Tail(q)
        /\ ~last => Len(replies_'[w][rp]) = Len(q)
        /\ \A v \in BOOLEAN, p \in Planes : v # w \/ p # rp => replies_'[v][p] = replies_[v][p]
    BY <1>8, PackReplies, Zenon
  <2> HIDE DEF cut, last, q
  <2>7. Len(q) \in Nat \ {0} /\ (last => Len(replies_'[w][rp]) = Len(q) - 1)
    BY <2>1, <2>6, HeadTail
  <2>8. \A v \in BOOLEAN, p \in Planes : v # w \/ p # rp => Len(replies_[v][p]) = Len(replies_'[v][p])
    BY <2>6
  <2>9. Len(q) <= MAX_OUTSTANDING
    BY <1>3 DEF q
  <2>10. last => c = d + 1
    <3> SUFFICES ASSUME last PROVE c = d + 1
      OBVIOUS
    <3>1. Len(replies_[w][rp]) = Len(replies_'[w][rp]) + 1 /\ Len(replies_[w][rp]) <= MAX_OUTSTANDING
      BY <2>7, <2>9 DEF q
    <3> DEFINE R == replies_'
               S == replies_
    <3>2. /\ R \in [BOOLEAN -> [Planes -> Seq(Reply)]] /\ S \in [BOOLEAN -> [Planes -> Seq(Reply)]]
          /\ Len(S[w][rp]) = Len(R[w][rp]) + 1 /\ Len(S[w][rp]) <= MAX_OUTSTANDING
          /\ \A v \in BOOLEAN, p \in Planes : v # w \/ p # rp => Len(S[v][p]) = Len(R[v][p])
      BY <1>1, <2>6, <2>8, <3>1
    <3> HIDE DEF R, S
    <3>3. Cardinality(QueuedIn(S)) = Cardinality(QueuedIn(R)) + 1
      BY <3>2, QueuedGrow
    <3> QED BY <3>3 DEF c, d, R, S
  <2>11. ~last => c = d
    <3> SUFFICES ASSUME ~last PROVE c = d
      OBVIOUS
    <3>1. \A v \in BOOLEAN, p \in Planes : Len(replies_'[v][p]) = Len(replies_[v][p])
      BY <2>6, <2>8 DEF q
    <3> QED BY <3>1, QueuedSame DEF c
  <2>12. d \in Nat
    BY QueuedFinite
  <2> HIDE DEF d
  <2>13. \A v \in BOOLEAN, p \in Planes : Len(replies_'[v][p]) <= MAX_OUTSTANDING
    <3> TAKE v \in BOOLEAN, p \in Planes
    <3>1. CASE v # w \/ p # rp
      BY <1>3, <2>8, <3>1
    <3>2. CASE v = w /\ p = rp
      <4>1. Len(replies_'[w][rp]) <= MAX_OUTSTANDING
        <5>1. CASE last
          BY <1>1, <2>7, <2>9, <5>1
        <5>2. CASE ~last
          BY <2>6, <2>9, <5>2
        <5> QED BY <5>1, <5>2
      <4> QED BY <3>2, <4>1
    <3> QED BY <3>1, <3>2
  <2>14. outstanding_' <= MAX_OUTSTANDING /\ outstanding_' = Len(tickets_) + d + InTail'
    <3>1. CASE ~last
      <4>1. outstanding_' = outstanding_ /\ InTail' = 0 /\ c = d /\ InTail = 0
        BY <3>1, <2>2, <2>4, <2>11
      <4> QED BY <4>1, <1>1, <1>3
    <3>2. CASE last /\ cut
      <4>1. outstanding_' = outstanding_ /\ InTail' = 1 /\ c = d + 1 /\ InTail = 0
        BY <3>2, <2>2, <2>4, <2>10
      <4> QED BY <4>1, <1>1, <1>3, <2>12
    <3>3. CASE last /\ ~cut
      <4>1. outstanding_' = outstanding_ - 1 /\ InTail' = 0 /\ c = d + 1 /\ InTail = 0
        BY <3>3, <2>2, <2>4, <2>10
      <4> QED BY <4>1, <1>1, <1>3, <2>12
    <3> QED BY <3>1, <3>2, <3>3
  <2> QED BY <2>5, <2>13, <2>14 DEF CountInv, d
<1>9. CASE ReceiveRead \/ ReceiveWrite \/ ReceiveData
  BY <1>4, <1>9 DEF ReceiveRead, ReceiveWrite, ReceiveData, Receive
<1>10. CASE Assemble \/ NewFlit
  BY <1>4, <1>10 DEF Assemble, NewFlit
<1>11. CASE CollectNothing \/ ReceiveDone \/ SubmitNothing \/ TransmitStalled \/ SendNothing \/ UNCHANGED vars
  BY <1>4, <1>11 DEF vars, others, Pass, ReceiveDone, CollectNothing, SubmitNothing, TransmitStalled, SendNothing
<1>12. CASE (\E rp \in Planes : SendWithCredit(rp)) \/ SendWithoutCredit
  BY <1>4, <1>12 DEF SendWithCredit, SendWithoutCredit, SendFlit
<1>13. CASE \E rp \in Planes : (\E k \in {"RREQ", "WREQ"} : SendRequest(k, rp)) \/ SendData(rp)
  BY <1>4, <1>13 DEF SendRequest, SendData
<1>14. CASE BridgeReceive \/ \E k \in RspKinds, rp \in Planes : AddTxCredit(k, rp)
  BY <1>4, <1>14 DEF BridgeReceive, AddTxCredit
<1>15. CASE \E i \in 1 .. MemDepth : MemComplete(i)
  BY <1>4, <1>15 DEF MemComplete
<1> HIDE DEF CountInv
<1> QED BY <1>5, <1>6, <1>7, <1>8, <1>9, <1>10, <1>11, <1>12, <1>13, <1>14, <1>15
        DEF Next, Thread, Surroundings, RspKinds

\* No transaction is outstanding after construction.
LEMMA InitCount == Init => CountInv
<1> SUFFICES ASSUME Init PROVE CountInv
  OBVIOUS
<1>1. QueuedIn(replies_) = {}
  <2>1. \A q \in Places : q[1] \in BOOLEAN /\ q[2] \in Planes /\ q[3] \in Nat \ {0}
    BY TargetAssumption DEF Places
  <2>2. \A w \in BOOLEAN, rp \in Planes : Len(replies_[w][rp]) = 0
    BY DEF Init
  <2> QED BY <2>1, <2>2 DEF QueuedIn
<1>2. Cardinality(QueuedIn(replies_)) = 0
  BY <1>1, FS_EmptySet
<1>3. outstanding_ = 0 /\ Len(tickets_) = 0 /\ InTail = 0
  BY DEF Init, InTail
<1>4. \A w \in BOOLEAN, rp \in Planes : Len(replies_[w][rp]) <= MAX_OUTSTANDING
  BY TargetAssumption DEF Init
<1> QED BY <1>2, <1>3, <1>4, TargetAssumption DEF CountInv

-----------------------------------------------------------------------------
(* The bridge's decoder follows the target: what it carries over from one  *)
(* flit to the next is what the target has left over.                      *)

Decodable(c, F) ==
    /\ c # NoCarry => F # <<>> /\ F[1].msg = c.msg /\ F[1].from = c.have
    /\ \A i \in 1 .. Len(F) :
         /\ i > 1 \/ c = NoCarry => F[i].from = 0
         /\ i < Len(F) => Finished(F[i])

LeftOver(F) ==
    IF F = <<>> \/ Finished(Last(F)) THEN NoCarry
    ELSE [msg |-> Last(F).msg, have |-> Last(F).from + Last(F).take]

Decodes == {x \in Carry \X Flit \X Carry :
              Decodable(x[1], x[2].fragments) /\ x[3] = LeftOver(x[2].fragments)}

DecodeInv ==
    /\ decoder_ok /\ carry \in Carry
    /\ \E b \in Carry :
         /\ Leads(link_tx, Decodes, carry, b)
         /\ stage # "pack" => b = spill_
         /\ stage = "pack" => /\ Decodable(b, flit.fragments)
                              /\ spill_ = LeftOver(flit.fragments)
                              /\ flit.fragments # <<>> => flit.used_granules > 0

\* One more response in a flit that ends with a whole one.
LEMMA DecodableAppend ==
  ASSUME NEW c, NEW F \in Seq(Fragment), Decodable(c, F), LeftOver(F) = NoCarry,
         NEW x \in Fragment, x.from = 0
  PROVE  /\ Decodable(c, Append(F, x))
         /\ LeftOver(Append(F, x)) = IF Finished(x) THEN NoCarry
                                     ELSE [msg |-> x.msg, have |-> 0 + x.take]
<1> DEFINE G == Append(F, x)
           n == Len(F)
<1>1. /\ G \in Seq(Fragment) /\ Len(G) = n + 1 /\ n \in Nat /\ G[n + 1] = x
      /\ \A i \in 1 .. n : G[i] = F[i]
  BY Appended
<1>2. F # <<>> => n \in Nat \ {0} /\ Finished(F[n])
  <2> SUFFICES ASSUME F # <<>> PROVE n \in Nat \ {0} /\ Finished(F[n])
    OBVIOUS
  <2>1. n \in Nat \ {0} /\ F[n] \in Fragment /\ Last(F) = F[n]
    BY DEF Last
  <2>2. F[n].msg.kind # "NONE"
    BY <2>1 DEF Fragment, Rsp, RspKinds
  <2>3. NoCarry.msg.kind = "NONE"
    BY DEF NoCarry, NoMsg
  <2>4. CASE Finished(F[n])
    BY <2>1, <2>4
  <2>5. CASE ~Finished(F[n])
    <3>1. LeftOver(F) = [msg |-> F[n].msg, have |-> F[n].from + F[n].take]
      BY <2>1, <2>5 DEF LeftOver
    <3>2. LeftOver(F).msg = F[n].msg
      BY <3>1
    <3> QED BY <2>2, <2>3, <3>2
  <2> QED BY <2>4, <2>5
<1>3. F = <<>> => n = 0
  OBVIOUS
<1>d. /\ c # NoCarry => F # <<>> /\ F[1].msg = c.msg /\ F[1].from = c.have
      /\ \A i \in 1 .. n : (i > 1 \/ c = NoCarry => F[i].from = 0) /\ (i < n => Finished(F[i]))
  BY DEF Decodable
<1> HIDE DEF G, n
<1>4. c # NoCarry => G # <<>> /\ G[1].msg = c.msg /\ G[1].from = c.have
  <2> SUFFICES ASSUME c # NoCarry PROVE G # <<>> /\ G[1].msg = c.msg /\ G[1].from = c.have
    OBVIOUS
  <2>1. F # <<>> /\ F[1].msg = c.msg /\ F[1].from = c.have
    BY <1>d
  <2>2. 1 \in 1 .. n
    BY <1>2, <2>1
  <2>3. G[1] = F[1] /\ G # <<>>
    BY <1>1, <2>2
  <2> QED BY <2>1, <2>3
<1>5. ASSUME NEW i \in 1 .. (n + 1)
      PROVE  (i > 1 \/ c = NoCarry => G[i].from = 0) /\ (i < n + 1 => Finished(G[i]))
  <2>1. CASE i = n + 1
    BY <1>1, <2>1
  <2>2. CASE i \in 1 .. n
    <3>1. G[i] = F[i] /\ (i > 1 \/ c = NoCarry => F[i].from = 0) /\ (i < n => Finished(F[i]))
      BY <1>1, <1>d, <2>2
    <3>2. F # <<>>
      BY <1>1, <1>3, <2>2
    <3>3. Finished(F[i])
      <4>1. i < n \/ i = n
        BY <1>1, <2>2
      <4> QED BY <3>1, <3>2, <4>1, <1>2
    <3> QED BY <3>1, <3>3
  <2> QED BY <1>1, <2>1, <2>2
<1>6. Decodable(c, G)
  BY <1>1, <1>4, <1>5 DEF Decodable
<1>7. G # <<>> /\ Last(G) = x
  BY <1>1 DEF Last
<1>8. LeftOver(G) = IF Finished(x) THEN NoCarry ELSE [msg |-> x.msg, have |-> 0 + x.take]
  BY <1>7 DEF LeftOver
<1> QED BY <1>6, <1>8 DEF G

\* Every step keeps what is on the link decodable from the decoder's carry.
LEMMA DecodeStep ==
  ASSUME TypeInv, PlaceInv, DecodeInv, [Next]_vars
  PROVE  DecodeInv'
<1>1. PICK b \in Carry :
        /\ Leads(link_tx, Decodes, carry, b)
        /\ stage # "pack" => b = spill_
        /\ stage = "pack" => /\ Decodable(b, flit.fragments)
                             /\ spill_ = LeftOver(flit.fragments)
                             /\ flit.fragments # <<>> => flit.used_granules > 0
  BY DEF DecodeInv
<1>2. decoder_ok /\ carry \in Carry
  BY DEF DecodeInv
<1>3. link_tx \in Seq(Flit) /\ flit \in PartFlit /\ spill_ \in Carry
  BY DEF TypeInv
<1>4. flit.fragments \in Seq(Fragment) /\ flit.used_granules \in Nat
  BY <1>3, GranulesFacts DEF PartFlit
<1>5. CASE stage # "pack" /\ stage' # "pack" /\ UNCHANGED <<link_tx, carry, decoder_ok, spill_>>
  BY <1>1, <1>2, <1>5 DEF DecodeInv
<1>6. CASE UNCHANGED <<stage, link_tx, carry, decoder_ok, spill_, flit>>
  BY <1>6 DEF DecodeInv
<1>7. CASE ResumeSpill
  <2> DEFINE x == [msg |-> spill_.msg, from |-> spill_.have,
                   take |-> Granules[spill_.msg.kind] - spill_.have]
  <2>1. /\ stage = "transmit" /\ stage' = "pack" /\ spill_ # NoCarry
        /\ UNCHANGED <<link_tx, carry, decoder_ok>>
    BY <1>7 DEF ResumeSpill
  <2>2. spill_' = NoCarry /\ flit'.fragments = <<x>> /\ flit'.used_granules > 0
    BY <1>7, ResumeFacts
  <2>3. b = spill_
    BY <1>1, <2>1
  <2>4. x.msg = b.msg /\ x.from = b.have /\ Finished(x)
    <3>1. spill_.msg \in Rsp /\ spill_.have \in Nat
      BY <1>3, <2>1, CarryFacts
    <3>2. Granules[spill_.msg.kind] \in Nat
      BY <3>1, GranulesFacts DEF Rsp
    <3> QED BY <2>3, <3>1, <3>2 DEF Finished
  <2> HIDE DEF x
  <2>5. Decodable(b, <<x>>)
    <3>1. <<x>> # <<>> /\ <<x>>[1] = x /\ Len(<<x>>) = 1
      OBVIOUS
    <3>2. b # NoCarry
      BY <2>1, <2>3
    <3>3. \A i \in 1 .. Len(<<x>>) : ~(i > 1) /\ ~(i < Len(<<x>>))
      BY <3>1
    <3> QED BY <2>4, <3>1, <3>2, <3>3 DEF Decodable
  <2>6. LeftOver(<<x>>) = NoCarry
    BY <2>4 DEF LeftOver, Last
  <2> QED BY <1>1, <1>2, <2>1, <2>2, <2>5, <2>6 DEF DecodeInv
<1>8. CASE NewFlit
  <2>1. /\ stage = "transmit" /\ stage' = "pack" /\ spill_ = NoCarry /\ flit' = EmptyFlit
        /\ UNCHANGED <<link_tx, carry, decoder_ok, spill_>>
    BY <1>8 DEF NewFlit
  <2>2. b = NoCarry
    BY <1>1, <2>1
  <2>3. flit'.fragments = <<>>
    BY <2>1 DEF EmptyFlit
  <2>4. Decodable(b, <<>>) /\ LeftOver(<<>>) = NoCarry
    BY <2>2 DEF Decodable, LeftOver
  <2> QED BY <1>1, <1>2, <2>1, <2>3, <2>4 DEF DecodeInv
<1>9. ASSUME NEW w \in BOOLEAN, NEW rp \in Planes, PackReply(w, rp) PROVE DecodeInv'
  <2> DEFINE msg  == PackedMsg(w, rp)
             took == PackedPart(w, rp)
             x    == [msg |-> msg, from |-> 0, take |-> took]
  <2>1. /\ stage = "pack" /\ stage' = "pack" /\ flit'.fragments = Append(flit.fragments, x)
        /\ spill_' = IF IsCut(w, rp) THEN [msg |-> msg, have |-> took] ELSE NoCarry
        /\ flit'.used_granules = flit.used_granules + took
    BY <1>9, PackEffect
  <2>2. /\ spill_ = NoCarry /\ msg \in Rsp /\ msg.kind = KindOf(w) /\ took \in Nat \ {0}
        /\ took <= Granules[KindOf(w)] /\ Granules[KindOf(w)] \in Nat
    BY <1>9, PackFacts
  <2>3. UNCHANGED <<link_tx, carry, decoder_ok>>
    BY <1>9 DEF PackReply
  <2> HIDE DEF msg, took
  <2>4. x \in Fragment /\ x.from = 0 /\ x.msg = msg /\ x.take = took
    BY <2>2 DEF Fragment
  <2>5. Finished(x) <=> ~IsCut(w, rp)
    BY <2>2, <2>4 DEF Finished, IsCut, took
  <2> HIDE DEF x
  <2>6. /\ Decodable(b, Append(flit.fragments, x))
        /\ LeftOver(Append(flit.fragments, x)) = IF Finished(x) THEN NoCarry
                                                 ELSE [msg |-> x.msg, have |-> 0 + x.take]
    BY <1>1, <1>4, <2>1, <2>2, <2>4, DecodableAppend
  <2>7. spill_' = LeftOver(flit'.fragments)
    <3>1. 0 + x.take = took
      BY <2>2, <2>4
    <3> QED BY <2>1, <2>4, <2>5, <2>6, <3>1
  <2>8. flit'.used_granules > 0
    BY <1>4, <2>1, <2>2
  <2> QED BY <1>1, <1>2, <2>1, <2>3, <2>6, <2>7, <2>8 DEF DecodeInv
<1>10. CASE (\E rp \in Planes : SendWithCredit(rp)) \/ SendWithoutCredit
  <2>1. PICK rp \in Planes, grant \in [ReqKinds -> Nat] : SendFlit(rp, grant) /\ stage = "pack"
    <3>1. NoReturns \in [ReqKinds -> Nat] /\ 0 \in Planes
      BY PlanesFacts DEF NoReturns
    <3>2. \A rp \in Planes : returns[rp] \in [ReqKinds -> Nat]
      BY DEF TypeInv
    <3> QED BY <1>10, <3>1, <3>2 DEF SendWithCredit, SendWithoutCredit, PackedAll
  <2> DEFINE f == [fragments |-> flit.fragments, rp |-> rp, credit |-> grant]
  <2>2. /\ link_tx' = Append(link_tx, f) /\ stage' = "receive"
        /\ UNCHANGED <<carry, decoder_ok, spill_>>
    BY <2>1 DEF SendFlit
  <2>3. f \in Flit /\ f.fragments = flit.fragments
    BY <1>4 DEF Flit
  <2> HIDE DEF f
  <2>4. <<b, f, spill_>> \in Decodes
    BY <1>1, <1>3, <2>1, <2>3 DEF Decodes
  <2>5. Leads(Append(link_tx, f), Decodes, carry, spill_)
    BY <1>1, <1>3, <2>3, <2>4, LeadsAppend
  <2> QED BY <1>2, <1>3, <2>2, <2>5 DEF DecodeInv
<1>11. CASE SendNothing
  <2>1. /\ stage = "pack" /\ stage' = "receive" /\ flit.used_granules = 0
        /\ UNCHANGED <<link_tx, carry, decoder_ok, spill_>>
    BY <1>11 DEF SendNothing, Pass, PackedAll, others
  <2>2. flit.fragments = <<>>
    BY <1>1, <1>4, <2>1
  <2>3. spill_ = NoCarry /\ b = NoCarry
    BY <1>1, <2>1, <2>2 DEF LeftOver, Decodable
  <2> QED BY <1>1, <1>2, <2>1, <2>3 DEF DecodeInv
<1>12. CASE BridgeReceive
  <2>1. /\ link_tx # <<>> /\ link_tx' = Tail(link_tx) /\ stage = "receive"
        /\ decoder_ok' = Decodable(carry, Head(link_tx).fragments)
        /\ carry' = LeftOver(Head(link_tx).fragments)
        /\ UNCHANGED <<stage, spill_, flit>>
    BY <1>12 DEF BridgeReceive, Acceptable, Decodable, LeftOver
  <2>2. PICK d : <<carry, Head(link_tx), d>> \in Decodes /\ Leads(Tail(link_tx), Decodes, d, b)
    BY <1>1, <1>3, <2>1, LeadsTail
  <2>3. d \in Carry /\ Decodable(carry, Head(link_tx).fragments) /\ d = LeftOver(Head(link_tx).fragments)
    BY <2>2 DEF Decodes
  <2> QED BY <1>1, <2>1, <2>2, <2>3 DEF DecodeInv
<1>13. CASE ReceiveRead \/ ReceiveWrite \/ ReceiveData
  BY <1>5, <1>13 DEF ReceiveRead, ReceiveWrite, ReceiveData, Receive, Require
<1>14. CASE Assemble \/ Collect
  BY <1>5, <1>14 DEF Assemble, Collect, Require
<1>15. CASE CollectNothing \/ ReceiveDone \/ SubmitNothing \/ TransmitStalled
  BY <1>5, <1>15 DEF others, Pass, ReceiveDone, CollectNothing, SubmitNothing, TransmitStalled
<1>16. CASE \E slot \in Slots : Submit(slot)
  BY <1>5, <1>16 DEF Submit
<1>17. CASE \E rp \in Planes : (\E k \in {"RREQ", "WREQ"} : SendRequest(k, rp)) \/ SendData(rp)
  BY <1>6, <1>17 DEF SendRequest, SendData
<1>18. CASE (\E k \in RspKinds, rp \in Planes : AddTxCredit(k, rp)) \/ \E i \in 1 .. MemDepth : MemComplete(i)
  BY <1>6, <1>18 DEF AddTxCredit, MemComplete
<1>19. CASE UNCHANGED vars
  BY <1>6, <1>19 DEF vars, others
<1> HIDE DEF DecodeInv
<1> QED BY <1>7, <1>8, <1>9, <1>10, <1>11, <1>12, <1>13, <1>14, <1>15, <1>16, <1>17, <1>18, <1>19
        DEF Next, Thread, Surroundings, RspKinds

\* The link is empty and the decoder has no carry after construction.
LEMMA InitDecode == Init => DecodeInv
<1> SUFFICES ASSUME Init PROVE DecodeInv
  OBVIOUS
<1>1. NoCarry \in Carry /\ carry = NoCarry /\ spill_ = NoCarry /\ link_tx = <<>>
      /\ stage # "pack" /\ decoder_ok
  BY DEF Init, Carry
<1>2. Leads(link_tx, Decodes, carry, spill_)
  BY <1>1, LeadsEmpty
<1> QED BY <1>1, <1>2 DEF DecodeInv

-----------------------------------------------------------------------------
(* Write data: on every plane the beats are used in the order in which     *)
(* they were sent, and a cursor tells whose beat is the next.              *)

Cursor == [n : Nat \ {0}, beat : Nat \ {0}]

\* The first k beats of write n.
Own(n, k) == [b \in 1 .. k |-> [n |-> n, beat |-> b]]

\* How many beats of write n are used when the cursor is at a.
Got(rp, a, n) ==
    IF n < a.n THEN Writes[rp][n].beats ELSE IF n = a.n THEN a.beat - 1 ELSE 0

\* W holds the writes from base + 1 on, with the beats before the cursor.
Filled(rp, base, a, W) ==
    /\ \A i \in 1 .. Len(W) : /\ W[i].req.n = base + i
                              /\ W[i].write_beats = Own(base + i, Got(rp, a, base + i))
    /\ base + 1 <= a.n /\ a.n <= (base + Len(W)) + 1
    /\ a.n = (base + Len(W)) + 1 => a.beat = 1
    /\ a.n <= Len(Writes[rp]) => a.beat <= Writes[rp][a.n].beats

\* A queue of messages moves the cursor of write data, and the count of
\* write requests.
DataSteps(rp) == {x \in Cursor \X KnownMessage \X Cursor :
    IF x[2].kind = "WDATA" /\ x[2].rp = rp
      THEN /\ x[2].n = x[1].n /\ x[2].beat = x[1].beat
           /\ x[1].n <= Len(Writes[rp]) /\ x[3] = Succ(rp, x[1])
      ELSE x[3] = x[1]}

WriteSteps(rp) == {x \in Nat \X KnownMessage \X Nat :
    IF x[2].kind = "WREQ" /\ x[2].rp = rp
      THEN x[2].n = x[1] + 1 /\ x[3] = x[1] + 1
      ELSE x[3] = x[1]}

DataFlow(rp, base, a, b) ==
    /\ Filled(rp, base, a, writes_[rp])
    /\ Leads(data_[rp], DataSteps(rp), a, b)
    /\ Leads(link_rx, DataSteps(rp), b, w_next[rp])
    /\ Leads(link_rx, WriteSteps(rp), base + Len(writes_[rp]), sent["WREQ"][rp])

DataInv == \A rp \in Planes : \E base \in Nat, a \in Cursor, b \in Cursor : DataFlow(rp, base, a, b)

\* The first k data beats of write n.
LEMMA OwnFacts ==
  ASSUME NEW n \in Nat, NEW k \in Nat
  PROVE  /\ Own(n, k) \in Seq(Beat) /\ Len(Own(n, k)) = k
         /\ Own(n, 0) = <<>>
         /\ Append(Own(n, k), [n |-> n, beat |-> k + 1]) = Own(n, k + 1)
<1>0. ASSUME NEW l \in Nat
      PROVE  /\ Own(n, l) \in Seq(Beat) /\ Len(Own(n, l)) = l
             /\ \A b \in 1 .. l : Own(n, l)[b] = [n |-> n, beat |-> b]
  <2>1. \A b \in 1 .. l : [n |-> n, beat |-> b] \in Beat
    BY DEF Beat
  <2>2. Own(n, l) \in [1 .. l -> Beat]
    BY <2>1 DEF Own
  <2>3. Own(n, l) \in Seq(Beat) /\ Len(Own(n, l)) = l
    BY <2>2
  <2> QED BY <2>3 DEF Own
<1>1. Own(n, 0) = <<>>
  BY <1>0
<1> DEFINE x == [n |-> n, beat |-> k + 1]
           p == Own(n, k)
           q == Own(n, k + 1)
           r == Append(p, x)
<1>2. /\ p \in Seq(Beat) /\ Len(p) = k /\ \A b \in 1 .. k : p[b] = [n |-> n, beat |-> b]
  BY <1>0
<1>3. /\ q \in Seq(Beat) /\ Len(q) = k + 1 /\ \A b \in 1 .. (k + 1) : q[b] = [n |-> n, beat |-> b]
  BY <1>0
<1>4. x \in Beat
  BY DEF Beat
<1> HIDE DEF x, p, q
<1>5. r \in Seq(Beat) /\ Len(r) = k + 1 /\ r[k + 1] = x /\ \A b \in 1 .. k : r[b] = p[b]
  BY <1>2, <1>4, Appended
<1>6. ASSUME NEW b \in 1 .. (k + 1) PROVE r[b] = q[b]
  <2>1. CASE b = k + 1
    BY <1>3, <1>5, <2>1 DEF x
  <2>2. CASE b # k + 1
    <3>1. b \in 1 .. k
      BY <2>2
    <3> QED BY <1>2, <1>3, <1>5, <3>1
  <2> QED BY <2>1, <2>2
<1> HIDE DEF r
<1>7. r = q
  BY <1>3, <1>5, <1>6, SeqEqual
<1> QED BY <1>1, <1>2, <1>7 DEF p, q, r, x

\* What is known of a write of a queue.
LEMMA FilledAt ==
  ASSUME NEW rp \in Planes, NEW base \in Nat, NEW a \in Cursor, NEW W \in Seq(JobsOf(rp)),
         Filled(rp, base, a, W), NEW i \in 1 .. Len(W)
  PROVE  /\ base + i <= Len(Writes[rp]) /\ W[i].req \in Known
         /\ Beats(W[i].req) = Writes[rp][base + i].beats
         /\ Beats(W[i].req) \in Nat \ {0}
         /\ Got(rp, a, base + i) \in Nat
         /\ Len(W[i].write_beats) = Got(rp, a, base + i)
         /\ Got(rp, a, base + i) <= Beats(W[i].req)
         /\ Complete(W[i]) <=> base + i < a.n
<1>c. a.n \in Nat \ {0} /\ a.beat \in Nat \ {0}
  BY DEF Cursor
<1> DEFINE n == base + i
           g == Got(rp, a, n)
           t == Writes[rp][n].beats
<1>1. W[i] \in JobsOf(rp)
  OBVIOUS
<1>2. W[i].req \in Known /\ W[i].req.write /\ W[i].req.rp = rp
  BY <1>1 DEF JobsOf, Job
<1>3. W[i].req.n = n /\ W[i].write_beats = Own(n, g) /\ n \in Nat
  BY DEF Filled
<1>4. n <= Len(Writes[rp])
  BY <1>2, <1>3 DEF Known
<1>5. Beats(W[i].req) = t /\ t \in Nat \ {0}
  <2>1. Beats(W[i].req) = t
    BY <1>2, <1>3 DEF Beats, Asked
  <2> QED BY <1>2, <2>1, KnownFacts
<1>6. a.n <= Len(Writes[rp]) => a.beat <= Writes[rp][a.n].beats
  BY DEF Filled
<1>7. g = IF n < a.n THEN t ELSE IF n = a.n THEN a.beat - 1 ELSE 0
  BY DEF Got
<1>8. n = a.n => a.beat <= t
  BY <1>4, <1>6
<1> HIDE DEF n, g, t
<1>9. g \in Nat /\ g <= t /\ (g = t <=> n < a.n)
  BY <1>c, <1>3, <1>5, <1>7, <1>8
<1>10. Len(Own(n, g)) = g
  BY <1>3, <1>9, OwnFacts
<1>11. Len(W[i].write_beats) = g
  BY <1>3, <1>10
<1>12. Complete(W[i]) <=> n < a.n
  BY <1>5, <1>9, <1>11 DEF Complete
<1> QED BY <1>2, <1>4, <1>5, <1>9, <1>11, <1>12 DEF n, g, t

\* A write request is received.
LEMMA FilledPut ==
  ASSUME NEW rp \in Planes, NEW base \in Nat, NEW a \in Cursor, NEW W \in Seq(JobsOf(rp)),
         Filled(rp, base, a, W),
         NEW j \in JobsOf(rp), j.req.n = (base + Len(W)) + 1, j.write_beats = <<>>
  PROVE  Filled(rp, base, a, Append(W, j))
<1> DEFINE V == Append(W, j)
           l == Len(W)
<1>1. l \in Nat /\ Len(V) = l + 1 /\ V[l + 1] = j /\ \A i \in 1 .. l : V[i] = W[i]
  BY Appended
<1>2. /\ a.n \in Nat /\ a.beat \in Nat \ {0} /\ base + 1 <= a.n /\ a.n <= (base + l) + 1
      /\ (a.n = (base + l) + 1 => a.beat = 1)
      /\ (a.n <= Len(Writes[rp]) => a.beat <= Writes[rp][a.n].beats)
      /\ \A i \in 1 .. l : W[i].req.n = base + i /\ W[i].write_beats = Own(base + i, Got(rp, a, base + i))
  BY DEF Filled, Cursor
<1> HIDE DEF V, l
<1>3. ASSUME NEW i \in 1 .. (l + 1)
      PROVE  V[i].req.n = base + i /\ V[i].write_beats = Own(base + i, Got(rp, a, base + i))
  <2>1. CASE i = l + 1
    <3>1. base + i = (base + l) + 1 /\ base + i \in Nat
      BY <1>1, <2>1
    <3>2. Got(rp, a, base + i) = 0
      <4>1. ~(base + i < a.n) /\ (base + i = a.n => a.beat - 1 = 0)
        BY <1>1, <1>2, <3>1
      <4> QED BY <4>1 DEF Got
    <3>3. Own(base + i, 0) = <<>>
      BY <3>1, OwnFacts
    <3> QED BY <1>1, <2>1, <3>1, <3>2, <3>3 DEF l
  <2>2. CASE i # l + 1
    <3>1. i \in 1 .. l
      BY <1>1, <2>2
    <3> QED BY <1>1, <1>2, <3>1
  <2> QED BY <2>1, <2>2
<1>4. a.n <= (base + (l + 1)) + 1 /\ a.n # (base + (l + 1)) + 1
  BY <1>1, <1>2
<1>5. Filled(rp, base, a, V)
  BY <1>1, <1>2, <1>3, <1>4 DEF Filled
<1> QED BY <1>5 DEF V

\* The head of the queue is submitted.
LEMMA FilledTake ==
  ASSUME NEW rp \in Planes, NEW base \in Nat, NEW a \in Cursor, NEW W \in Seq(JobsOf(rp)),
         Filled(rp, base, a, W), W # <<>>, Complete(Head(W))
  PROVE  /\ Filled(rp, base + 1, a, Tail(W))
         /\ Head(W).write_beats = Own(Head(W).req.n, Beats(Head(W).req))
         /\ base + Len(W) = (base + 1) + Len(Tail(W))
<1> DEFINE V == Tail(W)
           l == Len(W)
<1>1. /\ l \in Nat \ {0} /\ Head(W) = W[1] /\ Len(V) = l - 1
      /\ \A i \in 1 .. (l - 1) : V[i] = W[i + 1]
  BY HeadTail
<1>2. /\ a.n \in Nat /\ a.beat \in Nat \ {0} /\ base + 1 <= a.n /\ a.n <= (base + l) + 1
      /\ (a.n = (base + l) + 1 => a.beat = 1)
      /\ (a.n <= Len(Writes[rp]) => a.beat <= Writes[rp][a.n].beats)
      /\ \A i \in 1 .. l : W[i].req.n = base + i /\ W[i].write_beats = Own(base + i, Got(rp, a, base + i))
  BY DEF Filled, Cursor
<1>3. 1 \in 1 .. l
  BY <1>1
<1>4. /\ base + 1 < a.n /\ Beats(W[1].req) = Writes[rp][base + 1].beats
  <2>1. /\ Complete(W[1]) <=> base + 1 < a.n
        /\ Beats(W[1].req) = Writes[rp][base + 1].beats
    BY <1>3, FilledAt
  <2> QED BY <1>1, <2>1
<1>5. Got(rp, a, base + 1) = Beats(W[1].req)
  BY <1>4 DEF Got
<1>6. Head(W).write_beats = Own(Head(W).req.n, Beats(Head(W).req))
  BY <1>1, <1>2, <1>3, <1>5
<1> HIDE DEF V, l
<1>7. ASSUME NEW i \in 1 .. (l - 1)
      PROVE  /\ V[i].req.n = (base + 1) + i
             /\ V[i].write_beats = Own((base + 1) + i, Got(rp, a, (base + 1) + i))
  <2>1. i + 1 \in 1 .. l /\ base + (i + 1) = (base + 1) + i
    BY <1>1
  <2>2. V[i] = W[i + 1]
    BY <1>1
  <2>3. /\ W[i + 1].req.n = base + (i + 1)
        /\ W[i + 1].write_beats = Own(base + (i + 1), Got(rp, a, base + (i + 1)))
    BY <1>2, <2>1
  <2> QED BY <2>1, <2>2, <2>3
<1>8. /\ (base + 1) + 1 <= a.n /\ (base + 1) + (l - 1) = base + l
  BY <1>1, <1>2, <1>4
<1>9. Filled(rp, base + 1, a, V)
  BY <1>1, <1>2, <1>7, <1>8 DEF Filled
<1> QED BY <1>1, <1>6, <1>8, <1>9 DEF V, l

\* A number that is neither less nor greater.
LEMMA Squeeze ==
  ASSUME NEW x \in Int, NEW y \in Int, NEW z \in Int, ~(x + y < z), y <= z - x
  PROVE  x + y = z
OBVIOUS

\* The first write that lacks a beat gets the next one, and it is its own.
LEMMA FilledBeat ==
  ASSUME NEW rp \in Planes, NEW base \in Nat, NEW a \in Cursor, NEW W \in Seq(JobsOf(rp)),
         Filled(rp, base, a, W), a.n <= Len(Writes[rp]),
         NEW f \in 1 .. Len(W), ~Complete(W[f]),
         \A i \in 1 .. Len(W) : ~Complete(W[i]) => f <= i,
         NEW V, Len(V) = Len(W), \A i \in (1 .. Len(W)) \ {f} : V[i] = W[i],
         V[f] = [req |-> W[f].req,
                 write_beats |-> Append(W[f].write_beats, [n |-> a.n, beat |-> a.beat])]
  PROVE  Filled(rp, base, Succ(rp, a), V)
<1> DEFINE l == Len(W)
           t == Writes[rp][a.n].beats
           s == Succ(rp, a)
<1>1. /\ l \in Nat /\ a.n \in Nat \ {0} /\ a.beat \in Nat \ {0} /\ base + 1 <= a.n /\ a.n <= (base + l) + 1
      /\ (a.n = (base + l) + 1 => a.beat = 1)
      /\ a.beat <= t
      /\ \A i \in 1 .. l : W[i].req.n = base + i /\ W[i].write_beats = Own(base + i, Got(rp, a, base + i))
  BY DEF Filled, Cursor
<1>2. ASSUME NEW i \in 1 .. l PROVE Complete(W[i]) <=> base + i < a.n
  BY <1>2, FilledAt
<1>3. \A n \in 1 .. Len(Writes[rp]) : Writes[rp][n].beats \in Nat \ {0}
  <2>1. Writes[rp] \in Seq(AskedFor)
    BY TargetAssumption
  <2>2. \A n \in 1 .. Len(Writes[rp]) : Writes[rp][n] \in AskedFor
    BY <2>1
  <2> QED BY <2>2 DEF AskedFor
<1>4. t \in Nat \ {0}
  <2>1. Len(Writes[rp]) \in Nat
    BY TargetAssumption
  <2>2. a.n \in 1 .. Len(Writes[rp])
    BY <1>1, <2>1
  <2> QED BY <1>3, <2>2
<1>5. base + f = a.n
  <2>0. f \in 1 .. l
    OBVIOUS
  <2>1. ~(base + f < a.n)
    BY <1>2
  <2>2. a.n - base \in 1 .. l /\ base + (a.n - base) = a.n
    BY <1>1, <2>0, <2>1
  <2>3. ~Complete(W[a.n - base])
    BY <1>1, <1>2, <2>2
  <2>4. f <= a.n - base
    BY <2>2, <2>3
  <2>5. a.n \in Int /\ f \in Int /\ base \in Int
    BY <1>1, <2>0
  <2> QED BY <2>1, <2>4, <2>5, Squeeze, Zenon
<1>6. s = IF a.beat = t THEN [n |-> a.n + 1, beat |-> 1] ELSE [n |-> a.n, beat |-> a.beat + 1]
  BY DEF Succ
<1>f. f \in 1 .. l /\ Len(V) = l
  OBVIOUS
<1>v. /\ \A i \in 1 .. l : i # f => V[i] = W[i]
      /\ V[f].req = W[f].req
      /\ V[f].write_beats = Append(W[f].write_beats, [n |-> a.n, beat |-> a.beat])
  OBVIOUS
<1> HIDE DEF l, t, s
<1>7. Got(rp, s, a.n) = a.beat
  <2>1. CASE a.beat = t
    <3>1. s.n = a.n + 1 /\ a.n < a.n + 1
      BY <1>1, <1>6, <2>1
    <3> QED BY <2>1, <3>1 DEF Got, t
  <2>2. CASE a.beat # t
    <3>a. ~(a.n < a.n) /\ (a.beat + 1) - 1 = a.beat
      BY <1>1
    <3>b. s.n = a.n /\ s.beat = a.beat + 1
      BY <1>6, <2>2
    <3>1. s.n = a.n /\ s.beat = a.beat + 1 /\ ~(a.n < a.n) /\ (a.beat + 1) - 1 = a.beat
      BY <3>a, <3>b
    <3> QED BY <3>1 DEF Got
  <2> QED BY <2>1, <2>2
<1>8. ASSUME NEW n \in Nat, n # a.n PROVE Got(rp, s, n) = Got(rp, a, n)
  <2>1. CASE a.beat = t
    <3>1. s.n = a.n + 1 /\ s.beat = 1
      BY <1>6, <2>1
    <3>a. a.n \in Int /\ n \in Int
      BY <1>1
    <3>2. (n < a.n + 1 <=> n < a.n) /\ 1 - 1 = 0
      BY <1>8, <3>a
    <3>3. Got(rp, s, n) = IF n < a.n THEN Writes[rp][n].beats ELSE 0
      BY <3>1, <3>2 DEF Got
    <3>4. Got(rp, a, n) = IF n < a.n THEN Writes[rp][n].beats ELSE 0
      BY <1>8 DEF Got
    <3> QED BY <3>3, <3>4
  <2>2. CASE a.beat # t
    <3>1. s.n = a.n
      BY <1>6, <2>2
    <3> QED BY <1>8, <3>1 DEF Got
  <2> QED BY <2>1, <2>2
<1>9. ASSUME NEW i \in 1 .. l
      PROVE  V[i].req.n = base + i /\ V[i].write_beats = Own(base + i, Got(rp, s, base + i))
  <2>0. base + i \in Nat
    BY <1>1
  <2>1. CASE i = f
    <3>1. W[f].req.n = a.n /\ W[f].write_beats = Own(a.n, Got(rp, a, a.n))
      BY <1>1, <1>5, <1>f
    <3>2. Got(rp, a, a.n) = a.beat - 1 /\ a.beat - 1 \in Nat /\ (a.beat - 1) + 1 = a.beat
      <4>1. ~(a.n < a.n) /\ a.beat - 1 \in Nat /\ (a.beat - 1) + 1 = a.beat
        BY <1>1
      <4> QED BY <4>1 DEF Got
    <3> DEFINE k == a.beat - 1
    <3>3. k \in Nat /\ k + 1 = a.beat /\ a.n \in Nat
      BY <1>1, <3>2
    <3> HIDE DEF k
    <3>4. Append(Own(a.n, k), [n |-> a.n, beat |-> k + 1]) = Own(a.n, k + 1)
      BY <3>3, OwnFacts
    <3>5. V[f].write_beats = Own(a.n, a.beat)
      BY <1>v, <3>1, <3>2, <3>3, <3>4 DEF k
    <3>6. V[f].req.n = a.n
      BY <1>v, <3>1
    <3> QED BY <1>5, <1>7, <2>1, <3>5, <3>6
  <2>2. CASE i # f
    <3>1. base + i # a.n
      BY <1>1, <1>5, <1>f, <2>2
    <3>2. Got(rp, s, base + i) = Got(rp, a, base + i)
      BY <1>8, <2>0, <3>1
    <3> QED BY <1>1, <1>v, <2>2, <3>2
  <2> QED BY <2>1, <2>2
<1>10. a.n <= base + l
  BY <1>1, <1>5, <1>f
<1>11. /\ base + 1 <= s.n /\ s.n <= (base + l) + 1
       /\ s.n = (base + l) + 1 => s.beat = 1
       /\ s.n <= Len(Writes[rp]) => s.beat <= Writes[rp][s.n].beats
  <2>1. CASE a.beat = t
    <3>1. s.n = a.n + 1 /\ s.beat = 1
      BY <1>6, <2>1
    <3>2. s.n <= Len(Writes[rp]) => s.n \in 1 .. Len(Writes[rp])
      <4>1. Len(Writes[rp]) \in Nat
        BY TargetAssumption
      <4> QED BY <1>1, <3>1, <4>1
    <3>3. s.n <= Len(Writes[rp]) => s.beat <= Writes[rp][s.n].beats
      <4> SUFFICES ASSUME s.n <= Len(Writes[rp]) PROVE s.beat <= Writes[rp][s.n].beats
        OBVIOUS
      <4>1. Writes[rp][s.n].beats \in Nat \ {0}
        BY <1>3, <3>2
      <4> QED BY <3>1, <4>1
    <3> QED BY <1>1, <1>10, <3>1, <3>3
  <2>2. CASE a.beat # t
    <3>1. s.n = a.n /\ s.beat = a.beat + 1
      BY <1>6, <2>2
    <3>a. a.beat + 1 <= t
      BY <1>1, <1>4, <2>2
    <3>b. t = Writes[rp][s.n].beats
      BY <3>1 DEF t
    <3>2. s.beat <= Writes[rp][s.n].beats
      BY <3>1, <3>a, <3>b
    <3>3. s.n # (base + l) + 1 /\ s.n <= (base + l) + 1
      BY <1>1, <1>10, <3>1
    <3> QED BY <1>1, <3>1, <3>2, <3>3
  <2> QED BY <2>1, <2>2
<1>12. Filled(rp, base, s, V)
  BY <1>f, <1>9, <1>11 DEF Filled
<1> QED BY <1>12 DEF s

\* The beat after a beat of a plane.
LEMMA SuccType ==
  ASSUME NEW rp \in Planes, NEW a \in Cursor
  PROVE  Succ(rp, a) \in Cursor
BY DEF Cursor, Succ

\* A message is added to the cursor of a plane, or passes it by.
LEMMA DataPut ==
  ASSUME NEW rp \in Planes, NEW L \in Seq(KnownMessage), NEW m \in KnownMessage,
         NEW a, NEW c \in Cursor, Leads(L, DataSteps(rp), a, c)
  PROVE  /\ ~(m.kind = "WDATA" /\ m.rp = rp) => Leads(Append(L, m), DataSteps(rp), a, c)
         /\ (/\ m.kind = "WDATA" /\ m.rp = rp /\ m.n = c.n /\ m.beat = c.beat
             /\ c.n <= Len(Writes[rp])) => Leads(Append(L, m), DataSteps(rp), a, Succ(rp, c))
<1>1. ~(m.kind = "WDATA" /\ m.rp = rp) => <<c, m, c>> \in DataSteps(rp)
  BY DEF DataSteps
<1>2. (/\ m.kind = "WDATA" /\ m.rp = rp /\ m.n = c.n /\ m.beat = c.beat
       /\ c.n <= Len(Writes[rp])) => <<c, m, Succ(rp, c)>> \in DataSteps(rp)
  BY SuccType DEF DataSteps
<1> QED BY <1>1, <1>2, LeadsAppend

\* The first message of the link moves the cursor of its plane only.
LEMMA DataTake ==
  ASSUME NEW rp \in Planes, NEW L \in Seq(KnownMessage), L # <<>>,
         NEW a, NEW c, Leads(L, DataSteps(rp), a, c)
  PROVE  /\ ~(Head(L).kind = "WDATA" /\ Head(L).rp = rp) => Leads(Tail(L), DataSteps(rp), a, c)
         /\ Head(L).kind = "WDATA" /\ Head(L).rp = rp =>
              /\ Head(L).n = a.n /\ Head(L).beat = a.beat /\ a.n <= Len(Writes[rp])
              /\ Leads(Tail(L), DataSteps(rp), Succ(rp, a), c)
<1>1. PICK d : <<a, Head(L), d>> \in DataSteps(rp) /\ Leads(Tail(L), DataSteps(rp), d, c)
  BY LeadsTail
<1> DEFINE m == Head(L)
<1>2. /\ ~(m.kind = "WDATA" /\ m.rp = rp) => d = a
      /\ m.kind = "WDATA" /\ m.rp = rp =>
           m.n = a.n /\ m.beat = a.beat /\ a.n <= Len(Writes[rp]) /\ d = Succ(rp, a)
  BY <1>1 DEF DataSteps
<1> HIDE DEF m
<1> QED BY <1>1, <1>2 DEF m

\* A write request put on the link is the next of its plane.
LEMMA WritePut ==
  ASSUME NEW rp \in Planes, NEW L \in Seq(KnownMessage), NEW m \in KnownMessage,
         NEW a, NEW c \in Nat, Leads(L, WriteSteps(rp), a, c)
  PROVE  /\ ~(m.kind = "WREQ" /\ m.rp = rp) => Leads(Append(L, m), WriteSteps(rp), a, c)
         /\ m.kind = "WREQ" /\ m.rp = rp /\ m.n = c + 1
              => Leads(Append(L, m), WriteSteps(rp), a, c + 1)
<1>1. ~(m.kind = "WREQ" /\ m.rp = rp) => <<c, m, c>> \in WriteSteps(rp)
  BY DEF WriteSteps
<1>2. m.kind = "WREQ" /\ m.rp = rp /\ m.n = c + 1 => <<c, m, c + 1>> \in WriteSteps(rp)
  BY DEF WriteSteps
<1> QED BY <1>1, <1>2, LeadsAppend

\* The first write request of a plane on the link is the next to arrive.
LEMMA WriteTake ==
  ASSUME NEW rp \in Planes, NEW L \in Seq(KnownMessage), L # <<>>,
         NEW a, NEW c, Leads(L, WriteSteps(rp), a, c)
  PROVE  /\ ~(Head(L).kind = "WREQ" /\ Head(L).rp = rp) => Leads(Tail(L), WriteSteps(rp), a, c)
         /\ Head(L).kind = "WREQ" /\ Head(L).rp = rp =>
              Head(L).n = a + 1 /\ Leads(Tail(L), WriteSteps(rp), a + 1, c)
<1>1. PICK d : <<a, Head(L), d>> \in WriteSteps(rp) /\ Leads(Tail(L), WriteSteps(rp), d, c)
  BY LeadsTail
<1> DEFINE m == Head(L)
<1>2. /\ ~(m.kind = "WREQ" /\ m.rp = rp) => d = a
      /\ m.kind = "WREQ" /\ m.rp = rp => m.n = a + 1 /\ d = a + 1
  BY <1>1 DEF WriteSteps
<1> HIDE DEF m
<1> QED BY <1>1, <1>2 DEF m

\* Every step keeps the data beats in the order of their writes.
LEMMA DataStep ==
  ASSUME TypeInv, PlaceInv, DataInv, [Next]_vars
  PROVE  DataInv'
<1> DEFINE Goal(rp) == \E base \in Nat, a \in Cursor, b \in Cursor : DataFlow(rp, base, a, b)'
<1> SUFFICES ASSUME NEW rp \in Planes PROVE Goal(rp)
  BY DEF DataInv
<1>1. PICK base \in Nat, a \in Cursor, b \in Cursor : DataFlow(rp, base, a, b)
  BY DEF DataInv
<1> DEFINE W == writes_[rp]
           l == Len(W)
<1>2. /\ Filled(rp, base, a, W) /\ Leads(data_[rp], DataSteps(rp), a, b)
      /\ Leads(link_rx, DataSteps(rp), b, w_next[rp])
      /\ Leads(link_rx, WriteSteps(rp), base + l, sent["WREQ"][rp])
  BY <1>1 DEF DataFlow
<1>3. /\ link_rx \in Seq(KnownMessage) /\ w_next \in [Planes -> Cursor] /\ w_next[rp] \in Cursor
      /\ sent \in [{"RREQ", "WREQ"} -> [Planes -> Nat]] /\ sent["WREQ"][rp] \in Nat
      /\ writes_ \in [Planes -> Seq(Job)] /\ data_ \in [Planes -> Seq(KnownMessage)]
      /\ data_[rp] \in Seq(KnownMessage)
  BY DEF TypeInv, Cursor
<1>4. W \in Seq(JobsOf(rp)) /\ l \in Nat /\ data_[rp] \in Seq(DataOf(rp))
  <2>1. W \in Seq(JobsOf(rp)) /\ data_[rp] \in Seq(DataOf(rp))
    BY DEF PlaceInv
  <2> QED BY <2>1
<1>5. CASE UNCHANGED <<writes_, data_, link_rx, w_next, sent>>
  <2>1. DataFlow(rp, base, a, b)'
    BY <1>2, <1>5 DEF DataFlow
  <2> QED BY <2>1
<1>6. CASE ReceiveRead \/ ReceiveWrite \/ ReceiveData
  <2> DEFINE m == Incoming
  <2>1. link_rx # <<>> /\ link_rx' = Tail(link_rx) /\ UNCHANGED <<w_next, sent>>
    BY <1>6 DEF ReceiveRead, ReceiveWrite, ReceiveData, Receive
  <2>2. m \in KnownMessage /\ m.rp \in Planes /\ m = Head(link_rx)
    <3>1. m \in KnownMessage
      BY <1>3, <2>1, HeadTail DEF Incoming
    <3> QED BY <3>1 DEF KnownMessage, Message, Incoming
  <2>3. /\ ~(m.kind = "WDATA" /\ m.rp = rp) => Leads(link_rx', DataSteps(rp), b, w_next'[rp])
        /\ m.kind = "WDATA" /\ m.rp = rp =>
              /\ m.n = b.n /\ m.beat = b.beat /\ b.n <= Len(Writes[rp])
              /\ Leads(link_rx', DataSteps(rp), Succ(rp, b), w_next'[rp])
    BY <1>2, <1>3, <2>1, <2>2, DataTake
  <2>4. /\ ~(m.kind = "WREQ" /\ m.rp = rp) => Leads(link_rx', WriteSteps(rp), base + l, sent'["WREQ"][rp])
        /\ m.kind = "WREQ" /\ m.rp = rp =>
              m.n = (base + l) + 1 /\ Leads(link_rx', WriteSteps(rp), (base + l) + 1, sent'["WREQ"][rp])
    BY <1>2, <1>3, <2>1, <2>2, WriteTake
  <2>5. CASE ReceiveRead
    <3>1. m.kind = "RREQ" /\ UNCHANGED <<writes_, data_>>
      BY <2>5 DEF ReceiveRead, Receive
    <3>2. DataFlow(rp, base, a, b)'
      BY <1>2, <2>3, <2>4, <3>1 DEF DataFlow
    <3> QED BY <3>2
  <2>6. CASE ReceiveWrite
    <3> DEFINE r == RequestOf(m)
               j == [req |-> r, write_beats |-> <<>>]
    <3>1. m.kind = "WREQ" /\ writes_' = [writes_ EXCEPT ![m.rp] = Append(@, j)] /\ UNCHANGED data_
      BY <2>6 DEF ReceiveWrite, Receive
    <3>2. r \in Known /\ r.write /\ r.rp = m.rp /\ r.n = m.n
      BY <2>2, <3>1 DEF KnownMessage, RequestOf
    <3>3. j \in JobsOf(m.rp) /\ j.req.n = m.n /\ j.write_beats = <<>>
      BY <3>2 DEF Job, JobsOf
    <3> HIDE DEF j, m
    <3>4. CASE m.rp = rp
      <4>1. writes_'[rp] = Append(W, j)
        BY <1>3, <3>1, <3>4
      <4>2. j \in JobsOf(rp) /\ j.req.n = (base + l) + 1
        BY <2>4, <3>1, <3>3, <3>4
      <4>3. Filled(rp, base, a, Append(W, j))
        BY <1>2, <1>4, <3>3, <4>2, FilledPut
      <4>4. base + Len(writes_'[rp]) = (base + l) + 1
        <5>1. Len(Append(W, j)) = l + 1
          BY <1>4, <4>2, Appended
        <5> QED BY <1>4, <4>1, <5>1
      <4>5. DataFlow(rp, base, a, b)'
        BY <1>2, <2>3, <2>4, <3>1, <3>4, <4>1, <4>3, <4>4 DEF DataFlow
      <4> QED BY <4>5
    <3>5. CASE m.rp # rp
      <4>1. writes_'[rp] = W
        BY <1>3, <3>1, <3>5
      <4>2. DataFlow(rp, base, a, b)'
        BY <1>2, <2>3, <2>4, <3>1, <3>5, <4>1 DEF DataFlow
      <4> QED BY <4>2
    <3> QED BY <3>4, <3>5
  <2>7. CASE ReceiveData
    <3>1. m.kind = "WDATA" /\ data_' = [data_ EXCEPT ![m.rp] = Append(@, m)] /\ UNCHANGED writes_
      BY <2>7 DEF ReceiveData, Receive
    <3> HIDE DEF m
    <3>2. CASE m.rp = rp
      <4>1. data_'[rp] = Append(data_[rp], m)
        BY <1>3, <3>1, <3>2
      <4>2. Leads(Append(data_[rp], m), DataSteps(rp), a, Succ(rp, b))
        BY <1>2, <1>3, <2>2, <2>3, <3>1, <3>2, DataPut
      <4>3. Succ(rp, b) \in Cursor
        BY SuccType
      <4>4. DataFlow(rp, base, a, Succ(rp, b))'
        BY <1>2, <2>3, <2>4, <3>1, <3>2, <4>1, <4>2 DEF DataFlow
      <4> QED BY <4>3, <4>4
    <3>3. CASE m.rp # rp
      <4>1. data_'[rp] = data_[rp]
        BY <1>3, <3>1, <3>3
      <4>2. DataFlow(rp, base, a, b)'
        BY <1>2, <2>3, <2>4, <3>1, <3>3, <4>1 DEF DataFlow
      <4> QED BY <4>2
    <3> QED BY <3>2, <3>3
  <2> QED BY <1>6, <2>5, <2>6, <2>7
<1>7. CASE Assemble
  <2>1. UNCHANGED <<link_rx, w_next, sent>>
    BY <1>7 DEF Assemble
  <2>2. CASE ~Takes(rp)
    <3>1. writes_'[rp] = W /\ data_'[rp] = data_[rp]
      BY <1>7, <2>2, AssembleOthers
    <3>2. DataFlow(rp, base, a, b)'
      BY <1>2, <2>1, <3>1 DEF DataFlow
    <3> QED BY <3>2
  <2>3. CASE Takes(rp)
    <3> DEFINE f == FirstLacking(rp)
               V == writes_'[rp]
               m == Head(data_[rp])
    <3>1. data_[rp] # <<>> /\ data_'[rp] = Tail(data_[rp])
      BY <1>7, <2>3, AssembleOthers
    <3>2. m \in DataOf(rp)
      BY <1>4, <3>1, HeadTail
    <3>3. m.kind = "WDATA" /\ m.rp = rp
      BY <3>2 DEF DataOf
    <3>4. /\ m.n = a.n /\ m.beat = a.beat /\ a.n <= Len(Writes[rp])
          /\ Leads(Tail(data_[rp]), DataSteps(rp), Succ(rp, a), b)
      BY <1>2, <1>3, <3>1, <3>3, DataTake
    <3>5. Payload(m) = [n |-> a.n, beat |-> a.beat]
      BY <3>4 DEF Payload
    <3>6. /\ f \in Lacking(rp) /\ \A j \in Lacking(rp) : f <= j
          /\ f \in 1 .. Len(W) /\ Len(V) = Len(W)
          /\ V[f] = [req |-> W[f].req, write_beats |-> Append(W[f].write_beats, Payload(m))]
          /\ \A i \in (1 .. Len(W)) \ {f} : V[i] = W[i]
      BY <1>7, <2>3, AssembleFacts, Zenon
    <3>7. ~Complete(W[f]) /\ \A i \in 1 .. Len(W) : ~Complete(W[i]) => f <= i
      BY <3>6 DEF Lacking
    <3> HIDE DEF f, V, m, W
    <3>8. Filled(rp, base, Succ(rp, a), V)
      BY <1>2, <1>4, <3>4, <3>5, <3>6, <3>7, FilledBeat
    <3>9. Succ(rp, a) \in Cursor
      BY SuccType
    <3>10. DataFlow(rp, base, Succ(rp, a), b)'
      BY <1>2, <2>1, <3>1, <3>4, <3>6, <3>8 DEF DataFlow, V, W
    <3> QED BY <3>9, <3>10
  <2> QED BY <2>2, <2>3
<1>8. ASSUME NEW slot \in Slots, Submit(slot) PROVE Goal(rp)
  <2> DEFINE p == SlotPlane(slot)
  <2>1. /\ writes_' = IF IsWrite(slot) THEN [writes_ EXCEPT ![p] = Tail(@)] ELSE writes_
        /\ UNCHANGED <<data_, link_rx, w_next, sent>>
    BY <1>8 DEF Submit
  <2>2. p \in Planes /\ (IsWrite(slot) => writes_[p] # <<>> /\ Complete(Head(writes_[p])))
    BY <1>8, SubmitFacts
  <2> HIDE DEF p
  <2>3. CASE IsWrite(slot) /\ p = rp
    <3>1. writes_'[rp] = Tail(W) /\ W # <<>> /\ Complete(Head(W))
      BY <1>3, <2>1, <2>2, <2>3
    <3>2. Filled(rp, base + 1, a, Tail(W)) /\ base + Len(W) = (base + 1) + Len(Tail(W))
      BY <1>2, <1>4, <3>1, FilledTake
    <3>3. base + 1 \in Nat
      OBVIOUS
    <3>4. DataFlow(rp, base + 1, a, b)'
      BY <1>2, <2>1, <3>1, <3>2 DEF DataFlow
    <3> QED BY <3>3, <3>4
  <2>4. CASE ~(IsWrite(slot) /\ p = rp)
    <3>1. writes_'[rp] = W
      BY <1>3, <2>1, <2>2, <2>4
    <3>2. DataFlow(rp, base, a, b)'
      BY <1>2, <2>1, <3>1 DEF DataFlow
    <3> QED BY <3>2
  <2> QED BY <2>3, <2>4
<1>9. ASSUME NEW k \in {"RREQ", "WREQ"}, NEW p \in Planes, SendRequest(k, p) PROVE Goal(rp)
  <2> DEFINE m == [kind |-> k, rp |-> p, n |-> sent[k][p] + 1, beat |-> 0]
  <2>1. /\ link_rx' = Append(link_rx, m) /\ sent' = [sent EXCEPT ![k][p] = @ + 1]
        /\ UNCHANGED <<w_next, writes_, data_>>
    BY <1>9 DEF SendRequest
  <2>2. m \in KnownMessage /\ m.kind = k /\ m.rp = p /\ m.n = sent[k][p] + 1 /\ m.kind # "WDATA"
    <3>1. link_rx' \in Seq(KnownMessage)
      BY <1>9, TypeSendRequest DEF TypeInv
    <3>2. link_rx'[Len(link_rx) + 1] = m /\ Len(link_rx') = Len(link_rx) + 1 /\ Len(link_rx) \in Nat
      BY <1>3, <2>1
    <3>3. m \in KnownMessage
      <4> HIDE DEF m
      <4> QED BY <3>1, <3>2
    <3> QED BY <3>3
  <2> HIDE DEF m
  <2>3. Leads(link_rx', DataSteps(rp), b, w_next'[rp])
    BY <1>2, <1>3, <2>1, <2>2, DataPut
  <2>4. Leads(link_rx', WriteSteps(rp), base + l, sent'["WREQ"][rp])
    <3>1. CASE k = "WREQ" /\ p = rp
      <4>1. sent'["WREQ"][rp] = sent["WREQ"][rp] + 1
        BY <1>3, <2>1, <3>1
      <4> QED BY <1>2, <1>3, <2>1, <2>2, <3>1, <4>1, WritePut
    <3>2. CASE ~(k = "WREQ" /\ p = rp)
      <4>1. sent'["WREQ"][rp] = sent["WREQ"][rp]
        BY <1>3, <2>1, <3>2
      <4> QED BY <1>2, <1>3, <2>1, <2>2, <3>2, <4>1, WritePut
    <3> QED BY <3>1, <3>2
  <2>5. DataFlow(rp, base, a, b)'
    BY <1>2, <2>1, <2>3, <2>4 DEF DataFlow
  <2> QED BY <2>5
<1>10. ASSUME NEW p \in Planes, SendData(p) PROVE Goal(rp)
  <2> DEFINE c == w_next[p]
             m == [kind |-> "WDATA", rp |-> p, n |-> c.n, beat |-> c.beat]
  <2>1. /\ link_rx' = Append(link_rx, m) /\ UNCHANGED <<sent, writes_, data_>>
        /\ c.n <= Len(Writes[p])
    BY <1>10 DEF SendData
  <2>2. w_next' = [w_next EXCEPT ![p] = Succ(p, c)]
    BY <1>10, TypeSendData
  <2>3. m \in KnownMessage /\ m.kind = "WDATA" /\ m.rp = p /\ m.n = c.n /\ m.beat = c.beat
    <3>1. c \in Cursor
      BY <1>3
    <3> QED BY <3>1 DEF KnownMessage, Message, ReqKinds, Cursor
  <2> HIDE DEF m
  <2>4. Leads(link_rx', WriteSteps(rp), base + l, sent'["WREQ"][rp])
    BY <1>2, <1>3, <2>1, <2>3, WritePut
  <2>5. Leads(link_rx', DataSteps(rp), b, w_next'[rp])
    <3>1. CASE p = rp
      <4>1. w_next'[rp] = Succ(rp, w_next[rp])
        BY <1>3, <2>2, <3>1
      <4> QED BY <1>2, <1>3, <2>1, <2>3, <3>1, <4>1, DataPut
    <3>2. CASE p # rp
      <4>1. w_next'[rp] = w_next[rp]
        BY <1>3, <2>2, <3>2
      <4> QED BY <1>2, <1>3, <2>1, <2>3, <3>2, <4>1, DataPut
    <3> QED BY <3>1, <3>2
  <2>6. DataFlow(rp, base, a, b)'
    BY <1>2, <2>1, <2>4, <2>5 DEF DataFlow
  <2> QED BY <2>6
<1>11. CASE Collect \/ ResumeSpill \/ NewFlit
  BY <1>5, <1>11 DEF Collect, ResumeSpill, NewFlit
<1>12. CASE CollectNothing \/ ReceiveDone \/ SubmitNothing \/ TransmitStalled \/ SendNothing \/ UNCHANGED vars
  BY <1>5, <1>12 DEF vars, others, Pass, ReceiveDone, CollectNothing, SubmitNothing, TransmitStalled, SendNothing
<1>13. ASSUME NEW w \in BOOLEAN, NEW p \in Planes, PackReply(w, p) PROVE Goal(rp)
  BY <1>5, <1>13 DEF PackReply
<1>14. CASE (\E p \in Planes : SendWithCredit(p)) \/ SendWithoutCredit
  BY <1>5, <1>14 DEF SendWithCredit, SendWithoutCredit, SendFlit
<1>15. CASE BridgeReceive \/ \E k \in RspKinds, p \in Planes : AddTxCredit(k, p)
  BY <1>5, <1>15 DEF BridgeReceive, AddTxCredit
<1>16. CASE \E i \in 1 .. MemDepth : MemComplete(i)
  BY <1>5, <1>16 DEF MemComplete
<1> HIDE DEF Goal
<1> QED BY <1>6, <1>7, <1>8, <1>9, <1>10, <1>11, <1>12, <1>13, <1>14, <1>15, <1>16
        DEF Next, Thread, Surroundings, RspKinds

\* No write has begun after construction.
LEMMA InitData == Init => DataInv
<1> SUFFICES ASSUME Init, NEW rp \in Planes
             PROVE  \E base \in Nat, a \in Cursor, b \in Cursor : DataFlow(rp, base, a, b)
  BY DEF DataInv
<1> DEFINE a == [n |-> 1, beat |-> 1]
<1>1. a \in Cursor /\ a.n = 1 /\ a.beat = 1
  BY DEF Cursor
<1>2. writes_[rp] = <<>> /\ data_[rp] = <<>> /\ link_rx = <<>> /\ w_next[rp] = a /\ sent["WREQ"][rp] = 0
  BY DEF Init
<1> HIDE DEF a
<1>3. Filled(rp, 0, a, <<>>)
  <2>1. Writes[rp] \in Seq(AskedFor)
    BY TargetAssumption
  <2>2. 1 <= Len(Writes[rp]) => Writes[rp][1].beats \in Nat \ {0}
    <3> SUFFICES ASSUME 1 <= Len(Writes[rp]) PROVE Writes[rp][1].beats \in Nat \ {0}
      OBVIOUS
    <3>1. Writes[rp][1] \in AskedFor
      BY <2>1
    <3> QED BY <3>1 DEF AskedFor
  <2>3. a.n <= Len(Writes[rp]) => a.beat <= Writes[rp][a.n].beats
    BY <1>1, <2>2
  <2>4. Len(<<>>) = 0 /\ 0 + 1 <= a.n /\ a.n <= (0 + 0) + 1 /\ \A i \in 1 .. 0 : FALSE
    BY <1>1
  <2> QED BY <1>1, <2>3, <2>4 DEF Filled
<1>4. 0 + Len(writes_[rp]) = 0
  BY <1>2
<1>5. DataFlow(rp, 0, a, a)
  BY <1>2, <1>3, <1>4, LeadsEmpty DEF DataFlow
<1> QED BY <1>1, <1>5

\* The requests in the memory have all their data.
Whole == {j \in Job : j.req.write => j.write_beats = Own(j.req.n, Beats(j.req))}

MemInv == mem_req \in Seq(Whole)

\* A write is submitted to the memory only with all of its own data.
LEMMA MemStep ==
  ASSUME TypeInv, PlaceInv, DataInv, MemInv, [Next]_vars
  PROVE  MemInv'
<1>0. mem_req \in Seq(Whole)
  BY DEF MemInv
<1>1. CASE UNCHANGED mem_req
  BY <1>1 DEF MemInv
<1>2. ASSUME NEW slot \in Slots, Submit(slot) PROVE MemInv'
  <2> DEFINE rp == SlotPlane(slot)
             w == IsWrite(slot)
             W == writes_[rp]
             req == IF w THEN Head(W).req ELSE Head(reads_[rp])
             beats == IF w THEN Head(W).write_beats ELSE <<>>
             job == [req |-> req, write_beats |-> beats]
  <2>1. mem_req' = Append(mem_req, job)
    BY <1>2 DEF Submit
  <2>2. /\ rp \in Planes /\ (w => W # <<>> /\ Head(W) \in Job /\ Complete(Head(W)))
        /\ (~w => reads_[rp] # <<>> /\ Head(reads_[rp]) \in Known)
    BY <1>2, SubmitFacts
  <2>3. W \in Seq(JobsOf(rp)) /\ reads_[rp] \in Seq(ReadsOf(rp))
    BY <2>2 DEF PlaceInv
  <2> HIDE DEF rp, w, W
  <2>4. job \in Whole
    <3>1. CASE w
      <4>1. PICK base \in Nat, a \in Cursor, b \in Cursor : DataFlow(rp, base, a, b)
        BY <2>2 DEF DataInv
      <4>2. Filled(rp, base, a, W)
        BY <4>1 DEF DataFlow, W
      <4>3. Head(W).write_beats = Own(Head(W).req.n, Beats(Head(W).req))
        BY <2>2, <2>3, <3>1, <4>2, FilledTake
      <4>4. Head(W).req \in Known /\ Head(W).write_beats \in Seq(Beat)
        BY <2>2, <3>1 DEF Job
      <4> QED BY <3>1, <4>3, <4>4 DEF Whole, Job
    <3>2. CASE ~w
      <4>1. Head(reads_[rp]) \in ReadsOf(rp)
        BY <2>2, <2>3, <3>2, HeadTail
      <4> QED BY <3>2, <4>1 DEF Whole, Job, ReadsOf
    <3> QED BY <3>1, <3>2
  <2> HIDE DEF job
  <2> QED BY <1>0, <2>1, <2>4, Appended DEF MemInv
<1>3. ASSUME NEW i \in 1 .. MemDepth, MemComplete(i) PROVE MemInv'
  <2>1. i \in 1 .. Len(mem_req) /\ mem_req' = RemoveAt(mem_req, i)
    BY <1>0, <1>3 DEF MemComplete
  <2> QED BY <1>0, <2>1, RemoveAtFacts DEF MemInv
<1>4. CASE ReceiveRead \/ ReceiveWrite \/ ReceiveData
  BY <1>1, <1>4 DEF ReceiveRead, ReceiveWrite, ReceiveData, Receive
<1>5. CASE Collect \/ Assemble \/ ResumeSpill \/ NewFlit
  BY <1>1, <1>5 DEF Collect, Assemble, ResumeSpill, NewFlit
<1>6. CASE CollectNothing \/ ReceiveDone \/ SubmitNothing \/ TransmitStalled \/ SendNothing \/ UNCHANGED vars
  BY <1>1, <1>6 DEF vars, others, Pass, ReceiveDone, CollectNothing, SubmitNothing, TransmitStalled, SendNothing
<1>7. ASSUME NEW w \in BOOLEAN, NEW rp \in Planes, PackReply(w, rp) PROVE MemInv'
  BY <1>1, <1>7 DEF PackReply
<1>8. CASE (\E rp \in Planes : SendWithCredit(rp)) \/ SendWithoutCredit
  BY <1>1, <1>8 DEF SendWithCredit, SendWithoutCredit, SendFlit
<1>9. CASE \E rp \in Planes : (\E k \in {"RREQ", "WREQ"} : SendRequest(k, rp)) \/ SendData(rp)
  BY <1>1, <1>9 DEF SendRequest, SendData
<1>10. CASE BridgeReceive \/ \E k \in RspKinds, rp \in Planes : AddTxCredit(k, rp)
  BY <1>1, <1>10 DEF BridgeReceive, AddTxCredit
<1> HIDE DEF MemInv
<1> QED BY <1>2, <1>3, <1>4, <1>5, <1>6, <1>7, <1>8, <1>9, <1>10
        DEF Next, Thread, Surroundings, RspKinds

-----------------------------------------------------------------------------
(* The theorems.                                                           *)

Running == stage # "fatal"

\* No step trips one of the target's fatal checks.
LEMMA RunningStep ==
  ASSUME Base, CreditInv, TicketInv, Running, [Next]_vars
  PROVE  Running'
<1>1. TypeInv /\ PlaceInv
  BY DEF Base
<1>2. CASE ReceiveRead \/ ReceiveWrite \/ ReceiveData
  BY <1>1, <1>2, ReceiveRoom DEF Running
<1>3. CASE Collect
  BY <1>1, <1>3, CollectFacts DEF Running
<1>4. CASE CollectNothing \/ ReceiveDone \/ SubmitNothing \/ TransmitStalled \/ SendNothing
  BY <1>4 DEF Running, Pass, ReceiveDone, CollectNothing, SubmitNothing, TransmitStalled, SendNothing
<1>5. CASE Assemble \/ ResumeSpill \/ NewFlit \/ UNCHANGED vars
  BY <1>5 DEF Running, Assemble, ResumeSpill, NewFlit, vars
<1>6. ASSUME NEW slot \in Slots, Submit(slot) PROVE Running'
  BY <1>6 DEF Running, Submit
<1>7. ASSUME NEW w \in BOOLEAN, NEW rp \in Planes, PackReply(w, rp) PROVE Running'
  BY <1>7 DEF Running, PackReply
<1>8. CASE (\E rp \in Planes : SendWithCredit(rp)) \/ SendWithoutCredit
  BY <1>8 DEF Running, SendWithCredit, SendWithoutCredit, SendFlit
<1>9. CASE \E rp \in Planes : (\E k \in {"RREQ", "WREQ"} : SendRequest(k, rp)) \/ SendData(rp)
  BY <1>9 DEF Running, SendRequest, SendData
<1>10. CASE BridgeReceive \/ \E k \in RspKinds, rp \in Planes : AddTxCredit(k, rp)
  BY <1>10 DEF Running, BridgeReceive, AddTxCredit
<1>11. CASE \E i \in 1 .. MemDepth : MemComplete(i)
  BY <1>11 DEF Running, MemComplete
<1> HIDE DEF Running
<1> QED BY <1>2, <1>3, <1>4, <1>5, <1>6, <1>7, <1>8, <1>9, <1>10, <1>11
        DEF Next, Thread, Surroundings, RspKinds

\* The inductive invariant.
TargetInv ==
    /\ Base /\ CreditInv /\ TicketInv /\ CountInv /\ DecodeInv /\ DataInv /\ MemInv
    /\ Running

\* The inductive invariant is preserved by every step.
LEMMA TargetInvStep ==
  ASSUME TargetInv, [Next]_vars
  PROVE  TargetInv'
<1>1. /\ Base /\ CreditInv /\ TicketInv /\ CountInv /\ DecodeInv /\ DataInv /\ MemInv
      /\ Running
  BY DEF TargetInv
<1>2. TypeInv /\ PlaceInv /\ RoomInv
  BY <1>1 DEF Base
<1>3. Base'
  BY <1>1, BaseStep
<1>4. CreditInv'
  BY <1>1, <1>2, CreditStep
<1>5. TicketInv'
  BY <1>1, <1>2, TicketStep
<1>6. CountInv'
  BY <1>1, <1>2, CountStep
<1>7. DecodeInv'
  BY <1>1, <1>2, DecodeStep
<1>8. DataInv'
  BY <1>1, <1>2, DataStep
<1>9. MemInv'
  BY <1>1, <1>2, MemStep
<1>10. Running'
  BY <1>1, RunningStep
<1> QED BY <1>3, <1>4, <1>5, <1>6, <1>7, <1>8, <1>9, <1>10 DEF TargetInv

\* The invariants of all layers hold together in every reachable state.
THEOREM TargetInvariant == SafeSpec => []TargetInv
<1>1. Init => TargetInv
  <2> SUFFICES ASSUME Init PROVE TargetInv
    OBVIOUS
  <2>1. Base
    BY InitType, InitPlace DEF Base, RoomInv, Init
  <2>2. MemInv /\ Running
    BY DEF Init, MemInv, Running
  <2> QED BY <2>1, <2>2, InitCredit, InitTicket, InitCount, InitDecode, InitData DEF TargetInv
<1> QED BY <1>1, TargetInvStep, PTL DEF SafeSpec

\* The inductive invariant contains the type invariant of the runs.
LEMMA TargetTypeOK ==
  ASSUME TargetInv
  PROVE  TypeOK
<1>1. TypeInv /\ PlaceInv /\ CountInv /\ DataInv
  BY DEF TargetInv, Base
<1>2. outstanding_ \in 0 .. MAX_OUTSTANDING
  <2>1. /\ outstanding_ \in Int /\ outstanding_ <= MAX_OUTSTANDING /\ tickets_ \in Seq(Ticket)
        /\ outstanding_ = Len(tickets_) + Cardinality(QueuedIn(replies_)) + InTail
    BY <1>1 DEF TypeInv, CountInv
  <2>2. Cardinality(QueuedIn(replies_)) \in Nat /\ InTail \in Nat /\ Len(tickets_) \in Nat
    BY <2>1, QueuedFinite DEF InTail
  <2> QED BY <2>1, <2>2, TargetAssumption
<1>3. \A rp \in Planes : \A i \in 1 .. Len(writes_[rp]) :
        writes_[rp][i].req \in Request /\ Len(writes_[rp][i].write_beats) <= Beats(writes_[rp][i].req)
  <2> TAKE rp \in Planes
  <2> DEFINE W == writes_[rp]
  <2>1. W \in Seq(JobsOf(rp))
    BY <1>1 DEF PlaceInv
  <2>2. PICK base \in Nat, a \in Cursor, b \in Cursor : DataFlow(rp, base, a, b)
    BY <1>1 DEF DataInv
  <2>3. Filled(rp, base, a, W)
    BY <2>2 DEF DataFlow
  <2> HIDE DEF W
  <2>4. ASSUME NEW i \in 1 .. Len(W)
        PROVE  /\ W[i].req \in Known
               /\ Len(W[i].write_beats) = Got(rp, a, base + i)
               /\ Got(rp, a, base + i) <= Beats(W[i].req)
    BY <2>1, <2>2, <2>3, <2>4, FilledAt
  <2>5. \A i \in 1 .. Len(W) : W[i].req \in Request /\ Len(W[i].write_beats) <= Beats(W[i].req)
    BY <2>4 DEF Known
  <2> QED BY <2>5 DEF W
<1>4. /\ reads_ \in [Planes -> Seq(Request)] /\ link_rx \in Seq(Message)
      /\ data_ \in [Planes -> Seq(Message)]
  <2>1. Known \subseteq Request /\ KnownMessage \subseteq Message
    BY DEF Known, KnownMessage
  <2>2. /\ reads_ \in [Planes -> Seq(Known)] /\ link_rx \in Seq(KnownMessage)
        /\ data_ \in [Planes -> Seq(KnownMessage)]
    BY <1>1 DEF TypeInv
  <2>3. Seq(Known) \subseteq Seq(Request) /\ Seq(KnownMessage) \subseteq Seq(Message)
    BY <2>1
  <2> QED BY <2>2, <2>3
<1>5. flit.used_granules \in 0 .. GranuleCount
  BY <1>1 DEF TypeInv, PartFlit
<1> QED BY <1>1, <1>2, <1>3, <1>4, <1>5 DEF TypeOK, TypeInv, RspKinds

\* Nothing throws, for any number of planes, sizes of tables and requests:
\* no store of the target overflows, every response of the memory finds a
\* ticket of its length, and the bridge decodes every flit.
THEOREM TargetNeverFatal == SafeSpec => []NoFatal
<1>1. TargetInv => NoFatal
  BY TargetTypeOK DEF TargetInv, NoFatal, Running, DecodeInv
<1> QED BY <1>1, TargetInvariant, PTL

\* outstanding_ is exactly the number of requests that are in the memory or
\* not completely packed, also when a last response is cut by a flit.
THEOREM TargetOutstandingExact == SafeSpec => []OutstandingExact
<1>1. TargetInv => OutstandingExact
  <2>1. QueuedReplies = QueuedIn(replies_)
    BY DEF QueuedReplies, QueuedIn, Places
  <2> QED BY <2>1 DEF TargetInv, CountInv, OutstandingExact, InTail
<1> QED BY <1>1, TargetInvariant, PTL

\* Every write reaches the memory with exactly its own beats in order,
\* wherever its data overtook its request.
THEOREM TargetWritesHaveTheirData == SafeSpec => []WritesHaveTheirData
<1>1. TargetInv => WritesHaveTheirData
  <2> SUFFICES ASSUME TargetInv, NEW i \in 1 .. Len(mem_req), mem_req[i].req.write
               PROVE  mem_req[i].write_beats = [b \in 1 .. Beats(mem_req[i].req) |->
                                                 [n |-> mem_req[i].req.n, beat |-> b]]
    BY DEF WritesHaveTheirData
  <2>1. mem_req[i] \in Whole
    BY DEF TargetInv, MemInv
  <2> QED BY <2>1 DEF Whole, Own
<1> QED BY <1>1, TargetInvariant, PTL

-----------------------------------------------------------------------------
(* Where a request waits: 1 among the replies, 2 in the memory, 3 in the   *)
(* stores of the target, 4 on the link; and its index there.               *)

InMemory == Pending(mem_rsp, mem_req)

Place == (1 .. 4) \X Nat \X Known

AmongReplies(R, i, r) == i \in 1 .. Len(R[r.write][r.rp]) /\ R[r.write][r.rp][i].req = r
AmongPending(P, i, r) == i \in 1 .. Len(P) /\ P[i] = r
AmongStored(D, W, i, r) ==
    \/ ~r.write /\ i \in 1 .. Len(D[r.rp]) /\ D[r.rp][i] = r
    \/ r.write /\ i \in 1 .. Len(W[r.rp]) /\ W[r.rp][i].req = r
OnLink(L, i, r) == i \in 1 .. Len(L) /\ L[i].kind # "WDATA" /\ RequestOf(L[i]) = r

Waiting ==
    {x \in Place :
       \/ x[1] = 1 /\ AmongReplies(replies_, x[2], x[3])
       \/ x[1] = 2 /\ AmongPending(InMemory, x[2], x[3])
       \/ x[1] = 3 /\ AmongStored(reads_, writes_, x[2], x[3])
       \/ x[1] = 4 /\ OnLink(link_rx, x[2], x[3])}

\* What it means to wait in each of the queues, before and after a step.
LEMMA WaitingAt ==
  ASSUME NEW i \in Nat, NEW r \in Known
  PROVE  /\ <<1, i, r>> \in Waiting <=> AmongReplies(replies_, i, r)
         /\ <<2, i, r>> \in Waiting <=> AmongPending(InMemory, i, r)
         /\ <<3, i, r>> \in Waiting <=> AmongStored(reads_, writes_, i, r)
         /\ <<4, i, r>> \in Waiting <=> OnLink(link_rx, i, r)
         /\ <<1, i, r>> \in Waiting' <=> AmongReplies(replies_', i, r)
         /\ <<2, i, r>> \in Waiting' <=> AmongPending(InMemory', i, r)
         /\ <<3, i, r>> \in Waiting' <=> AmongStored(reads_', writes_', i, r)
         /\ <<4, i, r>> \in Waiting' <=> OnLink(link_rx', i, r)
<1>1. 1 \in 1 .. 4 /\ 2 \in 1 .. 4 /\ 3 \in 1 .. 4 /\ 4 \in 1 .. 4
  OBVIOUS
<1>2. 1 # 2 /\ 1 # 3 /\ 1 # 4 /\ 2 # 3 /\ 2 # 4 /\ 3 # 4
  OBVIOUS
<1>3. ASSUME NEW a \in 1 .. 4
      PROVE  /\ <<a, i, r>> \in Place
             /\ <<a, i, r>>[1] = a /\ <<a, i, r>>[2] = i /\ <<a, i, r>>[3] = r
  BY DEF Place
<1>4. <<1, i, r>> \in Waiting <=> AmongReplies(replies_, i, r)
  BY <1>1, <1>2, <1>3, Zenon DEF Waiting
<1>5. <<2, i, r>> \in Waiting <=> AmongPending(InMemory, i, r)
  BY <1>1, <1>2, <1>3, Zenon DEF Waiting
<1>6. <<3, i, r>> \in Waiting <=> AmongStored(reads_, writes_, i, r)
  BY <1>1, <1>2, <1>3, Zenon DEF Waiting
<1>7. <<4, i, r>> \in Waiting <=> OnLink(link_rx, i, r)
  BY <1>1, <1>2, <1>3, Zenon DEF Waiting
<1>8. <<1, i, r>> \in Waiting' <=> AmongReplies(replies_', i, r)
  BY <1>1, <1>2, <1>3, Zenon DEF Waiting
<1>9. <<2, i, r>> \in Waiting' <=> AmongPending(InMemory', i, r)
  BY <1>1, <1>2, <1>3, Zenon DEF Waiting
<1>10. <<3, i, r>> \in Waiting' <=> AmongStored(reads_', writes_', i, r)
  BY <1>1, <1>2, <1>3, Zenon DEF Waiting
<1>11. <<4, i, r>> \in Waiting' <=> OnLink(link_rx', i, r)
  BY <1>1, <1>2, <1>3, Zenon DEF Waiting
<1> QED BY <1>4, <1>5, <1>6, <1>7, <1>8, <1>9, <1>10, <1>11

SamePlane(r, s) == r.write = s.write /\ r.rp = s.rp

\* r is not s, and if the two share an id it is the earlier one.
Earlier(r, s) == SamePlane(r, s) => r.n # s.n /\ (Id(r) = Id(s) => r.n < s.n)

InOrder(W) ==
    \A a, b \in 1 .. 4, i, j \in Nat, r, s \in Known :
      <<a, i, r>> \in W /\ <<b, j, s>> \in W /\ (a < b \/ (a = b /\ i < j)) => Earlier(r, s)

\* The requests that wait somewhere.
Requests(W) == {r \in Known : \E a \in 1 .. 4, i \in Nat : <<a, i, r>> \in W}

\* By how much a queue moves up that loses its head: the memory and the link
\* have one queue for all, the stores and the replies one for each plane.
Shift(r, req, all) == IF all \/ SamePlane(r, req) THEN 1 ELSE 0

\* req goes from the head of queue c + 1 to the end of queue c.
Handed(W, V, c, req, n, all) ==
    /\ <<c + 1, 1, req>> \in W
    /\ \A i \in Nat, r \in Known : <<c, i, r>> \in W /\ SamePlane(r, req) => i <= n
    /\ \A r \in Known : <<c + 1, 1, r>> \in W /\ (all \/ SamePlane(r, req)) => r = req
    /\ \A i \in Nat, r \in Known : <<c + 1, i, r>> \in W => i >= 1
    /\ \A i \in Nat, r \in Known :
         /\ <<c, i, r>> \in V <=> <<c, i, r>> \in W \/ (r = req /\ i = n + 1)
         /\ <<c + 1, i, r>> \in V <=> i >= 1 /\ <<c + 1, i + Shift(r, req, all), r>> \in W
         /\ \A a \in (1 .. 4) \ {c, c + 1} : <<a, i, r>> \in V <=> <<a, i, r>> \in W

\* Queue c loses its head.
Left(W, V, c, req, all) ==
    \A i \in Nat, r \in Known :
      /\ <<c, i, r>> \in W => i >= 1
      /\ <<c, i, r>> \in V <=> i >= 1 /\ <<c, i + Shift(r, req, all), r>> \in W
      /\ \A a \in (1 .. 4) \ {c} : <<a, i, r>> \in V <=> <<a, i, r>> \in W

\* A request goes from the head of one queue to the end of the queue before it.
LEMMA HandOver ==
  ASSUME NEW W, NEW V, NEW c \in 1 .. 3, NEW req \in Known, NEW n \in Nat, NEW all \in BOOLEAN,
         InOrder(W), Handed(W, V, c, req, n, all)
  PROVE  InOrder(V) /\ Requests(V) = Requests(W)
<1>h. /\ <<c + 1, 1, req>> \in W
      /\ \A i \in Nat, r \in Known : <<c, i, r>> \in W /\ SamePlane(r, req) => i <= n
      /\ \A a \in 1 .. 4, i \in Nat, r \in Known : <<a, i, r>> \in V =>
           /\ a # c /\ a # c + 1 => <<a, i, r>> \in W
           /\ a = c => <<c, i, r>> \in W \/ (r = req /\ i = n + 1)
           /\ a = c + 1 => i >= 1 /\ <<c + 1, i + Shift(r, req, all), r>> \in W
  BY DEF Handed
<1>i. InOrder(V)
  <2> USE <1>h
  <2> SUFFICES ASSUME NEW a \in 1 .. 4, NEW b \in 1 .. 4, NEW i \in Nat, NEW j \in Nat,
                      NEW r \in Known, NEW s \in Known,
                      <<a, i, r>> \in V, <<b, j, s>> \in V, a < b \/ (a = b /\ i < j),
                      SamePlane(r, s)
               PROVE  Earlier(r, s)
    BY DEF InOrder, Earlier
  <2> DEFINE k == IF a = c + 1 THEN i + Shift(r, req, all) ELSE i
             l == IF b = c + 1 THEN j + Shift(s, req, all) ELSE j
  <2>1. Shift(r, req, all) \in 0 .. 1 /\ Shift(s, req, all) = Shift(r, req, all)
    BY DEF Shift, SamePlane
  <2>2. k \in Nat /\ l \in Nat /\ (a = b => (i < j <=> k < l))
    BY <2>1
  <2>3. CASE <<a, k, r>> \in W /\ <<b, l, s>> \in W
    BY <2>2, <2>3 DEF InOrder
  <2>4. CASE ~(<<a, k, r>> \in W)
    <3>1. a = c /\ r = req /\ i = n + 1
      BY <2>4
    <3>2. b # c
      <4> SUFFICES ASSUME b = c PROVE FALSE
        OBVIOUS
      <4>1. i < j
        BY <3>1
      <4>2. <<c, j, s>> \in W \/ (s = req /\ j = n + 1)
        OBVIOUS
      <4>3. <<c, j, s>> \in W => j <= n
        BY <3>1 DEF SamePlane
      <4> QED BY <3>1, <4>1, <4>2, <4>3
    <3>3. <<b, l, s>> \in W /\ b > c
      BY <3>1, <3>2
    <3>4. b = c + 1 => l > 1
      <4>1. Shift(s, req, all) = 1
        BY <3>1, <2>1 DEF Shift, SamePlane
      <4>2. b = c + 1 => j >= 1
        OBVIOUS
      <4>3. b = c + 1 => l = j + 1
        BY <4>1
      <4> QED BY <4>2, <4>3
    <3>5. c + 1 < b \/ (c + 1 = b /\ 1 < l)
      BY <3>3, <3>4
    <3>6. c + 1 \in 1 .. 4 /\ 1 \in Nat
      OBVIOUS
    <3> HIDE DEF k, l
    <3> QED BY <2>2, <3>1, <3>3, <3>5, <3>6 DEF InOrder
  <2>5. CASE <<a, k, r>> \in W /\ ~(<<b, l, s>> \in W)
    <3>1. b = c /\ s = req /\ j = n + 1
      BY <2>5
    <3>2. a < c + 1
      BY <3>1
    <3>3. c + 1 \in 1 .. 4 /\ 1 \in Nat
      OBVIOUS
    <3> HIDE DEF k, l
    <3> QED BY <2>2, <2>5, <3>1, <3>2, <3>3 DEF InOrder
  <2> QED BY <2>3, <2>4, <2>5
<1>j. Requests(V) = Requests(W)
  <2>1. ASSUME NEW r \in Requests(V) PROVE r \in Requests(W)
    <3>1. PICK a \in 1 .. 4, i \in Nat : r \in Known /\ <<a, i, r>> \in V
      BY DEF Requests
    <3>2. c + 1 \in 1 .. 4 /\ 1 \in Nat /\ i + Shift(r, req, all) \in Nat
      BY DEF Shift
    <3>3. \/ <<a, i, r>> \in W \/ <<c + 1, 1, r>> \in W \/ <<c + 1, i + Shift(r, req, all), r>> \in W
      BY <1>h, <3>1
    <3> QED BY <3>1, <3>2, <3>3 DEF Requests
  <2>2. ASSUME NEW r \in Requests(W) PROVE r \in Requests(V)
    <3>1. PICK a \in 1 .. 4, i \in Nat : r \in Known /\ <<a, i, r>> \in W
      BY DEF Requests
    <3>2. CASE a # c + 1
      <4>1. <<a, i, r>> \in V
        BY <3>1, <3>2 DEF Handed
      <4> QED BY <3>1, <4>1 DEF Requests
    <3>3. CASE a = c + 1
      <4>1. i >= 1 /\ <<c + 1, i, r>> \in W
        BY <3>1, <3>3 DEF Handed
      <4>2. CASE Shift(r, req, all) = 0
        <5>1. i + 0 = i
          OBVIOUS
        <5>2. <<c + 1, i, r>> \in V
          BY <3>1, <4>1, <4>2, <5>1 DEF Handed
        <5> QED BY <3>1, <3>3, <5>2 DEF Requests
      <4>3. CASE Shift(r, req, all) # 0 /\ i > 1
        <5>1. Shift(r, req, all) = 1 /\ i - 1 \in Nat /\ (i - 1) + 1 = i /\ i - 1 >= 1
          BY <4>3 DEF Shift
        <5>2. <<c + 1, i - 1, r>> \in V
          BY <3>1, <4>1, <5>1 DEF Handed
        <5> QED BY <3>1, <3>3, <5>1, <5>2 DEF Requests
      <4>4. CASE Shift(r, req, all) # 0 /\ i = 1
        <5>1. r = req
          BY <3>1, <4>1, <4>4 DEF Handed, Shift
        <5>2. n + 1 \in Nat /\ c \in 1 .. 4
          OBVIOUS
        <5>3. <<c, n + 1, req>> \in V
          BY <5>2, Zenon DEF Handed
        <5> QED BY <5>1, <5>2, <5>3 DEF Requests
      <4> QED BY <4>1, <4>2, <4>3, <4>4
    <3> QED BY <3>2, <3>3
  <2> QED BY <2>1, <2>2
<1> QED BY <1>i, <1>j

\* The requests that wait in V are those of W but for the heads of queue c.
Dropped(W, V, c, req, all) ==
    Requests(V) = {r \in Requests(W) : ~(<<c, 1, r>> \in W /\ (all \/ SamePlane(r, req)))}

\* A queue loses its head.
LEMMA MovedUp ==
  ASSUME NEW W, NEW V, NEW c \in 1 .. 4, NEW req \in Known, NEW all \in BOOLEAN,
         InOrder(W), Left(W, V, c, req, all)
  PROVE  InOrder(V) /\ Dropped(W, V, c, req, all)
<1>h. \A a \in 1 .. 4, i \in Nat, r \in Known : <<a, i, r>> \in V =>
           /\ a # c => <<a, i, r>> \in W
           /\ a = c => <<c, i + Shift(r, req, all), r>> \in W
  BY DEF Left
<1>i. InOrder(V)
  <2> USE <1>h
  <2> SUFFICES ASSUME NEW a \in 1 .. 4, NEW b \in 1 .. 4, NEW i \in Nat, NEW j \in Nat,
                      NEW r \in Known, NEW s \in Known,
                      <<a, i, r>> \in V, <<b, j, s>> \in V, a < b \/ (a = b /\ i < j),
                      SamePlane(r, s)
               PROVE  Earlier(r, s)
    BY DEF InOrder, Earlier
  <2> DEFINE k == IF a = c THEN i + Shift(r, req, all) ELSE i
             l == IF b = c THEN j + Shift(s, req, all) ELSE j
  <2>1. Shift(r, req, all) \in 0 .. 1 /\ Shift(s, req, all) = Shift(r, req, all)
    BY DEF Shift, SamePlane
  <2>2. k \in Nat /\ l \in Nat /\ (a = b => (i < j <=> k < l))
    BY <2>1
  <2>3. <<a, k, r>> \in W /\ <<b, l, s>> \in W
    OBVIOUS
  <2> HIDE DEF k, l
  <2> QED BY <2>2, <2>3 DEF InOrder
<1>j. ASSUME NEW r \in Requests(V)
      PROVE  r \in Requests(W) /\ ~(<<c, 1, r>> \in W /\ (all \/ SamePlane(r, req)))
  <2>1. PICK a \in 1 .. 4, i \in Nat : r \in Known /\ <<a, i, r>> \in V
    BY DEF Requests
  <2> DEFINE k == IF a = c THEN i + Shift(r, req, all) ELSE i
  <2>s. Shift(r, req, all) \in {0, 1} /\ (all \/ SamePlane(r, req) => Shift(r, req, all) = 1)
    BY DEF Shift
  <2>2. k \in Nat /\ <<a, k, r>> \in W
    <3>1. CASE a = c
      BY <1>h, <2>1, <2>s, <3>1
    <3>2. CASE a # c
      BY <1>h, <2>1, <3>2
    <3> QED BY <3>1, <3>2
  <2>3. (all \/ SamePlane(r, req)) /\ a = c => k > 1
    <3>1. a = c => i >= 1
      BY <2>1 DEF Left
    <3> QED BY <2>s, <3>1
  <2> HIDE DEF k
  <2>4. ~(<<c, 1, r>> \in W /\ (all \/ SamePlane(r, req)))
    <3> SUFFICES ASSUME <<c, 1, r>> \in W, all \/ SamePlane(r, req) PROVE FALSE
      OBVIOUS
    <3>1. a < c \/ c < a \/ (a = c /\ 1 < k)
      BY <2>3
    <3>2. Earlier(r, r)
      BY <2>1, <2>2, <3>1 DEF InOrder
    <3> QED BY <3>2 DEF Earlier, SamePlane
  <2> QED BY <2>1, <2>2, <2>4 DEF Requests
<1>k. ASSUME NEW r \in Requests(W)
      PROVE  r \in Requests(V) \/ (<<c, 1, r>> \in W /\ (all \/ SamePlane(r, req)))
  <2>1. PICK a \in 1 .. 4, i \in Nat : r \in Known /\ <<a, i, r>> \in W
    BY DEF Requests
  <2>2. CASE a # c
    <3>1. <<a, i, r>> \in V
      BY <2>1, <2>2 DEF Left
    <3> QED BY <2>1, <3>1 DEF Requests
  <2>3. CASE a = c /\ Shift(r, req, all) = 0
    <3>1. i + 0 = i /\ i >= 1
      BY <2>1, <2>3 DEF Left
    <3>2. <<c, i, r>> \in V
      BY <2>1, <2>3, <3>1 DEF Left
    <3> QED BY <2>1, <3>2 DEF Requests
  <2>4. CASE a = c /\ Shift(r, req, all) # 0 /\ i # 1
    <3>1. i >= 1
      BY <2>1, <2>4 DEF Left
    <3>2. Shift(r, req, all) = 1 /\ i - 1 \in Nat /\ (i - 1) + 1 = i /\ i - 1 >= 1
      BY <2>4, <3>1 DEF Shift
    <3>3. <<c, i - 1, r>> \in V
      BY <2>1, <2>4, <3>2 DEF Left
    <3> QED BY <2>1, <3>2, <3>3 DEF Requests
  <2>5. CASE a = c /\ Shift(r, req, all) # 0 /\ i = 1
    BY <2>1, <2>5 DEF Shift
  <2> QED BY <2>2, <2>3, <2>4, <2>5
<1> QED BY <1>i, <1>j, <1>k DEF Dropped

\* A new request comes to the end of the last queue.
Joined(W, V, req, n) ==
    /\ \A a \in 1 .. 4, i \in Nat, r \in Known : <<a, i, r>> \in W /\ SamePlane(r, req) => r.n < req.n
    /\ \A i \in Nat, r \in Known : <<4, i, r>> \in W => i <= n
    /\ \A a \in 1 .. 4, i \in Nat, r \in Known :
         <<a, i, r>> \in V <=> <<a, i, r>> \in W \/ (a = 4 /\ r = req /\ i = n + 1)

\* A request that is later than all of its plane keeps the queues in order.
LEMMA MovedIn ==
  ASSUME NEW W, NEW V, NEW req \in Known, NEW n \in Nat, InOrder(W), Joined(W, V, req, n)
  PROVE  InOrder(V) /\ Requests(V) = Requests(W) \cup {req}
<1>1. InOrder(V)
  <2> SUFFICES ASSUME NEW a \in 1 .. 4, NEW b \in 1 .. 4, NEW i \in Nat, NEW j \in Nat,
                      NEW r \in Known, NEW s \in Known,
                      <<a, i, r>> \in V, <<b, j, s>> \in V, a < b \/ (a = b /\ i < j),
                      SamePlane(r, s)
               PROVE  Earlier(r, s)
    BY DEF InOrder, Earlier
  <2>1. CASE <<a, i, r>> \in W /\ <<b, j, s>> \in W
    BY <2>1 DEF InOrder
  <2>2. CASE ~(<<a, i, r>> \in W)
    <3>1. a = 4 /\ i = n + 1
      BY <2>2 DEF Joined
    <3>2. b = 4 /\ i < j
      BY <3>1
    <3>3. j <= n \/ j = n + 1
      BY <3>2 DEF Joined
    <3> QED BY <3>1, <3>2, <3>3
  <2>3. CASE <<a, i, r>> \in W /\ ~(<<b, j, s>> \in W)
    <3>1. s = req
      BY <2>3 DEF Joined
    <3>2. r.n < req.n
      BY <2>3, <3>1 DEF Joined
    <3>3. r.n \in Nat /\ req.n \in Nat
      BY KnownFacts DEF Request
    <3> QED BY <3>1, <3>2, <3>3 DEF Earlier
  <2> QED BY <2>1, <2>2, <2>3
<1>2. ASSUME NEW r \in Requests(V) PROVE r \in Requests(W) \cup {req}
  BY DEF Joined, Requests
<1>3. ASSUME NEW r \in Requests(W) PROVE r \in Requests(V)
  BY DEF Joined, Requests
<1>4. req \in Requests(V)
  <2>1. 4 \in 1 .. 4 /\ n + 1 \in Nat
    OBVIOUS
  <2>2. <<4, n + 1, req>> \in V
    BY <2>1, Zenon DEF Joined
  <2> QED BY <2>1, <2>2 DEF Requests
<1> QED BY <1>1, <1>2, <1>3, <1>4

\* The place from which the request at i comes when the one at l goes to k.
From(i, k, l) == IF i = k THEN l ELSE IF k < i /\ i <= l THEN i - 1 ELSE i

\* The memory answers the request at l before the ones from k on, none of which
\* is of its group.
Overtaken(W, V, k, l, req) ==
    /\ <<2, l, req>> \in W
    /\ \A r \in Known : <<2, l, r>> \in W => r = req
    /\ \A i \in Nat, r \in Known : <<2, i, r>> \in W /\ k <= i /\ i < l => Group(r) # Group(req)
    /\ \A i \in Nat, r \in Known :
         /\ <<2, i, r>> \in V <=> <<2, From(i, k, l), r>> \in W
         /\ \A a \in (1 .. 4) \ {2} : <<a, i, r>> \in V <=> <<a, i, r>> \in W

\* The memory keeps the order of the requests of one group.
LEMMA MovedAhead ==
  ASSUME NEW W, NEW V, NEW k \in Nat, NEW l \in Nat, k <= l, InOrder(W),
         NEW req \in Known, Overtaken(W, V, k, l, req)
  PROVE  InOrder(V) /\ Requests(V) = Requests(W)
<1>0. ASSUME NEW a \in 1 .. 4, NEW i \in Nat, NEW r \in Known
      PROVE  /\ From(i, k, l) \in Nat
             /\ <<a, i, r>> \in V <=> <<a, (IF a = 2 THEN From(i, k, l) ELSE i), r>> \in W
  <2>1. From(i, k, l) \in Nat
    BY DEF From
  <2>2. CASE a = 2
    BY <2>1, <2>2 DEF Overtaken
  <2>3. CASE a # 2
    BY <2>1, <2>3 DEF Overtaken
  <2> QED BY <2>2, <2>3
<1>1. InOrder(V)
  <2> SUFFICES ASSUME NEW a \in 1 .. 4, NEW b \in 1 .. 4, NEW i \in Nat, NEW j \in Nat,
                      NEW r \in Known, NEW s \in Known,
                      <<a, i, r>> \in V, <<b, j, s>> \in V, a < b \/ (a = b /\ i < j),
                      SamePlane(r, s)
               PROVE  Earlier(r, s)
    BY DEF InOrder, Earlier
  <2> DEFINE u == IF a = 2 THEN From(i, k, l) ELSE i
             v == IF b = 2 THEN From(j, k, l) ELSE j
  <2>1. u \in Nat /\ v \in Nat /\ <<a, u, r>> \in W /\ <<b, v, s>> \in W
    BY <1>0
  <2>2. CASE a < b \/ (a = b /\ u < v)
    <3> HIDE DEF u, v
    <3> QED BY <2>1, <2>2 DEF InOrder
  <2>3. CASE ~(a < b \/ (a = b /\ u < v))
    <3>1. a = 2 /\ b = 2 /\ i = k /\ u = l /\ k <= v /\ v < l
      BY <2>3 DEF From
    <3>2. r = req /\ Group(s) # Group(req)
      BY <2>1, <3>1 DEF Overtaken
    <3>3. Id(r) # Id(s)
      BY <3>2 DEF Group, SamePlane
    <3>4. Earlier(s, r)
      <4> HIDE DEF u, v
      <4> QED BY <2>1, <3>1 DEF InOrder
    <3> QED BY <3>3, <3>4 DEF Earlier, SamePlane
  <2> QED BY <2>2, <2>3
<1>2. ASSUME NEW r \in Requests(V) PROVE r \in Requests(W)
  <2>1. PICK a \in 1 .. 4, i \in Nat : r \in Known /\ <<a, i, r>> \in V
    BY DEF Requests
  <2> DEFINE u == IF a = 2 THEN From(i, k, l) ELSE i
  <2>2. u \in Nat /\ <<a, u, r>> \in W
    BY <1>0, <2>1
  <2> HIDE DEF u
  <2> QED BY <2>1, <2>2 DEF Requests
<1>3. ASSUME NEW r \in Requests(W) PROVE r \in Requests(V)
  <2>1. PICK a \in 1 .. 4, i \in Nat : r \in Known /\ <<a, i, r>> \in W
    BY DEF Requests
  <2> DEFINE j == IF a # 2 THEN i ELSE IF i = l THEN k ELSE IF k <= i /\ i < l THEN i + 1 ELSE i
  <2>2. j \in Nat /\ (a = 2 => From(j, k, l) = i) /\ (a # 2 => j = i)
    BY DEF From
  <2> HIDE DEF j
  <2>3. <<a, j, r>> \in V
    BY <1>0, <2>1, <2>2
  <2> QED BY <2>1, <2>2, <2>3 DEF Requests
<1> QED BY <1>1, <1>2, <1>3

\* Collecting a response moves its request from the memory to the replies.
LEMMA CollectWaits ==
  ASSUME TypeInv, PlaceInv, InOrder(Waiting), Collect
  PROVE  /\ InOrder(Waiting') /\ Requests(Waiting') = Requests(Waiting)
         /\ Head(mem_rsp) \in Known
         /\ \A w \in BOOLEAN, rp \in Planes :
              replies_'[w][rp] = IF w = Head(mem_rsp).write /\ rp = Head(mem_rsp).rp
                                   THEN Append(replies_[w][rp], [req |-> Head(mem_rsp), beat |-> 1])
                                   ELSE replies_[w][rp]
<1> DEFINE req == Head(mem_rsp)
           w0  == req.write
           p0  == req.rp
           new == [req |-> req, beat |-> 1]
           q   == replies_[w0][p0]
           n   == Len(q)
<1>1. mem_rsp \in Seq(Known) /\ mem_req \in Seq(Job) /\ replies_ \in [BOOLEAN -> [Planes -> Seq(Reply)]]
  BY DEF TypeInv
<1>2. /\ mem_rsp # <<>> /\ mem_rsp' = Tail(mem_rsp) /\ mem_req' = mem_req
      /\ replies_' = [replies_ EXCEPT ![w0][p0] = Append(@, new)]
      /\ UNCHANGED <<reads_, writes_, link_rx>>
  BY DEF Collect
<1>3. /\ req \in Known /\ InMemory \in Seq(Known) /\ InMemory # <<>> /\ Head(InMemory) = req
      /\ InMemory' = Tail(InMemory)
  BY <1>1, <1>2, HeadTail, PendingFacts, PendingCollect DEF InMemory
<1>4. w0 \in BOOLEAN /\ p0 \in Planes /\ new \in Reply
  BY <1>3 DEF Known, Request, Reply
<1>5. q \in Seq(Reply)
  BY <1>1, <1>4
<1>6. \A w \in BOOLEAN, rp \in Planes :
        replies_'[w][rp] = IF w = w0 /\ rp = p0 THEN Append(q, new) ELSE replies_[w][rp]
  BY <1>1, <1>2, <1>4
<1>7. /\ Len(Append(q, new)) = n + 1 /\ n \in Nat /\ Append(q, new)[n + 1] = new
      /\ \A i \in 1 .. n : Append(q, new)[i] = q[i]
  BY <1>4, <1>5, Appended
<1>8. /\ Len(InMemory) \in Nat \ {0} /\ InMemory[1] = req /\ Len(InMemory') = Len(InMemory) - 1
      /\ \A i \in 1 .. (Len(InMemory) - 1) : InMemory'[i] = InMemory[i + 1]
  BY <1>3, HeadTail
<1>n. new.req = req
  OBVIOUS
<1> HIDE DEF req, new, q, n
<1>9. \A i \in Nat, r \in Known : <<1, i, r>> \in Waiting' <=> <<1, i, r>> \in Waiting \/ (r = req /\ i = n + 1)
  <2> TAKE i \in Nat, r \in Known
  <2>1. r.write \in BOOLEAN /\ r.rp \in Planes
    BY DEF Known, Request
  <2>2. <<1, i, r>> \in Waiting' <=> i \in 1 .. Len(replies_'[r.write][r.rp]) /\ replies_'[r.write][r.rp][i].req = r
    BY WaitingAt DEF AmongReplies, AmongPending, AmongStored, OnLink
  <2>3. <<1, i, r>> \in Waiting <=> i \in 1 .. Len(replies_[r.write][r.rp]) /\ replies_[r.write][r.rp][i].req = r
    BY WaitingAt DEF AmongReplies, AmongPending, AmongStored, OnLink
  <2>4. CASE ~(r.write = w0 /\ r.rp = p0)
    <3>1. replies_'[r.write][r.rp] = replies_[r.write][r.rp] /\ r # req
      BY <1>6, <2>1, <2>4
    <3> QED BY <2>2, <2>3, <3>1
  <2>5. CASE r.write = w0 /\ r.rp = p0
    <3>1. replies_'[r.write][r.rp] = Append(q, new) /\ replies_[r.write][r.rp] = q
      BY <1>6, <2>1, <2>5 DEF q
    <3>2. i \in 1 .. (n + 1) <=> i \in 1 .. n \/ i = n + 1
      BY <1>7
    <3>3. ~(n + 1 \in 1 .. n)
      BY <1>7
    <3> QED BY <1>7, <1>n, <2>2, <2>3, <3>1, <3>2, <3>3 DEF n
  <2> QED BY <2>4, <2>5
<1>10. \A i \in Nat, r \in Known : <<2, i, r>> \in Waiting <=> i \in 1 .. Len(InMemory) /\ InMemory[i] = r
  BY WaitingAt DEF AmongReplies, AmongPending, AmongStored, OnLink
<1>11. \A i \in Nat, r \in Known : <<2, i, r>> \in Waiting' <=> i \in 1 .. Len(InMemory') /\ InMemory'[i] = r
  BY WaitingAt DEF AmongReplies, AmongPending, AmongStored, OnLink
<1>12. \A i \in Nat, r \in Known : <<2, i, r>> \in Waiting' <=> i >= 1 /\ <<2, i + 1, r>> \in Waiting
  <2> TAKE i \in Nat, r \in Known
  <2>1. i + 1 \in Nat /\ (i + 1 \in 1 .. Len(InMemory) /\ i >= 1 <=> i \in 1 .. (Len(InMemory) - 1))
    BY <1>8
  <2> QED BY <1>8, <1>10, <1>11, <2>1
<1>13. \A i \in Nat, r \in Known : /\ <<3, i, r>> \in Waiting' <=> <<3, i, r>> \in Waiting
                                   /\ <<4, i, r>> \in Waiting' <=> <<4, i, r>> \in Waiting
  BY <1>2, WaitingAt
<1>14. Handed(Waiting, Waiting', 1, req, n, TRUE)
  <2>1. 1 + 1 = 2 /\ (1 .. 4) \ {1, 1 + 1} = {3, 4}
    OBVIOUS
  <2>2. <<2, 1, req>> \in Waiting /\ \A r \in Known : <<2, 1, r>> \in Waiting => r = req
    BY <1>3, <1>8, <1>10
  <2>3. \A i \in Nat, r \in Known : <<2, i, r>> \in Waiting => i >= 1
    BY <1>10
  <2>4. \A i \in Nat, r \in Known : <<1, i, r>> \in Waiting /\ SamePlane(r, req) => i <= n
    <3> SUFFICES ASSUME NEW i \in Nat, NEW r \in Known, <<1, i, r>> \in Waiting, SamePlane(r, req)
                 PROVE  i <= n
      OBVIOUS
    <3>1. i \in 1 .. Len(replies_[r.write][r.rp])
      BY WaitingAt DEF AmongReplies, AmongPending, AmongStored, OnLink
    <3>2. i \in 1 .. n
      BY <3>1, Zenon DEF SamePlane, n, q
    <3> QED BY <1>7, <3>2
  <2>5. \A r \in Known : Shift(r, req, TRUE) = 1
    BY DEF Shift
  <2> QED BY <1>9, <1>12, <1>13, <2>1, <2>2, <2>3, <2>4, <2>5 DEF Handed
<1>15. InOrder(Waiting') /\ Requests(Waiting') = Requests(Waiting)
  <2>1. 1 \in 1 .. 3 /\ TRUE \in BOOLEAN
    OBVIOUS
  <2> HIDE DEF Handed
  <2> QED BY <1>3, <1>7, <1>14, <2>1, HandOver
<1> QED BY <1>3, <1>6, <1>15 DEF req, new, q

\* Submitting a request moves it from its store to the memory.
LEMMA SubmitWaits ==
  ASSUME TypeInv, PlaceInv, InOrder(Waiting), NEW slot \in Slots, Submit(slot)
  PROVE  InOrder(Waiting') /\ Requests(Waiting') = Requests(Waiting)
<1> DEFINE rp  == SlotPlane(slot)
           w   == IsWrite(slot)
           req == IF w THEN Head(writes_[rp]).req ELSE Head(reads_[rp])
           beats == IF w THEN Head(writes_[rp]).write_beats ELSE <<>>
           job == [req |-> req, write_beats |-> beats]
           n == Len(InMemory)
<1>1. /\ mem_rsp \in Seq(Known) /\ mem_req \in Seq(Job) /\ reads_ \in [Planes -> Seq(Known)]
      /\ writes_ \in [Planes -> Seq(Job)]
  BY DEF TypeInv
<1>2. /\ mem_req' = Append(mem_req, job) /\ mem_rsp' = mem_rsp
      /\ writes_' = IF w THEN [writes_ EXCEPT ![rp] = Tail(@)] ELSE writes_
      /\ reads_' = IF w THEN reads_ ELSE [reads_ EXCEPT ![rp] = Tail(@)]
      /\ UNCHANGED <<replies_, link_rx>>
  BY DEF Submit
<1>3. /\ rp \in Planes /\ (w => writes_[rp] # <<>> /\ Head(writes_[rp]) \in Job)
      /\ (~w => reads_[rp] # <<>> /\ Head(reads_[rp]) \in Known) /\ w \in BOOLEAN
  BY SubmitFacts DEF IsWrite
<1>4. writes_[rp] \in Seq(JobsOf(rp)) /\ reads_[rp] \in Seq(ReadsOf(rp))
  BY <1>3 DEF PlaceInv
<1>5. req \in Known /\ req.rp = rp /\ req.write = w /\ job \in Job /\ job.req = req
  <2>1. CASE w
    <3>1. Head(writes_[rp]) \in JobsOf(rp)
      BY <1>3, <1>4, <2>1, HeadTail
    <3> QED BY <2>1, <3>1 DEF JobsOf, Job
  <2>2. CASE ~w
    <3>1. Head(reads_[rp]) \in ReadsOf(rp)
      BY <1>3, <1>4, <2>2, HeadTail
    <3>2. req.write \in BOOLEAN
      BY <2>2, <3>1 DEF ReadsOf, Known, Request
    <3>3. <<>> \in Seq(Beat)
      OBVIOUS
    <3> QED BY <1>3, <2>2, <3>1, <3>2, <3>3 DEF ReadsOf, Job
  <2> QED BY <2>1, <2>2
<1>6. InMemory \in Seq(Known) /\ InMemory' = Append(InMemory, req)
  <2> HIDE DEF req, job
  <2>1. Pending(mem_rsp, mem_req) \in Seq(Known)
    BY <1>1, PendingFacts
  <2>2. Pending(mem_rsp, Append(mem_req, job)) = Append(Pending(mem_rsp, mem_req), job.req)
    BY <1>1, <1>5, PendingSubmit
  <2> QED BY <1>2, <1>5, <2>1, <2>2 DEF InMemory
<1>7. n \in Nat /\ Len(InMemory') = n + 1 /\ InMemory'[n + 1] = req /\ \A i \in 1 .. n : InMemory'[i] = InMemory[i]
  BY <1>5, <1>6, Appended
<1>8. w =>
           /\ Len(writes_[rp]) \in Nat \ {0} /\ writes_[rp][1].req = req
           /\ Len(writes_'[rp]) = Len(writes_[rp]) - 1
           /\ \A i \in 1 .. (Len(writes_[rp]) - 1) : writes_'[rp][i] = writes_[rp][i + 1]
           /\ \A p \in Planes \ {rp} : writes_'[p] = writes_[p]
           /\ reads_' = reads_
  <2> SUFFICES ASSUME w
               PROVE
           /\ Len(writes_[rp]) \in Nat \ {0} /\ writes_[rp][1].req = req
           /\ Len(writes_'[rp]) = Len(writes_[rp]) - 1
           /\ \A i \in 1 .. (Len(writes_[rp]) - 1) : writes_'[rp][i] = writes_[rp][i + 1]
           /\ \A p \in Planes \ {rp} : writes_'[p] = writes_[p]
           /\ reads_' = reads_
    BY SMT
  <2>1. writes_' = [writes_ EXCEPT ![rp] = Tail(@)] /\ writes_[rp] \in Seq(Job) /\ writes_[rp] # <<>>
    BY <1>1, <1>2, <1>3
  <2>2. writes_'[rp] = Tail(writes_[rp]) /\ \A p \in Planes \ {rp} : writes_'[p] = writes_[p]
    BY <1>1, <1>3, <2>1, QueueTake
  <2>3. /\ Len(writes_[rp]) \in Nat \ {0} /\ Head(writes_[rp]) = writes_[rp][1]
        /\ Len(Tail(writes_[rp])) = Len(writes_[rp]) - 1
        /\ \A i \in 1 .. (Len(writes_[rp]) - 1) : Tail(writes_[rp])[i] = writes_[rp][i + 1]
    BY <2>1, HeadTail
  <2> QED BY <1>2, <2>2, <2>3
<1>9. ~w =>
           /\ Len(reads_[rp]) \in Nat \ {0} /\ reads_[rp][1] = req
           /\ Len(reads_'[rp]) = Len(reads_[rp]) - 1
           /\ \A i \in 1 .. (Len(reads_[rp]) - 1) : reads_'[rp][i] = reads_[rp][i + 1]
           /\ \A p \in Planes \ {rp} : reads_'[p] = reads_[p]
           /\ writes_' = writes_
  <2> SUFFICES ASSUME ~w
               PROVE
           /\ Len(reads_[rp]) \in Nat \ {0} /\ reads_[rp][1] = req
           /\ Len(reads_'[rp]) = Len(reads_[rp]) - 1
           /\ \A i \in 1 .. (Len(reads_[rp]) - 1) : reads_'[rp][i] = reads_[rp][i + 1]
           /\ \A p \in Planes \ {rp} : reads_'[p] = reads_[p]
           /\ writes_' = writes_
    BY SMT
  <2>1. reads_' = [reads_ EXCEPT ![rp] = Tail(@)] /\ reads_[rp] \in Seq(Known) /\ reads_[rp] # <<>>
    BY <1>1, <1>2, <1>3
  <2>2. reads_'[rp] = Tail(reads_[rp]) /\ \A p \in Planes \ {rp} : reads_'[p] = reads_[p]
    BY <1>1, <1>3, <2>1, QueueTake
  <2>3. /\ Len(reads_[rp]) \in Nat \ {0} /\ Head(reads_[rp]) = reads_[rp][1]
        /\ Len(Tail(reads_[rp])) = Len(reads_[rp]) - 1
        /\ \A i \in 1 .. (Len(reads_[rp]) - 1) : Tail(reads_[rp])[i] = reads_[rp][i + 1]
    BY <2>1, HeadTail
  <2> QED BY <1>2, <2>2, <2>3
<1> HIDE DEF rp, w, req, job, n
<1>10. \A i \in Nat, r \in Known : <<2, i, r>> \in Waiting' <=> <<2, i, r>> \in Waiting \/ (r = req /\ i = n + 1)
  <2> TAKE i \in Nat, r \in Known
  <2>1. <<2, i, r>> \in Waiting' <=> i \in 1 .. Len(InMemory') /\ InMemory'[i] = r
    BY WaitingAt DEF AmongReplies, AmongPending, AmongStored, OnLink
  <2>2. <<2, i, r>> \in Waiting <=> i \in 1 .. n /\ InMemory[i] = r
    BY WaitingAt DEF AmongPending, n
  <2>3. i \in 1 .. (n + 1) <=> i \in 1 .. n \/ i = n + 1
    BY <1>7
  <2>4. ~(n + 1 \in 1 .. n)
    BY <1>7
  <2> QED BY <1>7, <2>1, <2>2, <2>3, <2>4
<1>11. \A i \in Nat, r \in Known :
         <<3, i, r>> \in Waiting <=>
           \/ ~r.write /\ i \in 1 .. Len(reads_[r.rp]) /\ reads_[r.rp][i] = r
           \/ r.write /\ i \in 1 .. Len(writes_[r.rp]) /\ writes_[r.rp][i].req = r
  BY WaitingAt DEF AmongReplies, AmongPending, AmongStored, OnLink
<1>12. \A i \in Nat, r \in Known :
         <<3, i, r>> \in Waiting' <=>
           \/ ~r.write /\ i \in 1 .. Len(reads_'[r.rp]) /\ reads_'[r.rp][i] = r
           \/ r.write /\ i \in 1 .. Len(writes_'[r.rp]) /\ writes_'[r.rp][i].req = r
  BY WaitingAt DEF AmongReplies, AmongPending, AmongStored, OnLink
<1>13. \A i \in Nat, r \in Known : <<3, i, r>> \in Waiting' <=> i >= 1 /\ <<3, i + Shift(r, req, FALSE), r>> \in Waiting
  <2> TAKE i \in Nat, r \in Known
  <2>1. r.write \in BOOLEAN /\ r.rp \in Planes
    BY DEF Known, Request
  <2>2. CASE ~SamePlane(r, req)
    <3>1. Shift(r, req, FALSE) = 0 /\ i + 0 = i
      BY <2>2 DEF Shift
    <3>2. <<3, i, r>> \in Waiting => i >= 1
      BY <1>11
    <3>3. <<3, i, r>> \in Waiting' <=> <<3, i, r>> \in Waiting
      <4>1. r.write = w => r.rp # rp
        BY <1>5, <2>2 DEF SamePlane
      <4>2. r.write => writes_'[r.rp] = writes_[r.rp]
        BY <1>3, <1>8, <1>9, <2>1, <4>1
      <4>3. ~r.write => reads_'[r.rp] = reads_[r.rp]
        BY <1>3, <1>8, <1>9, <2>1, <4>1
      <4> QED BY <1>11, <1>12, <4>2, <4>3
    <3> QED BY <3>1, <3>2, <3>3
  <2>3. CASE SamePlane(r, req)
    <3>1. Shift(r, req, FALSE) = 1 /\ r.write = w /\ r.rp = rp /\ i + 1 \in Nat
      BY <1>5, <2>3 DEF Shift, SamePlane
    <3>2. CASE w
      <4>1. i + 1 \in 1 .. Len(writes_[rp]) /\ i >= 1 <=> i \in 1 .. (Len(writes_[rp]) - 1)
        BY <1>8, <3>2
      <4>2. <<3, i, r>> \in Waiting' <=> i \in 1 .. (Len(writes_[rp]) - 1) /\ writes_'[rp][i].req = r
        BY <1>8, <1>12, <3>1, <3>2
      <4>3. <<3, i + 1, r>> \in Waiting <=> i + 1 \in 1 .. Len(writes_[rp]) /\ writes_[rp][i + 1].req = r
        BY <1>11, <3>1, <3>2
      <4>4. i \in 1 .. (Len(writes_[rp]) - 1) => writes_'[rp][i] = writes_[rp][i + 1]
        BY <1>8, <3>2
      <4> QED BY <3>1, <4>1, <4>2, <4>3, <4>4
    <3>3. CASE ~w
      <4>1. i + 1 \in 1 .. Len(reads_[rp]) /\ i >= 1 <=> i \in 1 .. (Len(reads_[rp]) - 1)
        BY <1>9, <3>3
      <4>2. <<3, i, r>> \in Waiting' <=> i \in 1 .. (Len(reads_[rp]) - 1) /\ reads_'[rp][i] = r
        BY <1>9, <1>12, <3>1, <3>3
      <4>3. <<3, i + 1, r>> \in Waiting <=> i + 1 \in 1 .. Len(reads_[rp]) /\ reads_[rp][i + 1] = r
        BY <1>11, <3>1, <3>3
      <4>4. i \in 1 .. (Len(reads_[rp]) - 1) => reads_'[rp][i] = reads_[rp][i + 1]
        BY <1>9, <3>3
      <4> QED BY <3>1, <4>1, <4>2, <4>3, <4>4
    <3> QED BY <3>2, <3>3
  <2> QED BY <2>2, <2>3
<1>14. \A i \in Nat, r \in Known : /\ <<1, i, r>> \in Waiting' <=> <<1, i, r>> \in Waiting
                                   /\ <<4, i, r>> \in Waiting' <=> <<4, i, r>> \in Waiting
  BY <1>2, WaitingAt
<1>15. Handed(Waiting, Waiting', 2, req, n, FALSE)
  <2>1. 2 + 1 = 3 /\ (1 .. 4) \ {2, 2 + 1} = {1, 4}
    OBVIOUS
  <2>2. <<3, 1, req>> \in Waiting
    <3>1. w => 1 \in 1 .. Len(writes_[rp]) /\ writes_[rp][1].req = req
      BY <1>8
    <3>2. ~w => 1 \in 1 .. Len(reads_[rp]) /\ reads_[rp][1] = req
      BY <1>9
    <3>3. 1 \in Nat /\ req \in Known /\ req.write = w /\ req.rp = rp
      BY <1>5
    <3> QED BY <3>1, <3>2, <3>3, <1>11
  <2>3. \A r \in Known : <<3, 1, r>> \in Waiting /\ SamePlane(r, req) => r = req
    BY <1>3, <1>5, <1>8, <1>9, <1>11 DEF SamePlane
  <2>4. \A i \in Nat, r \in Known : <<3, i, r>> \in Waiting => i >= 1
    BY <1>11
  <2>5. \A i \in Nat, r \in Known : <<2, i, r>> \in Waiting => i <= n
    <3> SUFFICES ASSUME NEW i \in Nat, NEW r \in Known, <<2, i, r>> \in Waiting PROVE i <= n
      OBVIOUS
    <3>1. i \in 1 .. n
      BY WaitingAt DEF AmongPending, n
    <3> QED BY <1>7, <3>1
  <2> HIDE DEF Shift
  <2> QED BY <1>10, <1>13, <1>14, <2>1, <2>2, <2>3, <2>4, <2>5 DEF Handed
<1> HIDE DEF Handed
<1>16. 2 \in 1 .. 3 /\ FALSE \in BOOLEAN
  OBVIOUS
<1> QED BY <1>5, <1>7, <1>15, <1>16, HandOver

\* What is on the link moves up when its head is received.
LEMMA LinkShift ==
  ASSUME link_rx \in Seq(KnownMessage), link_rx # <<>>, link_rx' = Tail(link_rx),
         NEW i \in Nat, NEW r \in Known
  PROVE  <<4, i, r>> \in Waiting' <=> i >= 1 /\ <<4, i + 1, r>> \in Waiting
<1>1. /\ Len(link_rx) \in Nat \ {0} /\ Len(link_rx') = Len(link_rx) - 1
      /\ \A k \in 1 .. (Len(link_rx) - 1) : link_rx'[k] = link_rx[k + 1]
  BY HeadTail
<1>2. <<4, i, r>> \in Waiting' <=> i \in 1 .. (Len(link_rx) - 1) /\ link_rx'[i].kind # "WDATA"
                                  /\ RequestOf(link_rx'[i]) = r
  BY <1>1, WaitingAt DEF OnLink
<1>3. <<4, i + 1, r>> \in Waiting <=> i + 1 \in 1 .. Len(link_rx) /\ link_rx[i + 1].kind # "WDATA"
                                     /\ RequestOf(link_rx[i + 1]) = r
  <2>1. i + 1 \in Nat
    OBVIOUS
  <2> QED BY <2>1, WaitingAt DEF OnLink
<1>4. i + 1 \in 1 .. Len(link_rx) /\ i >= 1 <=> i \in 1 .. (Len(link_rx) - 1)
  BY <1>1
<1> QED BY <1>1, <1>2, <1>3, <1>4

\* A request that arrives moves from the link to its store.
LEMMA ReceiveWaits ==
  ASSUME TypeInv, PlaceInv, InOrder(Waiting), ReceiveRead \/ ReceiveWrite
  PROVE  InOrder(Waiting') /\ Requests(Waiting') = Requests(Waiting)
<1> DEFINE m   == Head(link_rx)
           req == RequestOf(m)
           w   == req.write
           rp  == req.rp
           n   == IF w THEN Len(writes_[rp]) ELSE Len(reads_[rp])
           job == [req |-> req, write_beats |-> <<>>]
<1>1. /\ link_rx \in Seq(KnownMessage) /\ reads_ \in [Planes -> Seq(Known)]
      /\ writes_ \in [Planes -> Seq(Job)]
  BY DEF TypeInv
<1>2. /\ link_rx # <<>> /\ link_rx' = Tail(link_rx) /\ m.kind \in {"RREQ", "WREQ"}
      /\ UNCHANGED <<replies_, mem_req, mem_rsp>>
      /\ m.kind = "WREQ" => /\ writes_' = [writes_ EXCEPT ![m.rp] = Append(@, job)]
                            /\ reads_' = reads_
      /\ m.kind = "RREQ" => /\ reads_' = [reads_ EXCEPT ![m.rp] = Append(@, req)]
                            /\ writes_' = writes_
  BY DEF ReceiveRead, ReceiveWrite, Receive, Incoming
<1>3. /\ Len(link_rx) \in Nat \ {0} /\ link_rx[1] = m /\ m \in KnownMessage
      /\ Len(link_rx') = Len(link_rx) - 1
      /\ \A i \in 1 .. (Len(link_rx) - 1) : link_rx'[i] = link_rx[i + 1]
  BY <1>1, <1>2, HeadTail
<1>4. /\ req \in Known /\ w = (m.kind = "WREQ") /\ rp = m.rp /\ m.kind # "WDATA" /\ w \in BOOLEAN
      /\ rp \in Planes
  BY <1>2, <1>3 DEF KnownMessage, RequestOf, Message, Known, Request
<1>5. job \in Job /\ job.req = req
  <2>1. <<>> \in Seq(Beat)
    OBVIOUS
  <2> QED BY <1>4, <2>1 DEF Job
<1>6. m.kind = "WREQ" \/ m.kind = "RREQ"
  BY <1>2
<1> HIDE DEF m, req, job
<1>7. w =>
        /\ Len(writes_[rp]) \in Nat /\ Len(writes_'[rp]) = Len(writes_[rp]) + 1
        /\ writes_'[rp][Len(writes_[rp]) + 1] = job
        /\ \A i \in 1 .. Len(writes_[rp]) : writes_'[rp][i] = writes_[rp][i]
        /\ \A p \in Planes \ {rp} : writes_'[p] = writes_[p]
        /\ reads_' = reads_
  <2> SUFFICES ASSUME w
               PROVE
        /\ Len(writes_[rp]) \in Nat /\ Len(writes_'[rp]) = Len(writes_[rp]) + 1
        /\ writes_'[rp][Len(writes_[rp]) + 1] = job
        /\ \A i \in 1 .. Len(writes_[rp]) : writes_'[rp][i] = writes_[rp][i]
        /\ \A p \in Planes \ {rp} : writes_'[p] = writes_[p]
        /\ reads_' = reads_
    BY SMT
  <2>1. writes_' = [writes_ EXCEPT ![rp] = Append(@, job)] /\ reads_' = reads_
    BY <1>2, <1>4
  <2>2. writes_'[rp] = Append(writes_[rp], job) /\ \A p \in Planes \ {rp} : writes_'[p] = writes_[p]
    BY <1>1, <1>4, <1>5, <2>1, QueuePut
  <2>3. writes_[rp] \in Seq(Job)
    BY <1>1, <1>4
  <2> QED BY <1>5, <2>1, <2>2, <2>3, Appended
<1>8. ~w =>
        /\ Len(reads_[rp]) \in Nat /\ Len(reads_'[rp]) = Len(reads_[rp]) + 1
        /\ reads_'[rp][Len(reads_[rp]) + 1] = req
        /\ \A i \in 1 .. Len(reads_[rp]) : reads_'[rp][i] = reads_[rp][i]
        /\ \A p \in Planes \ {rp} : reads_'[p] = reads_[p]
        /\ writes_' = writes_
  <2> SUFFICES ASSUME ~w
               PROVE
        /\ Len(reads_[rp]) \in Nat /\ Len(reads_'[rp]) = Len(reads_[rp]) + 1
        /\ reads_'[rp][Len(reads_[rp]) + 1] = req
        /\ \A i \in 1 .. Len(reads_[rp]) : reads_'[rp][i] = reads_[rp][i]
        /\ \A p \in Planes \ {rp} : reads_'[p] = reads_[p]
        /\ writes_' = writes_
    BY SMT
  <2>1. reads_' = [reads_ EXCEPT ![rp] = Append(@, req)] /\ writes_' = writes_
    BY <1>2, <1>4, <1>6
  <2>2. reads_'[rp] = Append(reads_[rp], req) /\ \A p \in Planes \ {rp} : reads_'[p] = reads_[p]
    BY <1>1, <1>4, <2>1, QueuePut
  <2>3. reads_[rp] \in Seq(Known)
    BY <1>1, <1>4
  <2> QED BY <1>4, <2>1, <2>2, <2>3, Appended
<1>9. n \in Nat /\ (w => n = Len(writes_[rp])) /\ (~w => n = Len(reads_[rp]))
  BY <1>4, <1>7, <1>8
<1> HIDE DEF w, rp, n
<1>10. \A i \in Nat, r \in Known :
         /\ <<3, i, r>> \in Waiting <=>
              \/ ~r.write /\ i \in 1 .. Len(reads_[r.rp]) /\ reads_[r.rp][i] = r
              \/ r.write /\ i \in 1 .. Len(writes_[r.rp]) /\ writes_[r.rp][i].req = r
         /\ <<3, i, r>> \in Waiting' <=>
              \/ ~r.write /\ i \in 1 .. Len(reads_'[r.rp]) /\ reads_'[r.rp][i] = r
              \/ r.write /\ i \in 1 .. Len(writes_'[r.rp]) /\ writes_'[r.rp][i].req = r
  BY WaitingAt DEF AmongStored
<1>11. \A i \in Nat, r \in Known : <<3, i, r>> \in Waiting' <=> <<3, i, r>> \in Waiting \/ (r = req /\ i = n + 1)
  <2> TAKE i \in Nat, r \in Known
  <2>1. r.write \in BOOLEAN /\ r.rp \in Planes
    BY DEF Known, Request
  <2>2. CASE ~SamePlane(r, req)
    <3>1. r # req
      BY <2>2 DEF SamePlane
    <3>2. r.write = w => r.rp # rp
      BY <2>2 DEF SamePlane, w, rp
    <3>3. r.write => writes_'[r.rp] = writes_[r.rp]
      BY <1>4, <1>7, <1>8, <2>1, <3>2
    <3>4. ~r.write => reads_'[r.rp] = reads_[r.rp]
      BY <1>4, <1>7, <1>8, <2>1, <3>2
    <3> QED BY <1>10, <3>1, <3>3, <3>4
  <2>3. CASE SamePlane(r, req)
    <3>1. r.write = w /\ r.rp = rp
      BY <2>3 DEF SamePlane, w, rp
    <3>2. (i \in 1 .. (n + 1) <=> i \in 1 .. n \/ i = n + 1) /\ ~(n + 1 \in 1 .. n)
      BY <1>9
    <3>3. CASE w
      <4>1. <<3, i, r>> \in Waiting <=> i \in 1 .. n /\ writes_[rp][i].req = r
        BY <1>9, <1>10, <3>1, <3>3
      <4>2. <<3, i, r>> \in Waiting' <=> i \in 1 .. (n + 1) /\ writes_'[rp][i].req = r
        <5>1. Len(writes_'[rp]) = n + 1
          BY <1>7, <1>9, <3>3
        <5>2. <<3, i, r>> \in Waiting' <=> i \in 1 .. Len(writes_'[rp]) /\ writes_'[rp][i].req = r
          BY <1>10, <3>1, <3>3
        <5> QED BY <5>1, <5>2
      <4>3. writes_'[rp][n + 1].req = req /\ \A k \in 1 .. n : writes_'[rp][k] = writes_[rp][k]
        BY <1>5, <1>7, <1>9, <3>3
      <4> QED BY <3>2, <4>1, <4>2, <4>3
    <3>4. CASE ~w
      <4>1. <<3, i, r>> \in Waiting <=> i \in 1 .. n /\ reads_[rp][i] = r
        BY <1>9, <1>10, <3>1, <3>4
      <4>2. <<3, i, r>> \in Waiting' <=> i \in 1 .. (n + 1) /\ reads_'[rp][i] = r
        BY <1>8, <1>9, <1>10, <3>1, <3>4
      <4>3. reads_'[rp][n + 1] = req /\ \A k \in 1 .. n : reads_'[rp][k] = reads_[rp][k]
        BY <1>8, <1>9, <3>4
      <4> QED BY <3>2, <4>1, <4>2, <4>3
    <3> QED BY <3>3, <3>4
  <2> QED BY <2>2, <2>3
<1>12. \A i \in Nat, r \in Known :
         <<4, i, r>> \in Waiting <=> i \in 1 .. Len(link_rx) /\ link_rx[i].kind # "WDATA" /\ RequestOf(link_rx[i]) = r
  BY WaitingAt DEF OnLink
<1>13. \A i \in Nat, r \in Known : <<4, i, r>> \in Waiting' <=> i >= 1 /\ <<4, i + 1, r>> \in Waiting
  BY <1>1, <1>2, LinkShift
<1>14. \A i \in Nat, r \in Known : /\ <<1, i, r>> \in Waiting' <=> <<1, i, r>> \in Waiting
                                   /\ <<2, i, r>> \in Waiting' <=> <<2, i, r>> \in Waiting
  <2>1. InMemory' = InMemory
    BY <1>2 DEF InMemory
  <2> QED BY <1>2, <2>1, WaitingAt
<1>15. Handed(Waiting, Waiting', 3, req, n, TRUE)
  <2>1. 3 + 1 = 4 /\ (1 .. 4) \ {3, 3 + 1} = {1, 2}
    OBVIOUS
  <2>2. <<4, 1, req>> \in Waiting /\ \A r \in Known : <<4, 1, r>> \in Waiting => r = req
    <3>1. 1 \in 1 .. Len(link_rx) /\ link_rx[1] = m /\ RequestOf(m) = req
      BY <1>3 DEF req
    <3> QED BY <1>4, <1>12, <3>1
  <2>3. \A i \in Nat, r \in Known : <<4, i, r>> \in Waiting => i >= 1
    BY <1>12
  <2>4. \A i \in Nat, r \in Known : <<3, i, r>> \in Waiting /\ SamePlane(r, req) => i <= n
    <3> SUFFICES ASSUME NEW i \in Nat, NEW r \in Known, <<3, i, r>> \in Waiting, SamePlane(r, req)
                 PROVE  i <= n
      OBVIOUS
    <3>1. r.write = w /\ r.rp = rp
      BY DEF SamePlane, w, rp
    <3> QED BY <1>4, <1>9, <1>10, <3>1
  <2>5. \A r \in Known : Shift(r, req, TRUE) = 1
    BY DEF Shift
  <2> QED BY <1>11, <1>13, <1>14, <2>1, <2>2, <2>3, <2>4, <2>5 DEF Handed
<1> HIDE DEF Handed
<1>16. 3 \in 1 .. 3 /\ TRUE \in BOOLEAN
  OBVIOUS
<1> QED BY <1>4, <1>9, <1>15, <1>16, HandOver

\* Nothing moves.
LEMMA SameWaits ==
  ASSUME InOrder(Waiting),
         \A i \in Nat, r \in Known :
           /\ <<1, i, r>> \in Waiting' <=> <<1, i, r>> \in Waiting
           /\ <<2, i, r>> \in Waiting' <=> <<2, i, r>> \in Waiting
           /\ <<3, i, r>> \in Waiting' <=> <<3, i, r>> \in Waiting
           /\ <<4, i, r>> \in Waiting' <=> <<4, i, r>> \in Waiting
  PROVE  InOrder(Waiting') /\ Requests(Waiting') = Requests(Waiting)
<1>1. ASSUME NEW a \in 1 .. 4, NEW i \in Nat, NEW r \in Known
      PROVE  <<a, i, r>> \in Waiting' <=> <<a, i, r>> \in Waiting
  <2>1. a = 1 \/ a = 2 \/ a = 3 \/ a = 4
    OBVIOUS
  <2> QED BY <2>1
<1>2. InOrder(Waiting')
  BY <1>1 DEF InOrder
<1>3. Requests(Waiting') = Requests(Waiting)
  BY <1>1 DEF Requests
<1> QED BY <1>2, <1>3

\* A step that leaves the queues alone, or what they hold of the requests.
LEMMA IdleWaits ==
  ASSUME InOrder(Waiting), UNCHANGED <<replies_, mem_req, mem_rsp, reads_, link_rx>>,
         \A i \in Nat, r \in Known : AmongStored(reads_', writes_', i, r) <=> AmongStored(reads_, writes_, i, r)
  PROVE  InOrder(Waiting') /\ Requests(Waiting') = Requests(Waiting)
<1>1. InMemory' = InMemory
  BY DEF InMemory
<1>2. \A i \in Nat, r \in Known :
           /\ <<1, i, r>> \in Waiting' <=> <<1, i, r>> \in Waiting
           /\ <<2, i, r>> \in Waiting' <=> <<2, i, r>> \in Waiting
           /\ <<3, i, r>> \in Waiting' <=> <<3, i, r>> \in Waiting
           /\ <<4, i, r>> \in Waiting' <=> <<4, i, r>> \in Waiting
  BY <1>1, WaitingAt
<1> QED BY <1>2, SameWaits

\* assemble gives data to a write, which stays where it is.
LEMMA AssembleWaits ==
  ASSUME TypeInv, InOrder(Waiting), Assemble
  PROVE  InOrder(Waiting') /\ Requests(Waiting') = Requests(Waiting)
<1>1. UNCHANGED <<replies_, mem_req, mem_rsp, reads_, link_rx>>
  BY DEF Assemble
<1>2. ASSUME NEW rp \in Planes
      PROVE  Len(writes_'[rp]) = Len(writes_[rp]) /\ \A i \in 1 .. Len(writes_[rp]) : writes_'[rp][i].req = writes_[rp][i].req
  <2>1. CASE Takes(rp)
    <3> DEFINE q == writes_[rp]
               f == FirstLacking(rp)
    <3>1. /\ f \in 1 .. Len(q) /\ Len(writes_'[rp]) = Len(q)
          /\ writes_'[rp][f] = [req |-> q[f].req,
                                write_beats |-> Append(q[f].write_beats, Payload(Head(data_[rp])))]
          /\ \A i \in (1 .. Len(q)) \ {f} : writes_'[rp][i] = q[i]
      BY <2>1, AssembleFacts, Zenon
    <3>2. writes_'[rp][f].req = q[f].req
      BY <3>1
    <3> HIDE DEF f
    <3> QED BY <3>1, <3>2
  <2>2. CASE ~Takes(rp)
    <3>1. writes_'[rp] = writes_[rp]
      BY <2>2 DEF Assemble
    <3> QED BY <3>1
  <2> QED BY <2>1, <2>2
<1>3. \A i \in Nat, r \in Known : AmongStored(reads_', writes_', i, r) <=> AmongStored(reads_, writes_, i, r)
  <2> TAKE i \in Nat, r \in Known
  <2>1. r.rp \in Planes
    BY DEF Known, Request
  <2> QED BY <1>1, <1>2, <2>1 DEF AmongStored
<1> QED BY <1>1, <1>3, IdleWaits

\* Data that arrives leaves the requests behind it on the link.
LEMMA DataWaits ==
  ASSUME TypeInv, InOrder(Waiting), ReceiveData, Known # {}
  PROVE  InOrder(Waiting') /\ Requests(Waiting') = Requests(Waiting)
<1>1. /\ link_rx # <<>> /\ link_rx' = Tail(link_rx) /\ Head(link_rx).kind = "WDATA"
      /\ UNCHANGED <<replies_, mem_req, mem_rsp, reads_, writes_>>
  BY DEF ReceiveData, Receive, Incoming
<1>2. link_rx \in Seq(KnownMessage)
  BY DEF TypeInv
<1>3. PICK req : req \in Known
  OBVIOUS
<1>4. \A r \in Known : ~(<<4, 1, r>> \in Waiting)
  <2>1. link_rx[1].kind = "WDATA"
    BY <1>1, <1>2, HeadTail
  <2> QED BY <2>1, WaitingAt DEF OnLink
<1>5. InMemory' = InMemory
  BY <1>1 DEF InMemory
<1>6. Left(Waiting, Waiting', 4, req, TRUE)
  <2>1. (1 .. 4) \ {4} = {1, 2, 3}
    OBVIOUS
  <2>2. \A r \in Known : Shift(r, req, TRUE) = 1
    BY DEF Shift
  <2>3. \A i \in Nat, r \in Known : <<4, i, r>> \in Waiting => i >= 1
    <3> TAKE i \in Nat, r \in Known
    <3>1. <<4, i, r>> \in Waiting => i \in 1 .. Len(link_rx)
      BY WaitingAt DEF OnLink
    <3>2. Len(link_rx) \in Nat
      BY <1>2
    <3> QED BY <3>1, <3>2
  <2>4. \A i \in Nat, r \in Known : <<4, i, r>> \in Waiting' <=> i >= 1 /\ <<4, i + 1, r>> \in Waiting
    BY <1>1, <1>2, LinkShift
  <2>5. \A i \in Nat, r \in Known :
           /\ <<1, i, r>> \in Waiting' <=> <<1, i, r>> \in Waiting
           /\ <<2, i, r>> \in Waiting' <=> <<2, i, r>> \in Waiting
           /\ <<3, i, r>> \in Waiting' <=> <<3, i, r>> \in Waiting
    BY <1>1, <1>5, WaitingAt
  <2> QED BY <2>1, <2>2, <2>3, <2>4, <2>5 DEF Left
<1>7. 4 \in 1 .. 4 /\ TRUE \in BOOLEAN
  OBVIOUS
<1> HIDE DEF Left
<1>8. InOrder(Waiting') /\ Dropped(Waiting, Waiting', 4, req, TRUE)
  <2> HIDE DEF Dropped
  <2>1. PICK all \in BOOLEAN : all = TRUE
    OBVIOUS
  <2>2. InOrder(Waiting') /\ Dropped(Waiting, Waiting', 4, req, all)
    BY <1>3, <1>6, <1>7, <2>1, MovedUp
  <2> QED BY <2>1, <2>2
<1>9. \A r \in Requests(Waiting) : r \in Known
  BY DEF Requests
<1> QED BY <1>4, <1>8, <1>9 DEF Dropped

ReqKind(w) == IF w THEN "WREQ" ELSE "RREQ"

WaitInv ==
    /\ InOrder(Waiting)
    /\ \A r \in Requests(Waiting) : r.n <= sent[ReqKind(r.write)][r.rp]

\* The request that SendRequest sends.
Sent(k, rp) == [write |-> k = "WREQ", rp |-> rp, n |-> sent[k][rp] + 1]

\* A new request is later than all before it.
LEMMA SendWaits ==
  ASSUME TypeInv, WaitInv, NEW k \in {"RREQ", "WREQ"}, NEW rp \in Planes, SendRequest(k, rp)
  PROVE  /\ InOrder(Waiting') /\ Requests(Waiting') = Requests(Waiting) \cup {Sent(k, rp)}
         /\ Sent(k, rp) \in Known
         /\ \A w \in BOOLEAN, p \in Planes :
              sent'[ReqKind(w)][p] = IF ReqKind(w) = k /\ p = rp THEN sent[k][rp] + 1 ELSE sent[ReqKind(w)][p]
         /\ ReqKind(k = "WREQ") = k /\ sent[k][rp] \in Nat
<1> DEFINE m == [kind |-> k, rp |-> rp, n |-> sent[k][rp] + 1, beat |-> 0]
           req == Sent(k, rp)
           n == Len(link_rx)
<1>1. /\ sent \in [{"RREQ", "WREQ"} -> [Planes -> Nat]] /\ link_rx \in Seq(KnownMessage)
  BY DEF TypeInv
<1>2. /\ sent[k][rp] < Len((IF k = "WREQ" THEN Writes ELSE Reads)[rp])
      /\ sent' = [sent EXCEPT ![k][rp] = @ + 1] /\ link_rx' = Append(link_rx, m)
      /\ UNCHANGED <<replies_, mem_req, mem_rsp, reads_, writes_>>
  BY DEF SendRequest
<1>3. sent[k][rp] \in Nat /\ ReqKind(k = "WREQ") = k
  BY <1>1 DEF ReqKind
<1>4. Writes[rp] \in Seq(AskedFor) /\ Reads[rp] \in Seq(AskedFor)
  BY TargetAssumption
<1>5. req \in Known /\ req.write = (k = "WREQ") /\ req.rp = rp /\ req.n = sent[k][rp] + 1
  <2>1. req \in Request
    BY <1>3 DEF Request, Sent
  <2>2. Len(Writes[rp]) \in Nat /\ Len(Reads[rp]) \in Nat
    BY <1>4
  <2>3. sent[k][rp] + 1 <= Len((IF k = "WREQ" THEN Writes ELSE Reads)[rp])
    BY <1>2, <1>3, <2>2
  <2> QED BY <2>1, <2>3 DEF Known, Sent
<1>6. m \in KnownMessage /\ m.kind # "WDATA" /\ RequestOf(m) = req
  <2>1. m \in Message
    BY <1>3 DEF Message, ReqKinds
  <2>2. RequestOf(m) = req /\ m.kind # "WDATA"
    BY DEF RequestOf, Sent
  <2> QED BY <1>5, <2>1, <2>2 DEF KnownMessage
<1> HIDE DEF m, req
<1>7. /\ n \in Nat /\ Len(link_rx') = n + 1 /\ link_rx'[n + 1] = m
      /\ \A i \in 1 .. n : link_rx'[i] = link_rx[i]
  BY <1>1, <1>2, <1>6, Appended
<1> HIDE DEF n
<1>8. Joined(Waiting, Waiting', req, n)
  <2>1. \A a \in 1 .. 4, i \in Nat, r \in Known : <<a, i, r>> \in Waiting /\ SamePlane(r, req) => r.n < req.n
    <3> SUFFICES ASSUME NEW a \in 1 .. 4, NEW i \in Nat, NEW r \in Known, <<a, i, r>> \in Waiting, SamePlane(r, req)
                 PROVE  r.n < req.n
      OBVIOUS
    <3>1. r \in Requests(Waiting)
      BY DEF Requests
    <3>2. r.n <= sent[ReqKind(r.write)][r.rp]
      BY <3>1 DEF WaitInv
    <3>3. ReqKind(r.write) = k /\ r.rp = rp
      BY <1>3, <1>5 DEF SamePlane
    <3>4. r.n \in Nat
      BY DEF Known, Request
    <3> QED BY <1>3, <1>5, <3>2, <3>3, <3>4
  <2>2. \A i \in Nat, r \in Known :
          /\ <<4, i, r>> \in Waiting <=> i \in 1 .. n /\ link_rx[i].kind # "WDATA" /\ RequestOf(link_rx[i]) = r
          /\ <<4, i, r>> \in Waiting' <=> i \in 1 .. Len(link_rx') /\ link_rx'[i].kind # "WDATA" /\ RequestOf(link_rx'[i]) = r
    BY WaitingAt DEF OnLink, n
  <2>3. \A i \in Nat, r \in Known : <<4, i, r>> \in Waiting => i <= n
    BY <1>7, <2>2
  <2>4. \A i \in Nat, r \in Known : <<4, i, r>> \in Waiting' <=> <<4, i, r>> \in Waiting \/ (r = req /\ i = n + 1)
    <3> TAKE i \in Nat, r \in Known
    <3>1. (i \in 1 .. (n + 1) <=> i \in 1 .. n \/ i = n + 1) /\ ~(n + 1 \in 1 .. n)
      BY <1>7
    <3> QED BY <1>6, <1>7, <2>2, <3>1
  <2>5. InMemory' = InMemory
    BY <1>2 DEF InMemory
  <2>6. \A i \in Nat, r \in Known :
           /\ <<1, i, r>> \in Waiting' <=> <<1, i, r>> \in Waiting
           /\ <<2, i, r>> \in Waiting' <=> <<2, i, r>> \in Waiting
           /\ <<3, i, r>> \in Waiting' <=> <<3, i, r>> \in Waiting
    BY <1>2, <2>5, WaitingAt
  <2>7. ASSUME NEW a \in 1 .. 4, NEW i \in Nat, NEW r \in Known
        PROVE  <<a, i, r>> \in Waiting' <=> <<a, i, r>> \in Waiting \/ (a = 4 /\ r = req /\ i = n + 1)
    <3>1. CASE a = 4
      BY <2>4, <3>1
    <3>2. CASE a # 4
      <4>1. a = 1 \/ a = 2 \/ a = 3
        BY <3>2
      <4> QED BY <2>6, <3>2, <4>1
    <3> QED BY <3>1, <3>2
  <2> QED BY <2>1, <2>3, <2>7 DEF Joined
<1>9. InOrder(Waiting') /\ Requests(Waiting') = Requests(Waiting) \cup {req}
  <2>1. InOrder(Waiting)
    BY DEF WaitInv
  <2> HIDE DEF Joined
  <2> QED BY <1>5, <1>7, <1>8, <2>1, MovedIn
<1>10. \A w \in BOOLEAN, p \in Planes :
         sent'[ReqKind(w)][p] = IF ReqKind(w) = k /\ p = rp THEN sent[k][rp] + 1 ELSE sent[ReqKind(w)][p]
  <2>1. \A w \in BOOLEAN : ReqKind(w) \in {"RREQ", "WREQ"}
    BY DEF ReqKind
  <2> QED BY <1>1, <1>2, <2>1
<1> QED BY <1>3, <1>5, <1>9, <1>10 DEF req

\* The memory answers a request that is the first of its group.
LEMMA CompleteWaits ==
  ASSUME TypeInv, InOrder(Waiting), NEW i \in 1 .. MemDepth, MemComplete(i)
  PROVE  InOrder(Waiting') /\ Requests(Waiting') = Requests(Waiting)
<1> DEFINE s == mem_rsp
           m == mem_req
           k == Len(s) + 1
           l == Len(s) + i
           req == m[i].req
<1>1. mem_rsp \in Seq(Known) /\ mem_req \in Seq(Job)
  BY DEF TypeInv
<1>2. /\ i \in 1 .. Len(m) /\ \A j \in 1 .. (i - 1) : Group(m[j].req) # Group(m[i].req)
      /\ mem_rsp' = Append(s, m[i].req) /\ mem_req' = RemoveAt(m, i)
      /\ UNCHANGED <<replies_, reads_, writes_, link_rx>>
  BY <1>1 DEF MemComplete
<1>3. /\ Len(InMemory') = Len(InMemory)
      /\ \A p \in 1 .. Len(InMemory) : InMemory'[p] = IF p = k THEN InMemory[l]
                                        ELSE IF k < p /\ p <= l THEN InMemory[p - 1] ELSE InMemory[p]
  BY <1>1, <1>2, PendingComplete, Zenon DEF InMemory
<1>4. /\ InMemory \in Seq(Known) /\ Len(InMemory) = Len(s) + Len(m) /\ Len(s) \in Nat /\ Len(m) \in Nat
      /\ \A p \in 1 .. Len(m) : InMemory[Len(s) + p] = m[p].req
  BY <1>1, PendingFacts DEF InMemory
<1>5. k \in 1 .. Len(InMemory) /\ l \in k .. Len(InMemory) /\ InMemory[l] = req /\ req \in Known
  BY <1>2, <1>4
<1>6. \A p \in k .. (l - 1) : Group(InMemory[p]) # Group(req)
  <2> TAKE p \in k .. (l - 1)
  <2>1. p - Len(s) \in 1 .. (i - 1) /\ p - Len(s) \in 1 .. Len(m) /\ Len(s) + (p - Len(s)) = p
    BY <1>2, <1>4
  <2>2. InMemory[Len(s) + (p - Len(s))] = m[p - Len(s)].req
    BY <1>4, <2>1
  <2> QED BY <1>2, <2>1, <2>2
<1> HIDE DEF k, l, req
<1>7. \A p \in Nat, r \in Known :
         /\ <<2, p, r>> \in Waiting <=> p \in 1 .. Len(InMemory) /\ InMemory[p] = r
         /\ <<2, p, r>> \in Waiting' <=> p \in 1 .. Len(InMemory') /\ InMemory'[p] = r
  BY WaitingAt DEF AmongPending
<1>8. \A p \in Nat, r \in Known : <<2, p, r>> \in Waiting' <=> <<2, From(p, k, l), r>> \in Waiting
  <2> TAKE p \in Nat, r \in Known
  <2>1. From(p, k, l) \in Nat /\ (p \in 1 .. Len(InMemory) <=> From(p, k, l) \in 1 .. Len(InMemory))
    BY <1>4, <1>5 DEF From
  <2>2. p \in 1 .. Len(InMemory) => InMemory'[p] = InMemory[From(p, k, l)]
    BY <1>3 DEF From
  <2> QED BY <1>3, <1>7, <2>1, <2>2
<1>9. \A p \in Nat, r \in Known :
           /\ <<1, p, r>> \in Waiting' <=> <<1, p, r>> \in Waiting
           /\ <<3, p, r>> \in Waiting' <=> <<3, p, r>> \in Waiting
           /\ <<4, p, r>> \in Waiting' <=> <<4, p, r>> \in Waiting
  BY <1>2, WaitingAt
<1>10. Overtaken(Waiting, Waiting', k, l, req)
  <2>1. (1 .. 4) \ {2} = {1, 3, 4}
    OBVIOUS
  <2>2. k \in Nat /\ l \in Nat /\ l \in 1 .. Len(InMemory)
    BY <1>4, <1>5
  <2>3. <<2, l, req>> \in Waiting /\ \A r \in Known : <<2, l, r>> \in Waiting => r = req
    BY <1>5, <1>7, <2>2
  <2>4. \A p \in Nat, r \in Known : <<2, p, r>> \in Waiting /\ k <= p /\ p < l => Group(r) # Group(req)
    <3> SUFFICES ASSUME NEW p \in Nat, NEW r \in Known, <<2, p, r>> \in Waiting, k <= p, p < l
                 PROVE  Group(r) # Group(req)
      OBVIOUS
    <3>1. p \in k .. (l - 1) /\ InMemory[p] = r
      BY <1>7, <2>2
    <3> QED BY <1>6, <3>1
  <2> HIDE DEF From
  <2> QED BY <1>8, <1>9, <2>1, <2>3, <2>4 DEF Overtaken
<1>11. k \in Nat /\ l \in Nat /\ k <= l
  BY <1>4, <1>5
<1> HIDE DEF Overtaken
<1> QED BY <1>5, <1>10, <1>11, MovedAhead

\* PackReply keeps its reply, or drops it with the last response of it.
LEMMA PackWaits ==
  ASSUME TypeInv, PlaceInv, InOrder(Waiting), NEW w \in BOOLEAN, NEW rp \in Planes, PackReply(w, rp)
  PROVE  LET req == PackedReply(w, rp).req
         IN  /\ InOrder(Waiting')
             /\ req \in Requests(Waiting) /\ <<1, 1, req>> \in Waiting
             /\ Requests(Waiting') = IF PackedMsg(w, rp).last THEN Requests(Waiting) \ {req}
                                                              ELSE Requests(Waiting)
<1> DEFINE q     == replies_[w][rp]
           reply == PackedReply(w, rp)
           req   == reply.req
           last  == PackedMsg(w, rp).last
           z     == replies_'[w][rp]
<1>1. /\ q \in Seq(Reply) /\ q # <<>> /\ reply \in Reply /\ req.write = w /\ req.rp = rp
      /\ PackedMsg(w, rp) \in Rsp
  BY PackFacts
<1>2. /\ last \in BOOLEAN /\ req \in Known
  BY <1>1 DEF Rsp, Reply
<1>3. /\ Len(q) \in Nat \ {0} /\ reply = q[1] /\ Len(Tail(q)) = Len(q) - 1
      /\ \A i \in 1 .. (Len(q) - 1) : Tail(q)[i] = q[i + 1]
  BY <1>1, HeadTail DEF PackedReply
<1>4. /\ last => z = Tail(q)
      /\ ~last => /\ Len(z) = Len(q)
                  /\ z[1] = [reply EXCEPT !.beat = reply.beat + 1]
                  /\ \A i \in 2 .. Len(q) : z[i] = q[i]
      /\ \A v \in BOOLEAN, p \in Planes : v # w \/ p # rp => replies_'[v][p] = replies_[v][p]
  BY PackReplies, Zenon
<1>5. UNCHANGED <<mem_req, mem_rsp, reads_, writes_, link_rx>>
  BY DEF PackReply
<1>6. InMemory' = InMemory
  BY <1>5 DEF InMemory
<1>7. \A i \in Nat, r \in Known :
           /\ <<2, i, r>> \in Waiting' <=> <<2, i, r>> \in Waiting
           /\ <<3, i, r>> \in Waiting' <=> <<3, i, r>> \in Waiting
           /\ <<4, i, r>> \in Waiting' <=> <<4, i, r>> \in Waiting
  BY <1>5, <1>6, WaitingAt
<1>8. [reply EXCEPT !.beat = reply.beat + 1].req = req
  BY <1>1 DEF Reply
<1> HIDE DEF reply, last
<1>9. \A i \in Nat, r \in Known :
         /\ <<1, i, r>> \in Waiting <=> i \in 1 .. Len(replies_[r.write][r.rp]) /\ replies_[r.write][r.rp][i].req = r
         /\ <<1, i, r>> \in Waiting' <=> i \in 1 .. Len(replies_'[r.write][r.rp]) /\ replies_'[r.write][r.rp][i].req = r
  BY WaitingAt DEF AmongReplies
<1>10. ASSUME NEW r \in Known, ~SamePlane(r, req), NEW i \in Nat
       PROVE  <<1, i, r>> \in Waiting' <=> <<1, i, r>> \in Waiting
  <2>1. r.write \in BOOLEAN /\ r.rp \in Planes
    BY DEF Known, Request
  <2>2. replies_'[r.write][r.rp] = replies_[r.write][r.rp]
    BY <1>1, <1>4, <1>10, <2>1 DEF SamePlane
  <2> QED BY <1>9, <2>2
<1>11. ASSUME NEW r \in Known, SamePlane(r, req), NEW i \in Nat
       PROVE  /\ <<1, i, r>> \in Waiting <=> i \in 1 .. Len(q) /\ q[i].req = r
              /\ <<1, i, r>> \in Waiting' <=> i \in 1 .. Len(z) /\ z[i].req = r
  BY <1>1, <1>9, <1>11 DEF SamePlane
<1>12. <<1, 1, req>> \in Waiting /\ \A r \in Known : <<1, 1, r>> \in Waiting /\ SamePlane(r, req) => r = req
  <2>1. SamePlane(req, req) /\ 1 \in 1 .. Len(q)
    BY <1>3 DEF SamePlane
  <2> QED BY <1>2, <1>3, <1>11, <2>1
<1>13. req \in Requests(Waiting)
  BY <1>2, <1>12 DEF Requests
<1> HIDE DEF q, z
<1>14. CASE last
  <2>1. Left(Waiting, Waiting', 1, req, FALSE)
    <3>1. (1 .. 4) \ {1} = {2, 3, 4}
      OBVIOUS
    <3>2. ASSUME NEW i \in Nat, NEW r \in Known
          PROVE  /\ <<1, i, r>> \in Waiting => i >= 1
                 /\ <<1, i, r>> \in Waiting' <=> i >= 1 /\ <<1, i + Shift(r, req, FALSE), r>> \in Waiting
      <4>1. CASE ~SamePlane(r, req)
        <5>1. Shift(r, req, FALSE) = 0 /\ i + 0 = i
          BY <4>1 DEF Shift
        <5>2. <<1, i, r>> \in Waiting => i >= 1
          <6>1. replies_[r.write][r.rp] \in Seq(Reply)
            BY DEF TypeInv, Known, Request
          <6>2. Len(replies_[r.write][r.rp]) \in Nat
            BY <6>1
          <6> QED BY <1>9, <6>2
        <5> QED BY <1>10, <4>1, <5>1, <5>2
      <4>2. CASE SamePlane(r, req)
        <5>1. Shift(r, req, FALSE) = 1 /\ i + 1 \in Nat
          BY <4>2 DEF Shift
        <5>2. <<1, i, r>> \in Waiting => i >= 1
          BY <1>3, <1>11, <4>2
        <5>3. <<1, i, r>> \in Waiting' <=> i \in 1 .. (Len(q) - 1) /\ Tail(q)[i].req = r
          BY <1>3, <1>4, <1>11, <1>14, <4>2
        <5>4. <<1, i + 1, r>> \in Waiting <=> i + 1 \in 1 .. Len(q) /\ q[i + 1].req = r
          BY <1>11, <4>2, <5>1
        <5>5. i + 1 \in 1 .. Len(q) /\ i >= 1 <=> i \in 1 .. (Len(q) - 1)
          BY <1>3
        <5> QED BY <1>3, <5>1, <5>2, <5>3, <5>4, <5>5
      <4> QED BY <4>1, <4>2
    <3> HIDE DEF Shift
    <3> QED BY <1>7, <3>1, <3>2 DEF Left
  <2>2. 1 \in 1 .. 4 /\ FALSE \in BOOLEAN
    OBVIOUS
  <2> HIDE DEF Left
  <2>3. InOrder(Waiting') /\ Dropped(Waiting, Waiting', 1, req, FALSE)
    <3> HIDE DEF Dropped
    <3>1. PICK all \in BOOLEAN : all = FALSE
      OBVIOUS
    <3>2. InOrder(Waiting') /\ Dropped(Waiting, Waiting', 1, req, all)
      BY <1>2, <2>1, <2>2, <3>1, MovedUp
    <3> QED BY <3>1, <3>2
  <2>4. SamePlane(req, req)
    BY DEF SamePlane
  <2>5. \A r \in Requests(Waiting) : r \in Known
    BY DEF Requests
  <2>6. Requests(Waiting') = Requests(Waiting) \ {req}
    BY <1>12, <2>3, <2>4, <2>5 DEF Dropped
  <2> QED BY <1>12, <1>13, <1>14, <2>3, <2>6 DEF last, reply
<1>15. CASE ~last
  <2>1. \A i \in Nat, r \in Known : <<1, i, r>> \in Waiting' <=> <<1, i, r>> \in Waiting
    <3> TAKE i \in Nat, r \in Known
    <3>1. CASE SamePlane(r, req)
      <4>1. \A j \in 1 .. Len(q) : z[j].req = q[j].req
        <5> TAKE j \in 1 .. Len(q)
        <5>1. j = 1 \/ j \in 2 .. Len(q)
          BY <1>3
        <5> QED BY <1>3, <1>4, <1>8, <1>15, <5>1
      <4> QED BY <1>4, <1>11, <1>15, <3>1, <4>1
    <3> QED BY <1>10, <3>1
  <2>2. InOrder(Waiting') /\ Requests(Waiting') = Requests(Waiting)
    BY <1>7, <2>1, SameWaits
  <2> QED BY <1>12, <1>13, <1>15, <2>2 DEF last, reply
<1> QED BY <1>2, <1>14, <1>15

\* Requests wait in order after every step; which ones wait changes only when
\* one is sent and when the last response to one is packed.
LEMMA WaitMoves ==
  ASSUME TypeInv, PlaceInv, WaitInv, [Next]_vars
  PROVE  /\ InOrder(Waiting')
         /\ \/ \E k \in {"RREQ", "WREQ"}, rp \in Planes : SendRequest(k, rp)
            \/ \E w \in BOOLEAN, rp \in Planes : PackReply(w, rp)
            \/ /\ Requests(Waiting') = Requests(Waiting) /\ UNCHANGED sent
               /\ Collect \/ UNCHANGED replies_
<1> DEFINE Goal ==
         /\ InOrder(Waiting')
         /\ \/ \E k \in {"RREQ", "WREQ"}, rp \in Planes : SendRequest(k, rp)
            \/ \E w \in BOOLEAN, rp \in Planes : PackReply(w, rp)
            \/ /\ Requests(Waiting') = Requests(Waiting) /\ UNCHANGED sent
               /\ Collect \/ UNCHANGED replies_
<1> SUFFICES Goal
  OBVIOUS
<1>0. InOrder(Waiting)
  BY DEF WaitInv
<1>1. CASE UNCHANGED <<replies_, mem_req, mem_rsp, reads_, writes_, link_rx, sent>>
  <2>1. InOrder(Waiting') /\ Requests(Waiting') = Requests(Waiting)
    BY <1>0, <1>1, IdleWaits
  <2> QED BY <1>1, <2>1
<1>2. CASE ReceiveRead \/ ReceiveWrite
  <2>1. UNCHANGED <<sent, replies_>>
    BY <1>2 DEF ReceiveRead, ReceiveWrite, Receive
  <2> QED BY <1>0, <1>2, <2>1, ReceiveWaits
<1>3. CASE ReceiveData
  <2>1. UNCHANGED <<sent, replies_>>
    BY <1>3 DEF ReceiveData, Receive
  <2>2. CASE Known # {}
    BY <1>0, <1>3, <2>1, <2>2, DataWaits
  <2>3. CASE Known = {}
    BY <2>1, <2>3 DEF InOrder, Requests
  <2> QED BY <2>2, <2>3
<1>4. CASE Collect
  <2>1. UNCHANGED sent
    BY <1>4 DEF Collect
  <2> QED BY <1>0, <1>4, <2>1, CollectWaits
<1>5. CASE Assemble
  <2>1. UNCHANGED <<sent, replies_>>
    BY <1>5 DEF Assemble
  <2> QED BY <1>0, <1>5, <2>1, AssembleWaits
<1>6. ASSUME NEW slot \in Slots, Submit(slot) PROVE Goal
  <2>1. UNCHANGED <<sent, replies_>>
    BY <1>6 DEF Submit
  <2> QED BY <1>0, <1>6, <2>1, SubmitWaits
<1>7. ASSUME NEW w \in BOOLEAN, NEW rp \in Planes, PackReply(w, rp) PROVE Goal
  BY <1>0, <1>7, PackWaits
<1>8. ASSUME NEW k \in {"RREQ", "WREQ"}, NEW rp \in Planes, SendRequest(k, rp) PROVE Goal
  BY <1>8, SendWaits
<1>9. ASSUME NEW i \in 1 .. MemDepth, MemComplete(i) PROVE Goal
  <2>1. UNCHANGED <<sent, replies_>>
    BY <1>9 DEF MemComplete
  <2> QED BY <1>0, <1>9, <2>1, CompleteWaits
<1>10. ASSUME NEW rp \in Planes, SendData(rp) PROVE Goal
  <2>1. /\ UNCHANGED <<replies_, mem_req, mem_rsp, reads_, writes_, sent>>
        /\ link_rx' = Append(link_rx, [kind |-> "WDATA", rp |-> rp, n |-> w_next[rp].n,
                                       beat |-> w_next[rp].beat])
    BY <1>10 DEF SendData
  <2> DEFINE m == [kind |-> "WDATA", rp |-> rp, n |-> w_next[rp].n, beat |-> w_next[rp].beat]
             n == Len(link_rx)
  <2>2. link_rx \in Seq(KnownMessage) /\ m \in KnownMessage /\ m.kind = "WDATA"
    BY DEF TypeInv, KnownMessage, Message, ReqKinds
  <2> HIDE DEF m
  <2>3. /\ n \in Nat /\ Len(link_rx') = n + 1 /\ link_rx'[n + 1] = m
        /\ \A i \in 1 .. n : link_rx'[i] = link_rx[i]
    BY <2>1, <2>2, Appended DEF m
  <2> HIDE DEF n
  <2>4. \A i \in Nat, r \in Known : OnLink(link_rx', i, r) <=> OnLink(link_rx, i, r)
    <3> TAKE i \in Nat, r \in Known
    <3>1. (i \in 1 .. (n + 1) <=> i \in 1 .. n \/ i = n + 1) /\ ~(n + 1 \in 1 .. n)
      BY <2>3
    <3> QED BY <2>2, <2>3, <3>1 DEF OnLink, n
  <2>5. InMemory' = InMemory
    BY <2>1 DEF InMemory
  <2>6. \A i \in Nat, r \in Known :
           /\ <<1, i, r>> \in Waiting' <=> <<1, i, r>> \in Waiting
           /\ <<2, i, r>> \in Waiting' <=> <<2, i, r>> \in Waiting
           /\ <<3, i, r>> \in Waiting' <=> <<3, i, r>> \in Waiting
           /\ <<4, i, r>> \in Waiting' <=> <<4, i, r>> \in Waiting
    BY <2>1, <2>4, <2>5, WaitingAt
  <2>7. InOrder(Waiting') /\ Requests(Waiting') = Requests(Waiting)
    BY <1>0, <2>6, SameWaits
  <2> QED BY <2>1, <2>7
<1>11. CASE CollectNothing \/ ReceiveDone \/ SubmitNothing \/ TransmitStalled \/ SendNothing
  BY <1>1, <1>11 DEF others, Pass, ReceiveDone, CollectNothing, SubmitNothing, TransmitStalled, SendNothing
<1>12. CASE ResumeSpill \/ NewFlit \/ BridgeReceive
  BY <1>1, <1>12 DEF ResumeSpill, NewFlit, BridgeReceive
<1>13. CASE (\E rp \in Planes : SendWithCredit(rp)) \/ SendWithoutCredit
  BY <1>1, <1>13 DEF SendWithCredit, SendWithoutCredit, SendFlit
<1>14. CASE \E k \in RspKinds, rp \in Planes : AddTxCredit(k, rp)
  BY <1>1, <1>14 DEF AddTxCredit
<1>15. CASE UNCHANGED vars
  BY <1>1, <1>15 DEF vars, others
<1> HIDE DEF Goal
<1> QED
  BY <1>2, <1>3, <1>4, <1>5, <1>6, <1>7, <1>8, <1>9, <1>10, <1>11, <1>12, <1>13, <1>14, <1>15
     DEF Next, Thread, Surroundings, RspKinds

\* The requests that wait are in order and have been sent.
LEMMA WaitStep ==
  ASSUME TypeInv, PlaceInv, WaitInv, [Next]_vars
  PROVE  WaitInv'
<1>1. InOrder(Waiting')
  BY WaitMoves
<1>2. \A r \in Requests(Waiting) : r \in Known /\ r.n <= sent[ReqKind(r.write)][r.rp]
  BY DEF WaitInv, Requests
<1>3. ASSUME NEW k \in {"RREQ", "WREQ"}, NEW rp \in Planes, SendRequest(k, rp)
      PROVE  WaitInv'
  <2>1. /\ Requests(Waiting') = Requests(Waiting) \cup {Sent(k, rp)} /\ Sent(k, rp) \in Known
        /\ \A w \in BOOLEAN, p \in Planes :
             sent'[ReqKind(w)][p] = IF ReqKind(w) = k /\ p = rp THEN sent[k][rp] + 1 ELSE sent[ReqKind(w)][p]
        /\ ReqKind(k = "WREQ") = k /\ sent[k][rp] \in Nat
    BY <1>3, SendWaits
  <2>2. ASSUME NEW r \in Requests(Waiting') PROVE r.n <= sent'[ReqKind(r.write)][r.rp]
    <3>1. r \in Known
      BY <1>2, <2>1
    <3>2. r.write \in BOOLEAN /\ r.rp \in Planes /\ r.n \in Nat
      BY <3>1 DEF Known, Request
    <3>3. sent'[ReqKind(r.write)][r.rp] =
            IF ReqKind(r.write) = k /\ r.rp = rp THEN sent[k][rp] + 1 ELSE sent[ReqKind(r.write)][r.rp]
      BY <2>1, <3>2
    <3>4. CASE r \in Requests(Waiting)
      BY <1>2, <2>1, <3>2, <3>3, <3>4
    <3>5. CASE r = Sent(k, rp)
      <4>1. r.write = (k = "WREQ") /\ r.rp = rp /\ r.n = sent[k][rp] + 1
        BY <3>5 DEF Sent
      <4>2. ReqKind(r.write) = k
        BY <2>1, <4>1
      <4> QED BY <2>1, <3>2, <3>3, <4>1, <4>2
    <3> QED BY <2>1, <3>4, <3>5
  <2> QED BY <1>1, <2>2 DEF WaitInv
<1>4. ASSUME NEW w \in BOOLEAN, NEW rp \in Planes, PackReply(w, rp)
      PROVE  WaitInv'
  <2>1. \A r \in Requests(Waiting') : r \in Requests(Waiting)
    BY <1>4, PackWaits DEF WaitInv
  <2>2. UNCHANGED sent
    BY <1>4 DEF PackReply
  <2> QED BY <1>1, <1>2, <2>1, <2>2 DEF WaitInv
<1>5. CASE Requests(Waiting') = Requests(Waiting) /\ UNCHANGED sent
  BY <1>1, <1>2, <1>5 DEF WaitInv
<1> QED BY <1>3, <1>4, <1>5, WaitMoves

\* Nothing waits after construction.
LEMMA InitWait == Init => WaitInv
<1> SUFFICES ASSUME Init PROVE WaitInv
  OBVIOUS
<1>1. /\ link_rx = <<>> /\ mem_req = <<>> /\ mem_rsp = <<>>
      /\ \A rp \in Planes : reads_[rp] = <<>> /\ writes_[rp] = <<>>
      /\ \A w \in BOOLEAN, rp \in Planes : replies_[w][rp] = <<>>
  BY DEF Init
<1>2. InMemory = <<>>
  <2>1. <<>> \in Seq(Known) /\ <<>> \in Seq(Job)
    OBVIOUS
  <2>2. InMemory \in Seq(Known) /\ Len(InMemory) = Len(<<>>) + Len(<<>>)
    BY <1>1, <2>1, PendingFacts DEF InMemory
  <2> QED BY <2>2
<1>3. ASSUME NEW a \in 1 .. 4, NEW i \in Nat, NEW r \in Known
      PROVE  ~(<<a, i, r>> \in Waiting)
  <2>1. r.write \in BOOLEAN /\ r.rp \in Planes
    BY DEF Known, Request
  <2>2. ~(i \in 1 .. Len(<<>>))
    OBVIOUS
  <2>3. /\ ~AmongReplies(replies_, i, r) /\ ~AmongPending(InMemory, i, r)
        /\ ~AmongStored(reads_, writes_, i, r) /\ ~OnLink(link_rx, i, r)
    BY <1>1, <1>2, <2>1, <2>2 DEF AmongReplies, AmongPending, AmongStored, OnLink
  <2>4. a = 1 \/ a = 2 \/ a = 3 \/ a = 4
    OBVIOUS
  <2> QED BY <2>3, <2>4, WaitingAt
<1> QED BY <1>3 DEF WaitInv, InOrder, Requests

-----------------------------------------------------------------------------
(* The log of the bridge, with the responses that are still on their way.  *)

Entry == [n : Nat, beat : Nat, last : BOOLEAN]

Numbered(w, rp, n) == [write |-> w, rp |-> rp, n |-> n]

\* A read is being answered: its last beat is still to come.
MidBurst(a) == a # <<>> /\ ~a[Len(a)].last

Done(a, n) == \E j \in 1 .. Len(a) : a[j].n = n /\ a[j].last

\* What AnswersInOrder says of entry i, and of a log.
GoodEntry(w, rp, a, i) ==
    /\ ~w => a[i].last = (a[i].beat = Beats(Numbered(w, rp, a[i].n)))
    /\ i > 1 /\ ~a[i - 1].last => a[i].n = a[i - 1].n /\ a[i].beat = a[i - 1].beat + 1
    /\ i = 1 \/ a[i - 1].last =>
         /\ a[i].beat = 1
         /\ \A n \in 1 .. (a[i].n - 1) :
              Id(Numbered(w, rp, n)) = Id(Numbered(w, rp, a[i].n)) =>
                \E j \in 1 .. (i - 1) : a[j].n = n /\ a[j].last
         /\ \A j \in 1 .. (i - 1) : a[j].n # a[i].n

GoodLog(w, rp, a) == \A i \in 1 .. Len(a) : GoodEntry(w, rp, a, i)

\* The entry for a response that may come next.
Follows(w, rp, a, x) ==
    /\ ~w => x.last = (x.beat = Beats(Numbered(w, rp, x.n)))
    /\ MidBurst(a) => x.n = a[Len(a)].n /\ x.beat = a[Len(a)].beat + 1
    /\ ~MidBurst(a) =>
         /\ x.beat = 1
         /\ \A n \in 1 .. (x.n - 1) : Id(Numbered(w, rp, n)) = Id(Numbered(w, rp, x.n)) => Done(a, n)
         /\ \A j \in 1 .. Len(a) : a[j].n # x.n

\* A log that is good stays so with an entry that follows.
LEMMA GoodAppend ==
  ASSUME NEW w \in BOOLEAN, NEW rp \in Planes, NEW a \in Seq(Entry), NEW x \in Entry,
         GoodLog(w, rp, a), Follows(w, rp, a, x)
  PROVE  GoodLog(w, rp, Append(a, x))
<1> DEFINE b == Append(a, x)
           m == Len(a)
<1>1. /\ b \in Seq(Entry) /\ Len(b) = m + 1 /\ m \in Nat /\ b[m + 1] = x
      /\ \A i \in 1 .. m : b[i] = a[i]
  BY Appended
<1>2. MidBurst(a) <=> m # 0 /\ ~a[m].last
  BY DEF MidBurst
<1>3. \A n : Done(a, n) <=> \E j \in 1 .. m : a[j].n = n /\ a[j].last
  BY DEF Done
<1>4. /\ ~w => x.last = (x.beat = Beats(Numbered(w, rp, x.n)))
      /\ m # 0 /\ ~a[m].last => x.n = a[m].n /\ x.beat = a[m].beat + 1
      /\ m = 0 \/ a[m].last =>
         /\ x.beat = 1
         /\ \A n \in 1 .. (x.n - 1) : Id(Numbered(w, rp, n)) = Id(Numbered(w, rp, x.n)) =>
              \E j \in 1 .. m : a[j].n = n /\ a[j].last
         /\ \A j \in 1 .. m : a[j].n # x.n
  BY <1>2, <1>3 DEF Follows
<1>5. \A i \in 1 .. m : GoodEntry(w, rp, a, i)
  BY DEF GoodLog
<1> HIDE DEF b, m
<1>6. ASSUME NEW i \in 1 .. m PROVE GoodEntry(w, rp, b, i)
  <2>1. b[i] = a[i] /\ (i > 1 => b[i - 1] = a[i - 1]) /\ \A j \in 1 .. (i - 1) : b[j] = a[j]
    BY <1>1
  <2>2. GoodEntry(w, rp, a, i)
    BY <1>5
  <2>3. i = 1 \/ i > 1
    BY <1>1
  <2>4. \A n : (\E j \in 1 .. (i - 1) : a[j].n = n /\ a[j].last) => \E j \in 1 .. (i - 1) : b[j].n = n /\ b[j].last
    BY <2>1
  <2>5. ~w => b[i].last = (b[i].beat = Beats(Numbered(w, rp, b[i].n)))
    BY <2>1, <2>2 DEF GoodEntry
  <2>6. i > 1 /\ ~b[i - 1].last => b[i].n = b[i - 1].n /\ b[i].beat = b[i - 1].beat + 1
    BY <2>1, <2>2 DEF GoodEntry
  <2>7. i = 1 \/ b[i - 1].last =>
         /\ b[i].beat = 1
         /\ \A n \in 1 .. (b[i].n - 1) :
              Id(Numbered(w, rp, n)) = Id(Numbered(w, rp, b[i].n)) =>
                \E j \in 1 .. (i - 1) : b[j].n = n /\ b[j].last
         /\ \A j \in 1 .. (i - 1) : b[j].n # b[i].n
    BY <2>1, <2>2, <2>3, <2>4 DEF GoodEntry
  <2> QED BY <2>5, <2>6, <2>7 DEF GoodEntry
<1>7. GoodEntry(w, rp, b, m + 1)
  <2>1. m + 1 - 1 = m /\ (m + 1 > 1 <=> m # 0) /\ (m + 1 = 1 <=> m = 0) /\ (m # 0 => b[m] = a[m])
    BY <1>1
  <2>2. \A n : (\E j \in 1 .. m : a[j].n = n /\ a[j].last) => \E j \in 1 .. m : b[j].n = n /\ b[j].last
    BY <1>1
  <2> QED BY <1>1, <1>4, <2>1, <2>2 DEF GoodEntry
<1>8. \A i \in 1 .. (m + 1) : i \in 1 .. m \/ i = m + 1
  BY <1>1
<1> QED BY <1>1, <1>6, <1>7, <1>8 DEF GoodLog, b

Mine(w, rp, r) == r.write = w /\ r.rp = rp

\* The head of the queue of replies goes on where the log a stops.
GoesOn(q, a) ==
    /\ MidBurst(a) => q # <<>> /\ q[1].req.n = a[Len(a)].n /\ q[1].beat = a[Len(a)].beat + 1
    /\ ~MidBurst(a) /\ q # <<>> => q[1].beat = 1
    /\ \A i \in 2 .. Len(q) : q[i].beat = 1

\* The log a of a plane and direction of which q are the replies, R the
\* requests that wait, and s the number of requests sent: a request in the log
\* is done or being answered, one that is not waits.
LogFor(w, rp, a, q, R, s) ==
    /\ GoodLog(w, rp, a) /\ GoesOn(q, a)
    /\ \A r \in R : Mine(w, rp, r) =>
         \A j \in 1 .. Len(a) : a[j].n = r.n => MidBurst(a) /\ r = q[1].req
    /\ \A r \in Known : Mine(w, rp, r) /\ r.n <= s => Done(a, r.n) \/ r \in R
    /\ \A j \in 1 .. Len(a) : a[j].n <= s

\* What is left of the queue of replies when a response to its head is packed.
Replied(q, z, last) ==
    /\ last => z = Tail(q)
    /\ ~last => /\ Len(z) = Len(q) /\ z[1] = [q[1] EXCEPT !.beat = q[1].beat + 1]
                /\ \A i \in 2 .. Len(q) : z[i] = q[i]

\* Two requests of a plane and direction with one number are one request.
LEMMA SameRequest ==
  ASSUME NEW w, NEW rp, NEW r \in Known, Mine(w, rp, r)
  PROVE  r = Numbered(w, rp, r.n) /\ r.n \in Nat \ {0} /\ r.write \in BOOLEAN /\ r.rp \in Planes
BY DEF Known, Request, Mine, Numbered

\* A request before a known one is known.
LEMMA KnownBefore ==
  ASSUME NEW w, NEW rp, NEW r \in Known, Mine(w, rp, r), NEW n \in 1 .. r.n
  PROVE  Numbered(w, rp, n) \in Known /\ Mine(w, rp, Numbered(w, rp, n)) /\ Numbered(w, rp, n).n = n
<1>1. r.n \in Nat /\ r.write = w /\ r.rp = rp /\ r \in Request /\ r.n <= Len((IF w THEN Writes ELSE Reads)[rp])
  BY DEF Known, Mine, Request
<1>2. Numbered(w, rp, n) \in Request
  BY <1>1 DEF Numbered, Request
<1>3. w \in BOOLEAN /\ rp \in Planes
  BY <1>1 DEF Request
<1>4. Writes[rp] \in Seq(AskedFor) /\ Reads[rp] \in Seq(AskedFor)
  BY <1>3, TargetAssumption
<1>5. Len(Writes[rp]) \in Nat /\ Len(Reads[rp]) \in Nat
  BY <1>4
<1>6. n <= Len((IF w THEN Writes ELSE Reads)[rp])
  BY <1>1, <1>5
<1> QED BY <1>2, <1>6 DEF Numbered, Known, Mine

\* A response that is packed follows in the log, and the queue goes on from it.
LEMMA LogPack ==
  ASSUME NEW w \in BOOLEAN, NEW rp \in Planes, NEW a \in Seq(Entry), NEW s \in Nat,
         NEW q \in Seq(Reply), q # <<>>, NEW z, NEW R \in SUBSET Known,
         LogFor(w, rp, a, q, R, s),
         NEW req \in R, req = q[1].req, Mine(w, rp, req), req.n <= s,
         NEW x \in Entry, x.n = req.n, x.beat = q[1].beat,
         ~w => x.last = (x.beat = Beats(req)),
         Replied(q, z, x.last),
         \A r \in R : Mine(w, rp, r) /\ Id(r) = Id(req) => r = req \/ req.n < r.n
  PROVE  LogFor(w, rp, Append(a, x), z, IF x.last THEN R \ {req} ELSE R, s)
<1> DEFINE b == Append(a, x)
           m == Len(a)
           T == IF x.last THEN R \ {req} ELSE R
<1>1. /\ GoodLog(w, rp, a) /\ GoesOn(q, a)
      /\ \A r \in R : Mine(w, rp, r) => \A j \in 1 .. m : a[j].n = r.n => MidBurst(a) /\ r = req
      /\ \A r \in Known : Mine(w, rp, r) /\ r.n <= s => Done(a, r.n) \/ r \in R
      /\ \A j \in 1 .. m : a[j].n <= s
  BY DEF LogFor
<1>2. /\ b \in Seq(Entry) /\ Len(b) = m + 1 /\ m \in Nat /\ b[m + 1] = x
      /\ \A i \in 1 .. m : b[i] = a[i]
  BY Appended
<1>3. req \in Known /\ req = Numbered(w, rp, x.n) /\ req.n \in Nat \ {0} /\ x.last \in BOOLEAN
  BY SameRequest DEF Entry
<1>4. Follows(w, rp, a, x)
  <2>1. ~w => x.last = (x.beat = Beats(Numbered(w, rp, x.n)))
    BY <1>3
  <2>2. MidBurst(a) => x.n = a[Len(a)].n /\ x.beat = a[Len(a)].beat + 1
    BY <1>1 DEF GoesOn
  <2>3. ~MidBurst(a) => x.beat = 1
    BY <1>1 DEF GoesOn
  <2>4. ASSUME ~MidBurst(a), NEW n \in 1 .. (x.n - 1), Id(Numbered(w, rp, n)) = Id(Numbered(w, rp, x.n))
        PROVE  Done(a, n)
    <3> DEFINE r == Numbered(w, rp, n)
    <3>1. n \in 1 .. req.n /\ n < req.n /\ n \in Nat
      BY <1>3
    <3>2. r \in Known /\ Mine(w, rp, r) /\ r.n = n
      BY <1>3, <3>1, KnownBefore
    <3> HIDE DEF r
    <3>3. r.n <= s
      BY <1>3, <3>1, <3>2
    <3>4. CASE r \in R
      <4>1. Id(r) = Id(req)
        BY <1>3, <2>4 DEF r
      <4>2. r = req \/ req.n < r.n
        BY <3>2, <3>4, <4>1
      <4> QED BY <1>3, <3>1, <3>2, <4>2
    <3>5. CASE Done(a, r.n)
      BY <3>2, <3>5
    <3> QED BY <1>1, <3>2, <3>3, <3>4, <3>5
  <2>5. ~MidBurst(a) => \A j \in 1 .. m : a[j].n # x.n
    BY <1>1
  <2> QED BY <2>1, <2>2, <2>3, <2>4, <2>5 DEF Follows
<1>5. GoodLog(w, rp, b)
  BY <1>1, <1>4, GoodAppend
<1>6. MidBurst(b) <=> ~x.last
  BY <1>2 DEF MidBurst
<1>7. \A n : Done(b, n) <=> Done(a, n) \/ (x.n = n /\ x.last)
  <2> TAKE n
  <2>1. m + 1 \in 1 .. (m + 1) /\ \A i \in 1 .. m : i \in 1 .. (m + 1)
    BY <1>2
  <2>2. \A i \in 1 .. (m + 1) : i \in 1 .. m \/ i = m + 1
    BY <1>2
  <2>3. Done(b, n) => Done(a, n) \/ (x.n = n /\ x.last)
    <3> SUFFICES ASSUME Done(b, n) PROVE Done(a, n) \/ (x.n = n /\ x.last)
      OBVIOUS
    <3>1. PICK j \in 1 .. (m + 1) : b[j].n = n /\ b[j].last
      BY <1>2 DEF Done
    <3>2. CASE j \in 1 .. m
      BY <1>2, <3>1, <3>2 DEF Done
    <3>3. CASE j = m + 1
      BY <1>2, <3>1, <3>3
    <3> QED BY <2>2, <3>2, <3>3
  <2>4. Done(a, n) => Done(b, n)
    <3> SUFFICES ASSUME Done(a, n) PROVE Done(b, n)
      OBVIOUS
    <3>1. PICK j \in 1 .. m : a[j].n = n /\ a[j].last
      BY DEF Done
    <3>2. j \in 1 .. Len(b) /\ b[j].n = n /\ b[j].last
      BY <1>2, <2>1, <3>1
    <3> QED BY <3>2 DEF Done
  <2>5. x.n = n /\ x.last => Done(b, n)
    BY <1>2, <2>1 DEF Done
  <2> QED BY <2>3, <2>4, <2>5
<1> HIDE DEF b, m, T
<1>8. /\ Len(q) \in Nat \ {0} /\ Len(Tail(q)) = Len(q) - 1 /\ Tail(q) \in Seq(Reply)
      /\ \A i \in 1 .. (Len(q) - 1) : Tail(q)[i] = q[i + 1]
  BY HeadTail
<1>9. GoesOn(z, b)
  <2>1. CASE x.last
    <3>1. z = Tail(q)
      BY <2>1 DEF Replied
    <3>2. \A i \in 1 .. Len(z) : z[i].beat = 1
      <4> TAKE i \in 1 .. Len(z)
      <4>1. i + 1 \in 2 .. Len(q) /\ z[i] = q[i + 1]
        BY <1>8, <3>1
      <4> QED BY <1>1, <4>1 DEF GoesOn
    <3>3. z # <<>> => 1 \in 1 .. Len(z)
      BY <1>8, <3>1
    <3>4. \A i \in 2 .. Len(z) : i \in 1 .. Len(z)
      BY <1>8, <3>1
    <3> QED BY <1>6, <2>1, <3>2, <3>3, <3>4 DEF GoesOn
  <2>2. CASE ~x.last
    <3>1. /\ Len(z) = Len(q) /\ z[1] = [q[1] EXCEPT !.beat = q[1].beat + 1]
          /\ \A i \in 2 .. Len(q) : z[i] = q[i]
      BY <2>2 DEF Replied
    <3>2. q[1] \in Reply
      BY <1>8
    <3>3. z[1].req = q[1].req /\ z[1].beat = q[1].beat + 1
      BY <3>1, <3>2 DEF Reply
    <3>4. z # <<>>
      BY <1>8, <3>1
    <3>5. b[Len(b)] = x
      BY <1>2
    <3>6. \A i \in 2 .. Len(z) : z[i].beat = 1
      BY <1>1, <3>1 DEF GoesOn
    <3> QED BY <1>6, <2>2, <3>3, <3>4, <3>5, <3>6 DEF GoesOn
  <2> QED BY <1>3, <2>1, <2>2
<1>10. ASSUME NEW r \in T, Mine(w, rp, r), NEW j \in 1 .. Len(b), b[j].n = r.n
       PROVE  MidBurst(b) /\ r = z[1].req
  <2>1. r \in R /\ r \in Known /\ (x.last => r # req)
    BY DEF T
  <2>2. r = req
    <3>1. CASE j = m + 1
      <4>1. r.n = x.n
        BY <1>2, <1>10, <3>1
      <4>2. r = Numbered(w, rp, r.n)
        BY <1>10, <2>1, SameRequest
      <4> QED BY <1>3, <4>1, <4>2
    <3>2. CASE j \in 1 .. m
      BY <1>1, <1>2, <1>10, <2>1, <3>2
    <3>3. j = m + 1 \/ j \in 1 .. m
      BY <1>2
    <3> QED BY <3>1, <3>2, <3>3
  <2>3. ~x.last
    BY <2>1, <2>2
  <2>4. z[1] = [q[1] EXCEPT !.beat = q[1].beat + 1] /\ q[1] \in Reply
    BY <1>8, <2>3 DEF Replied
  <2>5. z[1].req = q[1].req
    BY <2>4 DEF Reply
  <2> QED BY <1>6, <2>2, <2>3, <2>5
<1>11. ASSUME NEW r \in Known, Mine(w, rp, r), r.n <= s
       PROVE  Done(b, r.n) \/ r \in T
  BY <1>1, <1>7, <1>11 DEF T
<1>12. \A j \in 1 .. Len(b) : b[j].n <= s
  <2> TAKE j \in 1 .. Len(b)
  <2>1. j = m + 1 \/ j \in 1 .. m
    BY <1>2
  <2> QED BY <1>1, <1>2, <2>1
<1>13. LogFor(w, rp, b, z, T, s)
  BY <1>5, <1>9, <1>10, <1>11, <1>12 DEF LogFor
<1> QED BY <1>13 DEF b, T

\* Steps of other planes and directions.
LEMMA LogOther ==
  ASSUME NEW w, NEW rp, NEW a, NEW q, NEW s, NEW R \in SUBSET Known, NEW T \in SUBSET Known,
         LogFor(w, rp, a, q, R, s), \A r \in Known : Mine(w, rp, r) => (r \in R <=> r \in T)
  PROVE  LogFor(w, rp, a, q, T, s)
BY DEF LogFor

\* A reply that is queued comes after those before it.
LEMMA LogQueue ==
  ASSUME NEW w, NEW rp, NEW a, NEW q \in Seq(Reply), NEW s, NEW R, NEW req \in Known,
         LogFor(w, rp, a, q, R, s)
  PROVE  LogFor(w, rp, a, Append(q, [req |-> req, beat |-> 1]), R, s)
<1> DEFINE y == [req |-> req, beat |-> 1]
           z == Append(q, y)
           m == Len(q)
<1>0. y \in Reply /\ y.beat = 1
  BY DEF Reply
<1> HIDE DEF y
<1>1. /\ Len(z) = m + 1 /\ m \in Nat /\ z[m + 1] = y /\ \A i \in 1 .. m : z[i] = q[i]
  BY <1>0, Appended
<1>2. q # <<>> => m # 0
  OBVIOUS
<1>3. GoesOn(q, a) /\ (MidBurst(a) => q # <<>>)
  BY DEF LogFor, GoesOn
<1> HIDE DEF z, m
<1>4. q # <<>> => z[1] = q[1]
  BY <1>1, <1>2
<1>5. z # <<>>
  BY <1>1
<1>6. q = <<>> => z[1] = y
  BY <1>1 DEF m
<1>7. GoesOn(z, a)
  <2>1. \A i \in 2 .. Len(z) : z[i].beat = 1
    <3> TAKE i \in 2 .. Len(z)
    <3>1. i = m + 1 \/ (i \in 2 .. m /\ i \in 1 .. m)
      BY <1>1
    <3> QED BY <1>0, <1>1, <1>3, <3>1 DEF GoesOn, m
  <2> QED BY <1>0, <1>3, <1>4, <1>5, <1>6, <2>1 DEF GoesOn
<1>8. LogFor(w, rp, a, z, R, s)
  <2>1. \A r \in R : Mine(w, rp, r) => \A j \in 1 .. Len(a) : a[j].n = r.n => MidBurst(a) /\ r = q[1].req
    BY DEF LogFor
  <2>2. \A r \in R : Mine(w, rp, r) => \A j \in 1 .. Len(a) : a[j].n = r.n => MidBurst(a) /\ r = z[1].req
    BY <1>3, <1>4, <2>1
  <2> QED BY <1>7, <2>2 DEF LogFor
<1> QED BY <1>8 DEF z, y

\* A request that is sent is in no log yet.
LEMMA LogSent ==
  ASSUME NEW w, NEW rp, NEW a \in Seq(Entry), NEW q, NEW s \in Nat, NEW R,
         LogFor(w, rp, a, q, R, s)
  PROVE  LogFor(w, rp, a, q, R \cup {Numbered(w, rp, s + 1)}, s + 1)
<1> DEFINE t == Numbered(w, rp, s + 1)
<1>1. t.n = s + 1
  BY DEF Numbered
<1>2. \A j \in 1 .. Len(a) : a[j].n \in Nat /\ a[j].n <= s
  <2>1. \A j \in 1 .. Len(a) : a[j] \in Entry
    OBVIOUS
  <2> QED BY <2>1 DEF LogFor, Entry
<1>3. \A j \in 1 .. Len(a) : a[j].n <= s + 1 /\ a[j].n # s + 1
  BY <1>2
<1>4. ASSUME NEW r \in Known, Mine(w, rp, r), r.n <= s + 1
      PROVE  Done(a, r.n) \/ r \in R \cup {t}
  <2>1. r = Numbered(w, rp, r.n) /\ r.n \in Nat
    BY <1>4, SameRequest
  <2>2. r.n <= s \/ r.n = s + 1
    BY <1>4, <2>1
  <2> QED BY <1>4, <2>1, <2>2 DEF LogFor
<1> HIDE DEF t
<1>5. \A r \in R \cup {t} : Mine(w, rp, r) =>
         \A j \in 1 .. Len(a) : a[j].n = r.n => MidBurst(a) /\ r = q[1].req
  BY <1>1, <1>3 DEF LogFor
<1>6. LogFor(w, rp, a, q, R \cup {t}, s + 1)
  BY <1>3, <1>4, <1>5 DEF LogFor
<1> QED BY <1>6 DEF t

Logs     == [BOOLEAN -> [Planes -> Seq(Entry)]]
GoodLogs == {L \in Logs : \A w \in BOOLEAN, rp \in Planes : GoodLog(w, rp, L[w][rp])}

\* The log with a response to msg.
Logged(L, msg) == [L EXCEPT ![msg.req.write][msg.req.rp] = Append(@, Answer(msg))]

\* How a fragment and a flit move the log of the bridge.
LogStep == {x \in GoodLogs \X Fragment \X GoodLogs : x[3] = Answered(x[1], x[2])}
LogFlit == {x \in GoodLogs \X Flit \X GoodLogs : Leads(x[2].fragments, LogStep, x[1], x[3])}

\* A response goes to the log of its plane and direction, the others stay.
LEMMA LoggedFacts ==
  ASSUME NEW L \in Logs, NEW msg \in Rsp
  PROVE  /\ Answer(msg) \in Entry /\ msg.req.write \in BOOLEAN /\ msg.req.rp \in Planes
         /\ Logged(L, msg) \in Logs
         /\ Logged(L, msg)[msg.req.write][msg.req.rp] = Append(L[msg.req.write][msg.req.rp], Answer(msg))
         /\ \A v \in BOOLEAN, p \in Planes : v # msg.req.write \/ p # msg.req.rp => Logged(L, msg)[v][p] = L[v][p]
<1> DEFINE w == msg.req.write
           rp == msg.req.rp
           y == Append(L[w][rp], Answer(msg))
<1>1. w \in BOOLEAN /\ rp \in Planes /\ Answer(msg) \in Entry
  BY DEF Rsp, Request, Answer, Entry
<1>2. L[w][rp] \in Seq(Entry) /\ y \in Seq(Entry)
  BY <1>1 DEF Logs
<1>3. Logged(L, msg) = [L EXCEPT ![w][rp] = y]
  BY <1>1 DEF Logged, Logs
<1> HIDE DEF w, rp, y
<1>4. /\ [L EXCEPT ![w][rp] = y] \in Logs /\ [L EXCEPT ![w][rp] = y][w][rp] = y
      /\ \A v \in BOOLEAN, p \in Planes : v # w \/ p # rp => [L EXCEPT ![w][rp] = y][v][p] = L[v][p]
  BY <1>1, <1>2 DEF Logs
<1> QED BY <1>1, <1>3, <1>4 DEF w, rp, y

\* What the bridge does with a fragment.
LEMMA AnsweredFacts ==
  ASSUME NEW L \in Logs, NEW f \in Fragment
  PROVE  /\ f.msg \in Rsp /\ Answered(L, f) \in Logs
         /\ Answered(L, f) = IF Finished(f) THEN Logged(L, f.msg) ELSE L
<1>1. f.msg \in Rsp
  BY DEF Fragment
<1>2. Answered(L, f) = IF Finished(f) THEN Logged(L, f.msg) ELSE L
  BY DEF Answered, Logged
<1> QED BY <1>1, <1>2, LoggedFacts

\* receive of the bridge goes through the fragments of a flit.
LEMMA LoggedAll ==
  ASSUME NEW d \in GoodLogs, NEW u, NEW s \in Seq(Fragment), Leads(s, LogStep, d, u)
  PROVE  FoldLeft(Answered, d, s) = u
<1> DEFINE n == Len(s)
           h == [i \in 1 .. n |-> [t \in Logs |-> Answered(t, s[i])]]
           Eq(it) == it = [z \in SUBSET DOMAIN s |->
                             IF z = {} THEN d ELSE Answered(it[z \ {Max(z)}], s[Max(z)])]
           it == CHOOSE g : Eq(g)
<1>1. n \in Nat /\ DOMAIN s = 1 .. n /\ d \in Logs /\ \A i \in 1 .. n : s[i] \in Fragment
  BY DEF GoodLogs
<1>2. PICK e : IsPath(e, s, LogStep) /\ e[0] = d /\ e[Len(s)] = u
  BY DEF Leads
<1>3. \A i \in 1 .. n : <<e[i - 1], s[i], e[i]>> \in LogStep
  BY <1>2 DEF IsPath
<1> HIDE DEF n
<1>5. h \in [1 .. n -> [Logs -> Logs]]
  <2>1. \A i \in 1 .. n : \A t \in Logs : Answered(t, s[i]) \in Logs
    BY <1>1, AnsweredFacts
  <2> QED BY <2>1
<1>6. \A i \in 1 .. n : \A t \in Logs : h[i][t] = Answered(t, s[i])
  OBVIOUS
<1> HIDE DEF h
<1>7. PICK g \in [SUBSET (1 .. n) -> Logs] : IsIter(g, n, d, h)
  BY <1>1, <1>5, FoldIter
<1>8. /\ g[{}] = d
      /\ \A z \in SUBSET (1 .. n) : z # {} => g[z] = h[Max(z)][g[z \ {Max(z)}]]
  BY <1>7, Zenon DEF IsIter
<1>9. ASSUME NEW z \in SUBSET (1 .. n), z # {} PROVE g[z] = Answered(g[z \ {Max(z)}], s[Max(z)])
  <2>1. Max(z) \in 1 .. n /\ z \ {Max(z)} \in SUBSET (1 .. n)
    BY <1>1, <1>9, MaxFacts
  <2>2. g[z \ {Max(z)}] \in Logs
    BY <2>1
  <2> QED BY <1>6, <1>8, <1>9, <2>1, <2>2
<1>10. Eq(g)
  BY <1>1, <1>8, <1>9
<1>11. Eq(it)
  <2> HIDE DEF Eq
  <2> QED BY <1>10
<1>12. FoldLeft(Answered, d, s) = it[DOMAIN s]
  BY DEF FoldLeft, MapThenFoldSet
<1> HIDE DEF it
<1> DEFINE c == [i \in 0 .. n |-> it[1 .. i]]
<1>13. it[{}] = d /\ \A z \in SUBSET (1 .. n) : z # {} => it[z] = Answered(it[z \ {Max(z)}], s[Max(z)])
  BY <1>1, <1>11
<1>14. c[0] = d /\ \A i \in 1 .. n : c[i] = Answered(c[i - 1], s[i])
  <2>1. c[0] = d
    BY <1>1, <1>13
  <2>2. ASSUME NEW i \in 1 .. n PROVE c[i] = Answered(c[i - 1], s[i])
    <3>1. /\ 1 .. i \in SUBSET (1 .. n) /\ 1 .. i # {} /\ Max(1 .. i) = i
          /\ (1 .. i) \ {i} = 1 .. (i - 1)
      BY <1>1, IntervalParts
    <3>2. i \in 0 .. n /\ i - 1 \in 0 .. n
      BY <1>1
    <3>3. c[i] = it[1 .. i] /\ c[i - 1] = it[1 .. (i - 1)]
      BY <3>2
    <3> QED BY <3>1, <3>3, <1>13
  <2> QED BY <2>1, <2>2
<1>15. c[n] = it[DOMAIN s]
  BY <1>1
<1> HIDE DEF c, Eq
<1> DEFINE T == {i \in Nat : c[i] = e[i]}
           id == [i \in 0 .. n |-> i]
<1>16. ASSUME NEW i \in 1 .. n, id[i - 1] \in T PROVE id[i] \in T
  <2>1. i - 1 \in 0 .. n /\ i \in 0 .. n
    BY <1>1
  <2>2. c[i - 1] = e[i - 1] /\ <<e[i - 1], s[i], e[i]>> \in LogStep
    BY <2>1, <1>3, <1>16
  <2>3. e[i] = Answered(e[i - 1], s[i])
    BY <2>2 DEF LogStep
  <2> QED BY <2>1, <2>2, <2>3, <1>14
<1>17. id[0] \in T /\ n \in 0 .. n /\ id[n] = n
  BY <1>1, <1>2, <1>14
<1> HIDE DEF T, id
<1>18. \A i \in 0 .. n : id[i] \in T
  BY <1>1, <1>16, <1>17, Along, Zenon
<1>19. c[n] = e[n]
  BY <1>17, <1>18 DEF T
<1> QED BY <1>2, <1>12, <1>15, <1>19 DEF n

-----------------------------------------------------------------------------
\* Every log is one for the replies, the requests that wait and those sent.
LogsFor(G) ==
    \A w \in BOOLEAN, rp \in Planes :
      LogFor(w, rp, G[w][rp], replies_[w][rp], Requests(Waiting), sent[ReqKind(w)][rp])

\* A log for the rest of the target is a good one.
LEMMA LogsGood ==
  ASSUME NEW G \in Logs, LogsFor(G)
  PROVE  G \in GoodLogs
BY DEF LogsFor, LogFor, GoodLogs

\* A response that is packed is an entry of the log of its plane.
LEMMA LogsPack ==
  ASSUME TypeInv, PlaceInv, WaitInv, NEW G \in Logs, LogsFor(G),
         NEW w \in BOOLEAN, NEW rp \in Planes, PackReply(w, rp),
         NEW L, L = Logged(G, PackedMsg(w, rp))
  PROVE  LogsFor(L)' /\ L \in Logs
<1> DEFINE msg == PackedMsg(w, rp)
           q   == replies_[w][rp]
           z   == replies_'[w][rp]
           req == PackedReply(w, rp).req
           x   == Answer(msg)
           R   == Requests(Waiting)
           T   == Requests(Waiting')
           a   == G[w][rp]
           s   == sent[ReqKind(w)][rp]
<1>1. /\ q \in Seq(Reply) /\ q # <<>> /\ PackedReply(w, rp) \in Reply /\ Mine(w, rp, req)
      /\ msg \in Rsp /\ msg.last = (w \/ PackedReply(w, rp).beat = Beats(req))
  BY PackFacts DEF Mine
<1>2. PackedReply(w, rp) = q[1]
  BY <1>1, HeadTail DEF PackedReply
<1>3. msg.req = req /\ msg.beat = q[1].beat /\ req = q[1].req
  BY <1>2 DEF PackedMsg, Response
<1>4. x.n = req.n /\ x.beat = q[1].beat /\ x.last = msg.last
  BY <1>3 DEF Answer
<1>5. /\ x \in Entry /\ L \in Logs /\ L[w][rp] = Append(a, x)
      /\ \A v \in BOOLEAN, p \in Planes : v # w \/ p # rp => L[v][p] = G[v][p]
  <2>1. msg.req.write = w /\ msg.req.rp = rp /\ L = Logged(G, msg)
    BY <1>1, <1>3 DEF Mine
  <2>2. msg \in Rsp
    BY <1>1
  <2> HIDE DEF msg, req
  <2>3. /\ Answer(msg) \in Entry /\ Logged(G, msg) \in Logs
        /\ Logged(G, msg)[msg.req.write][msg.req.rp] = Append(G[msg.req.write][msg.req.rp], Answer(msg))
        /\ \A v \in BOOLEAN, p \in Planes : v # msg.req.write \/ p # msg.req.rp => Logged(G, msg)[v][p] = G[v][p]
    BY <2>2, LoggedFacts
  <2> QED BY <2>1, <2>3
<1>6. /\ InOrder(Waiting) /\ \A r \in R : r \in Known /\ r.n <= sent[ReqKind(r.write)][r.rp]
  BY DEF WaitInv, Requests
<1>7. /\ req \in R /\ <<1, 1, req>> \in Waiting
      /\ T = IF msg.last THEN R \ {req} ELSE R
  BY <1>6, PackWaits
<1>8. /\ msg.last => z = Tail(q)
      /\ ~msg.last => /\ Len(z) = Len(q)
                      /\ z[1] = [PackedReply(w, rp) EXCEPT !.beat = PackedReply(w, rp).beat + 1]
                      /\ \A i \in 2 .. Len(q) : z[i] = q[i]
      /\ \A v \in BOOLEAN, p \in Planes : v # w \/ p # rp => replies_'[v][p] = replies_[v][p]
  BY PackReplies, Zenon
<1>9. sent' = sent /\ sent \in [{"RREQ", "WREQ"} -> [Planes -> Nat]]
  BY DEF PackReply, TypeInv
<1>10. ReqKind(w) \in {"RREQ", "WREQ"} /\ s \in Nat
  BY <1>9 DEF ReqKind
<1>11. Replied(q, z, x.last)
  BY <1>2, <1>4, <1>8 DEF Replied
<1>12. \A r \in R : Mine(w, rp, r) /\ Id(r) = Id(req) => r = req \/ req.n < r.n
  <2> SUFFICES ASSUME NEW r \in R, Mine(w, rp, r), Id(r) = Id(req), r # req
               PROVE  req.n < r.n
    OBVIOUS
  <2>1. PICK b \in 1 .. 4, i \in Nat : <<b, i, r>> \in Waiting
    BY DEF Requests
  <2>2. r \in Known /\ req \in Known
    BY <1>6, <1>7
  <2>3. b = 1 => i \in 1 .. Len(q) /\ q[i].req = r
    BY <2>1, <2>2, WaitingAt DEF AmongReplies, Mine
  <2>4. Len(q) \in Nat
    BY <1>1
  <2>5. 1 < b \/ (1 = b /\ 1 < i)
    <3>1. CASE b = 1
      <4>1. i # 1
        BY <1>3, <2>3, <3>1
      <4> HIDE DEF q
      <4> QED BY <2>3, <2>4, <3>1, <4>1
    <3> QED BY <3>1
  <2>6. Earlier(req, r)
    <3>1. 1 \in 1 .. 4 /\ 1 \in Nat
      OBVIOUS
    <3> QED BY <1>6, <1>7, <2>1, <2>2, <2>5, <3>1 DEF InOrder
  <2> QED BY <1>1, <2>6 DEF Earlier, SamePlane, Mine
<1>13. LogFor(w, rp, a, q, R, s)
  BY DEF LogsFor
<1>14. /\ a \in Seq(Entry) /\ R \in SUBSET Known /\ req.n <= s
  <2>1. R \in SUBSET Known
    BY <1>6
  <2>2. req.n <= s
    BY <1>1, <1>6, <1>7 DEF Mine
  <2> QED BY <2>1, <2>2 DEF Logs
<1>15. ~w => x.last = (x.beat = Beats(req))
  BY <1>1, <1>2, <1>4
<1> HIDE DEF msg, q, z, req, x, R, T, a, s
<1>16. LogFor(w, rp, Append(a, x), z, IF x.last THEN R \ {req} ELSE R, s)
  BY <1>1, <1>3, <1>4, <1>5, <1>7, <1>10, <1>11, <1>12, <1>13, <1>14, <1>15, LogPack
<1>17. LogFor(w, rp, L[w][rp], z, T, s)
  BY <1>4, <1>5, <1>7, <1>16
<1>18. ASSUME NEW v \in BOOLEAN, NEW p \in Planes, v # w \/ p # rp
       PROVE  LogFor(v, p, L[v][p], replies_'[v][p], T, sent[ReqKind(v)][p])
  <2>1. LogFor(v, p, G[v][p], replies_[v][p], R, sent[ReqKind(v)][p])
    BY DEF LogsFor, R
  <2>2. T \in SUBSET Known
    BY <1>7, <1>14
  <2>3. \A r \in Known : Mine(v, p, r) => (r \in R <=> r \in T)
    BY <1>1, <1>7, <1>18 DEF Mine
  <2>4. LogFor(v, p, G[v][p], replies_[v][p], T, sent[ReqKind(v)][p])
    BY <1>14, <2>1, <2>2, <2>3, LogOther
  <2> QED BY <1>5, <1>8, <1>18, <2>4
<1>19. \A v \in BOOLEAN, p \in Planes : LogFor(v, p, L[v][p], replies_'[v][p], T, sent'[ReqKind(v)][p])
  BY <1>9, <1>17, <1>18 DEF z, s
<1> QED BY <1>5, <1>19 DEF LogsFor, T

\* The log is not touched by a step that packs nothing.
LEMMA LogsStay ==
  ASSUME TypeInv, PlaceInv, WaitInv, [Next]_vars, NEW G \in Logs, LogsFor(G),
         ~\E w \in BOOLEAN, rp \in Planes : PackReply(w, rp)
  PROVE  LogsFor(G)'
<1> DEFINE R == Requests(Waiting)
           T == Requests(Waiting')
<1>1. \A w \in BOOLEAN, rp \in Planes : LogFor(w, rp, G[w][rp], replies_[w][rp], R, sent[ReqKind(w)][rp])
  BY DEF LogsFor
<1>2. /\ sent \in [{"RREQ", "WREQ"} -> [Planes -> Nat]]
      /\ replies_ \in [BOOLEAN -> [Planes -> Seq(Reply)]]
  BY DEF TypeInv
<1>3. \A w \in BOOLEAN, rp \in Planes :
        /\ G[w][rp] \in Seq(Entry) /\ replies_[w][rp] \in Seq(Reply) /\ sent[ReqKind(w)][rp] \in Nat
  BY <1>2 DEF Logs, ReqKind
<1>4. ASSUME NEW k \in {"RREQ", "WREQ"}, NEW rp \in Planes, SendRequest(k, rp)
      PROVE  LogsFor(G)'
  <2>1. /\ T = R \cup {Sent(k, rp)} /\ Sent(k, rp) \in Known
        /\ \A w \in BOOLEAN, p \in Planes :
             sent'[ReqKind(w)][p] = IF ReqKind(w) = k /\ p = rp THEN sent[k][rp] + 1 ELSE sent[ReqKind(w)][p]
        /\ ReqKind(k = "WREQ") = k /\ sent[k][rp] \in Nat
    BY <1>4, SendWaits
  <2>2. replies_' = replies_
    BY <1>4 DEF SendRequest
  <2>3. \A w \in BOOLEAN : ReqKind(w) = k <=> w = (k = "WREQ")
    BY DEF ReqKind
  <2>4. R \in SUBSET Known /\ T \in SUBSET Known
    BY DEF Requests
  <2> HIDE DEF R, T
  <2>5. ASSUME NEW w \in BOOLEAN, NEW p \in Planes
        PROVE  LogFor(w, p, G[w][p], replies_'[w][p], T, sent'[ReqKind(w)][p])
    <3>1. LogFor(w, p, G[w][p], replies_[w][p], R, sent[ReqKind(w)][p])
      BY <1>1
    <3>2. CASE ReqKind(w) = k /\ p = rp
      <4>1. Sent(k, rp) = Numbered(w, p, sent[ReqKind(w)][p] + 1)
        BY <2>3, <3>2 DEF Sent, Numbered
      <4>2. LogFor(w, p, G[w][p], replies_[w][p], R \cup {Numbered(w, p, sent[ReqKind(w)][p] + 1)},
                   sent[ReqKind(w)][p] + 1)
        BY <1>3, <3>1, LogSent
      <4> QED BY <2>1, <2>2, <3>2, <4>1, <4>2
    <3>3. CASE ~(ReqKind(w) = k /\ p = rp)
      <4>1. ~Mine(w, p, Sent(k, rp))
        BY <2>3, <3>3 DEF Sent, Mine
      <4>2. \A r \in Known : Mine(w, p, r) => (r \in R <=> r \in T)
        BY <2>1, <4>1
      <4>3. LogFor(w, p, G[w][p], replies_[w][p], T, sent[ReqKind(w)][p])
        BY <2>4, <3>1, <4>2, LogOther
      <4> QED BY <2>1, <2>2, <3>3, <4>3
    <3> QED BY <3>2, <3>3
  <2> QED BY <2>5 DEF LogsFor, T
<1>5. CASE T = R /\ UNCHANGED sent /\ UNCHANGED replies_
  BY <1>1, <1>5 DEF LogsFor
<1>6. CASE T = R /\ UNCHANGED sent /\ Collect
  <2> DEFINE req == Head(mem_rsp)
  <2>1. /\ req \in Known
        /\ \A w \in BOOLEAN, rp \in Planes :
             replies_'[w][rp] = IF w = req.write /\ rp = req.rp
                                  THEN Append(replies_[w][rp], [req |-> req, beat |-> 1])
                                  ELSE replies_[w][rp]
    BY <1>6, CollectWaits DEF WaitInv
  <2> HIDE DEF req, R, T
  <2>2. ASSUME NEW w \in BOOLEAN, NEW p \in Planes
        PROVE  LogFor(w, p, G[w][p], replies_'[w][p], T, sent'[ReqKind(w)][p])
    <3>1. LogFor(w, p, G[w][p], replies_[w][p], R, sent[ReqKind(w)][p])
      BY <1>1
    <3>2. LogFor(w, p, G[w][p], Append(replies_[w][p], [req |-> req, beat |-> 1]), R, sent[ReqKind(w)][p])
      BY <1>3, <2>1, <3>1, LogQueue
    <3> QED BY <1>6, <2>1, <3>1, <3>2
  <2> QED BY <2>2 DEF LogsFor, T
<1> HIDE DEF LogsFor
<1> QED BY <1>4, <1>5, <1>6, WaitMoves

\* The fragments of the flit that is being packed.
Packing == IF stage = "pack" THEN flit.fragments ELSE <<>>

\* The log with the response of which the tail is still to be packed.
WithTail(L) == IF spill_ = NoCarry THEN L ELSE Logged(L, spill_.msg)

\* What the bridge has logged and what is on its way make up the log of the
\* target.
LogInv ==
    /\ answered \in GoodLogs
    /\ \E M \in GoodLogs, N \in GoodLogs :
         /\ Leads(link_tx, LogFlit, answered, M) /\ Leads(Packing, LogStep, M, N)
         /\ \E G \in Logs : G = WithTail(N) /\ LogsFor(G)

\* Every step keeps the log of the bridge along with what is on its way.
LEMMA LogInvStep ==
  ASSUME TypeInv, PlaceInv, DecodeInv, WaitInv, LogInv, [Next]_vars
  PROVE  LogInv'
<1>1. PICK M \in GoodLogs, N \in GoodLogs :
         /\ Leads(link_tx, LogFlit, answered, M) /\ Leads(Packing, LogStep, M, N)
         /\ \E G \in Logs : G = WithTail(N) /\ LogsFor(G)
  BY DEF LogInv
<1>2. PICK G \in Logs : G = WithTail(N) /\ LogsFor(G)
  BY <1>1
<1>3. /\ answered \in GoodLogs /\ M \in Logs /\ N \in Logs
  BY DEF LogInv, GoodLogs
<1>4. link_tx \in Seq(Flit) /\ flit \in PartFlit /\ spill_ \in Carry /\ flit.fragments \in Seq(Fragment)
  BY DEF TypeInv, PartFlit
<1>5. G \in GoodLogs
  BY <1>2, LogsGood
<1>6. \A w \in BOOLEAN, rp \in Planes : PackReply(w, rp) => stage = "pack" /\ stage' = "pack"
  <2> TAKE w \in BOOLEAN, rp \in Planes
  <2>1. PackReply(w, rp) => stage = "pack" /\ UNCHANGED stage
    BY Zenon DEF PackReply
  <2> QED BY <2>1
<1>7. CASE UNCHANGED <<answered, link_tx, spill_>> /\ Packing' = Packing
           /\ ~\E w \in BOOLEAN, rp \in Planes : PackReply(w, rp)
  <2>1. LogsFor(G)'
    BY <1>2, <1>7, LogsStay
  <2>2. G = WithTail(N)'
    BY <1>2, <1>7 DEF WithTail
  <2> QED BY <1>1, <1>3, <1>7, <2>1, <2>2 DEF LogInv
<1>8. CASE stage # "pack" /\ stage' # "pack" /\ UNCHANGED <<answered, link_tx, spill_>>
  <2>1. Packing' = Packing
    BY <1>8 DEF Packing
  <2> QED BY <1>6, <1>7, <1>8, <2>1
<1>9. ASSUME NEW w \in BOOLEAN, NEW rp \in Planes, PackReply(w, rp) PROVE LogInv'
  <2> DEFINE msg  == PackedMsg(w, rp)
             took == PackedPart(w, rp)
             x    == [msg |-> msg, from |-> 0, take |-> took]
  <2>1. /\ stage = "pack" /\ stage' = "pack" /\ flit'.fragments = Append(flit.fragments, x)
        /\ spill_' = IF IsCut(w, rp) THEN [msg |-> msg, have |-> took] ELSE NoCarry
    BY <1>9, PackEffect
  <2>2. /\ spill_ = NoCarry /\ msg \in Rsp /\ msg.kind = KindOf(w) /\ took \in Nat \ {0}
        /\ took <= Granules[KindOf(w)] /\ Granules[KindOf(w)] \in Nat
    BY <1>9, PackFacts
  <2>3. UNCHANGED <<link_tx, answered>>
    BY <1>9 DEF PackReply
  <2>4. PICK L : L = Logged(G, msg)
    OBVIOUS
  <2>5. LogsFor(L)' /\ L \in Logs
    BY <1>2, <1>9, <2>4, LogsPack
  <2>6. G = N
    BY <1>2, <2>2 DEF WithTail
  <2> HIDE DEF msg, took
  <2>7. x \in Fragment /\ x.from = 0 /\ x.msg = msg /\ x.take = took
    BY <2>2 DEF Fragment
  <2>8. Finished(x) <=> ~IsCut(w, rp)
    BY <2>2, <2>7 DEF Finished, IsCut, took
  <2> HIDE DEF x
  <2>9. Packing' = Append(flit.fragments, x) /\ Packing = flit.fragments
    BY <2>1 DEF Packing
  <2>10. Answered(N, x) = IF Finished(x) THEN L ELSE N
    BY <1>3, <2>4, <2>6, <2>7, AnsweredFacts
  <2>11. CASE IsCut(w, rp)
    <3>1. <<N, x, N>> \in LogStep
      BY <2>7, <2>8, <2>10, <2>11 DEF LogStep
    <3>2. Leads(Packing', LogStep, M, N)
      BY <1>1, <1>4, <2>7, <2>9, <3>1, LeadsAppend
    <3>3. spill_' # NoCarry /\ spill_'.msg = msg
      <4>1. spill_' = [msg |-> msg, have |-> took]
        BY <2>1, <2>11
      <4>2. spill_'.have = took /\ NoCarry.have = 0
        BY <4>1 DEF NoCarry
      <4> QED BY <2>2, <4>1, <4>2
    <3>4. L = WithTail(N)'
      BY <2>4, <2>6, <3>3 DEF WithTail
    <3> QED BY <1>1, <1>3, <2>3, <2>5, <3>2, <3>4 DEF LogInv
  <2>12. CASE ~IsCut(w, rp)
    <3>1. L \in GoodLogs
      BY <2>5 DEF LogsFor, LogFor, GoodLogs
    <3>2. <<N, x, L>> \in LogStep
      BY <2>7, <2>8, <2>10, <2>12, <3>1 DEF LogStep
    <3>3. Leads(Packing', LogStep, M, L)
      BY <1>1, <1>4, <2>7, <2>9, <3>2, LeadsAppend
    <3>4. L = WithTail(L)'
      BY <2>1, <2>12 DEF WithTail
    <3> QED BY <1>1, <1>3, <2>3, <2>5, <3>1, <3>3, <3>4 DEF LogInv
  <2> QED BY <2>11, <2>12
<1>10. CASE ResumeSpill
  <2> DEFINE x == [msg |-> spill_.msg, from |-> spill_.have,
                   take |-> Granules[spill_.msg.kind] - spill_.have]
  <2>1. /\ stage = "transmit" /\ stage' = "pack" /\ spill_ # NoCarry
        /\ UNCHANGED <<link_tx, answered>>
    BY <1>10 DEF ResumeSpill
  <2>2. spill_' = NoCarry /\ flit'.fragments = <<x>>
    BY <1>10, ResumeFacts
  <2>3. spill_.msg \in Rsp /\ spill_.have \in Nat /\ spill_.have < Granules[spill_.msg.kind]
    BY <1>4, <2>1, CarryFacts
  <2>4. x \in Fragment /\ x.msg = spill_.msg /\ Finished(x)
    <3>1. Granules[spill_.msg.kind] \in Nat
      BY <2>3, GranulesFacts DEF Rsp
    <3>2. Granules[spill_.msg.kind] - spill_.have \in Nat
      BY <2>3, <3>1
    <3> QED BY <2>3, <3>1, <3>2 DEF Finished, Fragment
  <2> HIDE DEF x
  <2>5. Packing = <<>> /\ Packing' = <<x>>
    BY <2>1, <2>2 DEF Packing
  <2>6. M = N
    BY <1>1, <2>5, LeadsNothing
  <2>7. G = Logged(N, x.msg)
    BY <1>2, <2>1, <2>4 DEF WithTail
  <2>8. Answered(N, x) = G
    BY <1>3, <2>4, <2>7, AnsweredFacts
  <2>9. <<N, x, G>> \in LogStep
    BY <1>5, <2>4, <2>8 DEF LogStep
  <2>10. Leads(Append(<<>>, x), LogStep, N, G)
    <3>1. <<>> \in Seq(Fragment) /\ Leads(<<>>, LogStep, N, N)
      BY LeadsEmpty
    <3> QED BY <2>4, <2>9, <3>1, LeadsAppend
  <2>11. Append(<<>>, x) = <<x>>
    OBVIOUS
  <2>12. Leads(Packing', LogStep, M, G)
    BY <2>5, <2>6, <2>10, <2>11
  <2>13. LogsFor(G)'
    BY <1>2, <1>6, <2>1, LogsStay
  <2>14. G = WithTail(G)'
    BY <2>2 DEF WithTail
  <2> QED BY <1>1, <1>3, <1>5, <2>1, <2>12, <2>13, <2>14 DEF LogInv
<1>11. CASE NewFlit
  <2>1. /\ stage = "transmit" /\ stage' = "pack" /\ flit' = EmptyFlit
        /\ UNCHANGED <<link_tx, answered, spill_>>
    BY <1>11 DEF NewFlit
  <2>2. Packing' = Packing
    BY <2>1 DEF Packing, EmptyFlit
  <2> QED BY <1>6, <1>7, <2>1, <2>2
<1>12. CASE (\E rp \in Planes : SendWithCredit(rp)) \/ SendWithoutCredit
  <2>1. PICK rp \in Planes, grant \in [ReqKinds -> Nat] : SendFlit(rp, grant) /\ stage = "pack"
    <3>1. NoReturns \in [ReqKinds -> Nat] /\ 0 \in Planes
      BY PlanesFacts DEF NoReturns
    <3>2. \A rp \in Planes : returns[rp] \in [ReqKinds -> Nat]
      BY DEF TypeInv
    <3> QED BY <1>12, <3>1, <3>2 DEF SendWithCredit, SendWithoutCredit, PackedAll
  <2> DEFINE f == [fragments |-> flit.fragments, rp |-> rp, credit |-> grant]
  <2>2. /\ link_tx' = Append(link_tx, f) /\ stage' = "receive"
        /\ UNCHANGED <<answered, spill_>>
    BY <2>1 DEF SendFlit
  <2>3. f \in Flit /\ f.fragments = flit.fragments
    BY <1>4 DEF Flit
  <2> HIDE DEF f
  <2>4. Packing = f.fragments /\ Packing' = <<>>
    BY <2>1, <2>2, <2>3 DEF Packing
  <2>5. <<M, f, N>> \in LogFlit
    BY <1>1, <2>3, <2>4 DEF LogFlit
  <2>6. Leads(link_tx', LogFlit, answered, N)
    BY <1>1, <1>4, <2>2, <2>3, <2>5, LeadsAppend
  <2>7. Leads(Packing', LogStep, N, N)
    BY <2>4, LeadsEmpty
  <2>8. LogsFor(G)'
    BY <1>2, <1>6, <2>2, LogsStay
  <2>9. G = WithTail(N)'
    BY <1>2, <2>2 DEF WithTail
  <2> QED BY <1>3, <2>2, <2>6, <2>7, <2>8, <2>9 DEF LogInv
<1>13. CASE SendNothing
  <2>1. /\ stage = "pack" /\ stage' = "receive" /\ flit.used_granules = 0
        /\ UNCHANGED <<link_tx, answered, spill_>>
    BY <1>13 DEF SendNothing, Pass, PackedAll, others
  <2>2. flit.fragments = <<>>
    <3>1. flit.fragments # <<>> => flit.used_granules > 0
      BY <2>1 DEF DecodeInv
    <3> QED BY <2>1, <3>1
  <2>3. Packing = <<>> /\ Packing' = <<>>
    BY <2>1, <2>2 DEF Packing
  <2> QED BY <1>6, <1>7, <2>1, <2>3
<1>14. CASE BridgeReceive
  <2>1. /\ link_tx # <<>> /\ link_tx' = Tail(link_tx) /\ stage = "receive"
        /\ answered' = FoldLeft(Answered, answered, Head(link_tx).fragments)
        /\ UNCHANGED <<stage, spill_, flit>>
    BY <1>14 DEF BridgeReceive
  <2>2. PICK d : <<answered, Head(link_tx), d>> \in LogFlit /\ Leads(Tail(link_tx), LogFlit, d, M)
    BY <1>1, <1>4, <2>1, LeadsTail
  <2>3. d \in GoodLogs /\ Head(link_tx) \in Flit /\ Leads(Head(link_tx).fragments, LogStep, answered, d)
    BY <2>2 DEF LogFlit
  <2>4. Head(link_tx).fragments \in Seq(Fragment)
    BY <2>3 DEF Flit
  <2>5. answered' = d
    BY <1>3, <2>1, <2>3, <2>4, LoggedAll
  <2>6. Packing' = Packing
    BY <2>1 DEF Packing
  <2>7. LogsFor(G)'
    BY <1>2, <1>6, <2>1, LogsStay
  <2>8. G = WithTail(N)'
    BY <1>2, <2>1 DEF WithTail
  <2> QED BY <1>1, <2>1, <2>2, <2>3, <2>5, <2>6, <2>7, <2>8 DEF LogInv
<1>15. CASE ReceiveRead \/ ReceiveWrite \/ ReceiveData
  BY <1>8, <1>15 DEF ReceiveRead, ReceiveWrite, ReceiveData, Receive, Require
<1>16. CASE Assemble \/ Collect
  BY <1>8, <1>16 DEF Assemble, Collect, Require
<1>17. CASE CollectNothing \/ ReceiveDone \/ SubmitNothing \/ TransmitStalled
  BY <1>8, <1>17 DEF others, Pass, ReceiveDone, CollectNothing, SubmitNothing, TransmitStalled
<1>18. CASE \E slot \in Slots : Submit(slot)
  BY <1>8, <1>18 DEF Submit
<1>19. CASE \E rp \in Planes : (\E k \in {"RREQ", "WREQ"} : SendRequest(k, rp)) \/ SendData(rp)
  BY <1>8, <1>19 DEF SendRequest, SendData
<1>20. CASE (\E k \in RspKinds, rp \in Planes : AddTxCredit(k, rp)) \/ \E i \in 1 .. MemDepth : MemComplete(i)
  BY <1>8, <1>20 DEF AddTxCredit, MemComplete
<1>21. CASE UNCHANGED vars
  <2>1. UNCHANGED <<answered, link_tx, spill_, stage, flit>>
    BY <1>21 DEF vars, others
  <2>2. Packing' = Packing
    BY <2>1 DEF Packing
  <2> QED BY <1>7, <1>9, <2>1, <2>2
<1> HIDE DEF LogInv
<1> QED BY <1>9, <1>10, <1>11, <1>12, <1>13, <1>14, <1>15, <1>16, <1>17, <1>18, <1>19, <1>20, <1>21
        DEF Next, Thread, Surroundings, RspKinds

\* The logs are empty after construction.
LEMMA InitLog == Init => LogInv
<1> SUFFICES ASSUME Init PROVE LogInv
  OBVIOUS
<1>1. /\ answered = [w \in BOOLEAN |-> [rp \in Planes |-> <<>>]] /\ stage # "pack"
      /\ link_tx = <<>> /\ spill_ = NoCarry
      /\ \A w \in BOOLEAN, rp \in Planes : replies_[w][rp] = <<>>
      /\ \A w \in BOOLEAN, rp \in Planes : sent[ReqKind(w)][rp] = 0
  BY DEF Init, ReqKind
<1>2. answered \in Logs /\ \A w \in BOOLEAN, rp \in Planes : answered[w][rp] = <<>>
  BY <1>1 DEF Logs
<1>3. ~MidBurst(<<>>) /\ \A w, rp : GoodLog(w, rp, <<>>)
  BY DEF MidBurst, GoodLog
<1>4. GoesOn(<<>>, <<>>)
  <2>1. \A i \in 2 .. Len(<<>>) : FALSE
    OBVIOUS
  <2> QED BY <1>3, <2>1 DEF GoesOn
<1>5. \A r \in Known : ~(r.n <= 0)
  BY DEF Known, Request
<1>6. \A w \in BOOLEAN, rp \in Planes : LogFor(w, rp, <<>>, <<>>, Requests(Waiting), 0)
  <2>1. \A j \in 1 .. Len(<<>>) : FALSE
    OBVIOUS
  <2> QED BY <1>3, <1>4, <1>5, <2>1 DEF LogFor
<1>7. LogsFor(answered)
  BY <1>1, <1>2, <1>6 DEF LogsFor
<1>8. answered \in GoodLogs
  BY <1>2, <1>3 DEF GoodLogs
<1>9. Packing = <<>> /\ WithTail(answered) = answered
  BY <1>1 DEF Packing, WithTail
<1>10. Leads(link_tx, LogFlit, answered, answered) /\ Leads(Packing, LogStep, answered, answered)
  BY <1>1, <1>9, LeadsEmpty
<1> QED BY <1>2, <1>7, <1>8, <1>9, <1>10 DEF LogInv

\* Responses of one direction, plane and ID come back in request order, each
\* once, the beats of a read together and the last one marked, for any number
\* of planes, sizes of tables, order in the memory and cuts by flits.
THEOREM TargetAnswersInOrder == SafeSpec => []AnswersInOrder
<1>1. Init => WaitInv /\ LogInv
  BY InitWait, InitLog
<1>2. TargetInv /\ WaitInv /\ LogInv /\ [Next]_vars => WaitInv' /\ LogInv'
  <2> SUFFICES ASSUME TargetInv, WaitInv, LogInv, [Next]_vars PROVE WaitInv' /\ LogInv'
    OBVIOUS
  <2>1. TypeInv /\ PlaceInv /\ DecodeInv
    BY DEF TargetInv, Base
  <2> QED BY <2>1, WaitStep, LogInvStep
<1>3. LogInv => AnswersInOrder
  <2> SUFFICES ASSUME LogInv, NEW w \in BOOLEAN, NEW rp \in Planes, NEW i \in 1 .. Len(answered[w][rp])
               PROVE  LET a == answered[w][rp]
                          req(k) == [write |-> w, rp |-> rp, n |-> a[k].n]
                      IN  /\ ~w => a[i].last = (a[i].beat = Beats(req(i)))
                          /\ i > 1 /\ ~a[i - 1].last =>
                               a[i].n = a[i - 1].n /\ a[i].beat = a[i - 1].beat + 1
                          /\ (i = 1 \/ a[i - 1].last) =>
                               /\ a[i].beat = 1
                               /\ \A n \in 1 .. (a[i].n - 1) :
                                    Id([req(i) EXCEPT !.n = n]) = Id(req(i)) =>
                                      \E j \in 1 .. (i - 1) : a[j].n = n /\ a[j].last
                               /\ \A j \in 1 .. (i - 1) : a[j].n # a[i].n
    BY Zenon DEF AnswersInOrder
  <2>1. GoodEntry(w, rp, answered[w][rp], i)
    BY DEF LogInv, GoodLogs, GoodLog
  <2>2. \A m, n : [[write |-> w, rp |-> rp, n |-> m] EXCEPT !.n = n] = Numbered(w, rp, n)
    BY DEF Numbered
  <2> QED BY <2>1, <2>2 DEF GoodEntry, Numbered
<1> QED BY <1>1, <1>2, <1>3, TargetInvariant, PTL DEF SafeSpec
=============================================================================
