----------------------------- MODULE MemSimBackend -----------------------------
(***************************************************************************)
(* The bridge between the AoU target and mem_sim, composed with the memory *)
(* system: bursts are cut into children of one DRAM line, submitted in     *)
(* order, joined, and returned in the order of the bursts.  Each turn of   *)
(* MemSimBackend::run() is one tick of the memory system; what is outside  *)
(* (the target, through two sc_fifos) acts between turns.                  *)
(***************************************************************************)
EXTENDS MemorySystem

VARIABLES
    request,        \* sc_fifo of bursts
    response,       \* sc_fifo of answers
    bursts,         \* admitted, not yet returned
    children,       \* by memory id: burst and offset
    nextMem         \* next memory id

bridgeVars == <<request, response, bursts, children, nextMem>>
vars == <<sysVars, userVars, bridgeVars>>

Init == /\ SysInit
        /\ request = <<>> /\ response = <<>> /\ bursts = <<>>
        /\ children = Empty /\ nextMem = 1

FrontendNext == Frontend /\ UNCHANGED bridgeVars

Bridge == cfg.user = "bridge" /\ ~fatal

\* The target: asks, and takes what is answered.
TargetSends(sh) ==
    /\ Bridge /\ at.name = "idle" /\ begun + Len(request) < cfg.requests /\ Len(request) < cfg.fifo
    /\ request' = Append(request, sh)
    /\ UNCHANGED <<sysVars, userVars, response, bursts, children, nextMem>>

TargetTakes ==
    /\ Bridge /\ at.name = "idle" /\ response # <<>>
    /\ response' = Tail(response)
    /\ UNCHANGED <<sysVars, userVars, request, bursts, children, nextMem>>

\* accept: a burst outside the window, or locked, is over at once.
Burst(sh) ==
    [serial |-> begun + 1, sh |-> sh, sent |-> IF sh.bad THEN Len(sh.cells) ELSE 0, pending |-> 0,
     candidate |-> 0, error |-> sh.bad, ready |-> -1, data |-> Empty,
     want |-> IF sh.type = "W" \/ sh.bad THEN <<>> ELSE [k \in DOMAIN sh.cells |-> stored[sh.cells[k]]]]

Admits == Len(bursts) < cfg.slots /\ request # <<>>

Admitted == IF Admits THEN Append(bursts, Burst(Head(request))) ELSE bursts

Accept ==
    /\ request' = IF Admits THEN Tail(request) ELSE request
    /\ begun' = IF Admits THEN begun + 1 ELSE begun
    /\ stored' = IF Admits /\ Head(request).type = "W" /\ ~Head(request).bad
                 THEN [l \in Lines |-> IF l \in Range(Head(request).cells) THEN begun + 1 ELSE stored[l]]
                 ELSE stored

Unsent(bs) == {n \in DOMAIN bs : bs[n].sent < Len(bs[n].sh.cells)}

\* Variant: any burst that is not submitted yet, the last one first.
SubmittingLast(bs) == CHOOSE n \in Unsent(bs) : \A m \in Unsent(bs) : n >= m

\* One burst is submitted completely before the next.
Submitting(bs) == CHOOSE n \in Unsent(bs) : \A m \in Unsent(bs) : n <= m

Candidate(b) == IF b.candidate = 0 THEN nextMem ELSE b.candidate

Child(b) == Transaction(Candidate(b), 1,
                        [cells |-> <<b.sh.cells[b.sent + 1]>>, type |-> b.sh.type, qos |-> 0], b.serial,
                        IF b.want = <<>> THEN 0 ELSE b.want[b.sent + 1])

SubmitChild(bs, n) ==
    LET b  == bs[n]
        id == Candidate(b)
    IN  /\ TrySubmit(Child(b))
        /\ nextMem' = IF b.candidate = 0 THEN nextMem + 1 ELSE nextMem
        /\ IF next_system_sequence_' # next_system_sequence_
           THEN /\ children' = Set(children, id, [serial |-> b.serial, offset |-> b.sent + 1])
                /\ bursts' = [bs EXCEPT ![n].sent = @ + 1, ![n].pending = @ + 1, ![n].candidate = 0]
           ELSE /\ bursts' = [bs EXCEPT ![n].candidate = id] /\ UNCHANGED children

\* The first half of a turn: admit a burst, submit a child, step the memory.
BridgeTurn ==
    /\ Bridge /\ at.name = "idle" /\ Accept /\ Tick
    /\ IF Unsent(Admitted) # {} THEN SubmitChild(Admitted, Submitting(Admitted))
       ELSE /\ bursts' = Admitted
            /\ UNCHANGED <<response_delivery_mode_, queueVars, children, nextMem, fatal>>
    /\ UNCHANGED <<cfg, controllers_, image, outVars, front, response>>

\* A child's data go to its place in the burst.
Joined(b, k, r) ==
    [b EXCEPT !.pending = @ - 1, !.error = @ \/ r.status # "Ok",
              !.data = IF b.sh.type = "R" THEN Set(b.data, k, r.parts[1].data) ELSE @]

\* ss_mem_pop, until no response is left.
BridgePops ==
    LET r == Head(host_responses_)
    IN  /\ Bridge /\ at.name = "pop" /\ PopHost
        /\ fatal' = (r.id \notin DOMAIN children)
        /\ children' = Drop(children, r.id)
        /\ bursts' = IF r.id \notin DOMAIN children THEN bursts
                     ELSE [n \in DOMAIN bursts |->
                              IF bursts[n].serial = children[r.id].serial
                              THEN Joined(bursts[n], children[r.id].offset, r) ELSE bursts[n]]
        /\ UNCHANGED <<cfg, at, response_delivery_mode_, stack_ingress_queues_, next_system_sequence_, controllers_,
                       image, host_assemblies_, transaction_responses_, userVars, request, response, nextMem>>

BurstComplete(b) == b.sent = Len(b.sh.cells) /\ b.pending = 0

Held(b) == IF b.ready = -1 THEN cfg.hold ELSE IF b.ready > 0 THEN b.ready - 1 ELSE 0

Answer(b) == [serial |-> b.serial, error |-> b.error,
              data |-> IF b.sh.type = "W" \/ b.error THEN <<>> ELSE b.data]

\* The end of a turn: the oldest burst is returned, held for some turns more.
BridgeReturns ==
    /\ Bridge /\ at.name = "pop" /\ host_responses_ = <<>>
    /\ at' = Idle
    /\ IF bursts = <<>> \/ ~BurstComplete(Head(bursts)) THEN UNCHANGED <<bursts, response>>
       ELSE IF Held(Head(bursts)) = 0 /\ Len(response) < cfg.fifo
       THEN bursts' = Tail(bursts) /\ response' = Append(response, Answer(Head(bursts)))
       ELSE bursts' = [bursts EXCEPT ![1].ready = Held(Head(bursts))] /\ UNCHANGED response
    /\ UNCHANGED <<cfg, response_delivery_mode_, queueVars, controllers_, image, outVars, fatal,
                   userVars, request, children, nextMem>>

BridgeNext == \/ \E sh \in cfg.shapes : TargetSends(sh)
              \/ TargetTakes \/ BridgeTurn \/ BridgePops \/ BridgeReturns

StepNext == SystemStep /\ UNCHANGED bridgeVars

Next == FrontendNext \/ StepNext \/ BridgeNext

SafeSpec == Init /\ [][Next]_vars

\* Both ends of the bridge and the frontend are called for ever.  A controller
\* answers what it accepted after some ticks, and accepts again when its queue
\* has room.
Fairness ==
    /\ WF_vars(StepNext) /\ WF_vars(BridgeTurn) /\ WF_vars(BridgePops) /\ WF_vars(BridgeReturns)
    /\ SF_vars(TargetTakes)
    /\ WF_vars(FrontendTick /\ UNCHANGED bridgeVars)
    /\ SF_vars(FrontendNext /\ next_system_sequence_' # next_system_sequence_)
    /\ SF_vars((FrontendPops \/ FrontendPopsTransaction) /\ UNCHANGED bridgeVars)
    /\ SF_vars(StepNext /\ at'.name = "dispatch" /\ at'.slot > at.slot)
    /\ SF_vars(StepNext /\ at.name = "controllers" /\ at'.name = "controllers")

Spec == SafeSpec /\ Fairness

(***************************************************************************)
(* Properties                                                              *)
(***************************************************************************)
\* Type invariant.  No queue, slot or response buffer grows over its limit,
\* and a burst waits for as many children as there are of it.
TypeOK ==
    /\ at.name \in {"idle", "dispatch", "controllers", "collect", "pop"}
    /\ \A s \in Stacks : Len(stack_ingress_queues_[s]) <= cfg.ingress
    /\ \A c \in Controllers : cfg.cresp # 0 => Len(controllers_[c].responses) <= cfg.cresp
    /\ cfg.hostcap # 0 => Len(host_responses_) <= cfg.hostcap
    /\ cfg.txncap # 0 => Len(transaction_responses_) <= cfg.txncap
    /\ Len(request) <= cfg.fifo /\ Len(response) <= cfg.fifo /\ Len(bursts) <= cfg.slots
    /\ \A n \in DOMAIN bursts :
           bursts[n].pending = Cardinality({id \in DOMAIN children : children[id].serial = bursts[n].serial})

\* The exceptions that would end the program are never raised: a tag reused in
\* flight, a transaction answered twice, a child that the bridge does not know;
\* and no queue overflows.
NoException == TypeOK /\ ~fatal

\* The state that OrderedMemory sees; without the bridge, none.
Owed(b) == [serial |-> b.serial, error |-> b.sh.bad, data |-> b.want]

Ordered == INSTANCE OrderedMemory WITH
    Cells   <- Lines,
    Bursts  <- UNION {{[write |-> sh.type = "W", bad |-> sh.bad, cells |-> sh.cells] : sh \in c.shapes} : c \in Configs},
    memory  <- IF cfg.user = "bridge" THEN stored ELSE [l \in Lines |-> 0],
    owed    <- [n \in DOMAIN bursts |-> Owed(bursts[n])],
    answers <- response,
    stamp   <- IF cfg.user = "bridge" THEN begun ELSE 0

\* The bridge on the memory system is an ordered memory: bursts that overlap
\* take effect in the order of their admission although their children are
\* spread over channels that answer in any order, and every burst is answered
\* once, in order, with what its children returned.
ImplementsOrderedMemory == Ordered!LiveSpec

\* Whatever a frontend submits is answered: again and again none of its host
\* requests is open and nothing is left in the system.
FrontendDrains ==
    []<>(/\ front = Empty /\ InFlight = {} /\ host_submissions_ = Empty
         /\ host_responses_ = <<>> /\ transaction_responses_ = <<>>)
=============================================================================
