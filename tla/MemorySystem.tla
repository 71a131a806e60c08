----------------------------- MODULE MemorySystem -----------------------------
(***************************************************************************)
(* mem_sim's MemorySystem: transactions wait at the ingress of a stack,    *)
(* are dispatched to the controllers of its channels, and their responses  *)
(* are collected and joined into one response for each host request.       *)
(*                                                                         *)
(* A controller is modelled by what it promises and MemController checks:  *)
(* it accepts a transaction unless its queue is full (or for a while       *)
(* refuses one), answers every one it accepted once, in any order, and a   *)
(* read returns what was stored when the read was accepted.  (Controller   *)
(* breaks the last for a masked write forwarded over one still in the PHY: *)
(* MemControllerForward.cfg.)  at is the program counter of tick(); the    *)
(* users of the system act when it is "idle".  A written value is the      *)
(* number of the host request or burst it comes from.                      *)
(***************************************************************************)
EXTENDS Integers, Sequences, FiniteSets, SequencesExt

CONSTANTS
    Configs,        \* the configurations looked at, each with its workload
    Lines           \* addresses, by DRAM transaction

Shapes == [type : {"R", "W"}, cells : Seq(Lines), qos : Nat, bad : BOOLEAN]

\* ss_mem_create asks for host responses, main runs a batch without any.  The
\* address mappers send different lines to different places.  StrictPriority
\* lets a request overtake an older one of the same line, so that lines hold
\* what was written last only where a line has one class.
ASSUME ConfigAssumption ==
    \A c \in Configs :
        /\ c.user \in {"bridge", "frontend", "batch"}
        /\ c.mode \in {"Disabled", "HostOnly", "TransactionOnly", "Both"}
        /\ c.user = "bridge" => c.mode = "HostOnly"
        /\ c.user = "batch" => c.mode = "Disabled"
        /\ c.stacks \in Nat \ {0} /\ c.channels \in Nat \ {0}
        /\ c.ingress \in Nat \ {0} /\ c.cresp \in Nat /\ c.hostcap \in Nat /\ c.txncap \in Nat
        /\ c.slots \in Nat \ {0} /\ c.fifo \in Nat \ {0} /\ c.hold \in Nat
        /\ c.route \in [Lines -> [stack : 1 .. c.stacks, local : Nat, channel : 1 .. c.channels]]
        /\ \A k, l \in Lines : c.route[k].stack = c.route[l].stack /\ c.route[k].local = c.route[l].local => k = l
        /\ \A sh \in c.shapes : sh \in Shapes /\ sh.cells # <<>>
        /\ c.qos # "Fifo" => \A sh, sg \in c.shapes : Range(sh.cells) \cap Range(sg.cells) # {} => sh.qos = sg.qos

VARIABLES
    cfg,                        \* options_ and the workload, never changed
    at,                         \* where tick() is: name, position, slot
    response_delivery_mode_,
    stack_ingress_queues_,
    next_system_sequence_,
    controllers_,               \* accepted transactions and responses
    image,                      \* what the stacks hold, by acceptance
    host_submissions_,
    host_assemblies_,
    host_responses_,
    transaction_responses_,
    fatal,                      \* an exception that no caller handles
    front,                      \* the frontend: its host requests, by tag
    stored,                     \* history: the last write submitted to each line
    begun                       \* host requests or bursts so far, a bound

queueVars == <<stack_ingress_queues_, next_system_sequence_, host_submissions_>>
outVars   == <<host_assemblies_, host_responses_, transaction_responses_>>
userVars  == <<front, stored, begun>>
sysVars   == <<cfg, at, response_delivery_mode_, queueVars, controllers_, image, outVars, fatal>>

Stacks      == 1 .. cfg.stacks
Controllers == 1 .. (cfg.stacks * cfg.channels)
Empty       == [x \in {} |-> 0]
Idle        == [name |-> "idle", n |-> 0, slot |-> 0]

\* The place of a line in a stack, and the controller_index of its channel, as
\* the address mappers give them (ChannelMap).
Cell(line)         == <<cfg.route[line].stack, cfg.route[line].local>>
ControllerOf(line) == (cfg.route[line].stack - 1) * cfg.channels + cfg.route[line].channel

SysInit ==
    /\ cfg \in Configs
    /\ at = Idle
    /\ response_delivery_mode_ = cfg.mode
    /\ stack_ingress_queues_ = [s \in Stacks |-> <<>>]
    /\ next_system_sequence_ = 0
    /\ controllers_ = [c \in Controllers |-> [waiting |-> <<>>, responses |-> <<>>]]
    /\ image = [c \in {Cell(l) : l \in Lines} |-> 0]
    /\ host_submissions_ = Empty /\ host_assemblies_ = Empty
    /\ host_responses_ = <<>> /\ transaction_responses_ = <<>>
    /\ fatal = FALSE
    /\ front = Empty /\ stored = [l \in Lines |-> 0] /\ begun = 0

RetainsHost        == response_delivery_mode_ \in {"HostOnly", "Both"}
RetainsTransaction == response_delivery_mode_ \in {"TransactionOnly", "Both"}

Set(f, x, v) == [y \in DOMAIN f \union {x} |-> IF y = x THEN v ELSE f[y]]
Drop(f, x)   == [y \in DOMAIN f \ {x} |-> f[y]]

(***************************************************************************)
(* enqueue, try_submit                                                     *)
(***************************************************************************)
Ingress(t)     == stack_ingress_queues_[cfg.route[t.line].stack]
IngressFull(t) == Len(Ingress(t)) >= cfg.ingress

Enqueue(t) ==
    /\ stack_ingress_queues_' =
            [stack_ingress_queues_ EXCEPT ![cfg.route[t.line].stack] =
                 Append(@, [t EXCEPT !.seq = next_system_sequence_])]
    /\ next_system_sequence_' = next_system_sequence_ + 1

\* The exceptions of try_submit: a tag in use.
Refused(t) ==
    IF t.id \notin DOMAIN host_submissions_ THEN t.idx # 1
    ELSE LET host == host_submissions_[t.id]
         IN  host.count # t.count \/ host.type # t.type \/ t.idx \in host.accepted

RecordSubmitted(t) ==
    LET host == IF t.id \in DOMAIN host_submissions_ THEN host_submissions_[t.id]
                ELSE [count |-> t.count, type |-> t.type, accepted |-> {}, completed |-> 0]
    IN  host_submissions_' = Set(host_submissions_, t.id, [host EXCEPT !.accepted = @ \union {t.idx}])

\* The first try_submit turns the response interface on, accepted or not.
TrySubmit(t) ==
    /\ fatal' = Refused(t)
    /\ response_delivery_mode_' =
            IF response_delivery_mode_ = "Disabled" /\ ~Refused(t) THEN "HostOnly" ELSE response_delivery_mode_
    /\ IF ~Refused(t) /\ ~IngressFull(t) THEN Enqueue(t) /\ RecordSubmitted(t) ELSE UNCHANGED queueVars

(***************************************************************************)
(* tick                                                                    *)
(***************************************************************************)
Tick == at' = [name |-> "dispatch", n |-> 1, slot |-> 0]

NextStack == at' = IF at.n < cfg.stacks THEN [at EXCEPT !.n = @ + 1, !.slot = 0]
                   ELSE [name |-> "controllers", n |-> 0, slot |-> 0]

\* The request that a stack dispatches next.
Selected(queue) ==
    IF cfg.qos = "Fifo" THEN 1
    ELSE CHOOSE i \in DOMAIN queue : \A j \in DOMAIN queue :
             queue[i].qos > queue[j].qos \/ (queue[i].qos = queue[j].qos /\ queue[i].seq <= queue[j].seq)

OfType(s, type) == Cardinality({i \in DOMAIN s : s[i].type = type})

\* Controller::enqueue
ControllerAccepts(c, t) ==
    /\ controllers_' = [controllers_ EXCEPT ![c].waiting =
                            Append(@, [t |-> t, type |-> t.type, data |-> IF t.type = "R" THEN image[Cell(t.line)] ELSE 0])]
    /\ image' = IF t.type = "W" THEN [image EXCEPT ![Cell(t.line)] = t.val] ELSE image

\* A stack is done for this tick when its queue is empty, its slots are used
\* or the controller of the selected request refuses it.
DispatchStackIngress ==
    LET queue == stack_ingress_queues_[at.n]
        i     == Selected(queue)
        c     == ControllerOf(queue[i].line)
    IN  /\ at.name = "dispatch" /\ ~fatal
        /\ \/ /\ queue # <<>> /\ at.slot < cfg.width
              /\ OfType(controllers_[c].waiting, queue[i].type) < cfg.depth
              /\ ControllerAccepts(c, queue[i])
              /\ stack_ingress_queues_' = [stack_ingress_queues_ EXCEPT ![at.n] = RemoveAt(@, i)]
              /\ at' = [at EXCEPT !.slot = @ + 1]
           \/ /\ (queue # <<>> /\ at.slot < cfg.width) => controllers_[c].waiting # <<>>
              /\ NextStack
              /\ UNCHANGED <<stack_ingress_queues_, controllers_, image>>
        /\ UNCHANGED <<cfg, response_delivery_mode_, next_system_sequence_, host_submissions_, outVars, fatal>>

\* Controller::tick: whatever is due is answered while a response fits.
ControllersTick ==
    /\ at.name = "controllers" /\ ~fatal
    /\ \/ \E c \in Controllers : \E i \in DOMAIN controllers_[c].waiting :
              /\ cfg.cresp = 0 \/ Len(controllers_[c].responses) < cfg.cresp
              /\ \E status \in {"Ok"} \union (IF cfg.faults THEN {"Error"} ELSE {}) :
                     controllers_' = [controllers_ EXCEPT ![c] =
                        [waiting   |-> RemoveAt(@.waiting, i),
                         responses |-> Append(@.responses, [id |-> @.waiting[i].t.id, t |-> @.waiting[i].t,
                                                            data |-> @.waiting[i].data, status |-> status])]]
              /\ at' = at
       \/ /\ at' = [name |-> "collect", n |-> 1, slot |-> 0]
          /\ UNCHANGED controllers_
    /\ UNCHANGED <<cfg, response_delivery_mode_, queueVars, image, outVars, fatal>>

(***************************************************************************)
(* collect_responses                                                       *)
(***************************************************************************)
HostFull        == cfg.hostcap # 0 /\ Len(host_responses_) >= cfg.hostcap
TransactionFull == cfg.txncap # 0 /\ Len(transaction_responses_) >= cfg.txncap

\* Variant: the queue of the view that the caller does not use is not looked at.
BlockedOnTransactionsOnly == RetainsTransaction /\ TransactionFull

\* A view that is selected has no room.
Blocked == (RetainsTransaction /\ TransactionFull) \/ (RetainsHost /\ HostFull)

\* Variant: the tag is free as soon as the last transaction is collected.
RecordCompletedEarly(r) ==
    LET host == host_submissions_[r.id]
    IN  IF r.id \notin DOMAIN host_submissions_ THEN host_submissions_
        ELSE IF host.completed + 1 >= host.count THEN Drop(host_submissions_, r.id)
        ELSE [host_submissions_ EXCEPT ![r.id].completed = @ + 1]

\* record_completed_transaction
RecordCompleted(r) ==
    LET host == host_submissions_[r.id]
    IN  IF r.id \notin DOMAIN host_submissions_ THEN host_submissions_
        ELSE IF host.completed + 1 >= host.count /\ ~RetainsHost THEN Drop(host_submissions_, r.id)
        ELSE [host_submissions_ EXCEPT ![r.id].completed = @ + 1]

\* build_host_response: the parts by index, and the worst status.
HostResponse(id, parts) ==
    [id |-> id, parts |-> parts, status |-> IF \A k \in DOMAIN parts : parts[k].status = "Ok" THEN "Ok" ELSE "Error"]

\* Variant: the host is answered with the first transaction that comes.
AssembledAtFirst(parts, count) == TRUE

\* Variant: one transaction more than there are is waited for.
AssembledLate(parts, count) == DOMAIN parts = 1 .. (count + 1)

Assembled(parts, count) == DOMAIN parts = 1 .. count

\* aggregate_response and publish_host_response.  A second transaction of the
\* same index would be answered as invalid; it stops the model, as does the
\* exception of a full queue.
Aggregate(r) ==
    LET old   == IF r.id \in DOMAIN host_assemblies_ THEN host_assemblies_[r.id] ELSE Empty
        parts == Set(old, r.t.idx, r)
    IN  /\ fatal' = (r.t.idx \in DOMAIN old \/ (Assembled(parts, r.t.count) /\ HostFull))
        /\ IF Assembled(parts, r.t.count)
           THEN /\ host_responses_' = Append(host_responses_, HostResponse(r.id, parts))
                /\ host_assemblies_' = Drop(host_assemblies_, r.id)
           ELSE /\ host_assemblies_' = Set(host_assemblies_, r.id, parts)
                /\ UNCHANGED host_responses_

\* The bridge goes on with the responses of the tick.
AfterTick == IF cfg.user = "bridge" THEN [Idle EXCEPT !.name = "pop"] ELSE Idle

CollectOne ==
    LET r == Head(controllers_[at.n].responses)
    IN  /\ controllers_[at.n].responses # <<>>
        /\ response_delivery_mode_ = "Disabled" \/ ~Blocked
        /\ controllers_' = [controllers_ EXCEPT ![at.n].responses = Tail(@)]
        /\ host_submissions_' = RecordCompleted(r)
        /\ transaction_responses_' = IF RetainsTransaction THEN Append(transaction_responses_, r)
                                     ELSE transaction_responses_
        /\ IF RetainsHost THEN Aggregate(r) ELSE UNCHANGED <<host_assemblies_, host_responses_, fatal>>
        /\ at' = at

\* A full queue ends the collection of this tick for all controllers.
CollectNext ==
    /\ \/ /\ controllers_[at.n].responses # <<>> /\ response_delivery_mode_ # "Disabled" /\ Blocked
          /\ at' = AfterTick
       \/ /\ controllers_[at.n].responses = <<>>
          /\ at' = IF at.n < Len(controllers_) THEN [at EXCEPT !.n = @ + 1] ELSE AfterTick
    /\ UNCHANGED <<controllers_, host_submissions_, outVars, fatal>>

CollectResponses ==
    /\ at.name = "collect" /\ ~fatal
    /\ CollectOne \/ CollectNext
    /\ UNCHANGED <<cfg, response_delivery_mode_, stack_ingress_queues_, next_system_sequence_, image>>

SystemStep == /\ DispatchStackIngress \/ ControllersTick \/ CollectResponses
              /\ UNCHANGED userVars

\* pop_response: the tag is free when the response is taken.
PopHost ==
    LET id == Head(host_responses_).id
    IN  /\ host_responses_ # <<>>
        /\ host_responses_' = Tail(host_responses_)
        /\ host_submissions_' =
                IF id \in DOMAIN host_submissions_ /\ host_submissions_[id].completed >= host_submissions_[id].count
                THEN Drop(host_submissions_, id) ELSE host_submissions_

(***************************************************************************)
(* The direct users.  An asynchronous frontend submits the transactions of *)
(* a host request, the first one first, and may use its tag again when it  *)
(* has taken the response.  A batch run enqueues and drops the responses.  *)
(***************************************************************************)
Acts == at.name = "idle" /\ ~fatal

Transaction(id, k, sh, val, want) ==
    [id |-> id, idx |-> k, count |-> Len(sh.cells), type |-> sh.type, line |-> sh.cells[k],
     qos |-> sh.qos, seq |-> 0, val |-> val, want |-> want]

FrontendBegins(tag, sh) ==
    /\ Acts /\ cfg.user \in {"frontend", "batch"}
    /\ tag \notin DOMAIN front /\ begun < cfg.requests
    /\ begun' = begun + 1
    /\ front' = Set(front, tag, [sh |-> sh, val |-> begun + 1, left |-> DOMAIN sh.cells, taken |-> {}])
    /\ UNCHANGED <<sysVars, stored>>

Stored(t) == IF t.type = "W" THEN [stored EXCEPT ![t.line] = t.val] ELSE stored

FrontendSubmits(tag, k) ==
    LET f == front[tag]
        t == Transaction(tag, k, f.sh, f.val, stored[f.sh.cells[k]])
    IN  /\ Acts /\ k \in f.left /\ (k = 1 \/ 1 \notin f.left)
        /\ \/ /\ cfg.user = "frontend" /\ TrySubmit(t)
           \/ /\ cfg.user = "batch" /\ ~IngressFull(t) /\ Enqueue(t)
              /\ UNCHANGED <<response_delivery_mode_, host_submissions_, fatal>>
        /\ IF next_system_sequence_' # next_system_sequence_
           THEN /\ stored' = Stored(t)
                /\ front' = IF cfg.user = "batch" /\ f.left = {k} THEN Drop(front, tag)
                            ELSE [front EXCEPT ![tag].left = @ \ {k}]
           ELSE UNCHANGED <<stored, front>>
        /\ UNCHANGED <<cfg, at, controllers_, image, outVars, begun>>

FrontendPops ==
    /\ Acts /\ cfg.user = "frontend" /\ PopHost
    /\ front' = Drop(front, Head(host_responses_).id)
    /\ UNCHANGED <<cfg, at, response_delivery_mode_, stack_ingress_queues_, next_system_sequence_, controllers_,
                   image, host_assemblies_, transaction_responses_, fatal, stored, begun>>

\* With no host responses the request is over when each part was taken.
FrontendPopsTransaction ==
    LET r     == Head(transaction_responses_)
        taken == front[r.id].taken \union {r.t.idx}
    IN  /\ Acts /\ transaction_responses_ # <<>>
        /\ transaction_responses_' = Tail(transaction_responses_)
        /\ front' = IF RetainsHost THEN front
                    ELSE IF taken = 1 .. r.t.count THEN Drop(front, r.id)
                    ELSE [front EXCEPT ![r.id].taken = taken]
        /\ UNCHANGED <<cfg, at, response_delivery_mode_, queueVars, controllers_, image, host_assemblies_,
                       host_responses_, fatal, stored, begun>>

FrontendTick ==
    /\ Acts /\ cfg.user # "bridge" /\ Tick
    /\ UNCHANGED <<cfg, response_delivery_mode_, queueVars, controllers_, image, outVars, fatal, userVars>>

Frontend ==
    \/ \E tag \in cfg.tags : \E sh \in cfg.shapes : FrontendBegins(tag, sh)
    \/ \E tag \in DOMAIN front : \E k \in front[tag].left : FrontendSubmits(tag, k)
    \/ FrontendPops \/ FrontendPopsTransaction \/ FrontendTick

(***************************************************************************)
(* Properties                                                              *)
(***************************************************************************)
InFlight == {t.id : t \in UNION ({Range(stack_ingress_queues_[s]) : s \in Stacks}
                            \union {{w.t : w \in Range(controllers_[c].waiting)} : c \in Controllers}
                            \union {{r.t : r \in Range(controllers_[c].responses)} : c \in Controllers})}

\* A tag that try_submit accepted stays registered while a transaction of it
\* is anywhere in the system, and until the host has taken its response, so
\* that no later request with that tag is joined with it.
TagsHeldWhileInFlight ==
    cfg.user # "batch" =>
        /\ InFlight \subseteq DOMAIN host_submissions_
        /\ DOMAIN host_assemblies_ \union {host_responses_[n].id : n \in DOMAIN host_responses_}
               \subseteq DOMAIN host_submissions_

\* A host response joins every transaction of one host request, each at its
\* index, and each read part holds what the last write submitted before it
\* stored.
HostResponsesWhole ==
    \A n \in DOMAIN host_responses_ :
        LET parts == host_responses_[n].parts
        IN  /\ \A k \in DOMAIN parts : parts[k].t.idx = k /\ parts[k].t.val = parts[1].t.val
                                       /\ DOMAIN parts = 1 .. parts[k].t.count
            /\ \A k \in DOMAIN parts : parts[k].t.type = "R" => parts[k].data = parts[k].t.want
=============================================================================
