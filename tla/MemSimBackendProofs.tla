------------------------ MODULE MemSimBackendProofs ------------------------
(***************************************************************************)
(* Proofs about MemSimBackend for every configuration: any number of       *)
(* stacks, channels, lines, slots and tags, any capacity of the queues and *)
(* any workload.  This module has the parts of the inductive invariant and *)
(* the lemmas for types, places, tags, assemblies and the frontend.        *)
(* MemSimOrderProofs has those for the bridge and for the order of the     *)
(* writes to each line, puts the parts together and states what follows.   *)
(***************************************************************************)
EXTENDS MemSimBackend, SequenceTheorems, FiniteSetTheorems, SequenceLemmas, TLAPS

-----------------------------------------------------------------------------
(* Types.                                                                  *)

AnyId    == Nat \cup UNION {c.tags : c \in Configs}
Types    == {"R", "W"}
Statuses == {"Ok", "Error"}
Modes    == {"Disabled", "HostOnly", "TransactionOnly", "Both"}

PFun(X, Y) == UNION {[D -> Y] : D \in SUBSET X}

Tx == [id : AnyId, idx : Nat \ {0}, count : Nat \ {0}, type : Types, line : Lines, qos : Nat,
       seq : Nat, val : Nat, want : Nat]

\* What a controller returns for a read is what the read was to return.
WaitRec == [t : Tx, type : Types, data : Nat]
Wait    == {w \in WaitRec : w.type = w.t.type /\ (w.type = "R" => w.data = w.t.want)}
RespRec == [id : AnyId, t : Tx, data : Nat, status : Statuses]
Resp    == {r \in RespRec : r.id = r.t.id /\ (r.t.type = "R" => r.data = r.t.want)}
Ctl     == [waiting : Seq(Wait), responses : Seq(Resp)]

Host    == [count : Nat \ {0}, type : Types, accepted : SUBSET (Nat \ {0}), completed : Nat]
Parts   == PFun(Nat \ {0}, Resp)
HostRsp == [id : AnyId, parts : Parts, status : Statuses]
AllOf(f) == 1 .. Len(f.sh.cells)
Tagged   == {f \in [sh : cfg.shapes, val : Nat, left : SUBSET Nat, taken : SUBSET Nat] : f.left \subseteq AllOf(f)}

BurstRec == [serial : Nat, sh : cfg.shapes, sent : Nat, pending : Int, candidate : Nat, error : BOOLEAN,
             ready : Int, data : PFun(Nat \ {0}, Nat), want : Seq(Nat)]
ChildRec == [serial : Nat, offset : Nat \ {0}]
Reply    == [serial : Nat, error : BOOLEAN, data : PFun(Nat \ {0}, Nat) \cup {<<>>}]

AtInv ==
    /\ at \in [name : {"idle", "dispatch", "controllers", "collect", "pop"}, n : Nat, slot : Nat]
    /\ at.name = "dispatch" => at.n \in Stacks
    /\ at.name = "collect" => at.n \in Controllers
    /\ at.name = "pop" => cfg.user = "bridge"

TypeInv ==
    /\ cfg \in Configs /\ fatal \in BOOLEAN /\ response_delivery_mode_ \in Modes
    /\ stack_ingress_queues_ \in [Stacks -> Seq(Tx)]
    /\ next_system_sequence_ \in Nat
    /\ controllers_ \in [Controllers -> Ctl]
    /\ image \in [{Cell(l) : l \in Lines} -> Nat]
    /\ host_submissions_ \in PFun(AnyId, Host)
    /\ host_assemblies_ \in PFun(AnyId, Parts)
    /\ host_responses_ \in Seq(HostRsp)
    /\ transaction_responses_ \in Seq(Resp)
    /\ front \in PFun(cfg.tags, Tagged)
    /\ stored \in [Lines -> Nat] /\ begun \in Nat
    /\ request \in Seq(cfg.shapes) /\ response \in Seq(Reply) /\ bursts \in Seq(BurstRec)
    /\ children \in PFun(Nat \ {0}, ChildRec) /\ nextMem \in Nat \ {0}

\* Who uses the system decides what is used of it.
UserInv ==
    /\ cfg.user = "bridge" => /\ response_delivery_mode_ = "HostOnly" /\ front = Empty
                              /\ transaction_responses_ = <<>>
    /\ cfg.user = "batch" => /\ response_delivery_mode_ = "Disabled" /\ host_submissions_ = Empty
                             /\ host_assemblies_ = Empty
                             /\ host_responses_ = <<>> /\ transaction_responses_ = <<>>
    /\ cfg.user # "bridge" => bursts = <<>> /\ children = Empty /\ request = <<>> /\ response = <<>>

\* No queue grows over its limit.
RoomInv ==
    /\ \A s \in Stacks : Len(stack_ingress_queues_[s]) <= cfg.ingress
    /\ \A c \in Controllers : cfg.cresp # 0 => Len(controllers_[c].responses) <= cfg.cresp
    /\ cfg.hostcap # 0 => Len(host_responses_) <= cfg.hostcap
    /\ cfg.txncap # 0 => Len(transaction_responses_) <= cfg.txncap
    /\ Len(request) <= cfg.fifo /\ Len(response) <= cfg.fifo /\ Len(bursts) <= cfg.slots

-----------------------------------------------------------------------------
(* Where transactions are.                                                 *)

Key(t)   == <<t.id, t.idx>>
IKeys(q) == [i \in 1 .. Len(q) |-> Key(q[i])]
TKeys(q) == [i \in 1 .. Len(q) |-> Key(q[i].t)]

Elems(s) == {s[i] : i \in 1 .. Len(s)}
NoDup(s) == \A i, j \in 1 .. Len(s) : i # j => s[i] # s[j]

Spots == ({"I"} \X Stacks) \cup ({"W"} \X Controllers) \cup ({"R"} \X Controllers)
KeysAt(x) == IF x[1] = "I" THEN IKeys(stack_ingress_queues_[x[2]])
             ELSE IF x[1] = "W" THEN TKeys(controllers_[x[2]].waiting)
             ELSE TKeys(controllers_[x[2]].responses)

Holding  == [x \in Spots |-> Elems(KeysAt(x))]
All(F)   == UNION {F[x] : x \in DOMAIN F}
Apart(F) == \A x, y \in DOMAIN F : x # y => F[x] \cap F[y] = {}

\* The transactions on their way.
IsFlying(t) ==
    \/ \E s \in Stacks : \E i \in 1 .. Len(stack_ingress_queues_[s]) : t = stack_ingress_queues_[s][i]
    \/ \E c \in Controllers :
         \/ \E i \in 1 .. Len(controllers_[c].waiting) : t = controllers_[c].waiting[i].t
         \/ \E i \in 1 .. Len(controllers_[c].responses) : t = controllers_[c].responses[i].t

Flying == {t \in Tx : IsFlying(t)}

\* No transaction is in two places.
PlaceInv == cfg.user # "batch" => (\A x \in Spots : NoDup(KeysAt(x))) /\ Apart(Holding)

\* The transactions of a tag that were submitted and have been collected.
Collected(id) == {i \in host_submissions_[id].accepted : <<id, i>> \notin All(Holding)}
Every(id)     == 1 .. host_submissions_[id].count

TagInv ==
    /\ cfg.user # "batch" =>
         \A t \in Flying : /\ t.id \in DOMAIN host_submissions_
                           /\ t.idx \in host_submissions_[t.id].accepted
                           /\ t.count = host_submissions_[t.id].count
    /\ \A id \in DOMAIN host_submissions_ :
         /\ host_submissions_[id].accepted \subseteq Every(id)
         /\ 1 \in host_submissions_[id].accepted
         /\ host_submissions_[id].completed = Cardinality(Collected(id))
    /\ response_delivery_mode_ = "Disabled" => host_submissions_ = Empty

\* The parts of a response are those of the tag.
Joins(id, parts) == \A k \in DOMAIN parts : /\ parts[k].t.id = id /\ parts[k].t.idx = k
                                            /\ parts[k].t.count = host_submissions_[id].count

AssemblyInv ==
    /\ ~RetainsHost => /\ host_assemblies_ = Empty /\ host_responses_ = <<>>
                       /\ \A id \in DOMAIN host_submissions_ : Collected(id) # Every(id)
    /\ \A id \in DOMAIN host_assemblies_ :
         /\ id \in DOMAIN host_submissions_ /\ Joins(id, host_assemblies_[id])
         /\ DOMAIN host_assemblies_[id] = Collected(id) /\ Collected(id) # Every(id)
    /\ \A n \in 1 .. Len(host_responses_) :
         LET id == host_responses_[n].id
         IN  /\ id \in DOMAIN host_submissions_ /\ id \notin DOMAIN host_assemblies_
             /\ Joins(id, host_responses_[n].parts)
             /\ DOMAIN host_responses_[n].parts = Every(id) /\ Collected(id) = Every(id)
    /\ \A n, j \in 1 .. Len(host_responses_) : n # j => host_responses_[n].id # host_responses_[j].id
    /\ RetainsHost => \A id \in DOMAIN host_submissions_ :
         (/\ id \notin DOMAIN host_assemblies_
          /\ \A n \in 1 .. Len(host_responses_) : host_responses_[n].id # id)
         => Collected(id) = {}

-----------------------------------------------------------------------------
(* The frontend.                                                           *)

OfFront(t) == /\ t.id \in DOMAIN front /\ t.val = front[t.id].val

FrontInv ==
    cfg.user = "frontend" =>
      /\ \A id \in DOMAIN host_submissions_ :
           /\ id \in DOMAIN front
           /\ host_submissions_[id].count = Len(front[id].sh.cells)
           /\ host_submissions_[id].type = front[id].sh.type
           /\ front[id].left = AllOf(front[id]) \ host_submissions_[id].accepted
      /\ \A id \in DOMAIN front \ DOMAIN host_submissions_ :
           \/ front[id].left = AllOf(front[id]) /\ front[id].taken = {}
           \/ response_delivery_mode_ = "TransactionOnly" /\ front[id].left = {}
      /\ \A t \in Flying : OfFront(t)
      /\ \A id \in DOMAIN host_assemblies_ : \A k \in DOMAIN host_assemblies_[id] :
           OfFront(host_assemblies_[id][k].t)
      /\ \A n \in 1 .. Len(host_responses_) : \A k \in DOMAIN host_responses_[n].parts :
           OfFront(host_responses_[n].parts[k].t)

\* Without host responses, transactions are taken one by one.
TakenInv ==
    cfg.user = "frontend" /\ ~RetainsHost =>
      /\ NoDup(TKeys(transaction_responses_))
      /\ \A n \in 1 .. Len(transaction_responses_) :
           LET t == transaction_responses_[n].t
           IN  /\ t.id \in DOMAIN front /\ t.count = Len(front[t.id].sh.cells)
               /\ t.idx \in AllOf(front[t.id]) \ (front[t.id].left \cup front[t.id].taken)
               /\ t.id \in DOMAIN host_submissions_ => t.idx \in Collected(t.id)
      /\ \A id \in DOMAIN front : /\ front[id].taken \subseteq AllOf(front[id]) \ front[id].left
                                  /\ id \in DOMAIN host_submissions_ => front[id].taken \subseteq Collected(id)

-----------------------------------------------------------------------------
(* The bridge.                                                             *)

IsUnsent(b) == b.sent < Len(b.sh.cells)
Goes(b, k)  == b.sh.type = "R" /\ ~b.sh.bad /\ k \in 1 .. Len(b.sh.cells)

\* The burst of a child, and the place of the child in it.
ChildIn(id, b)  == id \in DOMAIN children /\ children[id].serial = b.serial
OfBurst(t) ==
    /\ t.count = 1 /\ t.id \in DOMAIN children
    /\ \E n \in 1 .. Len(bursts) :
         /\ ChildIn(t.id, bursts[n]) /\ t.type = bursts[n].sh.type
         /\ t.type = "R" => t.want = bursts[n].want[children[t.id].offset]

Kids(serial) == {id \in DOMAIN children : children[id].serial = serial}

BurstOk(b) ==
    /\ b.sent \in 0 .. Len(b.sh.cells)
    /\ b.sh.bad => b.error /\ ~IsUnsent(b)
    /\ (b.sh.type = "W" \/ b.sh.bad) => b.want = <<>>
    /\ b.sh.type = "R" /\ ~b.sh.bad => Len(b.want) = Len(b.sh.cells)
    /\ b.pending = Cardinality(Kids(b.serial))
    /\ b.sh.bad => Kids(b.serial) = {}
    /\ b.serial \in 1 .. begun

BurstInv ==
    cfg.user = "bridge" =>
      /\ DOMAIN children = DOMAIN host_submissions_
      /\ \A id \in DOMAIN children :
           /\ id < nextMem /\ host_submissions_[id].count = 1
           /\ \E n \in 1 .. Len(bursts) : children[id].serial = bursts[n].serial
                                          /\ children[id].offset \in 1 .. bursts[n].sent
      /\ \A n \in 1 .. Len(bursts) : BurstOk(bursts[n])
      /\ \A n, m \in 1 .. Len(bursts) : m < n => bursts[m].serial < bursts[n].serial
      /\ \A n \in 1 .. Len(bursts) : bursts[n].candidate # 0 =>
           /\ bursts[n].candidate < nextMem /\ bursts[n].candidate \notin DOMAIN host_submissions_
           /\ IsUnsent(bursts[n]) /\ \A m \in 1 .. (n - 1) : ~IsUnsent(bursts[m])
      /\ \A t \in Flying : OfBurst(t)
      /\ \A n \in 1 .. Len(host_responses_) : \A k \in DOMAIN host_responses_[n].parts :
           OfBurst(host_responses_[n].parts[k].t)

\* Every part of a read that was submitted is there or on its way.
JoinInv ==
    \A n \in 1 .. Len(bursts) : LET b == bursts[n] IN
      b.sh.type = "R" /\ ~b.sh.bad =>
        /\ \A k \in DOMAIN b.data : k \in 1 .. b.sent /\ b.data[k] = b.want[k]
        /\ \A k \in 1 .. b.sent : k \in DOMAIN b.data
             \/ \E id \in DOMAIN children : children[id].serial = b.serial /\ children[id].offset = k

-----------------------------------------------------------------------------
(* What a read is to return.  e is a sequence of writes, None where an     *)
(* element is none; Latest(e, n, v, x): after the first n of them, begun     *)
(* with v, x is stored.                                                    *)
None == -1

Latest(e, n, v, x) ==
    \/ x = v /\ \A j \in 1 .. n : e[j] = None
    \/ \E j \in 1 .. n : e[j] = x /\ x # None /\ \A h \in (j + 1) .. n : e[h] = None

QWrites(q, l) == [j \in 1 .. Len(q) |-> IF q[j].type = "W" /\ q[j].line = l THEN q[j].val ELSE None]

Pending(b, l) == b.sh.type = "W" /\ \E k \in (b.sent + 1) .. Len(b.sh.cells) : b.sh.cells[k] = l
BWrites(bs, l) == [m \in 1 .. Len(bs) |-> IF Pending(bs[m], l) THEN bs[m].serial ELSE None]

Queue(l) == stack_ingress_queues_[cfg.route[l].stack]

\* What a burst n sees of line l.
Seen(n, l, x) == \E y \in Nat : /\ Latest(QWrites(Queue(l), l), Len(Queue(l)), image[Cell(l)], y)
                                /\ Latest(BWrites(bursts, l), n - 1, y, x)

InClass(t) == IF cfg.user = "bridge" THEN t.qos = 0
              ELSE \E sh \in cfg.shapes : t.line \in Range(sh.cells) /\ t.qos = sh.qos

ChainInv ==
    /\ \A s \in Stacks : LET q == stack_ingress_queues_[s] IN
         /\ \A i \in 1 .. Len(q) : /\ cfg.route[q[i].line].stack = s /\ q[i].seq < next_system_sequence_
                                   /\ InClass(q[i])
         /\ \A i, j \in 1 .. Len(q) : i < j => q[i].seq < q[j].seq
         /\ \A i \in 1 .. Len(q) : q[i].type = "R" =>
              Latest(QWrites(q, q[i].line), i - 1, image[Cell(q[i].line)], q[i].want)
    /\ \A l \in Lines : Seen(Len(bursts) + 1, l, stored[l])
    /\ \A n \in 1 .. Len(bursts) : \A k \in (bursts[n].sent + 1) .. Len(bursts[n].sh.cells) :
         bursts[n].sh.type = "R" => Seen(n, bursts[n].sh.cells[k], bursts[n].want[k])

-----------------------------------------------------------------------------
(* Partial functions.                                                      *)

\* What it means to be one.
LEMMA PFunFacts ==
  ASSUME NEW X, NEW Y, NEW f \in PFun(X, Y)
  PROVE  /\ DOMAIN f \subseteq X /\ \A x \in DOMAIN f : f[x] \in Y
         /\ f = [x \in DOMAIN f |-> f[x]]
BY DEF PFun

\* How to be one.
LEMMA PFunIs ==
  ASSUME NEW X, NEW Y, NEW f, NEW D, D \subseteq X, f \in [D -> Y]
  PROVE  f \in PFun(X, Y)
BY DEF PFun

\* There is always the one without arguments.
LEMMA EmptyFacts == DOMAIN Empty = {} /\ \A X, Y : Empty \in PFun(X, Y)
<1>1. DOMAIN Empty = {} /\ \A Y : Empty \in [{} -> Y]
  BY DEF Empty
<1> QED BY <1>1, PFunIs

\* A key is set.
LEMMA SetFacts ==
  ASSUME NEW X, NEW Y, NEW f \in PFun(X, Y), NEW x \in X, NEW v \in Y
  PROVE  /\ Set(f, x, v) \in PFun(X, Y)
         /\ DOMAIN Set(f, x, v) = DOMAIN f \cup {x} /\ Set(f, x, v)[x] = v
         /\ \A y \in DOMAIN f : y # x => Set(f, x, v)[y] = f[y]
<1> DEFINE D == DOMAIN f \cup {x}
<1>1. D \subseteq X /\ \A y \in DOMAIN f : f[y] \in Y
  BY PFunFacts
<1>2. Set(f, x, v) = [y \in D |-> IF y = x THEN v ELSE f[y]]
  BY DEF Set
<1>3. Set(f, x, v) \in [D -> Y]
  BY <1>1, <1>2
<1>4. Set(f, x, v) \in PFun(X, Y)
  BY <1>1, <1>3, PFunIs
<1> QED BY <1>2, <1>4

\* The values of a function of which a key is set, or dropped.
LEMMA SetValue ==
  \A f, x, v : /\ Set(f, x, v)[x] = v /\ DOMAIN Set(f, x, v) = DOMAIN f \cup {x}
               /\ \A y \in DOMAIN f : y # x => Set(f, x, v)[y] = f[y]
BY DEF Set

\* The values of a function of which a key is dropped.
LEMMA DropValue ==
  \A f, x : DOMAIN Drop(f, x) = DOMAIN f \ {x} /\ \A y \in DOMAIN f : y # x => Drop(f, x)[y] = f[y]
BY DEF Drop

\* A key is dropped.
LEMMA DropFacts ==
  ASSUME NEW X, NEW Y, NEW f \in PFun(X, Y), NEW x
  PROVE  /\ Drop(f, x) \in PFun(X, Y)
         /\ DOMAIN Drop(f, x) = DOMAIN f \ {x}
         /\ \A y \in DOMAIN f \ {x} : Drop(f, x)[y] = f[y]
<1> DEFINE D == DOMAIN f \ {x}
<1>1. D \subseteq X /\ \A y \in D : f[y] \in Y
  BY PFunFacts
<1>2. Drop(f, x) = [y \in D |-> f[y]]
  BY DEF Drop
<1>3. Drop(f, x) \in [D -> Y]
  BY <1>1, <1>2
<1>4. Drop(f, x) \in PFun(X, Y)
  BY <1>1, <1>3, PFunIs
<1> QED BY <1>2, <1>4

\* The value of a key is replaced.
LEMMA ReplaceFacts ==
  ASSUME NEW X, NEW Y, NEW f \in PFun(X, Y), NEW x \in DOMAIN f, NEW v \in Y
  PROVE  /\ [f EXCEPT ![x] = v] \in PFun(X, Y)
         /\ DOMAIN [f EXCEPT ![x] = v] = DOMAIN f /\ [f EXCEPT ![x] = v][x] = v
         /\ \A y \in DOMAIN f : y # x => [f EXCEPT ![x] = v][y] = f[y]
<1>1. DOMAIN f \subseteq X /\ \A y \in DOMAIN f : f[y] \in Y
  BY PFunFacts
<1>2. [f EXCEPT ![x] = v] \in [DOMAIN f -> Y]
  BY <1>1
<1>3. [f EXCEPT ![x] = v] \in PFun(X, Y)
  BY <1>1, <1>2, PFunIs
<1> QED BY <1>3

-----------------------------------------------------------------------------
(* Configurations.                                                         *)

\* What the proofs use of a configuration.
LEMMA ConfigFacts ==
  ASSUME cfg \in Configs
  PROVE  /\ cfg.user \in {"bridge", "frontend", "batch"} /\ cfg.mode \in Modes
         /\ cfg.user = "bridge" => cfg.mode = "HostOnly"
         /\ cfg.user = "batch" => cfg.mode = "Disabled"
         /\ cfg.stacks \in Nat \ {0} /\ cfg.channels \in Nat \ {0}
         /\ cfg.ingress \in Nat \ {0} /\ cfg.cresp \in Nat /\ cfg.hostcap \in Nat /\ cfg.txncap \in Nat
         /\ cfg.slots \in Nat \ {0} /\ cfg.fifo \in Nat \ {0} /\ cfg.hold \in Nat
         /\ cfg.tags \subseteq AnyId
BY ConfigAssumption DEF Modes, AnyId

\* What is asked for.
LEMMA ShapeFacts ==
  ASSUME cfg \in Configs, NEW sh \in cfg.shapes
  PROVE  /\ sh.type \in Types /\ sh.cells \in Seq(Lines) /\ Len(sh.cells) \in Nat \ {0}
         /\ sh.qos \in Nat /\ sh.bad \in BOOLEAN
         /\ \A k \in 1 .. Len(sh.cells) : sh.cells[k] \in Lines
<1>1. sh \in Shapes /\ sh.cells # <<>>
  BY ConfigAssumption
<1>2. sh.type \in Types /\ sh.cells \in Seq(Lines) /\ sh.qos \in Nat /\ sh.bad \in BOOLEAN
  BY <1>1 DEF Shapes, Types
<1> QED BY <1>1, <1>2

\* Where lines are.
LEMMA RouteFacts ==
  ASSUME cfg \in Configs
  PROVE  /\ \A l \in Lines : /\ cfg.route[l].stack \in Stacks /\ Cell(l) \in {Cell(k) : k \in Lines}
                             /\ ControllerOf(l) \in Controllers
         /\ \A k, l \in Lines : Cell(k) = Cell(l) => k = l
<1>1. /\ cfg.route \in [Lines -> [stack : 1 .. cfg.stacks, local : Nat, channel : 1 .. cfg.channels]]
      /\ cfg.stacks \in Nat \ {0} /\ cfg.channels \in Nat \ {0}
      /\ \A k, l \in Lines : cfg.route[k].stack = cfg.route[l].stack /\ cfg.route[k].local = cfg.route[l].local => k = l
  BY ConfigAssumption
<1>2. \A l \in Lines : cfg.route[l].stack \in 1 .. cfg.stacks /\ cfg.route[l].channel \in 1 .. cfg.channels
  BY <1>1
<1>3. ASSUME NEW n \in Nat \ {0}, NEW m \in Nat \ {0}, NEW s \in 1 .. n, NEW c \in 1 .. m
      PROVE  (s - 1) * m + c \in 1 .. (n * m)
  <2>1. (s - 1) * m \in Nat /\ (s - 1) * m + m = s * m
    BY <1>3
  <2>2. s * m <= n * m
    BY <1>3
  <2>3. n * m \in Nat /\ s * m \in Nat
    BY <1>3
  <2> QED BY <2>1, <2>2, <2>3
<1>4. \A l \in Lines : ControllerOf(l) \in Controllers
  BY <1>1, <1>2, <1>3 DEF ControllerOf, Controllers
<1> QED BY <1>1, <1>2, <1>4 DEF Stacks, Cell

\* There are controllers, and Len counts them.
LEMMA ControllersFacts ==
  ASSUME TypeInv
  PROVE  1 \in Controllers /\ 1 \in Stacks /\ Len(controllers_) \in Nat /\ Controllers = 1 .. Len(controllers_)
<1>1. cfg.stacks \in Nat \ {0} /\ cfg.channels \in Nat \ {0}
  BY ConfigFacts DEF TypeInv
<1>2. cfg.stacks * cfg.channels \in Nat \ {0}
  BY <1>1
<1>3. controllers_ \in [1 .. (cfg.stacks * cfg.channels) -> Ctl]
  BY DEF TypeInv, Controllers
<1> DEFINE n == cfg.stacks * cfg.channels
<1> HIDE DEF n
<1>4. Len(controllers_) = n
  BY <1>2, <1>3 DEF n
<1> QED BY <1>1, <1>2, <1>4 DEF Controllers, Stacks, n

-----------------------------------------------------------------------------
(* The types are preserved.                                                *)

USE DEF queueVars, outVars, userVars, sysVars, bridgeVars, vars

\* The configuration does not change.
LEMMA SameConfig ==
  ASSUME cfg' = cfg
  PROVE  /\ Stacks' = Stacks /\ Controllers' = Controllers /\ Tagged' = Tagged /\ BurstRec' = BurstRec
         /\ {Cell(l) : l \in Lines}' = {Cell(l) : l \in Lines}
         /\ \A l : Cell(l)' = Cell(l) /\ ControllerOf(l)' = ControllerOf(l)
BY DEF Stacks, Controllers, Tagged, BurstRec, Cell, ControllerOf

\* The record of a tag before t is submitted.
OldHost(t) == IF t.id \in DOMAIN host_submissions_ THEN host_submissions_[t.id]
              ELSE [count |-> t.count, type |-> t.type, accepted |-> {}, completed |-> 0]
NewHost(t) == [OldHost(t) EXCEPT !.accepted = @ \cup {t.idx}]
Numbered(t) == [t EXCEPT !.seq = next_system_sequence_]

\* enqueue puts a transaction into the queue of its stack.
LEMMA EnqueueFacts ==
  ASSUME TypeInv, NEW t \in Tx, Enqueue(t)
  PROVE  /\ Numbered(t) \in Tx /\ cfg.route[t.line].stack \in Stacks
         /\ stack_ingress_queues_' = [stack_ingress_queues_ EXCEPT ![cfg.route[t.line].stack] = Append(@, Numbered(t))]
         /\ stack_ingress_queues_' \in [Stacks -> Seq(Tx)]
         /\ next_system_sequence_' = next_system_sequence_ + 1 /\ next_system_sequence_' \in Nat
         /\ next_system_sequence_' # next_system_sequence_
<1>1. cfg \in Configs /\ next_system_sequence_ \in Nat /\ stack_ingress_queues_ \in [Stacks -> Seq(Tx)]
  BY DEF TypeInv
<1>2. t.line \in Lines /\ Numbered(t) \in Tx
  BY <1>1 DEF Tx, Numbered
<1>3. cfg.route[t.line].stack \in Stacks
  BY <1>1, <1>2, RouteFacts
<1>4. stack_ingress_queues_' = [stack_ingress_queues_ EXCEPT ![cfg.route[t.line].stack] = Append(@, Numbered(t))]
  BY DEF Enqueue, Numbered
<1>5. stack_ingress_queues_' \in [Stacks -> Seq(Tx)]
  BY <1>1, <1>2, <1>3, <1>4, QueuePut
<1>6. /\ next_system_sequence_' = next_system_sequence_ + 1 /\ next_system_sequence_' \in Nat
      /\ next_system_sequence_' # next_system_sequence_
  BY <1>1 DEF Enqueue
<1> QED BY <1>2, <1>3, <1>4, <1>5, <1>6

\* record_submitted_transaction notes the index of a transaction.
LEMMA RecordFacts ==
  ASSUME TypeInv, NEW t \in Tx, RecordSubmitted(t)
  PROVE  /\ OldHost(t) \in Host /\ NewHost(t) \in Host
         /\ NewHost(t).count = OldHost(t).count /\ NewHost(t).type = OldHost(t).type
         /\ NewHost(t).completed = OldHost(t).completed
         /\ NewHost(t).accepted = OldHost(t).accepted \cup {t.idx}
         /\ host_submissions_' = Set(host_submissions_, t.id, NewHost(t))
         /\ host_submissions_' \in PFun(AnyId, Host)
<1>1. host_submissions_ \in PFun(AnyId, Host)
  BY DEF TypeInv
<1>2. t.id \in AnyId /\ t.count \in Nat \ {0} /\ t.type \in Types /\ t.idx \in Nat \ {0}
  BY DEF Tx
<1>3. OldHost(t) \in Host
  <2>1. CASE t.id \in DOMAIN host_submissions_
    BY <1>1, <2>1, PFunFacts DEF OldHost
  <2>2. CASE t.id \notin DOMAIN host_submissions_
    BY <1>2, <2>2 DEF OldHost, Host
  <2> QED BY <2>1, <2>2
<1>4. NewHost(t) \in Host
  BY <1>2, <1>3 DEF NewHost, Host
<1>5. host_submissions_' = Set(host_submissions_, t.id, NewHost(t))
  BY DEF RecordSubmitted, NewHost, OldHost
<1>6. host_submissions_' \in PFun(AnyId, Host)
  BY <1>1, <1>2, <1>4, <1>5, SetFacts
<1>7. /\ NewHost(t).count = OldHost(t).count /\ NewHost(t).type = OldHost(t).type
      /\ NewHost(t).completed = OldHost(t).completed
      /\ NewHost(t).accepted = OldHost(t).accepted \cup {t.idx}
  BY <1>3 DEF NewHost, Host
<1> QED BY <1>3, <1>4, <1>5, <1>6, <1>7

\* try_submit: refused with an exception, taken, or not.
LEMMA TryFacts ==
  ASSUME TypeInv, NEW t \in Tx, TrySubmit(t)
  PROVE  /\ fatal' = Refused(t) /\ Refused(t) \in BOOLEAN
         /\ \/ ~Refused(t) /\ ~IngressFull(t) /\ Enqueue(t) /\ RecordSubmitted(t)
               /\ next_system_sequence_' # next_system_sequence_
            \/ (Refused(t) \/ IngressFull(t)) /\ UNCHANGED queueVars
               /\ next_system_sequence_' = next_system_sequence_
         /\ response_delivery_mode_' \in Modes
         /\ Refused(t) \/ response_delivery_mode_ # "Disabled" => response_delivery_mode_' = response_delivery_mode_
         /\ ~Refused(t) /\ response_delivery_mode_ = "Disabled" => response_delivery_mode_' = "HostOnly"
         /\ stack_ingress_queues_' \in [Stacks -> Seq(Tx)] /\ next_system_sequence_' \in Nat
         /\ host_submissions_' \in PFun(AnyId, Host)
<1>1. /\ stack_ingress_queues_ \in [Stacks -> Seq(Tx)] /\ next_system_sequence_ \in Nat
      /\ host_submissions_ \in PFun(AnyId, Host) /\ response_delivery_mode_ \in Modes
  BY DEF TypeInv
<1>2. Refused(t) \in BOOLEAN
  BY DEF Refused
<1>3. \/ ~Refused(t) /\ ~IngressFull(t) /\ Enqueue(t) /\ RecordSubmitted(t)
      \/ (Refused(t) \/ IngressFull(t)) /\ UNCHANGED queueVars
  BY DEF TrySubmit
<1>4. /\ response_delivery_mode_' \in Modes
      /\ Refused(t) \/ response_delivery_mode_ # "Disabled" => response_delivery_mode_' = response_delivery_mode_
      /\ ~Refused(t) /\ response_delivery_mode_ = "Disabled" => response_delivery_mode_' = "HostOnly"
  BY <1>1 DEF TrySubmit, Modes
<1>5. fatal' = Refused(t)
  BY DEF TrySubmit
<1>6. CASE ~Refused(t) /\ ~IngressFull(t) /\ Enqueue(t) /\ RecordSubmitted(t)
  BY <1>2, <1>4, <1>5, <1>6, EnqueueFacts, RecordFacts
<1>7. CASE (Refused(t) \/ IngressFull(t)) /\ UNCHANGED queueVars
  BY <1>1, <1>2, <1>4, <1>5, <1>7
<1> QED BY <1>3, <1>6, <1>7

\* A transaction of a frontend.
FrontTx(tag, k) == Transaction(tag, k, front[tag].sh, front[tag].val, stored[front[tag].sh.cells[k]])

\* The transaction that a frontend submits next for a tag.
LEMMA FrontTxFacts ==
  ASSUME TypeInv, NEW tag \in DOMAIN front, NEW k \in front[tag].left
  PROVE  /\ front[tag] \in Tagged /\ front[tag].sh \in cfg.shapes
         /\ k \in AllOf(front[tag]) /\ Len(front[tag].sh.cells) \in Nat \ {0}
         /\ FrontTx(tag, k) \in Tx /\ FrontTx(tag, k).id = tag /\ FrontTx(tag, k).idx = k
         /\ FrontTx(tag, k).count = Len(front[tag].sh.cells) /\ FrontTx(tag, k).type = front[tag].sh.type
         /\ FrontTx(tag, k).line = front[tag].sh.cells[k] /\ FrontTx(tag, k).line \in Lines
         /\ FrontTx(tag, k).line \in Range(front[tag].sh.cells)
         /\ FrontTx(tag, k).qos = front[tag].sh.qos /\ FrontTx(tag, k).val = front[tag].val
         /\ FrontTx(tag, k).want = stored[FrontTx(tag, k).line]
<1>1. cfg \in Configs /\ front \in PFun(cfg.tags, Tagged) /\ stored \in [Lines -> Nat]
  BY DEF TypeInv
<1>2. front[tag] \in Tagged /\ tag \in AnyId
  BY <1>1, PFunFacts, ConfigFacts
<1>3. front[tag].sh \in cfg.shapes /\ front[tag].val \in Nat /\ k \in AllOf(front[tag])
  BY <1>2 DEF Tagged
<1>4. /\ front[tag].sh.type \in Types /\ front[tag].sh.cells \in Seq(Lines)
      /\ Len(front[tag].sh.cells) \in Nat \ {0} /\ front[tag].sh.qos \in Nat
      /\ front[tag].sh.cells[k] \in Lines /\ k \in Nat \ {0}
  BY <1>1, <1>3, ShapeFacts DEF AllOf
<1>5. stored[front[tag].sh.cells[k]] \in Nat
  BY <1>1, <1>4
<1>6. front[tag].sh.cells[k] \in Range(front[tag].sh.cells)
  BY <1>3, <1>4 DEF Range, AllOf
<1> QED BY <1>2, <1>3, <1>4, <1>5, <1>6 DEF FrontTx, Transaction, Tx

\* A frontend begins a host request.
LEMMA TypeFrontendBegins ==
  ASSUME TypeInv, NEW tag \in cfg.tags, NEW sh \in cfg.shapes, FrontendBegins(tag, sh), UNCHANGED bridgeVars
  PROVE  TypeInv'
<1> DEFINE f == [sh |-> sh, val |-> begun + 1, left |-> DOMAIN sh.cells, taken |-> {}]
<1>1. cfg \in Configs /\ front \in PFun(cfg.tags, Tagged) /\ begun \in Nat
  BY DEF TypeInv
<1>2. DOMAIN sh.cells = 1 .. Len(sh.cells) /\ Len(sh.cells) \in Nat
  BY <1>1, ShapeFacts
<1>3. f \in Tagged
  BY <1>1, <1>2 DEF Tagged, AllOf
<1>4. front' = Set(front, tag, f) /\ begun' = begun + 1 /\ cfg' = cfg
  BY DEF FrontendBegins
<1>5. front' \in PFun(cfg.tags, Tagged)
  BY <1>1, <1>3, <1>4, SetFacts
<1> QED BY <1>1, <1>4, <1>5, SameConfig DEF TypeInv, FrontendBegins

\* A frontend submits a transaction.
LEMMA TypeFrontendSubmits ==
  ASSUME TypeInv, NEW tag \in DOMAIN front, NEW k \in front[tag].left, FrontendSubmits(tag, k),
         UNCHANGED bridgeVars
  PROVE  TypeInv'
<1> DEFINE t == FrontTx(tag, k)
<1>1. /\ t \in Tx /\ front[tag] \in Tagged /\ t.line \in Lines /\ t.val \in Nat
      /\ cfg \in Configs /\ front \in PFun(cfg.tags, Tagged) /\ stored \in [Lines -> Nat]
      /\ cfg' = cfg /\ fatal \in BOOLEAN /\ response_delivery_mode_ \in Modes
      /\ host_submissions_ \in PFun(AnyId, Host)
  BY FrontTxFacts DEF TypeInv, FrontendSubmits, Tx
<1>2. \/ TrySubmit(t)
      \/ Enqueue(t) /\ UNCHANGED <<response_delivery_mode_, host_submissions_, fatal>>
  BY DEF FrontendSubmits, FrontTx
<1>3. /\ stack_ingress_queues_' \in [Stacks -> Seq(Tx)] /\ next_system_sequence_' \in Nat
      /\ host_submissions_' \in PFun(AnyId, Host) /\ response_delivery_mode_' \in Modes /\ fatal' \in BOOLEAN
  <2>1. CASE TrySubmit(t)
    BY <1>1, <2>1, TryFacts
  <2>2. CASE Enqueue(t) /\ UNCHANGED <<response_delivery_mode_, host_submissions_, fatal>>
    BY <1>1, <2>2, EnqueueFacts
  <2> QED BY <1>2, <2>1, <2>2
<1>4. stored' \in [Lines -> Nat]
  <2>1. stored' = Stored(t) \/ stored' = stored
    BY DEF FrontendSubmits, FrontTx
  <2>2. Stored(t) \in [Lines -> Nat]
    BY <1>1 DEF Stored
  <2> QED BY <1>1, <2>1, <2>2
<1>5. front' \in PFun(cfg.tags, Tagged)
  <2> DEFINE g == [front[tag] EXCEPT !.left = @ \ {k}]
  <2>1. front' = Drop(front, tag) \/ front' = [front EXCEPT ![tag].left = @ \ {k}] \/ front' = front
    BY DEF FrontendSubmits
  <2>2. g \in Tagged
    BY <1>1 DEF Tagged, AllOf
  <2>3. [front EXCEPT ![tag].left = @ \ {k}] = [front EXCEPT ![tag] = g]
    BY <1>1, PFunFacts
  <2>4. [front EXCEPT ![tag] = g] \in PFun(cfg.tags, Tagged)
    BY <1>1, <2>2, ReplaceFacts, SMTT(30)
  <2>5. Drop(front, tag) \in PFun(cfg.tags, Tagged)
    BY <1>1, DropFacts
  <2> QED BY <1>1, <2>1, <2>3, <2>4, <2>5
<1> QED BY <1>1, <1>3, <1>4, <1>5, SameConfig DEF TypeInv, FrontendSubmits

\* pop_response takes a host response and frees its tag.
LEMMA PopFacts ==
  ASSUME TypeInv, PopHost
  PROVE  /\ host_responses_ # <<>> /\ host_responses_ \in Seq(HostRsp)
         /\ host_responses_' = Tail(host_responses_) /\ host_responses_' \in Seq(HostRsp)
         /\ Head(host_responses_) \in HostRsp /\ Head(host_responses_) = host_responses_[1]
         /\ host_submissions_' \in PFun(AnyId, Host)
         /\ host_submissions_' =
              IF /\ Head(host_responses_).id \in DOMAIN host_submissions_
                 /\ host_submissions_[Head(host_responses_).id].completed
                      >= host_submissions_[Head(host_responses_).id].count
              THEN Drop(host_submissions_, Head(host_responses_).id) ELSE host_submissions_
<1>1. host_responses_ \in Seq(HostRsp) /\ host_submissions_ \in PFun(AnyId, Host)
  BY DEF TypeInv
<1>2. host_responses_ # <<>> /\ host_responses_' = Tail(host_responses_)
  BY DEF PopHost
<1>3. Head(host_responses_) \in HostRsp /\ Tail(host_responses_) \in Seq(HostRsp) /\ Head(host_responses_) = host_responses_[1]
  BY <1>1, <1>2, HeadTail
<1>4. Drop(host_submissions_, Head(host_responses_).id) \in PFun(AnyId, Host)
  BY <1>1, DropFacts
<1>5. host_submissions_' =
        IF /\ Head(host_responses_).id \in DOMAIN host_submissions_
           /\ host_submissions_[Head(host_responses_).id].completed
                >= host_submissions_[Head(host_responses_).id].count
        THEN Drop(host_submissions_, Head(host_responses_).id) ELSE host_submissions_
  BY DEF PopHost
<1> QED BY <1>1, <1>2, <1>3, <1>4, <1>5

\* A frontend takes a host response.
LEMMA TypeFrontendPops ==
  ASSUME TypeInv, FrontendPops, UNCHANGED bridgeVars
  PROVE  TypeInv'
<1>1. front \in PFun(cfg.tags, Tagged) /\ PopHost /\ cfg' = cfg
  BY DEF TypeInv, FrontendPops
<1>2. front' \in PFun(cfg.tags, Tagged)
  BY <1>1, DropFacts DEF FrontendPops
<1>3. host_responses_' \in Seq(HostRsp) /\ host_submissions_' \in PFun(AnyId, Host)
  BY <1>1, PopFacts
<1> QED BY <1>1, <1>2, <1>3, SameConfig DEF TypeInv, FrontendPops

\* A frontend takes the response of a transaction.
LEMMA TypeFrontendPopsTransaction ==
  ASSUME TypeInv, FrontendPopsTransaction, UNCHANGED bridgeVars
  PROVE  TypeInv'
<1> DEFINE r == Head(transaction_responses_)
           taken == front[r.id].taken \union {r.t.idx}
<1>1. /\ front \in PFun(cfg.tags, Tagged) /\ cfg' = cfg
      /\ transaction_responses_ \in Seq(Resp) /\ transaction_responses_ # <<>>
      /\ transaction_responses_' = Tail(transaction_responses_)
  BY DEF TypeInv, FrontendPopsTransaction
<1>2. r \in Resp /\ transaction_responses_' \in Seq(Resp)
  BY <1>1, HeadTail
<1>3. r.t.idx \in Nat
  BY <1>2 DEF Resp, RespRec, Tx
<1>4. front' \in PFun(cfg.tags, Tagged)
  <2>1. front' = front \/ front' = Drop(front, r.id) \/ front' = [front EXCEPT ![r.id].taken = taken]
    BY DEF FrontendPopsTransaction
  <2>2. Drop(front, r.id) \in PFun(cfg.tags, Tagged)
    BY <1>1, DropFacts
  <2>3. CASE r.id \in DOMAIN front
    <3> DEFINE g == [front[r.id] EXCEPT !.taken = taken]
    <3>1. front[r.id] \in Tagged
      BY <1>1, <2>3, PFunFacts
    <3>2. taken \in SUBSET Nat
      BY <1>3, <3>1 DEF Tagged
    <3>3. g \in Tagged
      BY <3>1, <3>2 DEF Tagged, AllOf
    <3>4. [front EXCEPT ![r.id].taken = taken] = [front EXCEPT ![r.id] = g]
      BY <1>1, <2>3
    <3>5. [front EXCEPT ![r.id] = g] \in PFun(cfg.tags, Tagged)
      BY <1>1, <2>3, <3>3, ReplaceFacts
    <3> QED BY <1>1, <2>1, <2>2, <3>4, <3>5
  <2>4. CASE r.id \notin DOMAIN front
    <3>1. front = [x \in DOMAIN front |-> front[x]]
      BY <1>1, PFunFacts
    <3>2. [front EXCEPT ![r.id].taken = taken] = front
      BY <2>4, <3>1
    <3> QED BY <1>1, <2>1, <2>2, <3>2
  <2> QED BY <2>3, <2>4
<1> QED BY <1>1, <1>2, <1>4, SameConfig DEF TypeInv, FrontendPopsTransaction

\* What StrictPriority prefers.
Better(a, b) == a.qos > b.qos \/ (a.qos = b.qos /\ a.seq <= b.seq)

\* In every queue that is not empty there is a request that is preferred.
LEMMA BestExists ==
  ASSUME NEW q \in Seq(Tx), q # <<>>
  PROVE  \E i \in 1 .. Len(q) : \A j \in 1 .. Len(q) : Better(q[i], q[j])
<1> DEFINE P == {n \in Nat : n + 1 <= Len(q) =>
                   \E i \in 1 .. (n + 1) : \A j \in 1 .. (n + 1) : Better(q[i], q[j])}
<1>0. Len(q) \in Nat \ {0} /\ \A i \in 1 .. Len(q) : q[i] \in Tx
  OBVIOUS
<1>1. Len(q) \in Nat \ {0} /\ \A i \in 1 .. Len(q) : q[i].qos \in Nat /\ q[i].seq \in Nat
  BY <1>0 DEF Tx
<1>2. 0 \in P
  <2>1. 0 + 1 = 1 /\ 1 \in 1 .. Len(q)
    BY <1>1
  <2>2. Better(q[1], q[1])
    BY <1>1, <2>1 DEF Better
  <2>3. \A j \in 1 .. 1 : j = 1
    OBVIOUS
  <2> QED BY <2>1, <2>2, <2>3
<1>3. ASSUME NEW n \in Nat, n \in P PROVE n + 1 \in P
  <2> SUFFICES ASSUME (n + 1) + 1 <= Len(q)
               PROVE  \E i \in 1 .. ((n + 1) + 1) : \A j \in 1 .. ((n + 1) + 1) : Better(q[i], q[j])
    OBVIOUS
  <2> DEFINE m == (n + 1) + 1
  <2>1. PICK i \in 1 .. (n + 1) : \A j \in 1 .. (n + 1) : Better(q[i], q[j])
    BY <1>1, <1>3
  <2>2. /\ m \in 1 .. Len(q) /\ i \in 1 .. Len(q) /\ i \in 1 .. m
        /\ \A j \in 1 .. m : j \in 1 .. Len(q) /\ (j = m \/ j \in 1 .. (n + 1))
    BY <1>1, <2>1
  <2>3. CASE Better(q[i], q[m])
    BY <2>1, <2>2, <2>3
  <2>4. CASE ~Better(q[i], q[m])
    <3>1. \A j \in 1 .. m : Better(q[m], q[j])
      <4> TAKE j \in 1 .. m
      <4>1. /\ q[i].qos \in Nat /\ q[i].seq \in Nat /\ q[m].qos \in Nat /\ q[m].seq \in Nat
            /\ q[j].qos \in Nat /\ q[j].seq \in Nat
        BY <1>1, <2>2
      <4>2. j = m \/ Better(q[i], q[j])
        BY <2>1, <2>2
      <4>3. PICK a, b, c : a = q[i] /\ b = q[m] /\ c = q[j]
        OBVIOUS
      <4>4. /\ a.qos \in Nat /\ a.seq \in Nat /\ b.qos \in Nat /\ b.seq \in Nat /\ c.qos \in Nat /\ c.seq \in Nat
            /\ ~Better(a, b) /\ (b = c \/ Better(a, c))
        BY <2>4, <4>1, <4>2, <4>3
      <4>5. Better(b, c)
        BY <4>4 DEF Better
      <4> QED BY <4>3, <4>5
    <3> QED BY <2>2, <3>1
  <2> QED BY <2>3, <2>4
<1>4. \A n \in Nat : n \in P
  <2> HIDE DEF P
  <2> QED BY <1>2, <1>3, SetInduction
<1>5. Len(q) - 1 \in P /\ (Len(q) - 1) + 1 = Len(q)
  <2>1. Len(q) - 1 \in Nat /\ (Len(q) - 1) + 1 = Len(q)
    BY <1>1
  <2> HIDE DEF P
  <2> QED BY <1>4, <2>1
<1> QED BY <1>1, <1>5

\* A request is dispatched before every younger request of its line.
LEMMA SelectedFacts ==
  ASSUME TypeInv, ChainInv, NEW s \in Stacks, stack_ingress_queues_[s] # <<>>
  PROVE  LET q == stack_ingress_queues_[s]
             i == Selected(q)
         IN  /\ q \in Seq(Tx) /\ i \in 1 .. Len(q) /\ q[i] \in Tx
             /\ \A j \in 1 .. (i - 1) : q[j].line # q[i].line
<1> DEFINE q == stack_ingress_queues_[s]
           i == Selected(q)
<1>1. q \in Seq(Tx) /\ cfg \in Configs
  BY DEF TypeInv
<1>2. Len(q) \in Nat \ {0} /\ \A j \in 1 .. Len(q) : q[j] \in Tx
  BY <1>1
<1>3. CASE cfg.qos = "Fifo"
  <2>1. i = 1
    BY <1>3 DEF Selected
  <2> QED BY <1>1, <1>2, <2>1
<1>4. CASE cfg.qos # "Fifo"
  <2>1. DOMAIN q = 1 .. Len(q)
    BY <1>1
  <2>2. i = CHOOSE h \in 1 .. Len(q) : \A j \in 1 .. Len(q) : Better(q[h], q[j])
    BY <1>4, <2>1 DEF Selected, Better
  <2>3. i \in 1 .. Len(q) /\ \A j \in 1 .. Len(q) : Better(q[i], q[j])
    <3>1. \E h \in 1 .. Len(q) : \A j \in 1 .. Len(q) : Better(q[h], q[j])
      BY <1>1, BestExists
    <3> HIDE DEF q, i
    <3> QED BY <2>2, <3>1
  <2>4. ASSUME NEW j \in 1 .. (i - 1), q[j].line = q[i].line PROVE FALSE
    <3>1. j \in 1 .. Len(q) /\ j < i
      BY <1>2, <2>3
    <3>2. q[j].seq < q[i].seq /\ InClass(q[j]) /\ InClass(q[i])
      BY <2>3, <3>1 DEF ChainInv
    <3>3. q[j].qos = q[i].qos
      <4>1. CASE cfg.user = "bridge"
        BY <3>2, <4>1 DEF InClass
      <4>2. CASE cfg.user # "bridge"
        <5>1. PICK sh \in cfg.shapes : q[j].line \in Range(sh.cells) /\ q[j].qos = sh.qos
          BY <3>2, <4>2 DEF InClass
        <5>2. PICK sg \in cfg.shapes : q[i].line \in Range(sg.cells) /\ q[i].qos = sg.qos
          BY <3>2, <4>2 DEF InClass
        <5>3. Range(sh.cells) \cap Range(sg.cells) # {}
          BY <5>1, <5>2, <2>4
        <5> QED BY <1>1, <1>4, <5>1, <5>2, <5>3, ConfigAssumption
      <4> QED BY <4>1, <4>2
    <3>4. q[j].seq \in Nat /\ q[i].seq \in Nat
      BY <1>2, <2>3, <3>1 DEF Tx
    <3>5. Better(q[i], q[j])
      BY <2>3, <3>1
    <3>6. q[i].qos \in Nat
      BY <1>2, <2>3 DEF Tx
    <3> HIDE DEF q, i
    <3> QED BY <3>2, <3>3, <3>4, <3>5, <3>6 DEF Better
  <2> QED BY <1>1, <1>2, <2>3, <2>4
<1> QED BY <1>3, <1>4

\* The dispatch of a request, and everything in tick that only moves on.
DispatchTakes(s, i, c) ==
    LET queue == stack_ingress_queues_[s]
    IN  /\ at.name = "dispatch" /\ at.n = s /\ s \in Stacks /\ ~fatal
        /\ queue # <<>> /\ i = Selected(queue) /\ c = ControllerOf(queue[i].line)
        /\ ControllerAccepts(c, queue[i])
        /\ stack_ingress_queues_' = [stack_ingress_queues_ EXCEPT ![s] = RemoveAt(@, i)]
        /\ at' = [at EXCEPT !.slot = @ + 1]
        /\ UNCHANGED <<cfg, response_delivery_mode_, next_system_sequence_, host_submissions_, outVars, fatal,
                       userVars, bridgeVars>>

MovesOn ==
    /\ \/ at.name = "idle" /\ ~fatal /\ cfg.user # "bridge" /\ Tick
       \/ at.name = "dispatch" /\ NextStack
       \/ at.name = "controllers" /\ at' = [name |-> "collect", n |-> 1, slot |-> 0]
       \/ at.name = "collect" /\ at' = AfterTick
       \/ at.name = "collect" /\ at.n < Len(controllers_) /\ at' = [at EXCEPT !.n = @ + 1]
    /\ UNCHANGED <<cfg, response_delivery_mode_, queueVars, controllers_, image, outVars, fatal, userVars, bridgeVars>>

\* A controller answers one of its transactions.
ControllerAnswers(c, i, status) ==
    /\ at.name = "controllers" /\ ~fatal /\ c \in Controllers /\ i \in DOMAIN controllers_[c].waiting
    /\ cfg.cresp = 0 \/ Len(controllers_[c].responses) < cfg.cresp
    /\ status \in Statuses
    /\ controllers_' = [controllers_ EXCEPT ![c] =
                        [waiting   |-> RemoveAt(@.waiting, i),
                         responses |-> Append(@.responses, [id |-> @.waiting[i].t.id, t |-> @.waiting[i].t,
                                                            data |-> @.waiting[i].data, status |-> status])]]
    /\ UNCHANGED <<cfg, at, response_delivery_mode_, queueVars, image, outVars, fatal, userVars, bridgeVars>>

\* collect_responses takes one response.
Collects(c) ==
    /\ at.name = "collect" /\ at.n = c /\ c \in Controllers /\ ~fatal /\ CollectOne
    /\ UNCHANGED <<cfg, at, response_delivery_mode_, stack_ingress_queues_, next_system_sequence_, image,
                   userVars, bridgeVars>>

\* The steps of tick.
LEMMA SystemSteps ==
  ASSUME TypeInv, AtInv, StepNext
  PROVE  \/ \E s, i, c : DispatchTakes(s, i, c)
         \/ MovesOn
         \/ \E c, i, status : ControllerAnswers(c, i, status)
         \/ \E c : Collects(c)
<1>1. CASE DispatchStackIngress
  BY <1>1 DEF DispatchStackIngress, StepNext, SystemStep, DispatchTakes, MovesOn, AtInv
<1>2. CASE ControllersTick
  BY <1>2 DEF ControllersTick, StepNext, SystemStep, ControllerAnswers, MovesOn, Statuses
<1>3. CASE CollectResponses
  <2>1. at.n \in Controllers
    BY <1>3 DEF CollectResponses, AtInv
  <2> QED BY <1>3, <2>1 DEF CollectResponses, StepNext, SystemStep, Collects, CollectOne, CollectNext, MovesOn
<1> QED BY <1>1, <1>2, <1>3 DEF StepNext, SystemStep

\* A read that is dispatched finds what it was to return.
LEMMA DispatchFacts ==
  ASSUME TypeInv, ChainInv, NEW s, NEW i, NEW c, DispatchTakes(s, i, c)
  PROVE  LET q == stack_ingress_queues_[s]
             t == q[i]
             w == [t |-> t, type |-> t.type, data |-> IF t.type = "R" THEN image[Cell(t.line)] ELSE 0]
         IN  /\ s \in Stacks /\ q \in Seq(Tx) /\ i \in 1 .. Len(q) /\ t \in Tx /\ c \in Controllers
             /\ \A j \in 1 .. (i - 1) : q[j].line # t.line
             /\ t.type = "R" => t.want = image[Cell(t.line)]
             /\ w \in Wait
             /\ controllers_[c] \in Ctl /\ controllers_' \in [Controllers -> Ctl]
             /\ controllers_' = [controllers_ EXCEPT ![c].waiting = Append(@, w)]
             /\ controllers_'[c].waiting = Append(controllers_[c].waiting, w)
             /\ controllers_'[c].responses = controllers_[c].responses
             /\ \A d \in Controllers \ {c} : controllers_'[d] = controllers_[d]
             /\ stack_ingress_queues_' \in [Stacks -> Seq(Tx)]
             /\ stack_ingress_queues_'[s] = RemoveAt(q, i)
             /\ \A r \in Stacks \ {s} : stack_ingress_queues_'[r] = stack_ingress_queues_[r]
             /\ image' \in [{Cell(l) : l \in Lines} -> Nat]
             /\ image' = IF t.type = "W" THEN [image EXCEPT ![Cell(t.line)] = t.val] ELSE image
<1> DEFINE q == stack_ingress_queues_[s]
           t == q[i]
           w == [t |-> t, type |-> t.type, data |-> IF t.type = "R" THEN image[Cell(t.line)] ELSE 0]
<1>1. s \in Stacks /\ q # <<>> /\ i = Selected(q) /\ c = ControllerOf(t.line)
  BY DEF DispatchTakes
<1>2. q \in Seq(Tx) /\ i \in 1 .. Len(q) /\ t \in Tx /\ \A j \in 1 .. (i - 1) : q[j].line # t.line
  BY <1>1, SelectedFacts
<1>3. /\ cfg \in Configs /\ controllers_ \in [Controllers -> Ctl] /\ image \in [{Cell(l) : l \in Lines} -> Nat]
      /\ stack_ingress_queues_ \in [Stacks -> Seq(Tx)]
  BY DEF TypeInv
<1>4. t.line \in Lines /\ t.type \in Types /\ t.val \in Nat /\ t.want \in Nat
  BY <1>2 DEF Tx
<1>5. c \in Controllers /\ Cell(t.line) \in {Cell(l) : l \in Lines}
  BY <1>1, <1>3, <1>4, RouteFacts
<1>6. image[Cell(t.line)] \in Nat
  BY <1>3, <1>5
<1>7. t.type = "R" => t.want = image[Cell(t.line)]
  <2> SUFFICES ASSUME t.type = "R" PROVE t.want = image[Cell(t.line)]
    OBVIOUS
  <2>1. Latest(QWrites(q, t.line), i - 1, image[Cell(t.line)], t.want)
    BY <1>1, <1>2 DEF ChainInv
  <2>2. \A j \in 1 .. (i - 1) : QWrites(q, t.line)[j] = None
    <3> TAKE j \in 1 .. (i - 1)
    <3>1. j \in 1 .. Len(q) /\ q[j].line # t.line
      BY <1>2
    <3> HIDE DEF q, t
    <3> QED BY <3>1 DEF QWrites
  <2> HIDE DEF q, t
  <2> QED BY <2>1, <2>2 DEF Latest
<1>8. w \in Wait
  <2>1. w \in WaitRec
    BY <1>2, <1>4, <1>6 DEF WaitRec
  <2> QED BY <1>7, <2>1 DEF Wait
<1>9. controllers_[c] \in Ctl /\ controllers_[c].waiting \in Seq(Wait)
  BY <1>3, <1>5 DEF Ctl
<1>10. controllers_' = [controllers_ EXCEPT ![c].waiting = Append(@, w)]
  BY DEF DispatchTakes, ControllerAccepts
<1>11. Append(controllers_[c].waiting, w) \in Seq(Wait)
  BY <1>8, <1>9, Appended
<1>12. /\ controllers_' \in [Controllers -> Ctl]
       /\ controllers_'[c].waiting = Append(controllers_[c].waiting, w)
       /\ controllers_'[c].responses = controllers_[c].responses
       /\ \A d \in Controllers \ {c} : controllers_'[d] = controllers_[d]
  <2> DEFINE x == Append(controllers_[c].waiting, w)
  <2>1. controllers_' = [controllers_ EXCEPT ![c].waiting = x]
    BY <1>10
  <2> HIDE DEF w, x
  <2>2. x \in Seq(Wait)
    BY <1>11 DEF x
  <2>3. [controllers_[c] EXCEPT !.waiting = x] \in Ctl
    BY <1>9, <2>2 DEF Ctl
  <2> QED BY <1>3, <1>5, <1>9, <2>1, <2>2, <2>3 DEF Ctl, x
<1>13. /\ stack_ingress_queues_' \in [Stacks -> Seq(Tx)]
       /\ stack_ingress_queues_'[s] = RemoveAt(q, i)
       /\ \A r \in Stacks \ {s} : stack_ingress_queues_'[r] = stack_ingress_queues_[r]
  <2>1. RemoveAt(q, i) \in Seq(Tx)
    BY <1>2, RemoveAtFacts
  <2>2. stack_ingress_queues_' = [stack_ingress_queues_ EXCEPT ![s] = RemoveAt(q, i)]
    BY DEF DispatchTakes
  <2> QED BY <1>1, <1>3, <2>1, <2>2
<1>14. image' = IF t.type = "W" THEN [image EXCEPT ![Cell(t.line)] = t.val] ELSE image
  BY DEF DispatchTakes, ControllerAccepts
<1>15. image' \in [{Cell(l) : l \in Lines} -> Nat]
  <2> HIDE DEF t
  <2> QED BY <1>3, <1>4, <1>5, <1>14
<1> QED BY <1>1, <1>2, <1>5, <1>7, <1>8, <1>9, <1>10, <1>12, <1>13, <1>14, <1>15

\* The queues that change.
LEMMA DispatchMoves ==
  ASSUME TypeInv, ChainInv, NEW s, NEW i, NEW c, DispatchTakes(s, i, c)
  PROVE  /\ s \in Stacks /\ stack_ingress_queues_[s] \in Seq(Tx) /\ i \in 1 .. Len(stack_ingress_queues_[s])
         /\ c \in Controllers
         /\ controllers_'[c].responses = controllers_[c].responses
         /\ \A d \in Controllers \ {c} : controllers_'[d] = controllers_[d]
         /\ stack_ingress_queues_'[s] = RemoveAt(stack_ingress_queues_[s], i)
         /\ \A r \in Stacks \ {s} : stack_ingress_queues_'[r] = stack_ingress_queues_[r]
<1>1. s \in Stacks /\ stack_ingress_queues_[s] \in Seq(Tx) /\ i \in 1 .. Len(stack_ingress_queues_[s])
  BY DispatchFacts
<1>2. c \in Controllers
  BY DispatchFacts
<1>3. controllers_'[c].responses = controllers_[c].responses
  BY DispatchFacts
<1>4. \A d \in Controllers \ {c} : controllers_'[d] = controllers_[d]
  BY DispatchFacts
<1>5. stack_ingress_queues_'[s] = RemoveAt(stack_ingress_queues_[s], i)
  <2> DEFINE x == RemoveAt(stack_ingress_queues_[s], i)
  <2>1. stack_ingress_queues_' = [stack_ingress_queues_ EXCEPT ![s] = x]
    BY DEF DispatchTakes
  <2>2. stack_ingress_queues_ \in [Stacks -> Seq(Tx)]
    BY DEF TypeInv
  <2> HIDE DEF x
  <2>3. stack_ingress_queues_'[s] = x
    BY <1>1, <2>1, <2>2
  <2> QED BY <2>3 DEF x
<1>6. \A r \in Stacks \ {s} : stack_ingress_queues_'[r] = stack_ingress_queues_[r]
  BY DispatchFacts
<1> QED BY <1>1, <1>2, <1>3, <1>4, <1>5, <1>6

\* DispatchStackIngress hands a request on: types are kept.
LEMMA TypeDispatch ==
  ASSUME TypeInv, ChainInv, NEW s, NEW i, NEW c, DispatchTakes(s, i, c)
  PROVE  TypeInv'
<1>1. /\ controllers_' \in [Controllers -> Ctl] /\ stack_ingress_queues_' \in [Stacks -> Seq(Tx)]
      /\ image' \in [{Cell(l) : l \in Lines} -> Nat]
  BY DispatchFacts
<1>2. cfg' = cfg
  BY DEF DispatchTakes
<1> QED BY <1>1, <1>2, SameConfig DEF TypeInv, DispatchTakes

\* tick goes on.
LEMMA TypeMovesOn ==
  ASSUME TypeInv, MovesOn
  PROVE  TypeInv'
<1>2. cfg' = cfg
  BY DEF MovesOn
<1> QED BY <1>2, SameConfig DEF TypeInv, MovesOn

\* A controller answers with what the transaction found.
LEMMA AnswerFacts ==
  ASSUME TypeInv, NEW c, NEW i, NEW status, ControllerAnswers(c, i, status)
  PROVE  LET q == controllers_[c].waiting
             r == [id |-> q[i].t.id, t |-> q[i].t, data |-> q[i].data, status |-> status]
         IN  /\ c \in Controllers /\ q \in Seq(Wait) /\ i \in 1 .. Len(q) /\ r \in Resp
             /\ controllers_[c].responses \in Seq(Resp)
             /\ controllers_' \in [Controllers -> Ctl]
             /\ controllers_'[c].waiting = RemoveAt(q, i)
             /\ controllers_'[c].responses = Append(controllers_[c].responses, r)
             /\ \A d \in Controllers \ {c} : controllers_'[d] = controllers_[d]
<1> DEFINE q == controllers_[c].waiting
           r == [id |-> q[i].t.id, t |-> q[i].t, data |-> q[i].data, status |-> status]
<1>1. /\ c \in Controllers /\ i \in DOMAIN q /\ status \in Statuses
      /\ controllers_' = [controllers_ EXCEPT ![c] =
            [waiting |-> RemoveAt(q, i), responses |-> Append(controllers_[c].responses, r)]]
  BY DEF ControllerAnswers
<1>2. controllers_ \in [Controllers -> Ctl]
  BY DEF TypeInv
<1>3. q \in Seq(Wait) /\ controllers_[c].responses \in Seq(Resp)
  BY <1>1, <1>2 DEF Ctl
<1>4. i \in 1 .. Len(q) /\ q[i] \in Wait
  BY <1>1, <1>3
<1>5. r \in Resp
  <2>1. q[i] \in WaitRec /\ q[i].type = q[i].t.type /\ (q[i].type = "R" => q[i].data = q[i].t.want)
    BY <1>4 DEF Wait
  <2>2. q[i].t \in Tx /\ q[i].data \in Nat
    BY <2>1 DEF WaitRec
  <2>3. q[i].t.id \in AnyId
    BY <2>2 DEF Tx
  <2>4. r \in RespRec
    BY <1>1, <2>2, <2>3 DEF RespRec
  <2> QED BY <2>1, <2>4 DEF Resp
<1>6. RemoveAt(q, i) \in Seq(Wait) /\ Append(controllers_[c].responses, r) \in Seq(Resp)
  BY <1>3, <1>4, <1>5, RemoveAtFacts, Appended
<1> HIDE DEF q, r
<1>7. [waiting |-> RemoveAt(q, i), responses |-> Append(controllers_[c].responses, r)] \in Ctl
  BY <1>6 DEF Ctl
<1> QED BY <1>1, <1>2, <1>3, <1>4, <1>5, <1>7 DEF q, r

\* A controller answers: types are kept.
LEMMA TypeAnswers ==
  ASSUME TypeInv, NEW c, NEW i, NEW status, ControllerAnswers(c, i, status)
  PROVE  TypeInv'
<1>1. controllers_' \in [Controllers -> Ctl]
  BY AnswerFacts
<1>2. cfg' = cfg
  BY DEF ControllerAnswers
<1> QED BY <1>1, <1>2, SameConfig DEF TypeInv, ControllerAnswers

\* The parts of the host response that r belongs to, r among them.
OldParts(r)  == IF r.id \in DOMAIN host_assemblies_ THEN host_assemblies_[r.id] ELSE Empty
JoinedParts(r) == Set(OldParts(r), r.t.idx, r)

\* A part is added.
LEMMA SetPart ==
  ASSUME NEW o \in PFun(Nat \ {0}, Resp), NEW k \in Nat \ {0}, NEW p \in Resp
  PROVE  /\ Set(o, k, p) \in PFun(Nat \ {0}, Resp)
         /\ DOMAIN Set(o, k, p) = DOMAIN o \cup {k} /\ Set(o, k, p)[k] = p
         /\ \A y \in DOMAIN o : y # k => Set(o, k, p)[y] = o[y]
<1>1. Set(o, k, p) \in PFun(Nat \ {0}, Resp)
  BY SetFacts
<1>2. DOMAIN Set(o, k, p) = DOMAIN o \cup {k}
  BY SetFacts
<1>3. Set(o, k, p)[k] = p
  BY SetValue
<1>4. \A y \in DOMAIN o : y # k => Set(o, k, p)[y] = o[y]
  BY SetValue
<1> QED BY <1>1, <1>2, <1>3, <1>4

\* What collect_responses does with the controllers.
LEMMA CollectFacts ==
  ASSUME TypeInv, NEW c, Collects(c)
  PROVE  LET q == controllers_[c].responses
             r == Head(q)
         IN  /\ c \in Controllers /\ q \in Seq(Resp) /\ q # <<>> /\ r \in Resp /\ r = q[1]
             /\ controllers_' \in [Controllers -> Ctl]
             /\ controllers_'[c].waiting = controllers_[c].waiting
             /\ controllers_'[c].responses = Tail(q)
             /\ \A d \in Controllers \ {c} : controllers_'[d] = controllers_[d]
             /\ r.t \in Tx /\ r.t.idx \in Nat \ {0} /\ r.id \in AnyId /\ r.id = r.t.id
             /\ OldParts(r) \in Parts /\ JoinedParts(r) \in Parts
             /\ DOMAIN JoinedParts(r) = DOMAIN OldParts(r) \cup {r.t.idx}
             /\ JoinedParts(r)[r.t.idx] = r
             /\ \A k \in DOMAIN OldParts(r) : k # r.t.idx => JoinedParts(r)[k] = OldParts(r)[k]
<1> DEFINE q == controllers_[c].responses
           r == Head(q)
<1>1. /\ c \in Controllers /\ q # <<>>
      /\ controllers_' = [controllers_ EXCEPT ![c].responses = Tail(@)]
  BY DEF Collects, CollectOne
<1>2. controllers_ \in [Controllers -> Ctl] /\ host_assemblies_ \in PFun(AnyId, Parts)
  BY DEF TypeInv
<1>3. controllers_[c] \in Ctl /\ q \in Seq(Resp)
  BY <1>1, <1>2 DEF Ctl
<1>4. r \in Resp /\ r = q[1] /\ Tail(q) \in Seq(Resp)
  BY <1>1, <1>3, HeadTail
<1>5. /\ controllers_' \in [Controllers -> Ctl]
      /\ controllers_'[c].waiting = controllers_[c].waiting
      /\ controllers_'[c].responses = Tail(q)
      /\ \A d \in Controllers \ {c} : controllers_'[d] = controllers_[d]
  <2>1. [controllers_[c] EXCEPT !.responses = Tail(q)] \in Ctl
    BY <1>3, <1>4 DEF Ctl
  <2> QED BY <1>1, <1>2, <1>3, <2>1 DEF Ctl
<1>6. r.t \in Tx /\ r.id \in AnyId /\ r.id = r.t.id
  BY <1>4 DEF Resp, RespRec
<1>7. r.t.idx \in Nat \ {0}
  BY <1>6 DEF Tx
<1>8. OldParts(r) \in Parts
  BY <1>2, PFunFacts, EmptyFacts DEF OldParts, Parts
<1> HIDE DEF r
<1>9. /\ JoinedParts(r) \in Parts
      /\ DOMAIN JoinedParts(r) = DOMAIN OldParts(r) \cup {r.t.idx}
      /\ JoinedParts(r)[r.t.idx] = r
      /\ \A k \in DOMAIN OldParts(r) : k # r.t.idx => JoinedParts(r)[k] = OldParts(r)[k]
  <2>1. OldParts(r) \in PFun(Nat \ {0}, Resp) /\ r.t.idx \in Nat \ {0} /\ r \in Resp
    BY <1>4, <1>7, <1>8 DEF Parts
  <2> DEFINE o == OldParts(r)
             k == r.t.idx
  <2>2. Set(o, k, r) \in PFun(Nat \ {0}, Resp) /\ DOMAIN Set(o, k, r) = DOMAIN o \cup {k}
    BY <2>1, SetPart
  <2>3. Set(o, k, r)[k] = r /\ \A y \in DOMAIN o : y # k => Set(o, k, r)[y] = o[y]
    BY SetValue
  <2> QED BY <2>2, <2>3 DEF JoinedParts, Parts
<1> QED BY <1>1, <1>3, <1>4, <1>5, <1>6, <1>7, <1>8, <1>9 DEF r

\* Where no host response is retained; where the response is whole; where
\* parts of it are missing.
LEMMA CollectCases ==
  ASSUME TypeInv, NEW c, Collects(c)
  PROVE  LET r == Head(controllers_[c].responses)
         IN  /\ host_submissions_' = RecordCompleted(r)
             /\ response_delivery_mode_ = "Disabled" \/ ~Blocked
             /\ transaction_responses_' = IF RetainsTransaction THEN Append(transaction_responses_, r)
                                          ELSE transaction_responses_
             /\ \/ ~RetainsHost /\ UNCHANGED <<host_assemblies_, host_responses_, fatal>>
                \/ /\ RetainsHost
                   /\ fatal' = (r.t.idx \in DOMAIN OldParts(r)
                                 \/ (DOMAIN JoinedParts(r) = 1 .. r.t.count /\ HostFull))
                   /\ \/ /\ DOMAIN JoinedParts(r) = 1 .. r.t.count
                         /\ host_responses_' = Append(host_responses_, HostResponse(r.id, JoinedParts(r)))
                         /\ host_assemblies_' = Drop(host_assemblies_, r.id)
                      \/ /\ DOMAIN JoinedParts(r) # 1 .. r.t.count
                         /\ host_assemblies_' = Set(host_assemblies_, r.id, JoinedParts(r))
                         /\ UNCHANGED host_responses_
<1> DEFINE r == Head(controllers_[c].responses)
<1>1. CollectOne /\ at.n = c
  BY DEF Collects
<1>2. /\ host_submissions_' = RecordCompleted(r)
      /\ response_delivery_mode_ = "Disabled" \/ ~Blocked
      /\ transaction_responses_' = IF RetainsTransaction THEN Append(transaction_responses_, r)
                                   ELSE transaction_responses_
      /\ IF RetainsHost THEN Aggregate(r) ELSE UNCHANGED <<host_assemblies_, host_responses_, fatal>>
  BY <1>1 DEF CollectOne
<1> HIDE DEF r
<1>3. CASE ~RetainsHost
  BY <1>2, <1>3 DEF r
<1>4. CASE RetainsHost
  <2>1. Aggregate(r)
    BY <1>2, <1>4
  <2>2. fatal' = (r.t.idx \in DOMAIN OldParts(r) \/ (DOMAIN JoinedParts(r) = 1 .. r.t.count /\ HostFull))
    BY <2>1 DEF Aggregate, OldParts, JoinedParts, Assembled
  <2>3. \/ /\ DOMAIN JoinedParts(r) = 1 .. r.t.count
           /\ host_responses_' = Append(host_responses_, HostResponse(r.id, JoinedParts(r)))
           /\ host_assemblies_' = Drop(host_assemblies_, r.id)
        \/ /\ DOMAIN JoinedParts(r) # 1 .. r.t.count
           /\ host_assemblies_' = Set(host_assemblies_, r.id, JoinedParts(r))
           /\ UNCHANGED host_responses_
    BY <2>1 DEF Aggregate, OldParts, JoinedParts, Assembled
  <2> QED BY <1>2, <1>4, <2>2, <2>3 DEF r
<1> QED BY <1>3, <1>4

\* collect_responses joins the parts of a response.
LEMMA TypeCollects ==
  ASSUME TypeInv, NEW c, Collects(c)
  PROVE  TypeInv'
<1> DEFINE r == Head(controllers_[c].responses)
<1>1. /\ controllers_' \in [Controllers -> Ctl] /\ r \in Resp /\ r.id \in AnyId
      /\ JoinedParts(r) \in Parts
  BY CollectFacts
<1>2. /\ host_submissions_ \in PFun(AnyId, Host) /\ host_assemblies_ \in PFun(AnyId, Parts)
      /\ host_responses_ \in Seq(HostRsp) /\ transaction_responses_ \in Seq(Resp) /\ fatal \in BOOLEAN
  BY DEF TypeInv
<1> HIDE DEF r
<1>3. host_submissions_' \in PFun(AnyId, Host)
  <2>1. host_submissions_' = RecordCompleted(r)
    BY CollectCases DEF r
  <2>2. CASE r.id \notin DOMAIN host_submissions_
    BY <1>2, <2>1, <2>2 DEF RecordCompleted
  <2>3. CASE r.id \in DOMAIN host_submissions_
    <3> DEFINE h == [host_submissions_[r.id] EXCEPT !.completed = @ + 1]
    <3>1. host_submissions_[r.id] \in Host
      BY <1>2, <2>3, PFunFacts
    <3>2. h \in Host
      BY <3>1 DEF Host
    <3>3. \/ host_submissions_' = Drop(host_submissions_, r.id)
          \/ host_submissions_' = [host_submissions_ EXCEPT ![r.id] = h]
      BY <2>1, <2>3 DEF RecordCompleted
    <3>4. Drop(host_submissions_, r.id) \in PFun(AnyId, Host)
      BY <1>2, DropFacts
    <3>5. [host_submissions_ EXCEPT ![r.id] = h] \in PFun(AnyId, Host)
      BY <1>2, <2>3, <3>2, ReplaceFacts
    <3> QED BY <3>3, <3>4, <3>5
  <2> QED BY <2>2, <2>3
<1>4. transaction_responses_' \in Seq(Resp)
  <2>1. Append(transaction_responses_, r) \in Seq(Resp)
    BY <1>1, <1>2, Appended
  <2>2. transaction_responses_' = Append(transaction_responses_, r) \/ transaction_responses_' = transaction_responses_
    BY CollectCases DEF r
  <2> QED BY <1>2, <2>1, <2>2
<1>5. host_assemblies_' \in PFun(AnyId, Parts) /\ host_responses_' \in Seq(HostRsp) /\ fatal' \in BOOLEAN
  <2>1. HostResponse(r.id, JoinedParts(r)) \in HostRsp
    BY <1>1 DEF HostResponse, HostRsp, Statuses
  <2>2. Append(host_responses_, HostResponse(r.id, JoinedParts(r))) \in Seq(HostRsp)
    BY <1>2, <2>1, Appended
  <2>3. Drop(host_assemblies_, r.id) \in PFun(AnyId, Parts)
    BY <1>2, DropFacts
  <2>4. Set(host_assemblies_, r.id, JoinedParts(r)) \in PFun(AnyId, Parts)
    BY <1>1, <1>2, SetFacts
  <2>5. fatal' \in BOOLEAN
    BY <1>2, CollectCases DEF r
  <2>6. \/ host_assemblies_' = host_assemblies_ \/ host_assemblies_' = Drop(host_assemblies_, r.id)
        \/ host_assemblies_' = Set(host_assemblies_, r.id, JoinedParts(r))
    BY CollectCases DEF r
  <2>7. \/ host_responses_' = host_responses_
        \/ host_responses_' = Append(host_responses_, HostResponse(r.id, JoinedParts(r)))
    BY CollectCases DEF r
  <2> QED BY <1>2, <2>2, <2>3, <2>4, <2>5, <2>6, <2>7
<1>6. cfg' = cfg
  BY DEF Collects
<1> QED BY <1>1, <1>3, <1>4, <1>5, <1>6, SameConfig DEF TypeInv, Collects

-----------------------------------------------------------------------------
(* The bridge: its types.                                                  *)

\* A queue with one element replaced.
LEMMA Replaced ==
  ASSUME NEW S, NEW s \in Seq(S), NEW n \in 1 .. Len(s), NEW x \in S
  PROVE  /\ [s EXCEPT ![n] = x] \in Seq(S) /\ Len([s EXCEPT ![n] = x]) = Len(s)
         /\ [s EXCEPT ![n] = x][n] = x
         /\ \A m \in 1 .. Len(s) : m # n => [s EXCEPT ![n] = x][m] = s[m]
OBVIOUS

\* What the records of bursts hold.
LEMMA BurstFacts ==
  ASSUME TypeInv, NEW b \in BurstRec
  PROVE  /\ b.serial \in Nat /\ b.sh \in cfg.shapes /\ b.sent \in Nat /\ b.pending \in Int
         /\ b.candidate \in Nat /\ b.error \in BOOLEAN /\ b.ready \in Int
         /\ b.data \in PFun(Nat \ {0}, Nat) /\ b.want \in Seq(Nat)
         /\ b.sh.type \in Types /\ b.sh.cells \in Seq(Lines) /\ Len(b.sh.cells) \in Nat \ {0}
         /\ b.sh.bad \in BOOLEAN /\ b.sh.qos \in Nat
         /\ \A k \in 1 .. Len(b.sh.cells) : b.sh.cells[k] \in Lines
<1>1. /\ b.serial \in Nat /\ b.sh \in cfg.shapes /\ b.sent \in Nat /\ b.pending \in Int
      /\ b.candidate \in Nat /\ b.error \in BOOLEAN /\ b.ready \in Int
      /\ b.data \in PFun(Nat \ {0}, Nat) /\ b.want \in Seq(Nat)
  BY DEF BurstRec
<1>2. cfg \in Configs
  BY DEF TypeInv
<1> QED BY <1>1, <1>2, ShapeFacts

\* The data of a read are as many as its lines.
WantOk(b) == IF b.sh.type = "W" \/ b.sh.bad THEN b.want = <<>> ELSE Len(b.want) = Len(b.sh.cells)

\* A burst as accept makes it.
LEMMA NewBurstFacts ==
  ASSUME TypeInv, request # <<>>
  PROVE  LET sh == Head(request)
             b  == Burst(sh)
         IN  /\ sh \in cfg.shapes /\ b \in BurstRec /\ b.serial = begun + 1 /\ b.sh = sh
             /\ b.sent = (IF sh.bad THEN Len(sh.cells) ELSE 0) /\ b.pending = 0 /\ b.candidate = 0
             /\ b.error = sh.bad /\ b.ready = -1 /\ b.data = Empty
             /\ b.want = IF sh.type = "W" \/ sh.bad THEN <<>> ELSE [k \in DOMAIN sh.cells |-> stored[sh.cells[k]]]
             /\ WantOk(b)
             /\ sh.type = "R" /\ ~sh.bad => \A k \in 1 .. Len(sh.cells) : b.want[k] = stored[sh.cells[k]]
<1> DEFINE sh == Head(request)
           b  == Burst(sh)
           w  == [k \in DOMAIN sh.cells |-> stored[sh.cells[k]]]
<1>1. cfg \in Configs /\ request \in Seq(cfg.shapes) /\ begun \in Nat /\ stored \in [Lines -> Nat]
  BY DEF TypeInv
<1>2. sh \in cfg.shapes
  BY <1>1, HeadTail
<1>3. /\ sh.type \in Types /\ sh.cells \in Seq(Lines) /\ Len(sh.cells) \in Nat \ {0} /\ sh.bad \in BOOLEAN
      /\ \A k \in 1 .. Len(sh.cells) : sh.cells[k] \in Lines
  BY <1>1, <1>2, ShapeFacts
<1> HIDE DEF sh
<1>4. DOMAIN sh.cells = 1 .. Len(sh.cells)
  BY <1>3
<1>5. \A k \in 1 .. Len(sh.cells) : stored[sh.cells[k]] \in Nat
  BY <1>1, <1>3
<1>6. w \in Seq(Nat) /\ Len(w) = Len(sh.cells) /\ \A k \in 1 .. Len(sh.cells) : w[k] = stored[sh.cells[k]]
  BY <1>3, <1>4, <1>5
<1>7. /\ b.serial = begun + 1 /\ b.sh = sh
      /\ b.sent = (IF sh.bad THEN Len(sh.cells) ELSE 0) /\ b.pending = 0 /\ b.candidate = 0
      /\ b.error = sh.bad /\ b.ready = -1 /\ b.data = Empty
      /\ b.want = IF sh.type = "W" \/ sh.bad THEN <<>> ELSE w
  BY DEF Burst
<1> HIDE DEF w
<1>8. b.want \in Seq(Nat) /\ WantOk(b)
  BY <1>6, <1>7 DEF WantOk
<1>9. b.data \in PFun(Nat \ {0}, Nat)
  BY <1>7, EmptyFacts
<1>10. b \in BurstRec
  BY <1>1, <1>2, <1>3, <1>8, <1>9 DEF BurstRec, Burst
<1>11. sh.type = "R" /\ ~sh.bad => \A k \in 1 .. Len(sh.cells) : b.want[k] = stored[sh.cells[k]]
  BY <1>6, <1>7
<1> QED BY <1>2, <1>7, <1>8, <1>10, <1>11 DEF sh, w

\* The bursts with the one that is admitted.
LEMMA AdmittedFacts ==
  ASSUME TypeInv, RoomInv, \A n \in 1 .. Len(bursts) : WantOk(bursts[n])
  PROVE  /\ Admitted \in Seq(BurstRec) /\ \A n \in 1 .. Len(Admitted) : WantOk(Admitted[n])
         /\ Len(Admitted) <= cfg.slots
         /\ Len(bursts) \in Nat
         /\ \A n \in 1 .. Len(bursts) : Admitted[n] = bursts[n]
         /\ Admits => /\ request # <<>> /\ Burst(Head(request)) \in BurstRec
                      /\ Admitted = Append(bursts, Burst(Head(request)))
                      /\ Len(Admitted) = Len(bursts) + 1 /\ Admitted[Len(bursts) + 1] = Burst(Head(request))
         /\ ~Admits => Admitted = bursts
<1>1. bursts \in Seq(BurstRec) /\ Len(bursts) \in Nat /\ Len(bursts) <= cfg.slots /\ cfg.slots \in Nat
  BY ConfigFacts DEF TypeInv, RoomInv
<1>2. CASE ~Admits
  <2>1. Admitted = bursts
    BY <1>2 DEF Admitted
  <2> QED BY <1>1, <1>2, <2>1
<1>3. CASE Admits
  <2> DEFINE b == Burst(Head(request))
  <2>1. Len(bursts) < cfg.slots /\ request # <<>> /\ Admitted = Append(bursts, b)
    BY <1>3 DEF Admits, Admitted
  <2>2. b \in BurstRec /\ WantOk(b)
    BY <2>1, NewBurstFacts
  <2> HIDE DEF b
  <2>3. /\ Append(bursts, b) \in Seq(BurstRec) /\ Len(Append(bursts, b)) = Len(bursts) + 1
        /\ Append(bursts, b)[Len(bursts) + 1] = b
        /\ \A n \in 1 .. Len(bursts) : Append(bursts, b)[n] = bursts[n]
    BY <1>1, <2>2, Appended
  <2>4. \A n \in 1 .. (Len(bursts) + 1) : n \in 1 .. Len(bursts) \/ n = Len(bursts) + 1
    BY <1>1
  <2>5. \A n \in 1 .. (Len(bursts) + 1) : WantOk(Append(bursts, b)[n])
    BY <2>2, <2>3, <2>4
  <2>6. Len(bursts) + 1 <= cfg.slots
    BY <1>1, <2>1
  <2> QED BY <1>1, <1>3, <2>1, <2>2, <2>3, <2>5, <2>6 DEF b
<1> QED BY <1>2, <1>3

\* The burst that is being submitted.
LEMMA SubmittingFacts ==
  ASSUME NEW S, NEW bs \in Seq(S), Unsent(bs) # {}
  PROVE  LET n == Submitting(bs)
         IN  /\ n \in 1 .. Len(bs) /\ bs[n].sent < Len(bs[n].sh.cells)
             /\ \A m \in 1 .. (n - 1) : ~(bs[m].sent < Len(bs[m].sh.cells))
<1> DEFINE T == Unsent(bs)
           n == Submitting(bs)
<1>1. T \subseteq 1 .. Len(bs) /\ Len(bs) \in Nat
  BY DEF Unsent
<1>2. n = CHOOSE i \in T : \A j \in T : i <= j
  BY DEF Submitting
<1>3. n \in T /\ \A j \in T : n <= j
  <2> HIDE DEF T, n
  <2> QED BY <1>1, <1>2, FirstOf DEF T
<1>4. n \in 1 .. Len(bs) /\ bs[n].sent < Len(bs[n].sh.cells)
  BY <1>1, <1>3 DEF Unsent
<1>5. ASSUME NEW m \in 1 .. (n - 1), bs[m].sent < Len(bs[m].sh.cells) PROVE FALSE
  <2>1. m \in 1 .. Len(bs) /\ m < n
    BY <1>1, <1>4
  <2>2. m \in T
    BY <1>5, <2>1 DEF Unsent
  <2> QED BY <1>1, <1>3, <2>1, <2>2
<1> QED BY <1>4, <1>5

\* A child has the id of the burst's candidate, and one line of it.
LEMMA ChildFacts ==
  ASSUME TypeInv, NEW b \in BurstRec, WantOk(b), IsUnsent(b)
  PROVE  /\ Candidate(b) \in Nat \ {0} /\ Candidate(b) \in AnyId /\ b.sent + 1 \in 1 .. Len(b.sh.cells)
         /\ Child(b) \in Tx /\ Child(b).id = Candidate(b) /\ Child(b).idx = 1 /\ Child(b).count = 1
         /\ Child(b).type = b.sh.type /\ Child(b).line = b.sh.cells[b.sent + 1] /\ Child(b).line \in Lines
         /\ Child(b).qos = 0 /\ Child(b).val = b.serial
         /\ b.sh.type = "R" /\ ~b.sh.bad => Child(b).want = b.want[b.sent + 1]
<1>1. /\ b.serial \in Nat /\ b.sent \in Nat /\ b.candidate \in Nat /\ b.want \in Seq(Nat)
      /\ b.sh.type \in Types /\ b.sh.cells \in Seq(Lines) /\ Len(b.sh.cells) \in Nat \ {0} /\ b.sh.bad \in BOOLEAN
      /\ \A k \in 1 .. Len(b.sh.cells) : b.sh.cells[k] \in Lines
  BY BurstFacts
<1>2. nextMem \in Nat \ {0}
  BY DEF TypeInv
<1>3. Candidate(b) \in Nat \ {0} /\ Candidate(b) \in AnyId
  BY <1>1, <1>2 DEF Candidate, AnyId
<1>4. b.sent + 1 \in 1 .. Len(b.sh.cells) /\ b.sh.cells[b.sent + 1] \in Lines
  BY <1>1 DEF IsUnsent
<1> DEFINE w == IF b.want = <<>> THEN 0 ELSE b.want[b.sent + 1]
           l == b.sh.cells[b.sent + 1]
<1>5. w \in Nat /\ (b.sh.type = "R" /\ ~b.sh.bad => w = b.want[b.sent + 1])
  <2>1. CASE b.want = <<>>
    BY <1>1, <2>1 DEF WantOk
  <2>2. CASE b.want # <<>>
    <3>1. Len(b.want) = Len(b.sh.cells)
      BY <2>2 DEF WantOk
    <3> QED BY <1>1, <1>4, <2>2, <3>1
  <2> QED BY <2>1, <2>2
<1>6. Child(b) = [id |-> Candidate(b), idx |-> 1, count |-> Len(<<l>>), type |-> b.sh.type, line |-> <<l>>[1],
                  qos |-> 0, seq |-> 0, val |-> b.serial, want |-> w]
  BY DEF Child, Transaction
<1>7. Len(<<l>>) = 1 /\ <<l>>[1] = l
  OBVIOUS
<1> HIDE DEF w, l
<1>8. Child(b) = [id |-> Candidate(b), idx |-> 1, count |-> 1, type |-> b.sh.type, line |-> l,
                  qos |-> 0, seq |-> 0, val |-> b.serial, want |-> w]
  BY <1>6, <1>7
<1>9. l \in Lines
  BY <1>4 DEF l
<1>10. Child(b) \in Tx
  BY <1>1, <1>3, <1>5, <1>8, <1>9 DEF Tx
<1> QED BY <1>3, <1>4, <1>5, <1>8, <1>9, <1>10 DEF l

\* A burst of which a line was submitted, and one whose line was not taken.
Advanced(b) == [b EXCEPT !.sent = @ + 1, !.pending = @ + 1, !.candidate = 0]
Deferred(b) == [b EXCEPT !.candidate = Candidate(b)]

\* A burst after a child of it was submitted, or refused.
LEMMA AdvancedFacts ==
  ASSUME TypeInv, NEW b \in BurstRec
  PROVE  /\ Advanced(b) \in BurstRec /\ Deferred(b) \in BurstRec
         /\ Advanced(b).serial = b.serial /\ Advanced(b).sh = b.sh /\ Advanced(b).sent = b.sent + 1
         /\ Advanced(b).pending = b.pending + 1 /\ Advanced(b).candidate = 0 /\ Advanced(b).error = b.error
         /\ Advanced(b).ready = b.ready /\ Advanced(b).data = b.data /\ Advanced(b).want = b.want
         /\ Deferred(b).serial = b.serial /\ Deferred(b).sh = b.sh /\ Deferred(b).sent = b.sent
         /\ Deferred(b).pending = b.pending /\ Deferred(b).candidate = Candidate(b) /\ Deferred(b).error = b.error
         /\ Deferred(b).ready = b.ready /\ Deferred(b).data = b.data /\ Deferred(b).want = b.want
<1>1. nextMem \in Nat
  BY DEF TypeInv
<1>2. Candidate(b) \in Nat
  BY <1>1 DEF BurstRec, Candidate
<1>3. Advanced(b) \in BurstRec
  <2>1. b.sent + 1 \in Nat /\ b.pending + 1 \in Int /\ 0 \in Nat
    BY DEF BurstRec
  <2> DEFINE u == b.sent + 1
             v == b.pending + 1
             z == 0
  <2> HIDE DEF u, v, z
  <2>2. Advanced(b) = [b EXCEPT !.sent = u, !.pending = v, !.candidate = z]
    BY DEF Advanced, BurstRec, u, v, z
  <2>3. u \in Nat /\ v \in Int /\ z \in Nat
    BY <2>1 DEF u, v, z
  <2> QED BY <2>2, <2>3 DEF BurstRec
<1>4. Deferred(b) \in BurstRec
  BY <1>2 DEF BurstRec, Deferred
<1>5. /\ Advanced(b).serial = b.serial /\ Advanced(b).sh = b.sh /\ Advanced(b).sent = b.sent + 1
      /\ Advanced(b).pending = b.pending + 1 /\ Advanced(b).candidate = 0 /\ Advanced(b).error = b.error
      /\ Advanced(b).ready = b.ready /\ Advanced(b).data = b.data /\ Advanced(b).want = b.want
  BY DEF BurstRec, Advanced
<1>6. /\ Deferred(b).serial = b.serial /\ Deferred(b).sh = b.sh /\ Deferred(b).sent = b.sent
      /\ Deferred(b).pending = b.pending /\ Deferred(b).candidate = Candidate(b) /\ Deferred(b).error = b.error
      /\ Deferred(b).ready = b.ready /\ Deferred(b).data = b.data /\ Deferred(b).want = b.want
  BY DEF BurstRec, Deferred
<1> QED BY <1>3, <1>4, <1>5, <1>6

\* The first half of a turn: nothing is left to submit, or a child is tried.
TurnIdle ==
    /\ Unsent(Admitted) = {} /\ bursts' = Admitted
    /\ UNCHANGED <<response_delivery_mode_, queueVars, children, nextMem, fatal>>

TurnSubmits(n, b, t) ==
    /\ n \in 1 .. Len(Admitted) /\ b = Admitted[n] /\ IsUnsent(b) /\ t = Child(b)
    /\ \A m \in 1 .. (n - 1) : ~IsUnsent(Admitted[m])
    /\ b \in BurstRec /\ WantOk(b) /\ t \in Tx
    /\ TrySubmit(t)
    /\ nextMem' = IF b.candidate = 0 THEN nextMem + 1 ELSE nextMem
    /\ \/ /\ next_system_sequence_' # next_system_sequence_
          /\ children' = Set(children, t.id, [serial |-> b.serial, offset |-> b.sent + 1])
          /\ bursts' = [Admitted EXCEPT ![n] = Advanced(b)]
       \/ /\ next_system_sequence_' = next_system_sequence_
          /\ children' = children
          /\ bursts' = [Admitted EXCEPT ![n] = Deferred(b)]

\* A turn submits a child of the first burst not submitted yet, if any.
LEMMA TurnFacts ==
  ASSUME TypeInv, RoomInv, \A n \in 1 .. Len(bursts) : WantOk(bursts[n]), BridgeTurn
  PROVE  TurnIdle \/ \E n, b, t : TurnSubmits(n, b, t)
<1> DEFINE bs == Admitted
           n == Submitting(bs)
           b == bs[n]
           t == Child(b)
<1>1. bs \in Seq(BurstRec) /\ \A m \in 1 .. Len(bs) : WantOk(bs[m])
  BY AdmittedFacts
<1>2. CASE Unsent(bs) = {}
  BY <1>2 DEF BridgeTurn, TurnIdle
<1>3. CASE Unsent(bs) # {}
  <2>1. n \in 1 .. Len(bs) /\ IsUnsent(b) /\ \A m \in 1 .. (n - 1) : ~IsUnsent(bs[m])
    BY <1>1, <1>3, SubmittingFacts DEF IsUnsent
  <2>2. SubmitChild(bs, n)
    BY <1>3 DEF BridgeTurn
  <2>3. b \in BurstRec /\ WantOk(b)
    BY <1>1, <2>1
  <2>4. t \in Tx /\ t.id = Candidate(b)
    BY <2>1, <2>3, ChildFacts
  <2>5. /\ TrySubmit(t) /\ nextMem' = IF b.candidate = 0 THEN nextMem + 1 ELSE nextMem
        /\ \/ /\ next_system_sequence_' # next_system_sequence_
              /\ children' = Set(children, Candidate(b), [serial |-> b.serial, offset |-> b.sent + 1])
              /\ bursts' = [bs EXCEPT ![n].sent = @ + 1, ![n].pending = @ + 1, ![n].candidate = 0]
           \/ /\ next_system_sequence_' = next_system_sequence_
              /\ children' = children
              /\ bursts' = [bs EXCEPT ![n].candidate = Candidate(b)]
    BY <2>2 DEF SubmitChild
  <2> HIDE DEF bs, n
  <2>6. [bs EXCEPT ![n].sent = @ + 1, ![n].pending = @ + 1, ![n].candidate = 0] = [bs EXCEPT ![n] = Advanced(b)]
    BY <1>1, <2>1, <2>3 DEF Advanced, BurstRec
  <2>7. [bs EXCEPT ![n].candidate = Candidate(b)] = [bs EXCEPT ![n] = Deferred(b)]
    BY <1>1, <2>1, <2>3 DEF Deferred, BurstRec
  <2>8. TurnSubmits(n, b, t)
    BY <2>1, <2>3, <2>4, <2>5, <2>6, <2>7 DEF TurnSubmits, bs
  <2> QED BY <2>8
<1> QED BY <1>2, <1>3

\* The bridge takes a turn.
LEMMA TypeBridgeTurn ==
  ASSUME TypeInv, RoomInv, \A n \in 1 .. Len(bursts) : WantOk(bursts[n]), BridgeTurn
  PROVE  TypeInv'
<1>1. /\ cfg \in Configs /\ request \in Seq(cfg.shapes) /\ begun \in Nat /\ stored \in [Lines -> Nat]
      /\ children \in PFun(Nat \ {0}, ChildRec) /\ nextMem \in Nat \ {0} /\ cfg' = cfg
      /\ stack_ingress_queues_ \in [Stacks -> Seq(Tx)] /\ next_system_sequence_ \in Nat
      /\ host_submissions_ \in PFun(AnyId, Host) /\ response_delivery_mode_ \in Modes /\ fatal \in BOOLEAN
  BY DEF TypeInv, BridgeTurn
<1>2. Admitted \in Seq(BurstRec)
  BY AdmittedFacts
<1>3. request' \in Seq(cfg.shapes) /\ begun' \in Nat /\ stored' \in [Lines -> Nat]
  <2>1. Accept
    BY DEF BridgeTurn
  <2>2. request' = request \/ (request # <<>> /\ request' = Tail(request))
    BY <2>1 DEF Accept, Admits
  <2>3. request' \in Seq(cfg.shapes)
    BY <1>1, <2>2, HeadTail, ZenonT(40)
  <2>4. begun' \in Nat /\ stored' \in [Lines -> Nat]
    BY <1>1, <2>1 DEF Accept
  <2> QED BY <2>3, <2>4
<1> DEFINE Typed ==
      /\ bursts' \in Seq(BurstRec) /\ children' \in PFun(Nat \ {0}, ChildRec) /\ nextMem' \in Nat \ {0}
      /\ stack_ingress_queues_' \in [Stacks -> Seq(Tx)] /\ next_system_sequence_' \in Nat
      /\ host_submissions_' \in PFun(AnyId, Host) /\ response_delivery_mode_' \in Modes /\ fatal' \in BOOLEAN
<1>4. Typed
  <2>1. CASE TurnIdle
    BY <1>1, <1>2, <2>1 DEF TurnIdle
  <2>2. ASSUME NEW n, NEW b, NEW t, TurnSubmits(n, b, t) PROVE Typed
    <3>1. /\ n \in 1 .. Len(Admitted) /\ b \in BurstRec /\ WantOk(b) /\ IsUnsent(b) /\ t \in Tx /\ t = Child(b)
          /\ TrySubmit(t)
          /\ nextMem' = IF b.candidate = 0 THEN nextMem + 1 ELSE nextMem
          /\ \/ children' = Set(children, t.id, [serial |-> b.serial, offset |-> b.sent + 1])
             \/ children' = children
          /\ \/ bursts' = [Admitted EXCEPT ![n] = Advanced(b)]
             \/ bursts' = [Admitted EXCEPT ![n] = Deferred(b)]
      BY <2>2 DEF TurnSubmits
    <3>2. t.id \in Nat \ {0}
      BY <3>1, ChildFacts
    <3>3. [serial |-> b.serial, offset |-> b.sent + 1] \in ChildRec
      BY <3>1, BurstFacts DEF ChildRec
    <3>4. Set(children, t.id, [serial |-> b.serial, offset |-> b.sent + 1]) \in PFun(Nat \ {0}, ChildRec)
      BY <1>1, <3>2, <3>3, SetFacts
    <3>5. Advanced(b) \in BurstRec /\ Deferred(b) \in BurstRec
      BY <3>1, AdvancedFacts
    <3>6. bursts' \in Seq(BurstRec)
      BY <1>2, <3>1, <3>5, Replaced
    <3>7. nextMem' \in Nat \ {0}
      BY <1>1, <3>1
    <3>8. /\ stack_ingress_queues_' \in [Stacks -> Seq(Tx)] /\ next_system_sequence_' \in Nat
          /\ host_submissions_' \in PFun(AnyId, Host) /\ response_delivery_mode_' \in Modes /\ fatal' \in BOOLEAN
      BY <3>1, TryFacts
    <3> QED BY <1>1, <3>1, <3>4, <3>6, <3>7, <3>8
  <2> QED BY <2>1, <2>2, TurnFacts
<1> QED BY <1>1, <1>3, <1>4, SameConfig DEF TypeInv, BridgeTurn

\* The data of a child are put into its burst.
LEMMA JoinedFacts ==
  ASSUME TypeInv, NEW b \in BurstRec, NEW k \in Nat \ {0}, NEW r, b.sh.type = "R" => r.parts[1].data \in Nat
  PROVE  LET x == Joined(b, k, r)
         IN  /\ x \in BurstRec /\ x.serial = b.serial /\ x.sh = b.sh /\ x.sent = b.sent /\ x.pending = b.pending - 1
             /\ x.candidate = b.candidate /\ x.error = (b.error \/ r.status # "Ok") /\ x.ready = b.ready
             /\ x.want = b.want
             /\ b.sh.type = "R" => /\ DOMAIN x.data = DOMAIN b.data \cup {k} /\ x.data[k] = r.parts[1].data
                                   /\ \A y \in DOMAIN b.data : y # k => x.data[y] = b.data[y]
             /\ b.sh.type # "R" => x.data = b.data
<1> DEFINE x == Joined(b, k, r)
           d == IF b.sh.type = "R" THEN Set(b.data, k, r.parts[1].data) ELSE b.data
<1>1. d \in PFun(Nat \ {0}, Nat)
  <2>1. b.data \in PFun(Nat \ {0}, Nat)
    BY BurstFacts
  <2>2. CASE b.sh.type = "R"
    BY <2>1, <2>2, SetFacts
  <2> QED BY <2>1, <2>2
<1>2. /\ b.sh.type = "R" => /\ DOMAIN d = DOMAIN b.data \cup {k} /\ d[k] = r.parts[1].data
                            /\ \A y \in DOMAIN b.data : y # k => d[y] = b.data[y]
      /\ b.sh.type # "R" => d = b.data
  <2>1. CASE b.sh.type = "R"
    <3> DEFINE v == r.parts[1].data
    <3>1. d = Set(b.data, k, v)
      BY <2>1
    <3> HIDE DEF d, v
    <3>2. /\ d[k] = v /\ DOMAIN d = DOMAIN b.data \cup {k}
          /\ \A y \in DOMAIN b.data : y # k => d[y] = b.data[y]
      BY <3>1 DEF Set
    <3> QED BY <2>1, <3>2 DEF v
  <2> QED BY <2>1
<1> DEFINE e == (b.error \/ r.status # "Ok")
           p == b.pending - 1
<1>3. x = [b EXCEPT !.pending = p, !.error = e, !.data = d]
  BY DEF Joined, BurstRec
<1>6. e \in BOOLEAN /\ p \in Int
  BY DEF BurstRec
<1> HIDE DEF d, x, e, p
<1>4. x \in BurstRec
  BY <1>1, <1>3, <1>6 DEF BurstRec
<1>7. x.error = e /\ x.pending = p
  BY <1>3 DEF BurstRec
<1>5. /\ x.serial = b.serial /\ x.sh = b.sh /\ x.sent = b.sent /\ x.pending = b.pending - 1
      /\ x.candidate = b.candidate /\ x.error = (b.error \/ r.status # "Ok") /\ x.ready = b.ready
      /\ x.want = b.want /\ x.data = d
  BY <1>3, <1>7 DEF BurstRec, e, p
<1> QED BY <1>2, <1>4, <1>5 DEF x

\* The bridge takes the response of a child.
LEMMA PopsFacts ==
  ASSUME TypeInv, BridgePops, NEW r, r = Head(host_responses_), r.id \in DOMAIN children,
         r.parts[1].data \in Nat
  PROVE  LET ch == children[r.id]
             J(b) == IF b.serial = ch.serial THEN Joined(b, ch.offset, r) ELSE b
         IN  /\ ch \in ChildRec /\ ch.offset \in Nat \ {0}
             /\ bursts \in Seq(BurstRec) /\ bursts' \in Seq(BurstRec) /\ Len(bursts') = Len(bursts) /\ Len(bursts) \in Nat
             /\ \A n \in 1 .. Len(bursts) : bursts[n] \in BurstRec /\ bursts'[n] = J(bursts[n])
             /\ fatal' = FALSE /\ children' = Drop(children, r.id) /\ PopHost
<1> DEFINE ch == children[r.id]
           J(b) == IF b.serial = ch.serial THEN Joined(b, ch.offset, r) ELSE b
<1>1. bursts \in Seq(BurstRec) /\ children \in PFun(Nat \ {0}, ChildRec)
  BY DEF TypeInv
<1>2. ch \in ChildRec /\ ch.offset \in Nat \ {0}
  <2>1. ch \in ChildRec
    BY <1>1, PFunFacts
  <2> QED BY <2>1 DEF ChildRec
<1>3. bursts' = [n \in DOMAIN bursts |-> J(bursts[n])]
  BY DEF BridgePops
<1>4. \A n \in 1 .. Len(bursts) : bursts[n] \in BurstRec
  BY <1>1
<1>5. ASSUME NEW b \in BurstRec PROVE J(b) \in BurstRec
  BY <1>2, JoinedFacts
<1> HIDE DEF J
<1>6. \A n \in 1 .. Len(bursts) : J(bursts[n]) \in BurstRec
  BY <1>4, <1>5
<1>7. DOMAIN bursts = 1 .. Len(bursts) /\ Len(bursts) \in Nat
  BY <1>1
<1>8. /\ bursts' \in Seq(BurstRec) /\ Len(bursts') = Len(bursts)
      /\ \A n \in 1 .. Len(bursts) : bursts'[n] = J(bursts[n])
  BY <1>3, <1>6, <1>7
<1>9. fatal' = FALSE /\ children' = Drop(children, r.id) /\ PopHost
  BY DEF BridgePops
<1> QED BY <1>1, <1>2, <1>4, <1>7, <1>8, <1>9 DEF J

\* ss_mem_pop: types are kept.
LEMMA TypeBridgePops ==
  ASSUME TypeInv, BridgePops, NEW r, r = Head(host_responses_), r.id \in DOMAIN children,
         r.parts[1].data \in Nat
  PROVE  TypeInv'
<1>1. bursts' \in Seq(BurstRec) /\ fatal' = FALSE /\ children' = Drop(children, r.id) /\ PopHost
  BY PopsFacts
<1>2. children' \in PFun(Nat \ {0}, ChildRec)
  BY <1>1, DropFacts DEF TypeInv
<1>3. host_responses_' \in Seq(HostRsp) /\ host_submissions_' \in PFun(AnyId, Host)
  BY <1>1, PopFacts
<1>4. cfg' = cfg
  BY DEF BridgePops
<1> QED BY <1>1, <1>2, <1>3, <1>4, SameConfig DEF TypeInv, BridgePops

\* The oldest burst, held for some turns.
Older(b) == [b EXCEPT !.ready = Held(b)]

\* The end of a turn: nothing is complete, the oldest burst is returned, or held.
ReturnsNothing == UNCHANGED <<bursts, response>>
ReturnsBurst ==
    /\ bursts # <<>> /\ BurstComplete(Head(bursts)) /\ Len(response) < cfg.fifo
    /\ bursts' = Tail(bursts) /\ response' = Append(response, Answer(Head(bursts)))
HoldsBurst ==
    /\ bursts # <<>> /\ bursts' = [bursts EXCEPT ![1] = Older(bursts[1])] /\ UNCHANGED response

\* The three ends of a turn, and the burst they are about.
LEMMA ReturnsFacts ==
  ASSUME TypeInv, BridgeReturns
  PROVE  /\ ReturnsNothing \/ ReturnsBurst \/ HoldsBurst
         /\ bursts \in Seq(BurstRec) /\ Len(bursts) \in Nat
         /\ bursts # <<>> => /\ 1 \in 1 .. Len(bursts) /\ Head(bursts) = bursts[1] /\ bursts[1] \in BurstRec
                             /\ Older(bursts[1]) \in BurstRec /\ Answer(bursts[1]) \in Reply
<1>1. bursts \in Seq(BurstRec) /\ cfg.hold \in Nat
  BY ConfigFacts DEF TypeInv
<1>2. ASSUME bursts # <<>>
      PROVE  /\ 1 \in 1 .. Len(bursts) /\ Head(bursts) = bursts[1] /\ bursts[1] \in BurstRec
             /\ Older(bursts[1]) \in BurstRec /\ Answer(bursts[1]) \in Reply
             /\ [bursts EXCEPT ![1].ready = Held(bursts[1])] = [bursts EXCEPT ![1] = Older(bursts[1])]
  <2>1. 1 \in 1 .. Len(bursts) /\ Head(bursts) = bursts[1] /\ bursts[1] \in BurstRec
    BY <1>1, <1>2
  <2> DEFINE b == bursts[1]
  <2>2. b.ready \in Int /\ b.data \in PFun(Nat \ {0}, Nat) /\ b.serial \in Nat /\ b.error \in BOOLEAN
    BY <2>1, BurstFacts
  <2>3. Held(b) \in Int
    BY <1>1, <2>2 DEF Held
  <2>4. Older(b) \in BurstRec
    BY <2>1, <2>3 DEF Older, BurstRec
  <2>5. Answer(b) \in Reply
    BY <2>2 DEF Answer, Reply
  <2>6. [bursts EXCEPT ![1].ready = Held(b)] = [bursts EXCEPT ![1] = Older(b)]
    BY <1>1, <2>1 DEF Older, BurstRec
  <2> QED BY <2>1, <2>4, <2>5, <2>6
<1>3. CASE bursts = <<>> \/ ~BurstComplete(Head(bursts))
  BY <1>1, <1>2, <1>3 DEF BridgeReturns, ReturnsNothing
<1>4. CASE /\ bursts # <<>> /\ BurstComplete(Head(bursts))
           /\ Held(Head(bursts)) = 0 /\ Len(response) < cfg.fifo
  BY <1>1, <1>2, <1>4 DEF BridgeReturns, ReturnsBurst
<1>5. CASE /\ bursts # <<>> /\ BurstComplete(Head(bursts))
           /\ ~(Held(Head(bursts)) = 0 /\ Len(response) < cfg.fifo)
  <2>1. bursts' = [bursts EXCEPT ![1].ready = Held(Head(bursts))] /\ UNCHANGED response
    BY <1>5 DEF BridgeReturns
  <2> QED BY <1>1, <1>2, <1>5, <2>1 DEF HoldsBurst
<1> QED BY <1>3, <1>4, <1>5

\* The end of a turn: types are kept.
LEMMA TypeBridgeReturns ==
  ASSUME TypeInv, BridgeReturns
  PROVE  TypeInv'
<1>1. bursts' \in Seq(BurstRec) /\ response' \in Seq(Reply)
  <2>1. bursts \in Seq(BurstRec) /\ response \in Seq(Reply)
    BY DEF TypeInv
  <2>2. CASE ReturnsNothing
    BY <2>1, <2>2 DEF ReturnsNothing
  <2>3. CASE ReturnsBurst
    BY <2>1, <2>3, ReturnsFacts, HeadTail, Appended DEF ReturnsBurst
  <2>4. CASE HoldsBurst
    BY <2>1, <2>4, ReturnsFacts, Replaced DEF HoldsBurst
  <2> QED BY <2>2, <2>3, <2>4, ReturnsFacts
<1>2. cfg' = cfg
  BY DEF BridgeReturns
<1> QED BY <1>1, <1>2, SameConfig DEF TypeInv, BridgeReturns

\* The target asks and takes answers.
LEMMA TypeTarget ==
  ASSUME TypeInv, (\E sh \in cfg.shapes : TargetSends(sh)) \/ TargetTakes
  PROVE  TypeInv'
<1>1. request \in Seq(cfg.shapes) /\ response \in Seq(Reply)
  BY DEF TypeInv
<1>2. ASSUME NEW sh \in cfg.shapes, TargetSends(sh) PROVE TypeInv'
  <2>1. request' \in Seq(cfg.shapes) /\ cfg' = cfg
    BY <1>1, <1>2, Appended DEF TargetSends
  <2> QED BY <1>2, <2>1, SameConfig DEF TypeInv, TargetSends
<1>3. CASE TargetTakes
  <2>1. response' \in Seq(Reply) /\ cfg' = cfg
    BY <1>1, <1>3, HeadTail DEF TargetTakes
  <2> QED BY <1>3, <2>1, SameConfig DEF TypeInv, TargetTakes
<1> QED BY <1>2, <1>3

-----------------------------------------------------------------------------
(* Where the program stands, who uses it, and the limits of the queues.    *)

WantInv == \A n \in 1 .. Len(bursts) : WantOk(bursts[n])

\* The data that reads are to return are as many as their lines.
LEMMA WantHolds ==
  ASSUME TypeInv, UserInv, BurstInv
  PROVE  WantInv
<1>1. CASE cfg.user # "bridge"
  <2>1. bursts = <<>>
    BY <1>1 DEF UserInv
  <2> QED BY <2>1 DEF WantInv
<1>2. CASE cfg.user = "bridge"
  <2> SUFFICES ASSUME NEW n \in 1 .. Len(bursts) PROVE WantOk(bursts[n])
    BY DEF WantInv
  <2>1. BurstOk(bursts[n])
    BY <1>2 DEF BurstInv
  <2>2. bursts[n] \in BurstRec
    BY DEF TypeInv
  <2>3. bursts[n].sh.type \in Types /\ bursts[n].sh.bad \in BOOLEAN
    BY <2>2, BurstFacts
  <2> QED BY <2>1, <2>3 DEF BurstOk, WantOk, Types
<1> QED BY <1>1, <1>2

\* One step, by who takes it.
FrontendStep ==
    /\ \/ \E tag \in cfg.tags : \E sh \in cfg.shapes : FrontendBegins(tag, sh)
       \/ \E tag \in DOMAIN front : \E k \in front[tag].left : FrontendSubmits(tag, k)
       \/ FrontendPops
       \/ cfg.user = "frontend" /\ FrontendPopsTransaction
    /\ cfg.user # "bridge" /\ UNCHANGED bridgeVars

TickStep ==
    \/ MovesOn
    \/ \E s, i, c : DispatchTakes(s, i, c)
    \/ \E c, i, status : ControllerAnswers(c, i, status)
    \/ \E c : Collects(c)

\* Every step is one of the users', of tick() or of the bridge.
LEMMA NextCases ==
  ASSUME TypeInv, AtInv, UserInv, Next
  PROVE  FrontendStep \/ TickStep \/ BridgeNext
<1>0. cfg.user \in {"bridge", "frontend", "batch"}
  BY ConfigFacts DEF TypeInv
<1>1. CASE StepNext
  BY <1>1, SystemSteps DEF TickStep
<1>2. CASE BridgeNext
  BY <1>2
<1>3. CASE FrontendNext
  <2>1. CASE FrontendTick
    <3>1. MovesOn
      BY <1>3, <2>1 DEF FrontendTick, Acts, MovesOn, FrontendNext
    <3> QED BY <3>1 DEF TickStep
  <2>2. CASE FrontendPopsTransaction
    <3>1. cfg.user = "frontend"
      BY <1>0, <2>2 DEF UserInv, FrontendPopsTransaction
    <3> QED BY <1>3, <2>2, <3>1 DEF FrontendStep, FrontendNext
  <2>3. ASSUME NEW tag \in DOMAIN front, NEW k \in front[tag].left, FrontendSubmits(tag, k)
        PROVE  FrontendStep
    <3>1. cfg.user # "bridge"
      BY <2>3 DEF FrontendSubmits
    <3> QED BY <1>3, <2>3, <3>1 DEF FrontendStep, FrontendNext
  <2>4. ASSUME NEW tag \in cfg.tags, NEW sh \in cfg.shapes, FrontendBegins(tag, sh)
        PROVE  FrontendStep
    <3>1. cfg.user # "bridge"
      BY <2>4 DEF FrontendBegins
    <3> QED BY <1>3, <2>4, <3>1 DEF FrontendStep, FrontendNext
  <2>5. CASE FrontendPops
    <3>1. cfg.user # "bridge"
      BY <2>5 DEF FrontendPops
    <3> QED BY <1>3, <2>5, <3>1 DEF FrontendStep, FrontendNext
  <2> QED BY <1>3, <2>1, <2>2, <2>3, <2>4, <2>5 DEF FrontendNext, Frontend
<1> QED BY <1>1, <1>2, <1>3 DEF Next

\* What a step does to the memory system.
ModeStep ==
    \/ response_delivery_mode_' = response_delivery_mode_
    \/ /\ response_delivery_mode_ = "Disabled" /\ response_delivery_mode_' = "HostOnly"
       /\ cfg.user = "frontend"

Quiet ==
    /\ UNCHANGED <<cfg, queueVars, controllers_, image, host_assemblies_, host_responses_>>
    /\ ModeStep

Submitted(t) ==
    /\ cfg.user # "batch" /\ t \in Tx /\ t.idx \in 1 .. t.count /\ ~Refused(t) /\ ~IngressFull(t)
    /\ Enqueue(t) /\ RecordSubmitted(t) /\ ModeStep /\ response_delivery_mode_' # "Disabled"
    /\ UNCHANGED <<cfg, controllers_, image, outVars>>

BatchEnqueued(t) ==
    /\ cfg.user = "batch" /\ t \in Tx /\ ~IngressFull(t) /\ Enqueue(t)
    /\ UNCHANGED <<cfg, response_delivery_mode_, host_submissions_, controllers_, image, outVars>>

Popped ==
    /\ cfg.user # "batch" /\ PopHost
    /\ UNCHANGED <<cfg, response_delivery_mode_, stack_ingress_queues_, next_system_sequence_, controllers_,
                   image, host_assemblies_, transaction_responses_>>

Effect ==
    \/ Quiet \/ Popped
    \/ \E t : Submitted(t)
    \/ \E t : BatchEnqueued(t)
    \/ \E s, i, c : DispatchTakes(s, i, c)
    \/ \E c, i, status : ControllerAnswers(c, i, status)
    \/ \E c : Collects(c)

\* What try_submit does to the memory system.
LEMMA TryEffect ==
  ASSUME TypeInv, UserInv, cfg.user # "batch", NEW t \in Tx, t.idx \in 1 .. t.count, TrySubmit(t),
         UNCHANGED <<cfg, controllers_, image, outVars>>
  PROVE  /\ next_system_sequence_' # next_system_sequence_ => Submitted(t)
         /\ next_system_sequence_' = next_system_sequence_ => Quiet
<1>1. cfg.user \in {"bridge", "frontend", "batch"} /\ response_delivery_mode_ \in Modes
  BY ConfigFacts DEF TypeInv
<1>2. /\ \/ ~Refused(t) /\ ~IngressFull(t) /\ Enqueue(t) /\ RecordSubmitted(t)
            /\ next_system_sequence_' # next_system_sequence_
         \/ (Refused(t) \/ IngressFull(t)) /\ UNCHANGED queueVars
            /\ next_system_sequence_' = next_system_sequence_
      /\ Refused(t) \/ response_delivery_mode_ # "Disabled" => response_delivery_mode_' = response_delivery_mode_
      /\ ~Refused(t) /\ response_delivery_mode_ = "Disabled" => response_delivery_mode_' = "HostOnly"
      /\ Refused(t) \in BOOLEAN
  BY TryFacts
<1>3. cfg.user = "bridge" => response_delivery_mode_ # "Disabled"
  BY DEF UserInv
<1>4. ModeStep
  BY <1>1, <1>2, <1>3 DEF ModeStep
<1>5. ~Refused(t) => response_delivery_mode_' # "Disabled"
  BY <1>2
<1> QED BY <1>2, <1>4, <1>5 DEF Submitted, Quiet

\* Every step has one of these effects on transactions and tags.
LEMMA Effects ==
  ASSUME TypeInv, AtInv, UserInv, RoomInv, WantInv, Next
  PROVE  Effect
<1>1. CASE TickStep
  <2>1. CASE MovesOn
    BY <2>1 DEF MovesOn, Effect, Quiet, ModeStep
  <2> QED BY <1>1, <2>1 DEF TickStep, Effect
<1>2. CASE FrontendStep
  <2>1. ASSUME NEW tag \in DOMAIN front, NEW k \in front[tag].left, FrontendSubmits(tag, k) PROVE Effect
    <3> DEFINE t == FrontTx(tag, k)
    <3>1. t \in Tx /\ t.idx \in 1 .. t.count
      BY FrontTxFacts DEF AllOf
    <3>2. /\ UNCHANGED <<cfg, controllers_, image, outVars>>
          /\ \/ cfg.user = "frontend" /\ TrySubmit(t)
             \/ /\ cfg.user = "batch" /\ ~IngressFull(t) /\ Enqueue(t)
                /\ UNCHANGED <<response_delivery_mode_, host_submissions_, fatal>>
      BY <2>1 DEF FrontendSubmits, FrontTx
    <3> HIDE DEF t
    <3>3. CASE cfg.user = "frontend" /\ TrySubmit(t)
      BY <3>1, <3>2, <3>3, TryEffect DEF Effect
    <3>4. CASE cfg.user = "batch" /\ ~IngressFull(t) /\ Enqueue(t)
                /\ UNCHANGED <<response_delivery_mode_, host_submissions_, fatal>>
      BY <3>1, <3>2, <3>4 DEF Effect, BatchEnqueued
    <3> QED BY <3>2, <3>3, <3>4
  <2>2. ASSUME NEW tag \in cfg.tags, NEW sh \in cfg.shapes, FrontendBegins(tag, sh) PROVE Effect
    BY <2>2 DEF FrontendBegins, Effect, Quiet, ModeStep
  <2>3. CASE FrontendPops
    BY <2>3 DEF FrontendPops, Effect, Popped
  <2>4. CASE FrontendPopsTransaction
    BY <2>4 DEF FrontendPopsTransaction, Effect, Quiet, ModeStep
  <2> QED BY <1>2, <2>1, <2>2, <2>3, <2>4 DEF FrontendStep
<1>3. CASE BridgeNext
  <2>1. ASSUME NEW sh \in cfg.shapes, TargetSends(sh) PROVE Effect
    BY <2>1 DEF TargetSends, Effect, Quiet, ModeStep
  <2>2. CASE TargetTakes
    BY <2>2 DEF TargetTakes, Effect, Quiet, ModeStep
  <2>3. CASE BridgeReturns
    BY <2>3 DEF BridgeReturns, Effect, Quiet, ModeStep
  <2>4. CASE BridgePops
    BY <2>4 DEF BridgePops, Bridge, Effect, Popped
  <2>5. CASE BridgeTurn
    <3>1. UNCHANGED <<cfg, controllers_, image, outVars>> /\ cfg.user # "batch"
      BY <2>5 DEF BridgeTurn, Bridge
    <3>2. CASE TurnIdle
      BY <3>1, <3>2 DEF TurnIdle, Effect, Quiet, ModeStep
    <3>3. ASSUME NEW n, NEW b, NEW t, TurnSubmits(n, b, t) PROVE Effect
      <4>1. t \in Tx /\ TrySubmit(t) /\ t.idx \in 1 .. t.count
        BY <3>3, ChildFacts DEF TurnSubmits
      <4> QED BY <3>1, <4>1, TryEffect DEF Effect
    <3> QED BY <2>5, <3>2, <3>3, TurnFacts DEF WantInv
  <2> QED BY <1>3, <2>1, <2>2, <2>3, <2>4, <2>5 DEF BridgeNext
<1> QED BY <1>1, <1>2, <1>3, NextCases

\* tick goes through the stacks and the controllers in order.
LEMMA AtStep ==
  ASSUME TypeInv, AtInv, UserInv, RoomInv, WantInv, Next
  PROVE  AtInv'
<1>0. /\ at \in [name : {"idle", "dispatch", "controllers", "collect", "pop"}, n : Nat, slot : Nat]
      /\ cfg.stacks \in Nat \ {0} /\ 1 \in Controllers /\ 1 \in Stacks
      /\ Len(controllers_) \in Nat /\ Controllers = 1 .. Len(controllers_)
  BY ConfigFacts, ControllersFacts DEF AtInv, TypeInv
<1>1. CASE UNCHANGED at /\ UNCHANGED cfg
  BY <1>1, SameConfig DEF AtInv
<1>2. CASE Tick /\ UNCHANGED cfg
  BY <1>0, <1>2, SameConfig DEF Tick, AtInv
<1>3. CASE at' = Idle /\ UNCHANGED cfg
  BY <1>3 DEF Idle, AtInv
<1>4. CASE MovesOn
  <2>0. cfg' = cfg
    BY <1>4 DEF MovesOn
  <2>1. CASE at.name = "dispatch" /\ NextStack
    <3>1. at.n \in 1 .. cfg.stacks
      BY <2>1 DEF AtInv, Stacks
    <3>2. CASE at.n < cfg.stacks
      <4>1. at' = [at EXCEPT !.n = @ + 1, !.slot = 0]
        BY <2>1, <3>2 DEF NextStack
      <4>2. at.n + 1 \in 1 .. cfg.stacks /\ at.n + 1 \in Nat
        BY <1>0, <3>1, <3>2
      <4>3. /\ at' \in [name : {"idle", "dispatch", "controllers", "collect", "pop"}, n : Nat, slot : Nat]
            /\ at'.name = "dispatch" /\ at'.n = at.n + 1
        BY <1>0, <2>1, <4>1, <4>2
      <4> QED BY <2>0, <4>2, <4>3 DEF AtInv, Stacks
    <3>3. CASE ~(at.n < cfg.stacks)
      BY <2>1, <3>3 DEF NextStack, AtInv
    <3> QED BY <3>2, <3>3
  <2>2. CASE at.name = "controllers" /\ at' = [name |-> "collect", n |-> 1, slot |-> 0]
    BY <1>0, <2>0, <2>2, SameConfig DEF AtInv
  <2>3. CASE at.name = "collect" /\ at' = AfterTick
    BY <2>0, <2>3 DEF AfterTick, Idle, AtInv
  <2>4. CASE at.name = "collect" /\ at.n < Len(controllers_) /\ at' = [at EXCEPT !.n = @ + 1]
    <3>1. at.n \in Controllers
      BY <2>4 DEF AtInv
    <3>2. at.n + 1 \in Controllers /\ at.n + 1 \in Nat
      BY <1>0, <2>4, <3>1
    <3>3. /\ at' \in [name : {"idle", "dispatch", "controllers", "collect", "pop"}, n : Nat, slot : Nat]
          /\ at'.name = "collect" /\ at'.n = at.n + 1
      BY <1>0, <2>4, <3>2
    <3> QED BY <2>0, <3>2, <3>3, SameConfig DEF AtInv
  <2> QED BY <1>2, <1>4, <2>0, <2>1, <2>2, <2>3, <2>4 DEF MovesOn
<1>5. ASSUME NEW s, NEW i, NEW c, DispatchTakes(s, i, c) PROVE AtInv'
  <2>1. at' = [at EXCEPT !.slot = @ + 1] /\ cfg' = cfg
    BY <1>5 DEF DispatchTakes
  <2>2. /\ at' \in [name : {"idle", "dispatch", "controllers", "collect", "pop"}, n : Nat, slot : Nat]
        /\ at'.name = at.name /\ at'.n = at.n
    BY <1>0, <2>1
  <2> QED BY <2>1, <2>2, SameConfig DEF AtInv
<1>6. CASE TickStep
  BY <1>1, <1>4, <1>5, <1>6 DEF TickStep, ControllerAnswers, Collects
<1>7. CASE FrontendStep
  BY <1>1, <1>7 DEF FrontendStep, FrontendBegins, FrontendSubmits, FrontendPops, FrontendPopsTransaction
<1>8. CASE BridgeNext
  BY <1>1, <1>2, <1>3, <1>8 DEF BridgeNext, TargetSends, TargetTakes, BridgeTurn, BridgePops, BridgeReturns
<1> QED BY <1>6, <1>7, <1>8, NextCases

\* Every step preserves the types.
LEMMA TypeStep ==
  ASSUME TypeInv, AtInv, UserInv, RoomInv, WantInv, ChainInv, Next,
         BridgePops => LET r == Head(host_responses_)
                       IN  r.id \in DOMAIN children /\ r.parts[1].data \in Nat
  PROVE  TypeInv'
<1>1. CASE TickStep
  BY <1>1, TypeMovesOn, TypeDispatch, TypeAnswers, TypeCollects DEF TickStep
<1>2. CASE FrontendStep
  BY <1>2, TypeFrontendBegins, TypeFrontendSubmits, TypeFrontendPops, TypeFrontendPopsTransaction DEF FrontendStep
<1>3. CASE BridgeNext
  <2>1. CASE BridgePops
    BY <2>1, TypeBridgePops
  <2>2. CASE BridgeTurn
    BY <2>2, TypeBridgeTurn DEF WantInv
  <2>3. CASE BridgeReturns
    BY <2>3, TypeBridgeReturns
  <2>4. CASE (\E sh \in cfg.shapes : TargetSends(sh)) \/ TargetTakes
    BY <2>4, TypeTarget
  <2> QED BY <1>3, <2>1, <2>2, <2>3, <2>4 DEF BridgeNext
<1> QED BY <1>1, <1>2, <1>3, NextCases

\* Nobody uses what he has not.
LEMMA UserStep ==
  ASSUME TypeInv, AtInv, UserInv, RoomInv, WantInv, Next
  PROVE  UserInv'
<1>0. cfg.user \in {"bridge", "frontend", "batch"} /\ front \in PFun(cfg.tags, Tagged)
  BY ConfigFacts DEF TypeInv
<1>1. CASE MovesOn
  BY <1>1 DEF MovesOn, UserInv
<1>2. ASSUME NEW s, NEW i, NEW c, DispatchTakes(s, i, c) PROVE UserInv'
  BY <1>2 DEF DispatchTakes, UserInv
<1>3. ASSUME NEW i, NEW c, NEW status, ControllerAnswers(c, i, status) PROVE UserInv'
  BY <1>3 DEF ControllerAnswers, UserInv
<1>4. ASSUME NEW c, Collects(c) PROVE UserInv'
  <2> DEFINE r == Head(controllers_[c].responses)
  <2>1. UNCHANGED <<cfg, response_delivery_mode_, userVars, bridgeVars>>
    BY <1>4 DEF Collects
  <2>2. /\ host_submissions_' = RecordCompleted(r)
        /\ transaction_responses_' = IF RetainsTransaction THEN Append(transaction_responses_, r)
                                     ELSE transaction_responses_
        /\ ~RetainsHost => UNCHANGED <<host_assemblies_, host_responses_>>
    BY <1>4, CollectCases
  <2>3. CASE cfg.user = "bridge"
    <3>1. ~RetainsTransaction
      BY <2>3 DEF UserInv, RetainsTransaction
    <3> QED BY <2>1, <2>2, <2>3, <3>1 DEF UserInv
  <2>4. CASE cfg.user = "batch"
    <3>1. ~RetainsTransaction /\ ~RetainsHost
      BY <2>4 DEF UserInv, RetainsTransaction, RetainsHost
    <3>2. r.id \notin DOMAIN host_submissions_
      BY <2>4, EmptyFacts DEF UserInv
    <3>3. host_submissions_' = host_submissions_
      BY <2>2, <3>2 DEF RecordCompleted
    <3> QED BY <2>1, <2>2, <2>4, <3>1, <3>3 DEF UserInv
  <2>5. CASE cfg.user = "frontend"
    BY <2>1, <2>5 DEF UserInv
  <2> QED BY <1>0, <2>3, <2>4, <2>5
<1>5. CASE FrontendStep
  <2>0. cfg.user # "bridge" /\ UNCHANGED bridgeVars
    BY <1>5 DEF FrontendStep
  <2>1. CASE cfg.user = "frontend"
    <3>1. cfg' = cfg
      BY <1>5 DEF FrontendStep, FrontendBegins, FrontendSubmits, FrontendPops, FrontendPopsTransaction
    <3> QED BY <2>0, <2>1, <3>1 DEF UserInv
  <2>2. CASE cfg.user = "batch"
    <3>1. ASSUME NEW tag \in cfg.tags, NEW sh \in cfg.shapes, FrontendBegins(tag, sh) PROVE UserInv'
      BY <2>0, <3>1 DEF FrontendBegins, UserInv
    <3>2. ASSUME NEW tag \in DOMAIN front, NEW k \in front[tag].left, FrontendSubmits(tag, k) PROVE UserInv'
      BY <2>0, <2>2, <3>2 DEF FrontendSubmits, UserInv
    <3> QED BY <1>5, <2>2, <3>1, <3>2 DEF FrontendStep, FrontendPops
  <2> QED BY <1>0, <2>0, <2>1, <2>2
<1>6. CASE BridgeNext
  <2>0. cfg.user = "bridge"
    BY <1>6 DEF BridgeNext, TargetSends, TargetTakes, BridgeTurn, BridgePops, BridgeReturns, Bridge
  <2>1. CASE UNCHANGED <<cfg, response_delivery_mode_, front, transaction_responses_>>
    BY <2>0, <2>1 DEF UserInv
  <2>2. CASE BridgeTurn
    <3>1. UNCHANGED <<cfg, front, transaction_responses_>>
      BY <2>2 DEF BridgeTurn
    <3>2. response_delivery_mode_' = response_delivery_mode_
      <4>1. CASE TurnIdle
        BY <4>1 DEF TurnIdle
      <4>2. ASSUME NEW n, NEW b, NEW t, TurnSubmits(n, b, t)
            PROVE  response_delivery_mode_' = response_delivery_mode_
        <5>1. t \in Tx /\ TrySubmit(t)
          BY <4>2 DEF TurnSubmits
        <5>2. response_delivery_mode_ # "Disabled"
          BY <2>0 DEF UserInv
        <5> QED BY <5>1, <5>2, TryFacts
      <4> QED BY <2>2, <4>1, <4>2, TurnFacts DEF WantInv
    <3> QED BY <2>1, <3>1, <3>2
  <2> QED BY <1>6, <2>1, <2>2 DEF BridgeNext, TargetSends, TargetTakes, BridgePops, BridgeReturns
<1> QED BY <1>1, <1>2, <1>3, <1>4, <1>5, <1>6, NextCases DEF TickStep

\* The queues of the memory system.
LEMMA RoomQueues ==
  ASSUME TypeInv, ChainInv, RoomInv, Effect
  PROVE  /\ \A s \in Stacks' : Len(stack_ingress_queues_[s])' <= cfg.ingress'
         /\ \A c \in Controllers' : cfg.cresp' # 0 => Len(controllers_[c].responses)' <= cfg.cresp'
         /\ cfg.hostcap' # 0 => Len(host_responses_)' <= cfg.hostcap'
<1> DEFINE RI == \A s \in Stacks : Len(stack_ingress_queues_'[s]) <= cfg.ingress
           RC == \A c \in Controllers : cfg.cresp # 0 => Len(controllers_'[c].responses) <= cfg.cresp
           RH == cfg.hostcap # 0 => Len(host_responses_') <= cfg.hostcap
<1>0. /\ cfg.ingress \in Nat /\ cfg.cresp \in Nat /\ cfg.hostcap \in Nat
      /\ stack_ingress_queues_ \in [Stacks -> Seq(Tx)] /\ controllers_ \in [Controllers -> Ctl]
      /\ host_responses_ \in Seq(HostRsp)
  BY ConfigFacts DEF TypeInv
<1>1. /\ \A s \in Stacks : stack_ingress_queues_[s] \in Seq(Tx) /\ Len(stack_ingress_queues_[s]) <= cfg.ingress
      /\ \A c \in Controllers : cfg.cresp # 0 => Len(controllers_[c].responses) <= cfg.cresp
      /\ cfg.hostcap # 0 => Len(host_responses_) <= cfg.hostcap
  BY <1>0 DEF RoomInv
<1>2. cfg' = cfg
  BY DEF Effect, Quiet, Popped, Submitted, BatchEnqueued, DispatchTakes, ControllerAnswers, Collects
<1>3. ASSUME NEW t \in Tx, Enqueue(t), ~IngressFull(t) PROVE RI
  <2> DEFINE s == cfg.route[t.line].stack
  <2>1. /\ s \in Stacks /\ Numbered(t) \in Tx
        /\ stack_ingress_queues_' = [stack_ingress_queues_ EXCEPT ![s] = Append(@, Numbered(t))]
    BY <1>3, EnqueueFacts
  <2>2. Len(stack_ingress_queues_[s]) < cfg.ingress
    <3>1. ~(Len(stack_ingress_queues_[s]) >= cfg.ingress)
      BY <1>3 DEF IngressFull, Ingress
    <3>2. Len(stack_ingress_queues_[s]) \in Nat
      BY <1>1, <2>1
    <3> HIDE DEF s
    <3> QED BY <1>0, <3>1, <3>2
  <2>3. /\ stack_ingress_queues_'[s] = Append(stack_ingress_queues_[s], Numbered(t))
        /\ \A r \in Stacks \ {s} : stack_ingress_queues_'[r] = stack_ingress_queues_[r]
    BY <1>0, <2>1
  <2>4. Len(stack_ingress_queues_'[s]) <= cfg.ingress
    <3>1. stack_ingress_queues_[s] \in Seq(Tx)
      BY <1>1, <2>1
    <3>2. Len(Append(stack_ingress_queues_[s], Numbered(t))) = Len(stack_ingress_queues_[s]) + 1 /\ Len(stack_ingress_queues_[s]) \in Nat
      BY <2>1, <3>1, Appended
    <3> HIDE DEF s
    <3> QED BY <1>0, <2>2, <2>3, <3>2
  <2> QED BY <1>1, <2>1, <2>3, <2>4
<1>4. CASE UNCHANGED <<stack_ingress_queues_, controllers_, host_responses_>>
  BY <1>1, <1>2, <1>4, SameConfig
<1>5. ASSUME NEW t, Submitted(t) \/ BatchEnqueued(t) PROVE RI /\ RC /\ RH
  <2>1. t \in Tx /\ Enqueue(t) /\ ~IngressFull(t) /\ UNCHANGED <<controllers_, host_responses_>>
    BY <1>5 DEF Submitted, BatchEnqueued
  <2> QED BY <1>1, <1>3, <2>1
<1>6. CASE Popped
  <2>1. host_responses_ # <<>> /\ host_responses_' = Tail(host_responses_) /\ UNCHANGED <<controllers_, stack_ingress_queues_>>
    BY <1>6 DEF Popped, PopHost
  <2>2. Len(host_responses_') = Len(host_responses_) - 1 /\ Len(host_responses_) \in Nat
    BY <1>0, <2>1, HeadTail
  <2> QED BY <1>0, <1>1, <1>2, <2>1, <2>2, SameConfig
<1>7. ASSUME NEW s, NEW i, NEW c, DispatchTakes(s, i, c) PROVE RI /\ RC /\ RH
  <2> DEFINE q == stack_ingress_queues_[s]
  <2>1. /\ s \in Stacks /\ q \in Seq(Tx) /\ i \in 1 .. Len(q) /\ c \in Controllers
        /\ controllers_'[c].responses = controllers_[c].responses
        /\ \A d \in Controllers \ {c} : controllers_'[d] = controllers_[d]
        /\ stack_ingress_queues_'[s] = RemoveAt(q, i)
        /\ \A r \in Stacks \ {s} : stack_ingress_queues_'[r] = stack_ingress_queues_[r]
    BY <1>7, DispatchMoves
  <2>2. Len(RemoveAt(q, i)) = Len(q) - 1 /\ Len(q) \in Nat
    BY <2>1, RemoveAtFacts
  <2>3. Len(stack_ingress_queues_'[s]) <= cfg.ingress
    BY <1>0, <1>1, <2>1, <2>2
  <2>4. host_responses_' = host_responses_
    BY <1>7 DEF DispatchTakes
  <2> QED BY <1>1, <2>1, <2>3, <2>4
<1>8. ASSUME NEW c, NEW i, NEW status, ControllerAnswers(c, i, status) PROVE RI /\ RC /\ RH
  <2> DEFINE q == controllers_[c].responses
  <2>1. PICK r \in Resp : /\ c \in Controllers /\ q \in Seq(Resp)
                          /\ controllers_'[c].responses = Append(q, r)
                          /\ \A d \in Controllers \ {c} : controllers_'[d] = controllers_[d]
    BY <1>8, AnswerFacts, ZenonT(40)
  <2>2. cfg.cresp = 0 \/ Len(q) < cfg.cresp
    BY <1>8 DEF ControllerAnswers
  <2>3. Len(Append(q, r)) = Len(q) + 1 /\ Len(q) \in Nat
    BY <2>1, Appended
  <2>4. cfg.cresp # 0 => Len(controllers_'[c].responses) <= cfg.cresp
    <3> HIDE DEF q
    <3> QED BY <1>0, <2>1, <2>2, <2>3
  <2>5. host_responses_' = host_responses_ /\ stack_ingress_queues_' = stack_ingress_queues_
    BY <1>8 DEF ControllerAnswers
  <2> QED BY <1>1, <2>1, <2>4, <2>5
<1>9. ASSUME NEW c, Collects(c) PROVE RI /\ RC /\ RH
  <2> DEFINE q == controllers_[c].responses
             r == Head(q)
             x == HostResponse(r.id, JoinedParts(r))
  <2>1. /\ c \in Controllers /\ q \in Seq(Resp) /\ q # <<>>
        /\ controllers_'[c].responses = Tail(q)
        /\ \A d \in Controllers \ {c} : controllers_'[d] = controllers_[d]
    BY <1>9, CollectFacts
  <2>2. Len(Tail(q)) = Len(q) - 1 /\ Len(q) \in Nat
    BY <2>1, HeadTail
  <2>3. cfg.cresp # 0 => Len(controllers_'[c].responses) <= cfg.cresp
    BY <1>0, <1>1, <2>1, <2>2
  <2>4. RC
    BY <1>1, <2>1, <2>3
  <2>5. RH
    <3>1. CASE host_responses_' = host_responses_
      BY <1>1, <3>1
    <3>2. CASE RetainsHost /\ host_responses_' = Append(host_responses_, x)
      <4>1. ~HostFull
        BY <1>9, <3>2, CollectCases DEF RetainsHost, Blocked
      <4>2. Len(host_responses_') = Len(host_responses_) + 1 /\ Len(host_responses_) \in Nat
        BY <1>0, <3>2
      <4> QED BY <1>0, <4>1, <4>2 DEF HostFull
    <3> QED BY <1>9, <3>1, <3>2, CollectCases
  <2>6. stack_ingress_queues_' = stack_ingress_queues_
    BY <1>9 DEF Collects
  <2> QED BY <1>1, <2>4, <2>5, <2>6
<1>10. CASE Quiet
  BY <1>4, <1>10 DEF Quiet
<1>11. RI /\ RC /\ RH
  BY <1>1, <1>2, <1>5, <1>6, <1>7, <1>8, <1>9, <1>10, SameConfig DEF Effect
<1> QED BY <1>2, <1>11, SameConfig

\* No queue grows over its limit.
LEMMA RoomStep ==
  ASSUME TypeInv, AtInv, UserInv, RoomInv, WantInv, ChainInv, Next,
         BridgePops => LET r == Head(host_responses_)
                       IN  r.id \in DOMAIN children /\ r.parts[1].data \in Nat
  PROVE  RoomInv'
<1> DEFINE RT == cfg.txncap' # 0 => Len(transaction_responses_)' <= cfg.txncap'
           RB == Len(request)' <= cfg.fifo' /\ Len(response)' <= cfg.fifo' /\ Len(bursts)' <= cfg.slots'
<1>0. /\ cfg.txncap \in Nat /\ cfg.fifo \in Nat /\ cfg.slots \in Nat
      /\ transaction_responses_ \in Seq(Resp) /\ request \in Seq(cfg.shapes) /\ response \in Seq(Reply)
      /\ bursts \in Seq(BurstRec)
  BY ConfigFacts DEF TypeInv
<1>1. /\ cfg.txncap # 0 => Len(transaction_responses_) <= cfg.txncap
      /\ Len(request) <= cfg.fifo /\ Len(response) <= cfg.fifo /\ Len(bursts) <= cfg.slots
  BY DEF RoomInv
<1>2. Effect
  BY Effects
<1>3. cfg' = cfg
  BY <1>2 DEF Effect, Quiet, Popped, Submitted, BatchEnqueued, DispatchTakes, ControllerAnswers, Collects
<1>4. ASSUME UNCHANGED transaction_responses_ PROVE RT
  BY <1>1, <1>3, <1>4
<1>5. ASSUME UNCHANGED bridgeVars PROVE RB
  BY <1>1, <1>3, <1>5
<1>6. ASSUME TickStep PROVE RT /\ RB
  <2>1. ASSUME NEW c, Collects(c) PROVE RT /\ RB
    <3> DEFINE r == Head(controllers_[c].responses)
    <3>1. UNCHANGED bridgeVars
      BY <2>1 DEF Collects
    <3>2. CASE RetainsTransaction
      <4>1. transaction_responses_' = Append(transaction_responses_, r) /\ ~TransactionFull
        BY <2>1, <3>2, CollectCases DEF RetainsTransaction, Blocked
      <4>2. Len(transaction_responses_') = Len(transaction_responses_) + 1 /\ Len(transaction_responses_) \in Nat
        BY <1>0, <4>1
      <4> QED BY <1>0, <1>3, <1>5, <3>1, <4>1, <4>2 DEF TransactionFull
    <3>3. CASE ~RetainsTransaction
      BY <1>4, <1>5, <2>1, <3>1, <3>3, CollectCases
    <3> QED BY <3>2, <3>3
  <2> QED BY <1>4, <1>5, <1>6, <2>1, ZenonT(40) DEF TickStep, MovesOn, DispatchTakes, ControllerAnswers
<1>7. ASSUME FrontendStep PROVE RT /\ RB
  <2>1. ASSUME FrontendPopsTransaction PROVE RT /\ RB
    <3>1. transaction_responses_ # <<>> /\ transaction_responses_' = Tail(transaction_responses_)
      BY <2>1 DEF FrontendPopsTransaction
    <3>2. Len(transaction_responses_') = Len(transaction_responses_) - 1 /\ Len(transaction_responses_) \in Nat
      BY <1>0, <3>1, HeadTail
    <3>3. RT
      BY <1>0, <1>1, <1>3, <3>2
    <3> QED BY <1>5, <1>7, <3>3 DEF FrontendStep
  <2> QED BY <1>4, <1>5, <1>7, <2>1 DEF FrontendStep, FrontendBegins, FrontendSubmits, FrontendPops
<1>8. ASSUME BridgeNext PROVE RT /\ RB
  <2>1. UNCHANGED transaction_responses_
    BY <1>8 DEF BridgeNext, TargetSends, TargetTakes, BridgeTurn, BridgePops, BridgeReturns
  <2>2. ASSUME NEW sh \in cfg.shapes, TargetSends(sh) PROVE RB
    <3>1. Len(request) < cfg.fifo /\ request' = Append(request, sh) /\ UNCHANGED <<response, bursts>>
      BY <2>2 DEF TargetSends
    <3>2. Len(request') = Len(request) + 1 /\ Len(request) \in Nat
      BY <1>0, <3>1
    <3> QED BY <1>0, <1>1, <1>3, <3>1, <3>2
  <2>3. ASSUME TargetTakes PROVE RB
    <3>1. response # <<>> /\ response' = Tail(response) /\ UNCHANGED <<request, bursts>>
      BY <2>3 DEF TargetTakes
    <3>2. Len(response') = Len(response) - 1 /\ Len(response) \in Nat
      BY <1>0, <3>1, HeadTail
    <3> QED BY <1>0, <1>1, <1>3, <3>1, <3>2
  <2>4. ASSUME BridgeTurn PROVE RB
    <3>1. /\ request' = request \/ (request # <<>> /\ request' = Tail(request))
          /\ response' = response
      BY <2>4 DEF BridgeTurn, Accept, Admits
    <3>2. request # <<>> => Len(Tail(request)) = Len(request) - 1 /\ Len(request) \in Nat
      BY <1>0, HeadTail
    <3>3. Len(request') <= cfg.fifo
      BY <1>0, <1>1, <3>1, <3>2
    <3>4. Admitted \in Seq(BurstRec) /\ Len(Admitted) <= cfg.slots
      BY AdmittedFacts DEF WantInv
    <3>5. bursts' = Admitted \/ \E n, x : bursts' = [Admitted EXCEPT ![n] = x]
      BY <2>4, TurnFacts DEF TurnIdle, TurnSubmits, WantInv
    <3>6. Len(bursts') = Len(Admitted)
      BY <3>4, <3>5
    <3> QED BY <1>1, <1>3, <3>1, <3>3, <3>4, <3>6
  <2>5. ASSUME BridgePops PROVE RB
    <3>1. Len(bursts') = Len(bursts) /\ UNCHANGED <<request, response>>
      BY <2>5, PopsFacts DEF BridgePops
    <3> QED BY <1>1, <1>3, <3>1
  <2>6. ASSUME BridgeReturns PROVE RB
    <3>1. request' = request
      BY <2>6 DEF BridgeReturns
    <3>2. CASE ReturnsNothing
      BY <1>1, <1>3, <3>1, <3>2 DEF ReturnsNothing
    <3>3. CASE ReturnsBurst
      <4> DEFINE a == Answer(Head(bursts))
      <4>1. /\ bursts # <<>> /\ Len(response) < cfg.fifo /\ bursts' = Tail(bursts)
            /\ response' = Append(response, a)
        BY <3>3 DEF ReturnsBurst
      <4>2. Len(bursts') = Len(bursts) - 1 /\ Len(bursts) \in Nat
        BY <1>0, <4>1, HeadTail
      <4> HIDE DEF a
      <4>3. Len(response') = Len(response) + 1 /\ Len(response) \in Nat
        BY <1>0, <4>1
      <4> QED BY <1>0, <1>1, <1>3, <3>1, <4>1, <4>2, <4>3
    <3>4. CASE HoldsBurst
      <4>1. Len(bursts') = Len(bursts) /\ response' = response
        BY <1>0, <3>4 DEF HoldsBurst
      <4> QED BY <1>1, <1>3, <3>1, <4>1
    <3> QED BY <2>6, <3>2, <3>3, <3>4, ReturnsFacts
  <2> QED BY <1>4, <1>8, <2>1, <2>2, <2>3, <2>4, <2>5, <2>6 DEF BridgeNext
<1>9. RT /\ RB
  BY <1>6, <1>7, <1>8, NextCases
<1> QED BY <1>2, <1>9, RoomQueues DEF RoomInv

-----------------------------------------------------------------------------
(* Where transactions are.                                                 *)

\* A sequence with one element more.
LEMMA ElemsPut ==
  ASSUME NEW n \in Nat, NEW f, NEW g, Len(f) = n, Len(g) = n + 1, \A i \in 1 .. n : g[i] = f[i]
  PROVE  /\ Elems(g) = Elems(f) \cup {g[n + 1]}
         /\ NoDup(f) /\ g[n + 1] \notin Elems(f) => NoDup(g)
<1>1. \A i \in 1 .. (n + 1) : i \in 1 .. n \/ i = n + 1
  OBVIOUS
<1>2. \A i \in 1 .. n : i \in 1 .. (n + 1) /\ i # n + 1
  OBVIOUS
<1>3. n + 1 \in 1 .. (n + 1)
  OBVIOUS
<1> DEFINE m == n + 1
           I == 1 .. n
           J == 1 .. m
<1>4. /\ \A i \in J : i \in I \/ i = m
      /\ \A i \in I : i \in J /\ g[i] = f[i]
      /\ m \in J /\ Elems(f) = {f[i] : i \in I} /\ Elems(g) = {g[i] : i \in J}
      /\ NoDup(f) <=> \A i, j \in I : i # j => f[i] # f[j]
      /\ NoDup(g) <=> \A i, j \in J : i # j => g[i] # g[j]
  BY <1>1, <1>2, <1>3 DEF Elems, NoDup
<1> HIDE DEF m, I, J
<1>5. Elems(g) = Elems(f) \cup {g[m]}
  BY <1>4
<1>6. ASSUME NoDup(f), g[m] \notin Elems(f), NEW i \in J, NEW j \in J, i # j, g[i] = g[j] PROVE FALSE
  <2>1. CASE i \in I /\ j \in I
    BY <1>4, <1>6, <2>1
  <2>2. CASE i = m /\ j \in I
    BY <1>4, <1>6, <2>2
  <2>3. CASE i \in I /\ j = m
    BY <1>4, <1>6, <2>3
  <2> QED BY <1>4, <1>6, <2>1, <2>2, <2>3
<1> QED BY <1>4, <1>5, <1>6 DEF m

\* A sequence without one of its elements.
LEMMA ElemsCut ==
  ASSUME NEW n \in Nat \ {0}, NEW i \in 1 .. n, NEW f, NEW g, Len(f) = n, Len(g) = n - 1,
         \A j \in 1 .. (n - 1) : g[j] = IF j < i THEN f[j] ELSE f[j + 1]
  PROVE  /\ Elems(f) = Elems(g) \cup {f[i]}
         /\ NoDup(f) => NoDup(g) /\ f[i] \notin Elems(g)
<1> DEFINE I == 1 .. n
           J == 1 .. (n - 1)
           e(j) == IF j < i THEN j ELSE j + 1
           d(h) == IF h < i THEN h ELSE h - 1
<1>1. \A j \in J : e(j) \in I /\ e(j) # i /\ g[j] = f[e(j)]
  OBVIOUS
<1>2. \A h, j \in J : h # j => e(h) # e(j)
  OBVIOUS
<1>3. \A h \in I : h # i => d(h) \in J /\ e(d(h)) = h
  OBVIOUS
<1>4. /\ Elems(f) = {f[h] : h \in I} /\ Elems(g) = {g[j] : j \in J} /\ i \in I
      /\ NoDup(f) <=> \A h, j \in I : h # j => f[h] # f[j]
      /\ NoDup(g) <=> \A h, j \in J : h # j => g[h] # g[j]
  BY DEF Elems, NoDup
<1> HIDE DEF I, J, e, d
<1>5. Elems(f) = Elems(g) \cup {f[i]}
  <2>1. ASSUME NEW h \in I PROVE f[h] \in Elems(g) \cup {f[i]}
    <3>1. h # i => f[h] = g[d(h)] /\ d(h) \in J
      BY <1>1, <1>3
    <3> QED BY <1>4, <3>1
  <2>2. ASSUME NEW j \in J PROVE g[j] \in Elems(f)
    BY <1>1, <1>4
  <2> QED BY <1>4, <2>1, <2>2
<1>6. ASSUME NoDup(f) PROVE NoDup(g) /\ f[i] \notin Elems(g)
  <2>1. ASSUME NEW h \in J, NEW j \in J, h # j PROVE g[h] # g[j]
    <3>1. e(h) \in I /\ e(j) \in I /\ e(h) # e(j) /\ g[h] = f[e(h)] /\ g[j] = f[e(j)]
      BY <1>1, <1>2, <2>1
    <3> QED BY <1>4, <1>6, <3>1
  <2>2. ASSUME NEW j \in J PROVE g[j] # f[i]
    <3>1. e(j) \in I /\ e(j) # i /\ g[j] = f[e(j)]
      BY <1>1, <2>2
    <3> QED BY <1>4, <1>6, <3>1
  <2> QED BY <1>4, <2>1, <2>2
<1> QED BY <1>5, <1>6

\* Families of sets: one gets an element, one loses one, or both.
LEMMA FamilyPut ==
  ASSUME NEW S, NEW F, NEW G, DOMAIN F = S, DOMAIN G = S, NEW x \in S, NEW k,
         G[x] = F[x] \cup {k}, \A y \in S \ {x} : G[y] = F[y]
  PROVE  /\ All(G) = All(F) \cup {k}
         /\ Apart(F) /\ k \notin All(F) => Apart(G)
<1>1. All(G) = All(F) \cup {k}
  BY DEF All
<1>2. ASSUME Apart(F), k \notin All(F), NEW y \in S, NEW z \in S, y # z PROVE G[y] \cap G[z] = {}
  <2>1. F[y] \cap F[z] = {} /\ k \notin F[y] /\ k \notin F[z]
    BY <1>2 DEF Apart, All
  <2> QED BY <1>2, <2>1
<1> QED BY <1>1, <1>2 DEF Apart

\* An element is taken out of one set of the family.
LEMMA FamilyTake ==
  ASSUME NEW S, NEW F, NEW G, DOMAIN F = S, DOMAIN G = S, NEW x \in S, NEW k,
         F[x] = G[x] \cup {k}, k \notin G[x], \A y \in S \ {x} : G[y] = F[y], Apart(F)
  PROVE  All(G) = All(F) \ {k} /\ Apart(G) /\ k \in All(F)
<1>1. \A y \in S \ {x} : k \notin F[y]
  BY DEF Apart
<1>2. All(G) = All(F) \ {k} /\ k \in All(F)
  BY <1>1 DEF All
<1>3. Apart(G)
  BY DEF Apart
<1> QED BY <1>2, <1>3

\* An element moves from one set of the family to another.
LEMMA FamilyMove ==
  ASSUME NEW S, NEW F, NEW G, DOMAIN F = S, DOMAIN G = S, NEW x \in S, NEW z \in S, x # z, NEW k,
         F[x] = G[x] \cup {k}, k \notin G[x], G[z] = F[z] \cup {k},
         \A y \in S \ {x, z} : G[y] = F[y], Apart(F)
  PROVE  All(G) = All(F) /\ Apart(G) /\ k \notin F[z]
<1>1. \A y \in S \ {x} : k \notin F[y]
  BY DEF Apart
<1>2. All(G) = All(F)
  BY DEF All
<1>3. ASSUME NEW y \in S, NEW w \in S, y # w PROVE G[y] \cap G[w] = {}
  <2>1. F[y] \cap F[w] = {} /\ (y # x => k \notin F[y]) /\ (w # x => k \notin F[w])
    BY <1>1, <1>3 DEF Apart
  <2>2. G[x] \subseteq F[x]
    OBVIOUS
  <2>3. CASE y = z
    BY <1>3, <2>1, <2>2, <2>3
  <2>4. CASE w = z
    BY <1>3, <2>1, <2>2, <2>4
  <2>5. CASE y # z /\ w # z
    BY <1>3, <2>1, <2>2, <2>5
  <2> QED BY <2>3, <2>4, <2>5
<1> QED BY <1>1, <1>2, <1>3 DEF Apart

\* The keys in a spot.
LEMMA SpotIs ==
  /\ \A s \in Stacks : <<"I", s>> \in Spots /\ KeysAt(<<"I", s>>) = IKeys(stack_ingress_queues_[s])
  /\ \A c \in Controllers : /\ <<"W", c>> \in Spots /\ KeysAt(<<"W", c>>) = TKeys(controllers_[c].waiting)
                            /\ <<"R", c>> \in Spots /\ KeysAt(<<"R", c>>) = TKeys(controllers_[c].responses)
  /\ \A x \in Spots : \/ \E s \in Stacks : x = <<"I", s>>
                      \/ \E c \in Controllers : x = <<"W", c>>
                      \/ \E c \in Controllers : x = <<"R", c>>
BY DEF Spots, KeysAt

\* Ingress, waiting and responses are different places.
LEMMA SpotDistinct ==
  \A s, c : <<"I", s>> # <<"W", c>> /\ <<"I", s>> # <<"R", c>> /\ <<"W", s>> # <<"R", c>>
OBVIOUS

\* A spot gets a key, or loses one.
Puts(x, k) == /\ x \in Spots /\ Elems(KeysAt(x))' = Elems(KeysAt(x)) \cup {k}
              /\ NoDup(KeysAt(x)) /\ k \notin Elems(KeysAt(x)) => NoDup(KeysAt(x))'
Cuts(x, k) == /\ x \in Spots /\ Elems(KeysAt(x)) = Elems(KeysAt(x))' \cup {k}
              /\ NoDup(KeysAt(x)) => NoDup(KeysAt(x))' /\ k \notin Elems(KeysAt(x))'
SameBut(X) == Spots' = Spots /\ \A y \in Spots \ X : KeysAt(y)' = KeysAt(y)

\* The keys of a queue that gets an element, or loses one.
LEMMA IKeysCut ==
  ASSUME NEW q \in Seq(Tx), NEW p \in Seq(Tx), NEW i \in 1 .. Len(q), Len(p) = Len(q) - 1,
         \A j \in 1 .. (Len(q) - 1) : p[j] = IF j < i THEN q[j] ELSE q[j + 1]
  PROVE  /\ Elems(IKeys(q)) = Elems(IKeys(p)) \cup {Key(q[i])}
         /\ NoDup(IKeys(q)) => NoDup(IKeys(p)) /\ Key(q[i]) \notin Elems(IKeys(p))
<1> DEFINE n == Len(q)
           f == IKeys(q)
           g == IKeys(p)
<1>1. n \in Nat \ {0} /\ i \in 1 .. n /\ Len(p) = n - 1
      /\ \A j \in 1 .. (n - 1) : p[j] = IF j < i THEN q[j] ELSE q[j + 1]
  OBVIOUS
<1> HIDE DEF n
<1>2. Len(f) = n /\ \A j \in 1 .. n : f[j] = Key(q[j])
  BY <1>1 DEF IKeys, n
<1>3. Len(g) = n - 1 /\ \A j \in 1 .. (n - 1) : g[j] = Key(p[j])
  BY <1>1 DEF IKeys
<1> HIDE DEF f, g
<1>4. \A j \in 1 .. (n - 1) : g[j] = IF j < i THEN f[j] ELSE f[j + 1]
  <2> TAKE j \in 1 .. (n - 1)
  <2>1. j \in 1 .. n /\ j + 1 \in 1 .. n
    BY <1>1
  <2> QED BY <1>1, <1>2, <1>3, <2>1
<1>5. /\ Elems(f) = Elems(g) \cup {f[i]}
      /\ NoDup(f) => NoDup(g) /\ f[i] \notin Elems(g)
  BY <1>1, <1>2, <1>3, <1>4, ElemsCut
<1>6. f[i] = Key(q[i])
  BY <1>1, <1>2
<1> QED BY <1>5, <1>6 DEF f, g

\* The keys of a queue of a controller from which an element is taken.
LEMMA TKeysCut ==
  ASSUME NEW S, NEW q \in Seq(S), NEW p \in Seq(S), NEW i \in 1 .. Len(q), Len(p) = Len(q) - 1,
         \A j \in 1 .. (Len(q) - 1) : p[j] = IF j < i THEN q[j] ELSE q[j + 1]
  PROVE  /\ Elems(TKeys(q)) = Elems(TKeys(p)) \cup {Key(q[i].t)}
         /\ NoDup(TKeys(q)) => NoDup(TKeys(p)) /\ Key(q[i].t) \notin Elems(TKeys(p))
<1> DEFINE n == Len(q)
           f == TKeys(q)
           g == TKeys(p)
<1>1. n \in Nat \ {0} /\ i \in 1 .. n /\ Len(p) = n - 1
      /\ \A j \in 1 .. (n - 1) : p[j] = IF j < i THEN q[j] ELSE q[j + 1]
  OBVIOUS
<1> HIDE DEF n
<1>2. Len(f) = n /\ \A j \in 1 .. n : f[j] = Key(q[j].t)
  BY <1>1 DEF TKeys, n
<1>3. Len(g) = n - 1 /\ \A j \in 1 .. (n - 1) : g[j] = Key(p[j].t)
  BY <1>1 DEF TKeys
<1> HIDE DEF f, g
<1>4. \A j \in 1 .. (n - 1) : g[j] = IF j < i THEN f[j] ELSE f[j + 1]
  <2> TAKE j \in 1 .. (n - 1)
  <2>1. j \in 1 .. n /\ j + 1 \in 1 .. n
    BY <1>1
  <2> QED BY <1>1, <1>2, <1>3, <2>1
<1>5. /\ Elems(f) = Elems(g) \cup {f[i]}
      /\ NoDup(f) => NoDup(g) /\ f[i] \notin Elems(g)
  BY <1>1, <1>2, <1>3, <1>4, ElemsCut
<1>6. f[i] = Key(q[i].t)
  BY <1>1, <1>2
<1> QED BY <1>5, <1>6 DEF f, g

\* The keys of an ingress queue to which an element is added.
LEMMA IKeysPut ==
  ASSUME NEW q \in Seq(Tx), NEW t \in Tx
  PROVE  /\ Elems(IKeys(Append(q, t))) = Elems(IKeys(q)) \cup {Key(t)}
         /\ NoDup(IKeys(q)) /\ Key(t) \notin Elems(IKeys(q)) => NoDup(IKeys(Append(q, t)))
<1> DEFINE n == Len(q)
           p == Append(q, t)
           f == IKeys(q)
           g == IKeys(p)
<1>1. /\ n \in Nat /\ Len(p) = n + 1 /\ p[n + 1] = t /\ \A j \in 1 .. n : p[j] = q[j]
  BY Appended
<1> HIDE DEF n, p
<1>2. Len(f) = n /\ \A j \in 1 .. n : f[j] = Key(q[j])
  BY <1>1 DEF IKeys, n
<1>3. Len(g) = n + 1 /\ \A j \in 1 .. (n + 1) : g[j] = Key(p[j])
  BY <1>1 DEF IKeys
<1> HIDE DEF f, g
<1>4. \A j \in 1 .. n : g[j] = f[j]
  BY <1>1, <1>2, <1>3
<1>5. g[n + 1] = Key(t)
  BY <1>1, <1>3
<1>6. /\ Elems(g) = Elems(f) \cup {g[n + 1]}
      /\ NoDup(f) /\ g[n + 1] \notin Elems(f) => NoDup(g)
  BY <1>1, <1>2, <1>3, <1>4, ElemsPut
<1> QED BY <1>5, <1>6 DEF f, g, p

\* The keys of a queue of a controller to which an element is added.
LEMMA TKeysPut ==
  ASSUME NEW S, NEW q \in Seq(S), NEW r \in S
  PROVE  /\ Elems(TKeys(Append(q, r))) = Elems(TKeys(q)) \cup {Key(r.t)}
         /\ NoDup(TKeys(q)) /\ Key(r.t) \notin Elems(TKeys(q)) => NoDup(TKeys(Append(q, r)))
<1> DEFINE n == Len(q)
           p == Append(q, r)
           f == TKeys(q)
           g == TKeys(p)
<1>1. /\ n \in Nat /\ Len(p) = n + 1 /\ p[n + 1] = r /\ \A j \in 1 .. n : p[j] = q[j]
  BY Appended
<1> HIDE DEF n, p
<1>2. Len(f) = n /\ \A j \in 1 .. n : f[j] = Key(q[j].t)
  BY <1>1 DEF TKeys, n
<1>3. Len(g) = n + 1 /\ \A j \in 1 .. (n + 1) : g[j] = Key(p[j].t)
  BY <1>1 DEF TKeys
<1> HIDE DEF f, g
<1>4. \A j \in 1 .. n : g[j] = f[j]
  BY <1>1, <1>2, <1>3
<1>5. g[n + 1] = Key(r.t)
  BY <1>1, <1>3
<1>6. /\ Elems(g) = Elems(f) \cup {g[n + 1]}
      /\ NoDup(f) /\ g[n + 1] \notin Elems(f) => NoDup(g)
  BY <1>1, <1>2, <1>3, <1>4, ElemsPut
<1> QED BY <1>5, <1>6 DEF f, g, p

\* A transaction is enqueued.
LEMMA EnqueueSpots ==
  ASSUME TypeInv, NEW t \in Tx, Enqueue(t), UNCHANGED <<cfg, controllers_>>
  PROVE  \E x : Puts(x, Key(t)) /\ SameBut({x})
<1> DEFINE s == cfg.route[t.line].stack
           q == stack_ingress_queues_[s]
           x == <<"I", s>>
<1>1. /\ s \in Stacks /\ Numbered(t) \in Tx
      /\ stack_ingress_queues_' = [stack_ingress_queues_ EXCEPT ![s] = Append(@, Numbered(t))]
  BY EnqueueFacts
<1>2. stack_ingress_queues_ \in [Stacks -> Seq(Tx)] /\ Stacks' = Stacks /\ Controllers' = Controllers
  BY SameConfig DEF TypeInv
<1>3. /\ q \in Seq(Tx) /\ stack_ingress_queues_'[s] = Append(q, Numbered(t))
      /\ \A r \in Stacks : r # s => stack_ingress_queues_'[r] = stack_ingress_queues_[r]
  BY <1>1, <1>2
<1>4. Key(Numbered(t)) = Key(t)
  BY DEF Key, Numbered, Tx
<1>5. /\ Elems(IKeys(Append(q, Numbered(t)))) = Elems(IKeys(q)) \cup {Key(t)}
      /\ NoDup(IKeys(q)) /\ Key(t) \notin Elems(IKeys(q)) => NoDup(IKeys(Append(q, Numbered(t))))
  BY <1>1, <1>3, <1>4, IKeysPut, ZenonT(40)
<1>6. x \in Spots /\ KeysAt(x) = IKeys(q) /\ KeysAt(x)' = IKeys(Append(q, Numbered(t)))
  BY <1>1, <1>3 DEF Spots, KeysAt
<1>7. Puts(x, Key(t))
  BY <1>5, <1>6 DEF Puts
<1>8. SameBut({x})
  <2>1. Spots' = Spots
    BY <1>2 DEF Spots
  <2>2. ASSUME NEW y \in Spots \ {x} PROVE KeysAt(y)' = KeysAt(y)
    <3>1. CASE y[1] = "I"
      <4>1. y[2] \in Stacks /\ y[2] # s
        BY <2>2, <3>1 DEF Spots
      <4> QED BY <1>3, <3>1, <4>1 DEF KeysAt
    <3>2. CASE y[1] # "I"
      BY <3>2 DEF KeysAt
    <3> QED BY <3>1, <3>2
  <2> QED BY <2>1, <2>2 DEF SameBut
<1> QED BY <1>7, <1>8

\* A transaction is dispatched.
LEMMA DispatchSpots ==
  ASSUME TypeInv, ChainInv, NEW s, NEW i, NEW c, DispatchTakes(s, i, c)
  PROVE  \E x, z, k : x # z /\ Cuts(x, k) /\ Puts(z, k) /\ SameBut({x, z})
<1> DEFINE q == stack_ingress_queues_[s]
           t == q[i]
           x == <<"I", s>>
           z == <<"W", c>>
           w == [t |-> t, type |-> t.type, data |-> IF t.type = "R" THEN image[Cell(t.line)] ELSE 0]
<1>1. /\ s \in Stacks /\ q \in Seq(Tx) /\ i \in 1 .. Len(q) /\ c \in Controllers
      /\ controllers_'[c].responses = controllers_[c].responses
      /\ \A d \in Controllers \ {c} : controllers_'[d] = controllers_[d]
      /\ stack_ingress_queues_'[s] = RemoveAt(q, i)
      /\ \A r \in Stacks \ {s} : stack_ingress_queues_'[r] = stack_ingress_queues_[r]
  BY DispatchMoves
<1>2. w \in Wait /\ controllers_'[c].waiting = Append(controllers_[c].waiting, w) /\ w.t = t
  BY DispatchFacts
<1>3. controllers_ \in [Controllers -> Ctl] /\ cfg' = cfg
  BY DEF TypeInv, DispatchTakes
<1>4. Stacks' = Stacks /\ Controllers' = Controllers
  BY <1>3, SameConfig
<1>5. controllers_[c].waiting \in Seq(Wait)
  BY <1>1, <1>3 DEF Ctl
<1> DEFINE p == RemoveAt(q, i)
           u == Append(controllers_[c].waiting, w)
<1>6. /\ p \in Seq(Tx) /\ Len(p) = Len(q) - 1
      /\ \A j \in 1 .. (Len(q) - 1) : p[j] = IF j < i THEN q[j] ELSE q[j + 1]
  BY <1>1, RemoveAtFacts
<1> HIDE DEF p
<1>7. /\ Elems(IKeys(q)) = Elems(IKeys(p)) \cup {Key(t)}
      /\ NoDup(IKeys(q)) => NoDup(IKeys(p)) /\ Key(t) \notin Elems(IKeys(p))
  BY <1>1, <1>6, IKeysCut
<1>8. /\ Elems(TKeys(u)) = Elems(TKeys(controllers_[c].waiting)) \cup {Key(t)}
      /\ NoDup(TKeys(controllers_[c].waiting)) /\ Key(t) \notin Elems(TKeys(controllers_[c].waiting))
         => NoDup(TKeys(u))
  BY <1>2, <1>5, TKeysPut
<1> HIDE DEF w, u, t
<1>9. /\ x \in Spots /\ KeysAt(x) = IKeys(q) /\ KeysAt(x)' = IKeys(p)
      /\ z \in Spots /\ KeysAt(z) = TKeys(controllers_[c].waiting) /\ KeysAt(z)' = TKeys(u)
      /\ x # z
  BY <1>1, <1>2 DEF Spots, KeysAt, p, u
<1>10. Cuts(x, Key(t)) /\ Puts(z, Key(t))
  BY <1>7, <1>8, <1>9 DEF Cuts, Puts
<1>11. SameBut({x, z})
  <2>1. Spots' = Spots
    BY <1>4 DEF Spots
  <2>2. ASSUME NEW y \in Spots \ {x, z} PROVE KeysAt(y)' = KeysAt(y)
    <3>1. CASE y[1] = "I"
      <4>1. y[2] \in Stacks \ {s}
        BY <2>2, <3>1 DEF Spots
      <4> QED BY <1>1, <3>1, <4>1 DEF KeysAt
    <3>2. CASE y[1] = "W"
      <4>1. y[2] \in Controllers \ {c}
        BY <2>2, <3>2 DEF Spots
      <4> QED BY <1>1, <3>2, <4>1 DEF KeysAt
    <3>3. CASE y[1] # "I" /\ y[1] # "W"
      <4>1. y[2] \in Controllers
        BY <2>2, <3>3 DEF Spots
      <4>2. controllers_'[y[2]].responses = controllers_[y[2]].responses
        BY <1>1, <4>1
      <4> QED BY <3>3, <4>2 DEF KeysAt
    <3> QED BY <3>1, <3>2, <3>3
  <2> QED BY <2>1, <2>2 DEF SameBut
<1> QED BY <1>9, <1>10, <1>11

\* A controller answers.
LEMMA AnswerSpots ==
  ASSUME TypeInv, NEW c, NEW i, NEW status, ControllerAnswers(c, i, status)
  PROVE  \E x, z, k : x # z /\ Cuts(x, k) /\ Puts(z, k) /\ SameBut({x, z})
<1> DEFINE q == controllers_[c].waiting
           v == controllers_[c].responses
           r == [id |-> q[i].t.id, t |-> q[i].t, data |-> q[i].data, status |-> status]
           x == <<"W", c>>
           z == <<"R", c>>
           p == RemoveAt(q, i)
           u == Append(v, r)
           k == Key(q[i].t)
<1>1. /\ c \in Controllers /\ q \in Seq(Wait) /\ i \in 1 .. Len(q) /\ r \in Resp /\ v \in Seq(Resp)
      /\ controllers_'[c].responses = u
      /\ \A d \in Controllers \ {c} : controllers_'[d] = controllers_[d]
  BY AnswerFacts
<1>2. controllers_'[c].waiting = p
  <2>1. /\ controllers_ \in [Controllers -> Ctl]
        /\ controllers_' = [controllers_ EXCEPT ![c] = [waiting |-> p, responses |-> u]]
    BY DEF ControllerAnswers, TypeInv
  <2> HIDE DEF p, u
  <2> QED BY <1>1, <2>1
<1>3. Stacks' = Stacks /\ Controllers' = Controllers /\ stack_ingress_queues_' = stack_ingress_queues_
  BY SameConfig DEF ControllerAnswers
<1>4. /\ p \in Seq(Wait) /\ Len(p) = Len(q) - 1
      /\ \A j \in 1 .. (Len(q) - 1) : p[j] = IF j < i THEN q[j] ELSE q[j + 1]
  BY <1>1, RemoveAtFacts
<1>5. r.t = q[i].t
  OBVIOUS
<1> HIDE DEF p, q, v, r
<1>6. /\ Elems(TKeys(q)) = Elems(TKeys(p)) \cup {k}
      /\ NoDup(TKeys(q)) => NoDup(TKeys(p)) /\ k \notin Elems(TKeys(p))
  BY <1>1, <1>4, TKeysCut
<1>7. /\ Elems(TKeys(u)) = Elems(TKeys(v)) \cup {k}
      /\ NoDup(TKeys(v)) /\ k \notin Elems(TKeys(v)) => NoDup(TKeys(u))
  BY <1>1, <1>5, TKeysPut
<1> HIDE DEF u, k
<1>9. /\ x \in Spots /\ KeysAt(x) = TKeys(q) /\ KeysAt(x)' = TKeys(p)
      /\ z \in Spots /\ KeysAt(z) = TKeys(v) /\ KeysAt(z)' = TKeys(u)
      /\ x # z
  BY <1>1, <1>2 DEF Spots, KeysAt, q, v
<1>10. Cuts(x, k) /\ Puts(z, k)
  BY <1>6, <1>7, <1>9 DEF Cuts, Puts
<1>11. SameBut({x, z})
  <2>1. Spots' = Spots
    BY <1>3 DEF Spots
  <2>2. ASSUME NEW y \in Spots \ {x, z} PROVE KeysAt(y)' = KeysAt(y)
    <3>1. CASE y[1] = "I"
      BY <1>3, <3>1 DEF KeysAt
    <3>2. CASE y[1] # "I"
      <4>1. y[2] \in Controllers \ {c}
        BY <2>2, <3>2 DEF Spots
      <4> QED BY <1>1, <3>2, <4>1 DEF KeysAt
    <3> QED BY <3>1, <3>2
  <2> QED BY <2>1, <2>2 DEF SameBut
<1> QED BY <1>9, <1>10, <1>11

\* A response is collected.
LEMMA CollectSpots ==
  ASSUME TypeInv, NEW c, Collects(c)
  PROVE  \E x : Cuts(x, Key(Head(controllers_[c].responses).t)) /\ SameBut({x})
<1> DEFINE q == controllers_[c].responses
           x == <<"R", c>>
           p == Tail(q)
           k == Key(Head(q).t)
<1>1. /\ c \in Controllers /\ q \in Seq(Resp) /\ q # <<>>
      /\ controllers_'[c].waiting = controllers_[c].waiting
      /\ controllers_'[c].responses = p
      /\ \A d \in Controllers \ {c} : controllers_'[d] = controllers_[d]
  BY CollectFacts
<1>2. /\ p \in Seq(Resp) /\ Len(p) = Len(q) - 1 /\ Len(q) \in Nat \ {0} /\ Head(q) = q[1]
      /\ \A j \in 1 .. (Len(q) - 1) : p[j] = q[j + 1]
  BY <1>1, HeadTail
<1>3. Stacks' = Stacks /\ Controllers' = Controllers /\ stack_ingress_queues_' = stack_ingress_queues_
  BY SameConfig DEF Collects
<1> HIDE DEF p, q
<1>4. 1 \in 1 .. Len(q) /\ \A j \in 1 .. (Len(q) - 1) : p[j] = IF j < 1 THEN q[j] ELSE q[j + 1]
  BY <1>2
<1>5. /\ Elems(TKeys(q)) = Elems(TKeys(p)) \cup {k}
      /\ NoDup(TKeys(q)) => NoDup(TKeys(p)) /\ k \notin Elems(TKeys(p))
  <2> DEFINE i == 1
  <2>1. i \in 1 .. Len(q) /\ \A j \in 1 .. (Len(q) - 1) : p[j] = IF j < i THEN q[j] ELSE q[j + 1]
    BY <1>4
  <2>2. Key(q[i].t) = k
    BY <1>2
  <2> HIDE DEF i, k
  <2>4. q \in Seq(Resp) /\ p \in Seq(Resp) /\ Len(p) = Len(q) - 1
    BY <1>1, <1>2
  <2>3. /\ Elems(TKeys(q)) = Elems(TKeys(p)) \cup {Key(q[i].t)}
        /\ NoDup(TKeys(q)) => NoDup(TKeys(p)) /\ Key(q[i].t) \notin Elems(TKeys(p))
    BY <2>1, <2>4, TKeysCut
  <2> QED BY <2>2, <2>3
<1>6. x \in Spots /\ KeysAt(x) = TKeys(q) /\ KeysAt(x)' = TKeys(p)
  BY <1>1 DEF Spots, KeysAt, q
<1>7. Cuts(x, k)
  BY <1>5, <1>6 DEF Cuts
<1>8. SameBut({x})
  <2>1. Spots' = Spots
    BY <1>3 DEF Spots
  <2>2. ASSUME NEW y \in Spots \ {x} PROVE KeysAt(y)' = KeysAt(y)
    <3>1. CASE y[1] = "I"
      BY <1>3, <3>1 DEF KeysAt
    <3>2. CASE y[1] = "W"
      <4>1. y[2] \in Controllers
        BY <2>2, <3>2 DEF Spots
      <4>2. controllers_'[y[2]].waiting = controllers_[y[2]].waiting
        BY <1>1, <4>1
      <4> QED BY <3>2, <4>2 DEF KeysAt
    <3>3. CASE y[1] # "I" /\ y[1] # "W"
      <4>1. y[2] \in Controllers \ {c}
        BY <2>2, <3>3 DEF Spots
      <4> QED BY <1>1, <3>3, <4>1 DEF KeysAt
    <3> QED BY <3>1, <3>2, <3>3
  <2> QED BY <2>1, <2>2 DEF SameBut
<1> QED BY <1>7, <1>8 DEF q

\* Quiet steps leave every transaction where it is.
LEMMA QuietSpots ==
  ASSUME UNCHANGED <<cfg, stack_ingress_queues_, controllers_>>
  PROVE  SameBut({}) /\ Holding' = Holding /\ Flying' = Flying
<1>1. Spots' = Spots
  BY SameConfig DEF Spots
<1>2. \A y \in Spots : KeysAt(y)' = KeysAt(y)
  BY DEF KeysAt
<1>3. Flying' = Flying
  BY SameConfig DEF Flying, IsFlying
<1> QED BY <1>1, <1>2, <1>3 DEF SameBut, Holding

\* Holding after a step.
LEMMA HoldingPut ==
  ASSUME PlaceInv, cfg.user # "batch", NEW x, NEW k, Puts(x, k), SameBut({x}), k \notin All(Holding)
  PROVE  All(Holding') = All(Holding) \cup {k} /\ PlaceInv'
<1> DEFINE F == Holding
           G == Holding'
<1>1. /\ DOMAIN F = Spots /\ DOMAIN G = Spots
      /\ \A y \in Spots : F[y] = Elems(KeysAt(y)) /\ G[y] = Elems(KeysAt(y))'
  BY DEF Holding, SameBut
<1>2. /\ x \in Spots /\ G[x] = F[x] \cup {k} /\ \A y \in Spots \ {x} : G[y] = F[y]
  BY <1>1 DEF Puts, SameBut
<1>3. Apart(F) /\ \A y \in Spots : NoDup(KeysAt(y))
  BY DEF PlaceInv
<1>4. k \notin F[x]
  BY <1>1, <1>2 DEF All
<1>5. \A y \in Spots' : NoDup(KeysAt(y))'
  <2>1. NoDup(KeysAt(x))'
    BY <1>1, <1>2, <1>3, <1>4 DEF Puts
  <2>2. \A y \in Spots \ {x} : NoDup(KeysAt(y))'
    BY <1>3 DEF SameBut
  <2> QED BY <2>1, <2>2 DEF SameBut
<1> HIDE DEF F, G
<1>6. All(G) = All(F) \cup {k} /\ Apart(G)
  BY <1>1, <1>2, <1>3, FamilyPut DEF F
<1> QED BY <1>5, <1>6 DEF PlaceInv, F, G

\* A key moves from one place to another.
LEMMA HoldingMove ==
  ASSUME PlaceInv, cfg.user # "batch", NEW x, NEW z, NEW k, x # z, Cuts(x, k), Puts(z, k), SameBut({x, z})
  PROVE  All(Holding') = All(Holding) /\ PlaceInv'
<1> DEFINE F == Holding
           G == Holding'
<1>1. /\ DOMAIN F = Spots /\ DOMAIN G = Spots
      /\ \A y \in Spots : F[y] = Elems(KeysAt(y)) /\ G[y] = Elems(KeysAt(y))'
  BY DEF Holding, SameBut
<1>2. Apart(F) /\ \A y \in Spots : NoDup(KeysAt(y))
  BY DEF PlaceInv
<1>3. /\ x \in Spots /\ F[x] = G[x] \cup {k} /\ k \notin G[x] /\ NoDup(KeysAt(x))'
      /\ z \in Spots /\ G[z] = F[z] \cup {k} /\ \A y \in Spots \ {x, z} : G[y] = F[y]
  BY <1>1, <1>2 DEF Puts, Cuts, SameBut
<1>4. All(G) = All(F) /\ Apart(G) /\ k \notin F[z]
  <2> HIDE DEF F, G
  <2> QED BY <1>1, <1>2, <1>3, FamilyMove
<1>5. \A y \in Spots' : NoDup(KeysAt(y))'
  <2>1. NoDup(KeysAt(z))'
    BY <1>1, <1>2, <1>3, <1>4 DEF Puts
  <2>2. \A y \in Spots \ {x, z} : NoDup(KeysAt(y))'
    BY <1>2 DEF SameBut
  <2> QED BY <1>3, <2>1, <2>2 DEF SameBut
<1> QED BY <1>4, <1>5 DEF PlaceInv

\* A key leaves the system.
LEMMA HoldingTake ==
  ASSUME PlaceInv, cfg.user # "batch", NEW x, NEW k, Cuts(x, k), SameBut({x})
  PROVE  All(Holding') = All(Holding) \ {k} /\ k \in All(Holding) /\ PlaceInv'
<1> DEFINE F == Holding
           G == Holding'
<1>1. /\ DOMAIN F = Spots /\ DOMAIN G = Spots
      /\ \A y \in Spots : F[y] = Elems(KeysAt(y)) /\ G[y] = Elems(KeysAt(y))'
  BY DEF Holding, SameBut
<1>2. Apart(F) /\ \A y \in Spots : NoDup(KeysAt(y))
  BY DEF PlaceInv
<1>3. /\ x \in Spots /\ F[x] = G[x] \cup {k} /\ k \notin G[x] /\ NoDup(KeysAt(x))'
      /\ \A y \in Spots \ {x} : G[y] = F[y]
  BY <1>1, <1>2 DEF Cuts, SameBut
<1>4. All(G) = All(F) \ {k} /\ Apart(G) /\ k \in All(F)
  <2> HIDE DEF F, G
  <2> QED BY <1>1, <1>2, <1>3, FamilyTake
<1>5. \A y \in Spots' : NoDup(KeysAt(y))'
  <2>2. \A y \in Spots \ {x} : NoDup(KeysAt(y))'
    BY <1>2 DEF SameBut
  <2> QED BY <1>3, <2>2 DEF SameBut
<1> QED BY <1>4, <1>5 DEF PlaceInv

\* The transactions on their way and their keys.
FlyingHeld == /\ \A t \in Flying : Key(t) \in All(Holding)
              /\ \A k \in All(Holding) : \E t \in Flying : Key(t) = k

\* The keys of the transactions on their way are those that are held.
LEMMA FlyingKeys == TypeInv => FlyingHeld
<1> SUFFICES ASSUME TypeInv PROVE FlyingHeld
  OBVIOUS
<1>0. /\ stack_ingress_queues_ \in [Stacks -> Seq(Tx)] /\ controllers_ \in [Controllers -> Ctl]
  BY DEF TypeInv
<1>1. /\ \A s \in Stacks : stack_ingress_queues_[s] \in Seq(Tx)
      /\ \A c \in Controllers : controllers_[c].waiting \in Seq(Wait) /\ controllers_[c].responses \in Seq(Resp)
  BY <1>0 DEF Ctl
<1>2. ASSUME NEW q \in Seq(Tx)
      PROVE  /\ \A i \in 1 .. Len(q) : q[i] \in Tx /\ Key(q[i]) \in Elems(IKeys(q))
             /\ \A k \in Elems(IKeys(q)) : \E i \in 1 .. Len(q) : k = Key(q[i])
  <2>1. Len(q) \in Nat /\ \A i \in 1 .. Len(q) : q[i] \in Tx
    OBVIOUS
  <2>2. Len(IKeys(q)) = Len(q) /\ \A i \in 1 .. Len(q) : IKeys(q)[i] = Key(q[i])
    BY <2>1 DEF IKeys
  <2> QED BY <2>1, <2>2 DEF Elems
<1>3. ASSUME NEW S, NEW q \in Seq(S)
      PROVE  /\ \A i \in 1 .. Len(q) : q[i] \in S /\ Key(q[i].t) \in Elems(TKeys(q))
             /\ \A k \in Elems(TKeys(q)) : \E i \in 1 .. Len(q) : k = Key(q[i].t)
  <2>1. Len(q) \in Nat /\ \A i \in 1 .. Len(q) : q[i] \in S
    OBVIOUS
  <2>2. Len(TKeys(q)) = Len(q) /\ \A i \in 1 .. Len(q) : TKeys(q)[i] = Key(q[i].t)
    BY <2>1 DEF TKeys
  <2> QED BY <2>1, <2>2 DEF Elems
<1>4. /\ \A w \in Wait : w.t \in Tx
      /\ \A r \in Resp : r.t \in Tx
  BY DEF Wait, WaitRec, Resp, RespRec
<1>5. ASSUME NEW t \in Flying PROVE Key(t) \in All(Holding)
  <2>0. \A x \in Spots : \A k \in Elems(KeysAt(x)) : k \in All(Holding)
    BY DEF All, Holding
  <2>1. ASSUME NEW s \in Stacks, NEW i \in 1 .. Len(stack_ingress_queues_[s]), t = stack_ingress_queues_[s][i]
        PROVE  Key(t) \in All(Holding)
    <3>1. Key(t) \in Elems(IKeys(stack_ingress_queues_[s]))
      BY <1>1, <1>2, <2>1
    <3> QED BY <2>0, <3>1, SpotIs
  <2>2. ASSUME NEW c \in Controllers, NEW i \in 1 .. Len(controllers_[c].waiting), t = controllers_[c].waiting[i].t
        PROVE  Key(t) \in All(Holding)
    <3>1. Key(t) \in Elems(TKeys(controllers_[c].waiting))
      BY <1>1, <1>3, <2>2
    <3> QED BY <2>0, <3>1, SpotIs
  <2>3. ASSUME NEW c \in Controllers, NEW i \in 1 .. Len(controllers_[c].responses), t = controllers_[c].responses[i].t
        PROVE  Key(t) \in All(Holding)
    <3>1. Key(t) \in Elems(TKeys(controllers_[c].responses))
      BY <1>1, <1>3, <2>3
    <3> QED BY <2>0, <3>1, SpotIs
  <2> QED BY <2>1, <2>2, <2>3 DEF Flying, IsFlying
<1>6. ASSUME NEW k \in All(Holding) PROVE \E t \in Flying : Key(t) = k
  <2>1. PICK x \in Spots : k \in Elems(KeysAt(x))
    BY DEF All, Holding
  <2>2. ASSUME NEW s \in Stacks, x = <<"I", s>> PROVE \E t \in Flying : Key(t) = k
    <3>1. k \in Elems(IKeys(stack_ingress_queues_[s]))
      BY <2>1, <2>2, SpotIs
    <3>2. PICK i \in 1 .. Len(stack_ingress_queues_[s]) : k = Key(stack_ingress_queues_[s][i])
      BY <1>1, <1>2, <3>1
    <3>3. stack_ingress_queues_[s][i] \in Flying
      BY <1>1, <1>2, <3>2 DEF Flying, IsFlying
    <3> QED BY <3>2, <3>3
  <2>3. ASSUME NEW c \in Controllers, x = <<"W", c>> PROVE \E t \in Flying : Key(t) = k
    <3>1. k \in Elems(TKeys(controllers_[c].waiting))
      BY <2>1, <2>3, SpotIs
    <3>2. PICK i \in 1 .. Len(controllers_[c].waiting) : k = Key(controllers_[c].waiting[i].t)
      BY <1>1, <1>3, <3>1
    <3>3. controllers_[c].waiting[i].t \in Flying
      BY <1>1, <1>4, <3>2, SMTT(30) DEF Flying, IsFlying
    <3> QED BY <3>2, <3>3
  <2>4. ASSUME NEW c \in Controllers, x = <<"R", c>> PROVE \E t \in Flying : Key(t) = k
    <3>1. k \in Elems(TKeys(controllers_[c].responses))
      BY <2>1, <2>4, SpotIs
    <3>2. PICK i \in 1 .. Len(controllers_[c].responses) : k = Key(controllers_[c].responses[i].t)
      BY <1>1, <1>3, <3>1
    <3>3. controllers_[c].responses[i].t \in Flying
      BY <1>1, <1>4, <3>2 DEF Flying, IsFlying
    <3> QED BY <3>2, <3>3
  <2> QED BY <2>1, <2>2, <2>3, <2>4, SpotIs
<1> QED BY <1>5, <1>6 DEF FlyingHeld

\* The transactions on their way after a step.
LEMMA FlyingEnqueue ==
  ASSUME TypeInv, NEW t \in Tx, Enqueue(t), UNCHANGED <<cfg, controllers_>>
  PROVE  \A u \in Flying' : u \in Flying \/ u = Numbered(t)
<1> DEFINE s == cfg.route[t.line].stack
           q == stack_ingress_queues_[s]
           p == Append(q, Numbered(t))
<1>1. /\ s \in Stacks /\ Numbered(t) \in Tx
      /\ stack_ingress_queues_' = [stack_ingress_queues_ EXCEPT ![s] = p]
  BY EnqueueFacts
<1>2. stack_ingress_queues_ \in [Stacks -> Seq(Tx)] /\ Stacks' = Stacks /\ Controllers' = Controllers
  BY SameConfig DEF TypeInv
<1>3. q \in Seq(Tx)
  BY <1>1, <1>2
<1>4. \A i \in 1 .. Len(p) : p[i] = Numbered(t) \/ (i \in 1 .. Len(q) /\ p[i] = q[i])
  BY <1>1, <1>3, SMTT(30)
<1> HIDE DEF p
<1>5. /\ stack_ingress_queues_'[s] = p
      /\ \A r \in Stacks : r # s => stack_ingress_queues_'[r] = stack_ingress_queues_[r]
  BY <1>1, <1>2
<1> SUFFICES ASSUME NEW u \in Flying' PROVE u \in Flying \/ u = Numbered(t)
  OBVIOUS
<1>6. u \in Tx /\ IsFlying(u)'
  BY DEF Flying
<1>7. ASSUME NEW r \in Stacks, NEW i \in 1 .. Len(stack_ingress_queues_'[r]), u = stack_ingress_queues_'[r][i]
      PROVE  u \in Flying \/ u = Numbered(t)
  <2>1. CASE r = s
    <3>1. i \in 1 .. Len(p) /\ u = p[i]
      BY <1>5, <1>7, <2>1
    <3>2. u = Numbered(t) \/ (i \in 1 .. Len(q) /\ u = q[i])
      BY <1>4, <3>1
    <3>3. CASE i \in 1 .. Len(stack_ingress_queues_[s]) /\ u = stack_ingress_queues_[s][i]
      BY <1>1, <1>6, <3>3 DEF Flying, IsFlying
    <3> QED BY <3>2, <3>3
  <2>2. CASE r # s
    BY <1>5, <1>6, <1>7, <2>2 DEF Flying, IsFlying
  <2> QED BY <2>1, <2>2
<1>8. ASSUME NEW c \in Controllers, \/ \E i \in 1 .. Len(controllers_[c].waiting) : u = controllers_[c].waiting[i].t
                                    \/ \E i \in 1 .. Len(controllers_[c].responses) : u = controllers_[c].responses[i].t
      PROVE  u \in Flying
  BY <1>6, <1>8 DEF Flying, IsFlying
<1> QED BY <1>2, <1>6, <1>7, <1>8 DEF IsFlying

\* Dispatching brings no transaction on its way.
LEMMA FlyingDispatch ==
  ASSUME TypeInv, ChainInv, NEW s, NEW i, NEW c, DispatchTakes(s, i, c)
  PROVE  Flying' \subseteq Flying
<1> DEFINE q == stack_ingress_queues_[s]
           t == q[i]
           w == [t |-> t, type |-> t.type, data |-> IF t.type = "R" THEN image[Cell(t.line)] ELSE 0]
           p == RemoveAt(q, i)
           v == controllers_[c].waiting
           V == Append(v, w)
<1>1. /\ s \in Stacks /\ q \in Seq(Tx) /\ i \in 1 .. Len(q) /\ c \in Controllers
      /\ controllers_'[c].responses = controllers_[c].responses
      /\ \A d \in Controllers \ {c} : controllers_'[d] = controllers_[d]
      /\ stack_ingress_queues_'[s] = p
      /\ \A r \in Stacks \ {s} : stack_ingress_queues_'[r] = stack_ingress_queues_[r]
  BY DispatchMoves
<1>2. w \in Wait /\ controllers_'[c].waiting = V /\ w.t = t
  BY DispatchFacts
<1>3. controllers_ \in [Controllers -> Ctl] /\ cfg' = cfg
  BY DEF TypeInv, DispatchTakes
<1>4. Stacks' = Stacks /\ Controllers' = Controllers
  BY <1>3, SameConfig
<1>5. v \in Seq(Wait)
  BY <1>1, <1>3 DEF Ctl
<1> HIDE DEF w
<1>6. \A j \in 1 .. Len(V) : V[j].t = t \/ (j \in 1 .. Len(v) /\ V[j] = v[j])
  BY <1>2, <1>5
<1>7. \A j \in 1 .. Len(p) : \E h \in 1 .. Len(q) : p[j] = q[h]
  <2>1. /\ p \in Seq(Tx) /\ Len(p) = Len(q) - 1
        /\ \A j \in 1 .. (Len(q) - 1) : p[j] = IF j < i THEN q[j] ELSE q[j + 1]
    BY <1>1, RemoveAtFacts
  <2> HIDE DEF p, q
  <2>2. ASSUME NEW j \in 1 .. Len(p) PROVE \E h \in 1 .. Len(q) : p[j] = q[h]
    <3>1. j \in 1 .. Len(q) /\ j + 1 \in 1 .. Len(q) /\ (p[j] = q[j] \/ p[j] = q[j + 1])
      BY <1>1, <2>1
    <3> QED BY <3>1
  <2> QED BY <2>2
<1> HIDE DEF p, V
<1> SUFFICES ASSUME NEW u \in Flying' PROVE u \in Flying
  OBVIOUS
<1>8. u \in Tx /\ IsFlying(u)'
  BY DEF Flying
<1>9. ASSUME NEW r \in Stacks, NEW j \in 1 .. Len(stack_ingress_queues_'[r]), u = stack_ingress_queues_'[r][j]
      PROVE  u \in Flying
  <2>1. CASE r = s
    BY <1>1, <1>7, <1>8, <1>9, <2>1 DEF Flying, IsFlying
  <2>2. CASE r # s
    BY <1>1, <1>8, <1>9, <2>2 DEF Flying, IsFlying
  <2> QED BY <2>1, <2>2
<1>10. ASSUME NEW d \in Controllers, NEW j \in 1 .. Len(controllers_'[d].waiting), u = controllers_'[d].waiting[j].t
       PROVE  u \in Flying
  <2>1. CASE d = c
    <3>1. u = t \/ (j \in 1 .. Len(v) /\ u = v[j].t)
      BY <1>2, <1>6, <1>10, <2>1
    <3> QED BY <1>1, <1>8, <3>1 DEF Flying, IsFlying
  <2>2. CASE d # c
    BY <1>1, <1>8, <1>10, <2>2 DEF Flying, IsFlying
  <2> QED BY <2>1, <2>2
<1>11. ASSUME NEW d \in Controllers, NEW j \in 1 .. Len(controllers_'[d].responses), u = controllers_'[d].responses[j].t
       PROVE  u \in Flying
  <2>1. controllers_'[d].responses = controllers_[d].responses
    BY <1>1
  <2> QED BY <1>8, <1>11, <2>1 DEF Flying, IsFlying
<1> QED BY <1>4, <1>8, <1>9, <1>10, <1>11 DEF IsFlying

\* Answering brings no transaction on its way.
LEMMA FlyingAnswer ==
  ASSUME TypeInv, NEW c, NEW i, NEW status, ControllerAnswers(c, i, status)
  PROVE  Flying' \subseteq Flying
<1> DEFINE q == controllers_[c].waiting
           v == controllers_[c].responses
           r == [id |-> q[i].t.id, t |-> q[i].t, data |-> q[i].data, status |-> status]
           p == RemoveAt(q, i)
           V == Append(v, r)
<1>1. /\ c \in Controllers /\ q \in Seq(Wait) /\ i \in 1 .. Len(q) /\ r \in Resp /\ v \in Seq(Resp)
      /\ controllers_'[c].responses = V
      /\ \A d \in Controllers \ {c} : controllers_'[d] = controllers_[d]
  BY AnswerFacts
<1>2. controllers_'[c].waiting = p
  <2>1. /\ controllers_ \in [Controllers -> Ctl]
        /\ controllers_' = [controllers_ EXCEPT ![c] = [waiting |-> p, responses |-> V]]
    BY DEF ControllerAnswers, TypeInv
  <2> HIDE DEF p, V
  <2> QED BY <1>1, <2>1
<1>3. Stacks' = Stacks /\ Controllers' = Controllers /\ stack_ingress_queues_' = stack_ingress_queues_
  BY SameConfig DEF ControllerAnswers
<1>4. r.t = q[i].t
  OBVIOUS
<1>5. \A j \in 1 .. Len(p) : \E h \in 1 .. Len(q) : p[j] = q[h]
  <2>1. /\ p \in Seq(Wait) /\ Len(p) = Len(q) - 1
        /\ \A j \in 1 .. (Len(q) - 1) : p[j] = IF j < i THEN q[j] ELSE q[j + 1]
    BY <1>1, RemoveAtFacts
  <2> HIDE DEF p, q
  <2>2. ASSUME NEW j \in 1 .. Len(p) PROVE \E h \in 1 .. Len(q) : p[j] = q[h]
    <3>1. j \in 1 .. Len(q) /\ j + 1 \in 1 .. Len(q) /\ (p[j] = q[j] \/ p[j] = q[j + 1])
      BY <1>1, <2>1
    <3> QED BY <3>1
  <2> QED BY <2>2
<1> HIDE DEF r, p
<1>6. \A j \in 1 .. Len(V) : V[j].t = q[i].t \/ (j \in 1 .. Len(v) /\ V[j] = v[j])
  BY <1>1, <1>4
<1> HIDE DEF V
<1> SUFFICES ASSUME NEW u \in Flying' PROVE u \in Flying
  OBVIOUS
<1>8. u \in Tx /\ IsFlying(u)'
  BY DEF Flying
<1>9. ASSUME NEW s \in Stacks, NEW j \in 1 .. Len(stack_ingress_queues_[s]), u = stack_ingress_queues_[s][j]
      PROVE  u \in Flying
  BY <1>8, <1>9 DEF Flying, IsFlying
<1>10. ASSUME NEW d \in Controllers, NEW j \in 1 .. Len(controllers_'[d].waiting), u = controllers_'[d].waiting[j].t
       PROVE  u \in Flying
  <2>1. CASE d = c
    <3>1. PICK h \in 1 .. Len(q) : u = q[h].t
      BY <1>2, <1>5, <1>10, <2>1
    <3> QED BY <1>1, <1>8, <3>1 DEF Flying, IsFlying
  <2>2. CASE d # c
    BY <1>1, <1>8, <1>10, <2>2 DEF Flying, IsFlying
  <2> QED BY <2>1, <2>2
<1>11. ASSUME NEW d \in Controllers, NEW j \in 1 .. Len(controllers_'[d].responses), u = controllers_'[d].responses[j].t
       PROVE  u \in Flying
  <2>1. CASE d = c
    <3>1. u = q[i].t \/ (j \in 1 .. Len(v) /\ u = v[j].t)
      BY <1>1, <1>6, <1>11, <2>1
    <3> QED BY <1>1, <1>8, <3>1 DEF Flying, IsFlying
  <2>2. CASE d # c
    BY <1>1, <1>8, <1>11, <2>2 DEF Flying, IsFlying
  <2> QED BY <2>1, <2>2
<1> QED BY <1>3, <1>8, <1>9, <1>10, <1>11 DEF IsFlying

\* A transaction was on its way until it is collected.
LEMMA FlyingCollect ==
  ASSUME TypeInv, NEW c, Collects(c)
  PROVE  Flying' \subseteq Flying /\ Head(controllers_[c].responses).t \in Flying
<1> DEFINE q == controllers_[c].responses
           p == Tail(q)
<1>1. /\ c \in Controllers /\ q \in Seq(Resp) /\ q # <<>> /\ Head(q).t \in Tx
      /\ controllers_'[c].waiting = controllers_[c].waiting
      /\ controllers_'[c].responses = p
      /\ \A d \in Controllers \ {c} : controllers_'[d] = controllers_[d]
  BY CollectFacts
<1>2. /\ Len(p) = Len(q) - 1 /\ Len(q) \in Nat \ {0} /\ Head(q) = q[1]
      /\ \A j \in 1 .. (Len(q) - 1) : p[j] = q[j + 1]
  BY <1>1, HeadTail
<1>3. Stacks' = Stacks /\ Controllers' = Controllers /\ stack_ingress_queues_' = stack_ingress_queues_
  BY SameConfig DEF Collects
<1>4. Head(q).t \in Flying
  <2>1. 1 \in 1 .. Len(q)
    BY <1>2
  <2>2. \E i \in 1 .. Len(controllers_[c].responses) : Head(q).t = controllers_[c].responses[i].t
    BY <1>2, <2>1
  <2> QED BY <1>1, <2>2 DEF Flying, IsFlying
<1>5. \A j \in 1 .. Len(p) : \E h \in 1 .. Len(q) : p[j] = q[h]
  <2> HIDE DEF p, q
  <2> TAKE j \in 1 .. Len(p)
  <2>1. j + 1 \in 1 .. Len(q) /\ p[j] = q[j + 1]
    BY <1>2
  <2> QED BY <2>1
<1> HIDE DEF p
<1>6. ASSUME NEW u \in Flying' PROVE u \in Flying
  <2>1. u \in Tx /\ IsFlying(u)'
    BY DEF Flying
  <2>2. ASSUME NEW s \in Stacks, NEW j \in 1 .. Len(stack_ingress_queues_[s]), u = stack_ingress_queues_[s][j]
        PROVE  u \in Flying
    BY <2>1, <2>2 DEF Flying, IsFlying
  <2>3. ASSUME NEW d \in Controllers, NEW j \in 1 .. Len(controllers_'[d].waiting), u = controllers_'[d].waiting[j].t
        PROVE  u \in Flying
    <3>1. controllers_'[d].waiting = controllers_[d].waiting
      BY <1>1
    <3> QED BY <2>1, <2>3, <3>1 DEF Flying, IsFlying
  <2>4. ASSUME NEW d \in Controllers, NEW j \in 1 .. Len(controllers_'[d].responses), u = controllers_'[d].responses[j].t
        PROVE  u \in Flying
    <3>1. CASE d = c
      <4>1. PICK h \in 1 .. Len(q) : u = q[h].t
        BY <1>1, <1>5, <2>4, <3>1
      <4> QED BY <1>1, <2>1, <4>1 DEF Flying, IsFlying
    <3>2. CASE d # c
      BY <1>1, <2>1, <2>4, <3>2 DEF Flying, IsFlying
    <3> QED BY <3>1, <3>2
  <2> QED BY <1>3, <2>1, <2>2, <2>3, <2>4 DEF IsFlying
<1> QED BY <1>4, <1>6

-----------------------------------------------------------------------------
(* Every step preserves where transactions are.                            *)

\* A transaction that is submitted is nowhere yet.
LEMMA SubmittedFresh ==
  ASSUME TypeInv, TagInv, NEW t, Submitted(t)
  PROVE  Key(t) \notin All(Holding)
<1> SUFFICES ASSUME Key(t) \in All(Holding) PROVE FALSE
  OBVIOUS
<1>1. cfg.user # "batch" /\ ~Refused(t)
  BY DEF Submitted
<1>2. PICK u \in Flying : Key(u) = Key(t)
  BY FlyingKeys DEF FlyingHeld
<1>3. u.id = t.id /\ u.idx = t.idx
  BY <1>2 DEF Key
<1>4. u.id \in DOMAIN host_submissions_ /\ u.idx \in host_submissions_[u.id].accepted
  BY <1>1 DEF TagInv
<1> QED BY <1>1, <1>3, <1>4 DEF Refused

\* The keys that a step leaves behind.
HeldStep ==
    \/ All(Holding') = All(Holding) /\ (Quiet \/ Popped \/ (\E s, i, c : DispatchTakes(s, i, c))
                                        \/ \E c, i, status : ControllerAnswers(c, i, status))
    \/ \E t : Submitted(t) /\ Key(t) \notin All(Holding) /\ All(Holding') = All(Holding) \cup {Key(t)}
    \/ \E c : LET k == Key(Head(controllers_[c].responses).t)
              IN  Collects(c) /\ k \in All(Holding) /\ All(Holding') = All(Holding) \ {k}

\* No transaction gets to two places.
LEMMA PlaceStep ==
  ASSUME TypeInv, ChainInv, PlaceInv, TagInv, Effect, cfg.user # "batch"
  PROVE  PlaceInv' /\ HeldStep
<1>1. CASE Quiet \/ Popped
  <2>1. UNCHANGED <<cfg, stack_ingress_queues_, controllers_>>
    BY <1>1 DEF Quiet, Popped
  <2>2. Holding' = Holding /\ Spots' = Spots /\ \A y \in Spots : KeysAt(y)' = KeysAt(y)
    BY <2>1, QuietSpots DEF SameBut
  <2>3. PlaceInv'
    <3>1. \A y \in Spots' : NoDup(KeysAt(y))'
      BY <2>2 DEF PlaceInv
    <3>2. Apart(Holding')
      BY <2>2 DEF PlaceInv
    <3> QED BY <3>1, <3>2 DEF PlaceInv
  <2> QED BY <1>1, <2>2, <2>3 DEF HeldStep
<1>2. ASSUME NEW t, Submitted(t) PROVE PlaceInv' /\ HeldStep
  <2>1. t \in Tx /\ Enqueue(t) /\ UNCHANGED <<cfg, controllers_>>
    BY <1>2 DEF Submitted
  <2>2. PICK x : Puts(x, Key(t)) /\ SameBut({x})
    BY <2>1, EnqueueSpots
  <2>3. Key(t) \notin All(Holding)
    BY <1>2, SubmittedFresh
  <2>4. All(Holding') = All(Holding) \cup {Key(t)} /\ PlaceInv'
    BY <2>2, <2>3, HoldingPut
  <2> QED BY <1>2, <2>3, <2>4 DEF HeldStep
<1>3. ASSUME NEW t, BatchEnqueued(t) PROVE FALSE
  BY <1>3 DEF BatchEnqueued
<1>4. ASSUME NEW s, NEW i, NEW c, DispatchTakes(s, i, c) PROVE PlaceInv' /\ HeldStep
  <2>1. PICK x, z, k : x # z /\ Cuts(x, k) /\ Puts(z, k) /\ SameBut({x, z})
    BY <1>4, DispatchSpots
  <2>2. All(Holding') = All(Holding) /\ PlaceInv'
    BY <2>1, HoldingMove
  <2> QED BY <1>4, <2>2 DEF HeldStep
<1>5. ASSUME NEW c, NEW i, NEW status, ControllerAnswers(c, i, status) PROVE PlaceInv' /\ HeldStep
  <2>1. PICK x, z, k : x # z /\ Cuts(x, k) /\ Puts(z, k) /\ SameBut({x, z})
    BY <1>5, AnswerSpots
  <2>2. All(Holding') = All(Holding) /\ PlaceInv'
    BY <2>1, HoldingMove
  <2> QED BY <1>5, <2>2 DEF HeldStep
<1>6. ASSUME NEW c, Collects(c) PROVE PlaceInv' /\ HeldStep
  <2> DEFINE k == Key(Head(controllers_[c].responses).t)
  <2>1. PICK x : Cuts(x, k) /\ SameBut({x})
    BY <1>6, CollectSpots
  <2> HIDE DEF k
  <2>2. All(Holding') = All(Holding) \ {k} /\ k \in All(Holding) /\ PlaceInv'
    BY <2>1, HoldingTake
  <2> QED BY <1>6, <2>2 DEF HeldStep, k
<1> QED BY <1>1, <1>2, <1>3, <1>4, <1>5, <1>6 DEF Effect

-----------------------------------------------------------------------------
(* Tags: what is submitted, on its way, collected and joined.              *)

\* Sets of indices.
LEMMA CountFacts ==
  ASSUME NEW n \in Nat, NEW X, X \subseteq 1 .. n
  PROVE  /\ IsFiniteSet(X) /\ Cardinality(X) \in Nat /\ Cardinality(X) <= n
         /\ Cardinality(X) >= n <=> X = 1 .. n
         /\ \A i \in 1 .. n : i \notin X => Cardinality(X \cup {i}) = Cardinality(X) + 1
<1>1. IsFiniteSet(1 .. n) /\ Cardinality(1 .. n) = n
  BY FS_Interval
<1>2. /\ IsFiniteSet(X) /\ Cardinality(X) <= Cardinality(1 .. n)
      /\ Cardinality(X) = Cardinality(1 .. n) => X = 1 .. n
  BY <1>1, FS_Subset
<1>3. Cardinality(X) \in Nat
  BY <1>2, FS_CardinalityType
<1>4. \A i : i \notin X => Cardinality(X \cup {i}) = Cardinality(X) + 1
  BY <1>2, FS_AddElement
<1> QED BY <1>1, <1>2, <1>3, <1>4

\* The registered tags.
LEMMA HostFacts ==
  ASSUME TypeInv, TagInv, NEW id \in DOMAIN host_submissions_
  PROVE  /\ host_submissions_[id] \in Host /\ id \in AnyId
         /\ host_submissions_[id].count \in Nat \ {0} /\ host_submissions_[id].completed \in Nat
         /\ Every(id) = 1 .. host_submissions_[id].count
         /\ Collected(id) \subseteq host_submissions_[id].accepted
         /\ host_submissions_[id].accepted \subseteq Every(id)
         /\ host_submissions_[id].completed = Cardinality(Collected(id))
         /\ host_submissions_[id].completed >= host_submissions_[id].count <=> Collected(id) = Every(id)
<1>1. host_submissions_[id] \in Host /\ id \in AnyId
  BY PFunFacts DEF TypeInv
<1>2. host_submissions_[id].count \in Nat \ {0} /\ host_submissions_[id].completed \in Nat
  BY <1>1 DEF Host
<1>3. Every(id) = 1 .. host_submissions_[id].count /\ Collected(id) \subseteq host_submissions_[id].accepted
  BY DEF Every, Collected
<1>4. /\ host_submissions_[id].accepted \subseteq Every(id)
      /\ host_submissions_[id].completed = Cardinality(Collected(id))
  BY DEF TagInv
<1>5. Collected(id) \subseteq 1 .. host_submissions_[id].count
  BY <1>3, <1>4
<1>6. Cardinality(Collected(id)) >= host_submissions_[id].count <=> Collected(id) = 1 .. host_submissions_[id].count
  BY <1>2, <1>5, CountFacts
<1> QED BY <1>1, <1>2, <1>3, <1>4, <1>6

\* A tag of which a transaction is submitted.
SubmitTag(t) ==
    /\ DOMAIN host_submissions_' = DOMAIN host_submissions_ \cup {t.id}
    /\ \A id \in DOMAIN host_submissions_ :
         /\ host_submissions_'[id].count = host_submissions_[id].count
         /\ host_submissions_'[id].type = host_submissions_[id].type
         /\ host_submissions_'[id].completed = host_submissions_[id].completed
         /\ host_submissions_[id].accepted \subseteq host_submissions_'[id].accepted
         /\ id # t.id => host_submissions_'[id].accepted = host_submissions_[id].accepted
         /\ id = t.id => host_submissions_'[id].accepted = host_submissions_[id].accepted \cup {t.idx}
         /\ Collected(id)' = Collected(id) /\ Every(id)' = Every(id)
    /\ host_submissions_'[t.id].count = t.count /\ host_submissions_'[t.id].type = t.type
    /\ t.idx \in host_submissions_'[t.id].accepted
    /\ t.id \notin DOMAIN host_submissions_ =>
         /\ t.idx = 1 /\ host_submissions_'[t.id].accepted = {1} /\ host_submissions_'[t.id].completed = 0
         /\ Collected(t.id)' = {}

\* What try_submit records of the tag, and that it leaves the others alone.
LEMMA SubmitTagFacts ==
  ASSUME TypeInv, NEW t, Submitted(t), All(Holding') = All(Holding) \cup {Key(t)}
  PROVE  SubmitTag(t)
<1> DEFINE H == host_submissions_
           o == OldHost(t)
           n == NewHost(t)
<1>1. t \in Tx /\ ~Refused(t) /\ RecordSubmitted(t)
  BY DEF Submitted
<1>2. /\ n.count = o.count /\ n.type = o.type /\ n.completed = o.completed
      /\ n.accepted = o.accepted \cup {t.idx} /\ H' = Set(H, t.id, n)
  BY <1>1, RecordFacts
<1>3. /\ DOMAIN H' = DOMAIN H \cup {t.id} /\ H'[t.id] = n
      /\ \A id \in DOMAIN H : id # t.id => H'[id] = H[id]
  <2> HIDE DEF n
  <2> QED BY <1>2 DEF Set
<1>4. \A id, i : <<id, i>> \in All(Holding') <=> <<id, i>> \in All(Holding) \/ (id = t.id /\ i = t.idx)
  BY DEF Key
<1>5. ASSUME NEW id \in DOMAIN H, id # t.id PROVE Collected(id)' = Collected(id) /\ Every(id)' = Every(id)
  BY <1>3, <1>4, <1>5 DEF Collected, Every
<1>6. CASE t.id \in DOMAIN H
  <2>1. o = H[t.id] /\ o.count = t.count /\ o.type = t.type
    BY <1>1, <1>6 DEF OldHost, Refused
  <2>2. Collected(t.id)' = Collected(t.id) /\ Every(t.id)' = Every(t.id)
    <3>1. H'[t.id].count = H[t.id].count /\ H'[t.id].accepted = H[t.id].accepted \cup {t.idx}
      <4> HIDE DEF o, n
      <4> QED BY <1>2, <1>3, <2>1
    <3>2. Every(t.id)' = Every(t.id)
      BY <3>1 DEF Every
    <3>3. Collected(t.id)' = Collected(t.id)
      <4> DEFINE A == H[t.id].accepted
      <4>1. Collected(t.id)' = {i \in A \cup {t.idx} : <<t.id, i>> \notin All(Holding')}
        BY <3>1 DEF Collected
      <4>2. Collected(t.id) = {i \in A : <<t.id, i>> \notin All(Holding)}
        BY DEF Collected
      <4>3. t.idx \notin A
        BY <1>1, <1>6 DEF Refused
      <4> HIDE DEF A
      <4> QED BY <1>4, <4>1, <4>2, <4>3
    <3> QED BY <3>2, <3>3
  <2> HIDE DEF o, n
  <2> QED BY <1>2, <1>3, <1>5, <1>6, <2>1, <2>2 DEF SubmitTag
<1>7. CASE t.id \notin DOMAIN H
  <2>1. o = [count |-> t.count, type |-> t.type, accepted |-> {}, completed |-> 0] /\ t.idx = 1
    BY <1>1, <1>7 DEF OldHost, Refused
  <2>2. /\ n.count = t.count /\ n.type = t.type /\ n.completed = 0 /\ n.accepted = {1}
    BY <1>2, <2>1
  <2>3. Collected(t.id)' = {}
    BY <1>3, <1>4, <2>1, <2>2 DEF Collected
  <2> HIDE DEF o, n
  <2> QED BY <1>3, <1>5, <1>7, <2>1, <2>2, <2>3 DEF SubmitTag
<1> QED BY <1>6, <1>7

\* A tag whose response is taken is free again.
PopTag(id) ==
    /\ id \in DOMAIN host_submissions_ /\ host_submissions_' = Drop(host_submissions_, id)
    /\ DOMAIN host_submissions_' = DOMAIN host_submissions_ \ {id}
    /\ \A x \in DOMAIN host_submissions_' : /\ host_submissions_'[x] = host_submissions_[x]
                                            /\ Collected(x)' = Collected(x) /\ Every(x)' = Every(x)
    /\ \A u \in Flying : u.id # id

\* Where all transactions are collected none is on its way.
LEMMA NoneLeft ==
  ASSUME TypeInv, TagInv, cfg.user # "batch", NEW id \in DOMAIN host_submissions_, Collected(id) = Every(id)
  PROVE  \A u \in Flying : u.id # id
<1> SUFFICES ASSUME NEW u \in Flying, u.id = id PROVE FALSE
  OBVIOUS
<1>1. <<id, u.idx>> \in All(Holding)
  BY FlyingKeys DEF FlyingHeld, Key
<1>2. u.idx \in Collected(id)
  BY DEF TagInv
<1> QED BY <1>1, <1>2 DEF Collected

\* pop_response releases the tag whose response it takes, and no other.
LEMMA PopTagFacts ==
  ASSUME TypeInv, TagInv, AssemblyInv, Popped
  PROVE  PopTag(Head(host_responses_).id)
<1> DEFINE id == Head(host_responses_).id
           H == host_submissions_
<1>1. PopHost /\ cfg.user # "batch" /\ UNCHANGED <<cfg, stack_ingress_queues_, controllers_>>
  BY DEF Popped
<1>2. /\ host_responses_ # <<>> /\ host_responses_ \in Seq(HostRsp) /\ Head(host_responses_) = host_responses_[1]
      /\ H' = IF id \in DOMAIN H /\ H[id].completed >= H[id].count THEN Drop(H, id) ELSE H
  BY <1>1, PopFacts
<1>3. 1 \in 1 .. Len(host_responses_)
  BY <1>2
<1>4. id \in DOMAIN H /\ Collected(id) = Every(id)
  BY <1>2, <1>3 DEF AssemblyInv
<1> HIDE DEF id
<1>5. H[id].completed >= H[id].count
  BY <1>4, HostFacts
<1>6. /\ H' = Drop(H, id) /\ DOMAIN H' = DOMAIN H \ {id}
      /\ \A x \in DOMAIN H' : H'[x] = H[x]
  BY <1>2, <1>4, <1>5 DEF Drop
<1>7. Holding' = Holding
  BY <1>1, QuietSpots
<1>8. \A x \in DOMAIN H' : Collected(x)' = Collected(x) /\ Every(x)' = Every(x)
  BY <1>6, <1>7 DEF Collected, Every
<1>9. \A u \in Flying : u.id # id
  BY <1>1, <1>4, NoneLeft
<1> QED BY <1>4, <1>6, <1>8, <1>9 DEF PopTag, id

\* A tag of which a transaction is collected: the last one, with nobody to
\* answer; or one that is counted.
CollectLast(r) ==
    /\ ~RetainsHost /\ host_submissions_' = Drop(host_submissions_, r.id)
    /\ DOMAIN host_submissions_' = DOMAIN host_submissions_ \ {r.id}
    /\ \A u \in Flying' : u.id # r.id
    /\ \A i \in Every(r.id) : i # r.t.idx => i \in Collected(r.id)

CollectSome(r) ==
    /\ DOMAIN host_submissions_' = DOMAIN host_submissions_
    /\ host_submissions_'[r.id].count = host_submissions_[r.id].count
    /\ host_submissions_'[r.id].type = host_submissions_[r.id].type
    /\ host_submissions_'[r.id].accepted = host_submissions_[r.id].accepted
    /\ host_submissions_'[r.id].completed = Cardinality(Collected(r.id) \cup {r.t.idx})
    /\ Collected(r.id)' = Collected(r.id) \cup {r.t.idx} /\ Every(r.id)' = Every(r.id)
    /\ ~RetainsHost => Collected(r.id) \cup {r.t.idx} # Every(r.id)

CollectTag(r) ==
    /\ r.id \in DOMAIN host_submissions_ /\ r.t.count = host_submissions_[r.id].count
    /\ r.t.idx \in host_submissions_[r.id].accepted /\ r.t.idx \notin Collected(r.id)
    /\ \A x \in DOMAIN host_submissions_ : x # r.id =>
         /\ host_submissions_'[x] = host_submissions_[x] /\ Collected(x)' = Collected(x) /\ Every(x)' = Every(x)
    /\ CollectLast(r) \/ CollectSome(r)

\* record_completed_transaction counts the transaction that is collected.
LEMMA CollectTagFacts ==
  ASSUME TypeInv, TypeInv', TagInv, cfg.user # "batch", NEW c, Collects(c), NEW r, r = Head(controllers_[c].responses),
         Key(r.t) \in All(Holding), All(Holding') = All(Holding) \ {Key(r.t)}
  PROVE  CollectTag(r)
<1> DEFINE H == host_submissions_
           C == Collected(r.id)
           k == r.t.idx
<1>1. r.t \in Flying /\ Flying' \subseteq Flying /\ r.id = r.t.id
  BY FlyingCollect, CollectFacts
<1>2. r.id \in DOMAIN H /\ k \in H[r.id].accepted /\ r.t.count = H[r.id].count
  BY <1>1 DEF TagInv
<1>3. k \notin C
  BY <1>1 DEF Collected, Key
<1>4. \A id, i : <<id, i>> \in All(Holding') <=> <<id, i>> \in All(Holding) /\ ~(id = r.id /\ i = k)
  BY <1>1 DEF Key
<1>5. /\ H[r.id].count \in Nat \ {0} /\ H[r.id].completed \in Nat /\ Every(r.id) = 1 .. H[r.id].count
      /\ C \subseteq H[r.id].accepted /\ H[r.id].accepted \subseteq Every(r.id)
      /\ H[r.id].completed = Cardinality(C) /\ H[r.id] \in Host
  BY <1>2, HostFacts
<1>6. C \subseteq 1 .. H[r.id].count /\ k \in 1 .. H[r.id].count
  BY <1>2, <1>5
<1>7. Cardinality(C \cup {k}) = H[r.id].completed + 1
  <2>1. H[r.id].count \in Nat /\ H[r.id].completed = Cardinality(C)
    BY <1>5
  <2> HIDE DEF C, k
  <2>2. \A i \in 1 .. H[r.id].count : i \notin C => Cardinality(C \cup {i}) = Cardinality(C) + 1
    BY <1>6, <2>1, CountFacts
  <2> QED BY <1>3, <1>6, <2>1, <2>2
<1>8. H[r.id].completed + 1 >= H[r.id].count <=> C \cup {k} = Every(r.id)
  <2>1. C \cup {k} \subseteq 1 .. H[r.id].count
    BY <1>6
  <2>2. Cardinality(C \cup {k}) >= H[r.id].count <=> C \cup {k} = 1 .. H[r.id].count
    <3> HIDE DEF C, k
    <3> QED BY <1>5, <2>1, CountFacts
  <2> QED BY <1>5, <1>7, <2>2
<1>9. H' = RecordCompleted(r)
  BY CollectCases
<1>10. CASE H[r.id].completed + 1 >= H[r.id].count /\ ~RetainsHost
  <2>1. H' = Drop(H, r.id)
    BY <1>2, <1>9, <1>10 DEF RecordCompleted
  <2>2. DOMAIN H' = DOMAIN H \ {r.id} /\ \A x \in DOMAIN H : x # r.id => H'[x] = H[x]
    BY <2>1 DEF Drop
  <2>3. \A x \in DOMAIN H : x # r.id => Collected(x)' = Collected(x) /\ Every(x)' = Every(x)
    BY <1>4, <2>2 DEF Collected, Every
  <2>4. ASSUME NEW u \in Flying', u.id = r.id PROVE FALSE
    <3>1. FlyingHeld'
      BY FlyingKeys, PTL
    <3>2. Key(u) \in All(Holding')
      BY <3>1 DEF FlyingHeld
    <3>3. u.idx \in H[r.id].accepted
      BY <1>1, <2>4 DEF TagInv
    <3>4. u.idx \in C \cup {k}
      BY <1>5, <1>8, <1>10, <3>3
    <3> QED BY <1>4, <2>4, <3>2, <3>4 DEF Key, Collected
  <2>5. CollectLast(r)
    BY <1>8, <1>10, <2>1, <2>2, <2>4 DEF CollectLast
  <2> QED BY <1>2, <1>3, <2>2, <2>3, <2>5 DEF CollectTag
<1>11. CASE ~(H[r.id].completed + 1 >= H[r.id].count /\ ~RetainsHost)
  <2> DEFINE h == [H[r.id] EXCEPT !.completed = @ + 1]
  <2>1. H' = [H EXCEPT ![r.id] = h]
    BY <1>2, <1>9, <1>11 DEF RecordCompleted
  <2>2. /\ h.count = H[r.id].count /\ h.type = H[r.id].type /\ h.accepted = H[r.id].accepted
        /\ h.completed = H[r.id].completed + 1
    BY <1>5 DEF Host
  <2> HIDE DEF h
  <2>3. DOMAIN H' = DOMAIN H /\ H'[r.id] = h /\ \A x \in DOMAIN H : x # r.id => H'[x] = H[x]
    BY <1>2, <2>1
  <2>4. \A x \in DOMAIN H : x # r.id => Collected(x)' = Collected(x) /\ Every(x)' = Every(x)
    BY <1>4, <2>3 DEF Collected, Every
  <2>5. Every(r.id)' = Every(r.id)
    BY <2>2, <2>3 DEF Every
  <2>6. Collected(r.id)' = C \cup {k}
    <3> DEFINE A == H[r.id].accepted
    <3>1. Collected(r.id)' = {i \in A : <<r.id, i>> \notin All(Holding')}
      BY <2>2, <2>3 DEF Collected
    <3>2. C = {i \in A : <<r.id, i>> \notin All(Holding)}
      BY DEF Collected
    <3> HIDE DEF A, C
    <3> QED BY <1>2, <1>4, <3>1, <3>2, ZenonT(40) DEF A
  <2>7. CollectSome(r)
    BY <1>7, <1>8, <1>11, <2>2, <2>3, <2>5, <2>6 DEF CollectSome
  <2> QED BY <1>2, <1>3, <2>3, <2>4, <2>7 DEF CollectTag
<1> QED BY <1>10, <1>11

\* Every step keeps the books of the tags.
LEMMA TagStep ==
  ASSUME TypeInv, TypeInv', UserInv, UserInv', ChainInv, PlaceInv, TagInv, AssemblyInv, Effect
  PROVE  TagInv'
<1> DEFINE H == host_submissions_
           FlyOk == \A t \in Flying' : t.id \in DOMAIN H' /\ t.idx \in H'[t.id].accepted /\ t.count = H'[t.id].count
           HostOk == \A id \in DOMAIN H' : /\ H'[id].accepted \subseteq Every(id)' /\ 1 \in H'[id].accepted
                                           /\ H'[id].completed = Cardinality(Collected(id)')
           ModeOk == response_delivery_mode_' = "Disabled" => H' = Empty
<1>0. cfg' = cfg
  BY DEF Effect, Quiet, Popped, Submitted, BatchEnqueued, DispatchTakes, ControllerAnswers, Collects
<1>1. CASE cfg.user = "batch"
  <2>1. host_submissions_' = Empty
    BY <1>0, <1>1 DEF UserInv
  <2> QED BY <1>0, <1>1, <2>1, EmptyFacts DEF TagInv
<1>2. ASSUME cfg.user # "batch", Flying' \subseteq Flying, H' = H, All(Holding') = All(Holding),
             response_delivery_mode_' = "Disabled" => response_delivery_mode_ = "Disabled"
      PROVE  FlyOk /\ HostOk /\ ModeOk
  <2>1. \A id \in DOMAIN H : Collected(id)' = Collected(id) /\ Every(id)' = Every(id)
    BY <1>2 DEF Collected, Every
  <2> QED BY <1>2, <2>1 DEF TagInv
<1>3. ASSUME cfg.user # "batch", Quiet, All(Holding') = All(Holding) PROVE FlyOk /\ HostOk /\ ModeOk
  <2>1. Flying' = Flying
    BY <1>3, QuietSpots DEF Quiet
  <2>2. H' = H /\ (response_delivery_mode_' = "Disabled" => response_delivery_mode_ = "Disabled")
    BY <1>3 DEF Quiet, ModeStep
  <2> QED BY <1>2, <1>3, <2>1, <2>2
<1>4. ASSUME cfg.user # "batch", Popped PROVE FlyOk /\ HostOk /\ ModeOk
  <2> DEFINE id == Head(host_responses_).id
  <2>1. PopTag(id)
    BY <1>4, PopTagFacts
  <2> HIDE DEF id
  <2>2. Flying' = Flying /\ response_delivery_mode_' = response_delivery_mode_
    BY <1>4, QuietSpots DEF Popped
  <2>3. FlyOk /\ HostOk
    BY <1>4, <2>1, <2>2 DEF PopTag, TagInv
  <2>4. ModeOk
    BY <2>1, <2>2, EmptyFacts DEF PopTag, TagInv
  <2> QED BY <2>3, <2>4
<1>5. ASSUME NEW t, Submitted(t), cfg.user # "batch", All(Holding') = All(Holding) \cup {Key(t)}
      PROVE  FlyOk /\ HostOk /\ ModeOk
  <2>1. SubmitTag(t)
    BY <1>5, SubmitTagFacts
  <2>2. /\ t \in Tx /\ t.idx \in 1 .. t.count /\ Enqueue(t) /\ UNCHANGED <<cfg, controllers_>>
        /\ response_delivery_mode_' # "Disabled"
    BY <1>5 DEF Submitted
  <2>3. \A u \in Flying' : u \in Flying \/ u = Numbered(t)
    BY <2>2, FlyingEnqueue
  <2>4. Numbered(t).id = t.id /\ Numbered(t).idx = t.idx /\ Numbered(t).count = t.count
    BY <2>2 DEF Numbered, Tx
  <2>5. FlyOk
    <3> SUFFICES ASSUME NEW u \in Flying'
                 PROVE  u.id \in DOMAIN H' /\ u.idx \in H'[u.id].accepted /\ u.count = H'[u.id].count
      OBVIOUS
    <3>1. CASE u \in Flying
      BY <1>5, <2>1, <3>1 DEF TagInv, SubmitTag
    <3>2. CASE u = Numbered(t)
      BY <2>1, <2>4, <3>2 DEF SubmitTag
    <3> QED BY <2>3, <3>1, <3>2
  <2>6. HostOk
    <3> SUFFICES ASSUME NEW id \in DOMAIN H'
                 PROVE  /\ H'[id].accepted \subseteq Every(id)' /\ 1 \in H'[id].accepted
                        /\ H'[id].completed = Cardinality(Collected(id)')
      OBVIOUS
    <3>1. Every(t.id)' = 1 .. t.count
      BY <2>1 DEF SubmitTag, Every
    <3>2. CASE id \in DOMAIN H
      <4>1. /\ H[id].accepted \subseteq Every(id) /\ 1 \in H[id].accepted
            /\ H[id].completed = Cardinality(Collected(id))
        BY <3>2 DEF TagInv
      <4>2. CASE id # t.id
        BY <2>1, <3>2, <4>1, <4>2 DEF SubmitTag
      <4>3. CASE id = t.id
        <5>1. /\ H'[id].accepted = H[id].accepted \cup {t.idx} /\ Every(id)' = Every(id)
              /\ Collected(id)' = Collected(id) /\ H'[id].completed = H[id].completed
          BY <2>1, <3>2, <4>3 DEF SubmitTag
        <5>2. t.idx \in Every(id)'
          BY <2>2, <3>1, <4>3
        <5> QED BY <4>1, <5>1, <5>2
      <4> QED BY <4>2, <4>3
    <3>3. CASE id \notin DOMAIN H
      <4>1. id = t.id
        BY <2>1, <3>3 DEF SubmitTag
      <4>2. H'[id].accepted = {1} /\ t.idx = 1 /\ H'[id].completed = 0 /\ Collected(id)' = {}
        BY <2>1, <3>3, <4>1 DEF SubmitTag
      <4> QED BY <2>2, <3>1, <4>1, <4>2, FS_EmptySet
    <3> QED BY <3>2, <3>3
  <2> QED BY <2>2, <2>5, <2>6
<1>6. ASSUME NEW c, Collects(c), cfg.user # "batch", NEW r, r = Head(controllers_[c].responses),
             Key(r.t) \in All(Holding), All(Holding') = All(Holding) \ {Key(r.t)}
      PROVE  FlyOk /\ HostOk /\ ModeOk
  <2>1. CollectTag(r)
    BY <1>6, CollectTagFacts
  <2>2. Flying' \subseteq Flying
    BY <1>6, FlyingCollect
  <2>3. response_delivery_mode_' = response_delivery_mode_
    BY <1>6 DEF Collects
  <2>4. ModeOk
    BY <2>1, <2>3, EmptyFacts DEF CollectTag, TagInv
  <2>5. CASE CollectLast(r)
    <3>1. FlyOk
      BY <1>6, <2>1, <2>2, <2>5, ZenonT(40) DEF CollectTag, CollectLast, TagInv
    <3>2. HostOk
      <4> SUFFICES ASSUME NEW id \in DOMAIN H'
                   PROVE  /\ H'[id].accepted \subseteq Every(id)' /\ 1 \in H'[id].accepted
                          /\ H'[id].completed = Cardinality(Collected(id)')
        OBVIOUS
      <4>1. id \in DOMAIN H /\ id # r.id
        BY <2>5 DEF CollectLast
      <4>2. H'[id] = H[id] /\ Collected(id)' = Collected(id) /\ Every(id)' = Every(id)
        BY <2>1, <4>1 DEF CollectTag
      <4>3. /\ H[id].accepted \subseteq Every(id) /\ 1 \in H[id].accepted
            /\ H[id].completed = Cardinality(Collected(id))
        BY <4>1 DEF TagInv
      <4> QED BY <4>2, <4>3
    <3> QED BY <2>4, <3>1, <3>2
  <2>6. CASE CollectSome(r)
    <3>1. FlyOk
      <4> SUFFICES ASSUME NEW u \in Flying'
                   PROVE  u.id \in DOMAIN H' /\ u.idx \in H'[u.id].accepted /\ u.count = H'[u.id].count
        OBVIOUS
      <4>1. u.id \in DOMAIN H /\ u.idx \in H[u.id].accepted /\ u.count = H[u.id].count
        BY <1>6, <2>2 DEF TagInv
      <4>2. CASE u.id = r.id
        BY <2>6, <4>1, <4>2 DEF CollectSome
      <4>3. CASE u.id # r.id
        BY <2>1, <2>6, <4>1, <4>3 DEF CollectSome, CollectTag
      <4> QED BY <4>2, <4>3
    <3>2. HostOk
      <4> SUFFICES ASSUME NEW id \in DOMAIN H'
                   PROVE  /\ H'[id].accepted \subseteq Every(id)' /\ 1 \in H'[id].accepted
                          /\ H'[id].completed = Cardinality(Collected(id)')
        OBVIOUS
      <4>1. /\ id \in DOMAIN H /\ H[id].accepted \subseteq Every(id) /\ 1 \in H[id].accepted
            /\ H[id].completed = Cardinality(Collected(id))
        BY <2>6 DEF TagInv, CollectSome
      <4>2. CASE id = r.id
        BY <2>6, <4>1, <4>2 DEF CollectSome
      <4>3. CASE id # r.id
        BY <2>1, <4>1, <4>3 DEF CollectTag
      <4> QED BY <4>2, <4>3
    <3> QED BY <2>4, <3>1, <3>2
  <2> QED BY <2>1, <2>5, <2>6 DEF CollectTag
<1>7. ASSUME NEW s, NEW i, NEW c, DispatchTakes(s, i, c), cfg.user # "batch", All(Holding') = All(Holding)
      PROVE  FlyOk /\ HostOk /\ ModeOk
  <2>1. Flying' \subseteq Flying
    BY <1>7, FlyingDispatch
  <2>2. H' = H /\ response_delivery_mode_' = response_delivery_mode_
    BY <1>7 DEF DispatchTakes
  <2> QED BY <1>2, <1>7, <2>1, <2>2
<1>8. ASSUME NEW c, NEW i, NEW status, ControllerAnswers(c, i, status), cfg.user # "batch",
             All(Holding') = All(Holding)
      PROVE  FlyOk /\ HostOk /\ ModeOk
  <2>1. Flying' \subseteq Flying
    BY <1>8, FlyingAnswer
  <2>2. H' = H /\ response_delivery_mode_' = response_delivery_mode_
    BY <1>8 DEF ControllerAnswers
  <2> QED BY <1>2, <1>8, <2>1, <2>2
<1>9. CASE cfg.user # "batch"
  <2>1. HeldStep
    BY <1>9, PlaceStep
  <2>2. FlyOk /\ HostOk /\ ModeOk
    BY <1>3, <1>4, <1>5, <1>6, <1>7, <1>8, <1>9, <2>1 DEF HeldStep
  <2> QED BY <2>2 DEF TagInv
<1> QED BY <1>1, <1>9

\* The parts that are joined so far are those that were collected.
LEMMA OldPartsFacts ==
  ASSUME TypeInv, TagInv, AssemblyInv, RetainsHost, NEW r,
         r.id \in DOMAIN host_submissions_, r.t.idx \in Every(r.id), r.t.idx \notin Collected(r.id)
  PROVE  /\ DOMAIN OldParts(r) = Collected(r.id) /\ Joins(r.id, OldParts(r))
         /\ \A n \in 1 .. Len(host_responses_) : host_responses_[n].id # r.id
<1>1. \A n \in 1 .. Len(host_responses_) : host_responses_[n].id # r.id
  BY DEF AssemblyInv
<1>2. CASE r.id \in DOMAIN host_assemblies_
  BY <1>1, <1>2 DEF AssemblyInv, OldParts
<1>3. CASE r.id \notin DOMAIN host_assemblies_
  <2>1. Collected(r.id) = {}
    BY <1>1, <1>3 DEF AssemblyInv
  <2>2. OldParts(r) = Empty
    BY <1>3 DEF OldParts
  <2> QED BY <1>1, <2>1, <2>2, EmptyFacts DEF Joins
<1> QED BY <1>2, <1>3

\* Joining never fails.
LEMMA CollectsSafely ==
  ASSUME TypeInv, TagInv, AssemblyInv, NEW c, Collects(c), NEW r, r = Head(controllers_[c].responses), CollectTag(r)
  PROVE  fatal' = fatal
<1>1. CASE ~RetainsHost
  BY <1>1, CollectCases
<1>2. CASE RetainsHost
  <2>1. fatal' = (r.t.idx \in DOMAIN OldParts(r) \/ (DOMAIN JoinedParts(r) = 1 .. r.t.count /\ HostFull))
    BY <1>2, CollectCases
  <2>2. ~HostFull
    BY <1>2, CollectCases DEF Blocked, RetainsHost
  <2>3. r.t.idx \notin DOMAIN OldParts(r)
    <3>1. r.id \in DOMAIN host_submissions_ /\ r.t.idx \in Every(r.id) /\ r.t.idx \notin Collected(r.id)
      BY DEF CollectTag, TagInv
    <3> QED BY <1>2, <3>1, OldPartsFacts
  <2>4. ~fatal /\ fatal \in BOOLEAN
    BY DEF Collects, TypeInv
  <2> QED BY <2>1, <2>2, <2>3, <2>4
<1> QED BY <1>1, <1>2

\* Joined parts stay those of their tag.
LEMMA JoinsKept ==
  ASSUME NEW id, NEW parts, Joins(id, parts), host_submissions_'[id].count = host_submissions_[id].count
  PROVE  Joins(id, parts)'
BY DEF Joins

\* Steps that join nothing and take nothing.
LEMMA AssemblyKept ==
  ASSUME TypeInv, TagInv, AssemblyInv, NEW X, UNCHANGED <<host_assemblies_, host_responses_>>, ModeStep,
         DOMAIN host_submissions_' = DOMAIN host_submissions_ \cup X,
         \A id \in DOMAIN host_submissions_ :
            /\ host_submissions_'[id].count = host_submissions_[id].count
            /\ Collected(id)' = Collected(id) /\ Every(id)' = Every(id),
         \A id \in X : id \notin DOMAIN host_submissions_ => Collected(id)' = {} /\ 1 \in Every(id)'
  PROVE  AssemblyInv'
<1> DEFINE H == host_submissions_
           A == host_assemblies_
           R == host_responses_
<1>1. RetainsHost => RetainsHost'
  BY DEF ModeStep, RetainsHost
<1>2. ~RetainsHost' => /\ A' = Empty /\ R' = <<>>
                       /\ \A id \in DOMAIN H' : Collected(id)' # Every(id)'
  BY <1>1 DEF AssemblyInv
<1>3. ASSUME NEW id \in DOMAIN A'
      PROVE  /\ id \in DOMAIN H' /\ Joins(id, A[id])' /\ DOMAIN A'[id] = Collected(id)' /\ Collected(id)' # Every(id)'
  <2>1. id \in DOMAIN H /\ Joins(id, A[id]) /\ DOMAIN A[id] = Collected(id) /\ Collected(id) # Every(id)
    BY DEF AssemblyInv
  <2>2. Joins(id, A[id])'
    BY <2>1 DEF Joins
  <2> QED BY <2>1, <2>2
<1>4. ASSUME NEW n \in 1 .. Len(R')
      PROVE  /\ R'[n].id \in DOMAIN H' /\ R'[n].id \notin DOMAIN A' /\ Joins(R[n].id, R[n].parts)'
             /\ DOMAIN R'[n].parts = Every(R[n].id)' /\ Collected(R[n].id)' = Every(R[n].id)'
  <2> DEFINE id == R[n].id
  <2>1. /\ id \in DOMAIN H /\ id \notin DOMAIN A /\ Joins(id, R[n].parts)
        /\ DOMAIN R[n].parts = Every(id) /\ Collected(id) = Every(id)
    BY DEF AssemblyInv
  <2>2. Joins(id, R[n].parts)'
    BY <2>1 DEF Joins
  <2> QED BY <2>1, <2>2
<1>5. ASSUME RetainsHost', NEW id \in DOMAIN H', id \notin DOMAIN A', \A n \in 1 .. Len(R') : R'[n].id # id
      PROVE  Collected(id)' = {}
  <2>1. CASE id \notin DOMAIN H
    BY <2>1
  <2>2. CASE id \in DOMAIN H
    <3>1. RetainsHost
      <4>1. response_delivery_mode_ # "Disabled"
        BY <2>2, EmptyFacts DEF TagInv
      <4> QED BY <1>5, <4>1 DEF ModeStep, RetainsHost
    <3>2. Collected(id) = {}
      BY <1>5, <2>2, <3>1 DEF AssemblyInv
    <3> QED BY <2>2, <3>2
  <2> QED BY <2>1, <2>2
<1>6. \A n, j \in 1 .. Len(R') : n # j => R'[n].id # R'[j].id
  BY DEF AssemblyInv
<1> QED BY <1>2, <1>3, <1>4, <1>5, <1>6 DEF AssemblyInv

\* A host response is taken.
LEMMA AssemblyPopped ==
  ASSUME TypeInv, TagInv, AssemblyInv, Popped
  PROVE  AssemblyInv'
<1> DEFINE H == host_submissions_
           A == host_assemblies_
           R == host_responses_
           x == R[1].id
<1>1. A' = A /\ RetainsHost' = RetainsHost
  BY DEF Popped, RetainsHost
<1>2. R \in Seq(HostRsp) /\ R # <<>> /\ R' = Tail(R) /\ Head(R) = R[1]
  BY PopFacts DEF Popped
<1>3. /\ Len(R) \in Nat \ {0} /\ Len(R') = Len(R) - 1 /\ 1 \in 1 .. Len(R)
      /\ \A n \in 1 .. Len(R') : n + 1 \in 1 .. Len(R) /\ n + 1 # 1 /\ R'[n] = R[n + 1]
      /\ \A n \in 1 .. Len(R) : n # 1 => n - 1 \in 1 .. Len(R') /\ (n - 1) + 1 = n
  BY <1>2, HeadTail
<1>4. PopTag(x)
  BY <1>2, PopTagFacts
<1>5. /\ DOMAIN H' = DOMAIN H \ {x}
      /\ \A y \in DOMAIN H : y # x => /\ H'[y] = H[y] /\ Collected(y)' = Collected(y) /\ Every(y)' = Every(y)
  BY <1>4 DEF PopTag
<1>6. x \notin DOMAIN A /\ \A n \in 1 .. Len(R) : n # 1 => R[n].id # x
  BY <1>3 DEF AssemblyInv
<1> HIDE DEF x
<1>7. RetainsHost
  BY <1>2 DEF AssemblyInv
<1>8. ASSUME NEW id \in DOMAIN A'
      PROVE  /\ id \in DOMAIN H' /\ Joins(id, A[id])' /\ DOMAIN A'[id] = Collected(id)' /\ Collected(id)' # Every(id)'
  <2>1. id \in DOMAIN H /\ Joins(id, A[id]) /\ DOMAIN A[id] = Collected(id) /\ Collected(id) # Every(id) /\ id # x
    BY <1>1, <1>6 DEF AssemblyInv
  <2>2. Joins(id, A[id])'
    BY <1>1, <1>5, <2>1 DEF Joins
  <2> QED BY <1>1, <1>5, <2>1, <2>2
<1>9. ASSUME NEW n \in 1 .. Len(R')
      PROVE  /\ R'[n].id \in DOMAIN H' /\ R'[n].id \notin DOMAIN A' /\ Joins(R[n].id, R[n].parts)'
             /\ DOMAIN R'[n].parts = Every(R[n].id)' /\ Collected(R[n].id)' = Every(R[n].id)'
  <2> DEFINE q == R[n + 1]
  <2>1. n + 1 \in 1 .. Len(R) /\ n + 1 # 1 /\ R'[n] = q
    BY <1>3
  <2>2. /\ q.id \in DOMAIN H /\ q.id \notin DOMAIN A /\ Joins(q.id, q.parts)
        /\ DOMAIN q.parts = Every(q.id) /\ Collected(q.id) = Every(q.id) /\ q.id # x
    BY <1>6, <2>1 DEF AssemblyInv
  <2> HIDE DEF q
  <2>3. /\ q.id \in DOMAIN H' /\ q.id \notin DOMAIN A'
        /\ \A k \in DOMAIN q.parts : q.parts[k].t.id = q.id /\ q.parts[k].t.idx = k /\ q.parts[k].t.count = H'[q.id].count
    BY <1>1, <1>5, <2>2 DEF Joins
  <2>4. Joins(R[n].id, R[n].parts)'
    BY <2>1, <2>3 DEF Joins
  <2>5. DOMAIN q.parts = 1 .. H'[q.id].count
    BY <1>5, <2>2 DEF Every
  <2>6. /\ \A i \in H'[q.id].accepted : i \in 1 .. H'[q.id].count /\ <<q.id, i>> \notin All(Holding')
        /\ \A i \in 1 .. H'[q.id].count : i \in H'[q.id].accepted
    <3>1. Holding' = Holding
      BY QuietSpots DEF Popped
    <3>2. H'[q.id] = H[q.id] /\ H[q.id].accepted \subseteq Every(q.id)
      BY <1>5, <2>2 DEF TagInv
    <3> QED BY <2>2, <3>1, <3>2 DEF Collected, Every
  <2>7. Every(R[n].id)' = 1 .. H'[q.id].count
    BY <2>1 DEF Every
  <2>8. Collected(R[n].id)' = {i \in H'[q.id].accepted : <<q.id, i>> \notin All(Holding')}
    BY <2>1 DEF Collected
  <2>9. Collected(R[n].id)' = 1 .. H'[q.id].count
    BY <2>6, <2>8
  <2> QED BY <2>1, <2>3, <2>4, <2>5, <2>7, <2>9
<1>10. ASSUME NEW n \in 1 .. Len(R'), NEW j \in 1 .. Len(R'), n # j PROVE R'[n].id # R'[j].id
  <2>1. n + 1 \in 1 .. Len(R) /\ j + 1 \in 1 .. Len(R) /\ n + 1 # j + 1 /\ R'[n] = R[n + 1] /\ R'[j] = R[j + 1]
    BY <1>3, <1>10
  <2> QED BY <2>1 DEF AssemblyInv
<1>11. ASSUME NEW id \in DOMAIN H', id \notin DOMAIN A', \A n \in 1 .. Len(R') : R'[n].id # id
       PROVE  Collected(id)' = {}
  <2>1. id \in DOMAIN H /\ id # x /\ id \notin DOMAIN A
    BY <1>1, <1>5, <1>11
  <2>2. ASSUME NEW n \in 1 .. Len(R), R[n].id = id PROVE FALSE
    <3>1. n # 1
      BY <2>1, <2>2 DEF x
    <3>2. n - 1 \in 1 .. Len(R') /\ R'[n - 1] = R[n]
      BY <1>3, <3>1
    <3> QED BY <1>11, <2>2, <3>2
  <2>3. Collected(id) = {}
    BY <1>7, <2>1, <2>2 DEF AssemblyInv
  <2> QED BY <1>5, <2>1, <2>3
<1> QED BY <1>1, <1>7, <1>8, <1>9, <1>10, <1>11 DEF AssemblyInv

\* A response is collected.
LEMMA AssemblyCollects ==
  ASSUME TypeInv, TagInv, AssemblyInv, NEW c, Collects(c), NEW r, r = Head(controllers_[c].responses),
         r.t.id = r.id, CollectTag(r)
  PROVE  AssemblyInv'
<1> DEFINE H == host_submissions_
           A == host_assemblies_
           R == host_responses_
           x == r.id
           P == JoinedParts(r)
<1>0. RetainsHost' = RetainsHost
  BY DEF Collects, RetainsHost
<1>1. /\ x \in DOMAIN H /\ r.t.count = H[x].count
      /\ r.t.idx \in H[x].accepted /\ r.t.idx \notin Collected(x)
      /\ \A y \in DOMAIN H : y # x => H'[y] = H[y] /\ Collected(y)' = Collected(y) /\ Every(y)' = Every(y)
      /\ CollectLast(r) \/ CollectSome(r)
  BY DEF CollectTag
<1>2. CASE ~RetainsHost
  <2>1. A' = A /\ R' = R
    BY <1>2, CollectCases
  <2>2. A = Empty /\ R = <<>> /\ \A id \in DOMAIN H : Collected(id) # Every(id)
    BY <1>2 DEF AssemblyInv
  <2>3. \A id \in DOMAIN H' : Collected(id)' # Every(id)'
    <3>1. CASE CollectLast(r)
      BY <1>1, <2>2, <3>1, ZenonT(40) DEF CollectLast
    <3>2. CASE CollectSome(r)
      <4>1. Collected(x)' # Every(x)' /\ DOMAIN H' = DOMAIN H
        BY <1>2, <3>2 DEF CollectSome
      <4>2. \A id \in DOMAIN H : id # x => Collected(id)' # Every(id)'
        BY <1>1, <2>2
      <4> QED BY <4>1, <4>2
    <3> QED BY <1>1, <3>1, <3>2
  <2> QED BY <1>0, <1>2, <2>1, <2>2, <2>3, EmptyFacts DEF AssemblyInv
<1>3. CASE RetainsHost
  <2>1. CollectSome(r)
    BY <1>1, <1>3 DEF CollectLast
  <2>2. /\ DOMAIN H' = DOMAIN H /\ H'[x].count = H[x].count
        /\ Collected(x)' = Collected(x) \cup {r.t.idx} /\ Every(x)' = Every(x)
    BY <2>1 DEF CollectSome
  <2>3. Every(x) = 1 .. r.t.count /\ r.t.idx \in Every(x)
    BY <1>1 DEF Every, TagInv
  <2>4. /\ DOMAIN OldParts(r) = Collected(x) /\ Joins(x, OldParts(r))
        /\ \A n \in 1 .. Len(R) : R[n].id # x
    BY <1>1, <1>3, <2>3, OldPartsFacts
  <2>5. /\ DOMAIN P = DOMAIN OldParts(r) \cup {r.t.idx} /\ P[r.t.idx] = r
        /\ \A k \in DOMAIN OldParts(r) : k # r.t.idx => P[k] = OldParts(r)[k]
    BY CollectFacts
  <2>6. /\ R \in Seq(HostRsp)
        /\ \/ /\ DOMAIN P = 1 .. r.t.count
              /\ R' = Append(R, HostResponse(x, P)) /\ A' = Drop(A, x)
           \/ /\ DOMAIN P # 1 .. r.t.count
              /\ A' = Set(A, x, P) /\ R' = R
    BY <1>3, CollectCases DEF TypeInv
  <2> HIDE DEF P, x
  <2>7. DOMAIN P = Collected(x)'
    BY <2>2, <2>4, <2>5
  <2>8. \A k \in DOMAIN P : P[k].t.id = x /\ P[k].t.idx = k /\ P[k].t.count = H'[x].count
    <3> SUFFICES ASSUME NEW k \in DOMAIN P PROVE P[k].t.id = x /\ P[k].t.idx = k /\ P[k].t.count = H'[x].count
      OBVIOUS
    <3>1. CASE k = r.t.idx
      BY <1>1, <2>2, <2>5, <3>1 DEF x
    <3>2. CASE k # r.t.idx
      <4>1. k \in DOMAIN OldParts(r) /\ P[k] = OldParts(r)[k]
        BY <2>5, <3>2
      <4> QED BY <2>2, <2>4, <4>1 DEF Joins
    <3> QED BY <3>1, <3>2
  <2>9. ASSUME NEW id \in DOMAIN A, id # x
        PROVE  /\ id \in DOMAIN H' /\ DOMAIN A[id] = Collected(id)' /\ Collected(id)' # Every(id)'
               /\ \A k \in DOMAIN A[id] : A[id][k].t.id = id /\ A[id][k].t.idx = k /\ A[id][k].t.count = H'[id].count
    <3>1. id \in DOMAIN H /\ Joins(id, A[id]) /\ DOMAIN A[id] = Collected(id) /\ Collected(id) # Every(id)
      BY DEF AssemblyInv
    <3> QED BY <1>1, <2>2, <2>9, <3>1, ZenonT(40) DEF Joins, x
  <2>10. ASSUME NEW y \in DOMAIN H, y # x
         PROVE  {i \in H'[y].accepted : <<y, i>> \notin All(Holding')} = Collected(y)
    BY <1>1, <2>10 DEF Collected, x
  <2>11. ASSUME NEW n \in 1 .. Len(R)
         PROVE  /\ R[n].id # x /\ R[n].id \in DOMAIN H' /\ R[n].id \notin DOMAIN A
                /\ \A k \in DOMAIN R[n].parts : /\ R[n].parts[k].t.id = R[n].id /\ R[n].parts[k].t.idx = k
                                                /\ R[n].parts[k].t.count = H'[R[n].id].count
                /\ DOMAIN R[n].parts = 1 .. H'[R[n].id].count
                /\ {i \in H'[R[n].id].accepted : <<R[n].id, i>> \notin All(Holding')} = 1 .. H'[R[n].id].count
    <3> DEFINE q == R[n]
    <3>1. /\ q.id \in DOMAIN H /\ q.id \notin DOMAIN A /\ Joins(q.id, q.parts)
          /\ DOMAIN q.parts = Every(q.id) /\ Collected(q.id) = Every(q.id) /\ q.id # x
      BY <2>4 DEF AssemblyInv
    <3>2. /\ \A k \in DOMAIN q.parts : /\ q.parts[k].t.id = q.id /\ q.parts[k].t.idx = k
                                       /\ q.parts[k].t.count = H[q.id].count
          /\ DOMAIN q.parts = 1 .. H[q.id].count
          /\ Collected(q.id) = 1 .. H[q.id].count
      BY <3>1 DEF Joins, Every
    <3>3. H'[q.id] = H[q.id]
      BY <1>1, <3>1 DEF x
    <3>4. {i \in H'[q.id].accepted : <<q.id, i>> \notin All(Holding')} = Collected(q.id)
      BY <2>10, <3>1
    <3> HIDE DEF q
    <3>5. DOMAIN H' = DOMAIN H
      BY <2>2
    <3> QED BY <3>1, <3>2, <3>3, <3>4, <3>5 DEF q
  <2>12. ASSUME NEW id \in DOMAIN H, id # x, id \notin DOMAIN A, \A n \in 1 .. Len(R) : R[n].id # id
         PROVE  Collected(id)' = {}
    BY <1>1, <1>3, <2>12 DEF AssemblyInv, x
  <2>13. \A n, j \in 1 .. Len(R) : n # j => R[n].id # R[j].id
    BY DEF AssemblyInv
  <2>14. CASE DOMAIN P # 1 .. r.t.count /\ A' = Set(A, x, P) /\ R' = R
    <3>1. DOMAIN A' = DOMAIN A \cup {x} /\ A'[x] = P /\ \A id \in DOMAIN A : id # x => A'[id] = A[id]
      BY <2>14 DEF Set
    <3>2. Collected(x)' # Every(x)'
      BY <2>2, <2>3, <2>7, <2>14
    <3>3. ASSUME NEW id \in DOMAIN A'
          PROVE  id \in DOMAIN H' /\ Joins(id, A[id])' /\ DOMAIN A'[id] = Collected(id)' /\ Collected(id)' # Every(id)'
      <4>1. CASE id = x
        BY <1>1, <2>2, <2>7, <2>8, <3>1, <3>2, <4>1 DEF Joins, x
      <4>2. CASE id # x
        BY <2>9, <3>1, <4>2 DEF Joins
      <4> QED BY <4>1, <4>2
    <3>4. ASSUME NEW n \in 1 .. Len(R')
          PROVE  /\ R'[n].id \in DOMAIN H' /\ R'[n].id \notin DOMAIN A' /\ Joins(R[n].id, R[n].parts)'
                 /\ DOMAIN R'[n].parts = Every(R[n].id)' /\ Collected(R[n].id)' = Every(R[n].id)'
      BY <2>11, <2>14, <3>1 DEF Joins, Every, Collected
    <3>5. ASSUME NEW id \in DOMAIN H', id \notin DOMAIN A', \A n \in 1 .. Len(R') : R'[n].id # id
          PROVE  Collected(id)' = {}
      BY <2>2, <2>12, <2>14, <3>1, <3>5
    <3> QED BY <1>0, <1>3, <2>13, <2>14, <3>3, <3>4, <3>5 DEF AssemblyInv
  <2>15. CASE DOMAIN P = 1 .. r.t.count /\ R' = Append(R, HostResponse(x, P)) /\ A' = Drop(A, x)
    <3> DEFINE v == HostResponse(x, P)
    <3>1. DOMAIN A' = DOMAIN A \ {x} /\ \A id \in DOMAIN A' : A'[id] = A[id]
      BY <2>15 DEF Drop
    <3>2. v.id = x /\ v.parts = P
      BY DEF HostResponse
    <3> HIDE DEF v
    <3>3. /\ Len(R) \in Nat /\ Len(R') = Len(R) + 1 /\ R'[Len(R) + 1] = v
          /\ \A n \in 1 .. Len(R) : R'[n] = R[n]
          /\ \A n \in 1 .. Len(R') : n \in 1 .. Len(R) \/ n = Len(R) + 1
          /\ Len(R) + 1 \in 1 .. Len(R') /\ \A n \in 1 .. Len(R) : n \in 1 .. Len(R') /\ n # Len(R) + 1
      BY <2>6, <2>15 DEF v
    <3> DEFINE m == Len(R) + 1
    <3> HIDE DEF m
    <3>4. /\ R'[m] = v /\ \A n \in 1 .. Len(R) : R'[n] = R[n] /\ n \in 1 .. Len(R') /\ n # m
          /\ \A n \in 1 .. Len(R') : n \in 1 .. Len(R) \/ n = m
          /\ m \in 1 .. Len(R')
      BY <3>3 DEF m
    <3>5. ASSUME NEW id \in DOMAIN A'
          PROVE  id \in DOMAIN H' /\ Joins(id, A[id])' /\ DOMAIN A'[id] = Collected(id)' /\ Collected(id)' # Every(id)'
      BY <2>9, <3>1 DEF Joins
    <3>6. ASSUME NEW n \in 1 .. Len(R')
          PROVE  /\ R'[n].id \in DOMAIN H' /\ R'[n].id \notin DOMAIN A' /\ Joins(R[n].id, R[n].parts)'
                 /\ DOMAIN R'[n].parts = Every(R[n].id)' /\ Collected(R[n].id)' = Every(R[n].id)'
      <4>1. CASE n \in 1 .. Len(R)
        BY <2>11, <3>1, <3>4, <4>1, SMTT(30) DEF Joins, Every, Collected
      <4>2. CASE n = m
        <5>1. R'[n].id = x /\ R'[n].parts = P
          BY <3>2, <3>4, <4>2
        <5>2. x \in DOMAIN H' /\ x \notin DOMAIN A' /\ DOMAIN P = 1 .. H'[x].count
          BY <1>1, <2>2, <2>15, <3>1 DEF x
        <5>3. Joins(R[n].id, R[n].parts)'
          BY <2>8, <5>1 DEF Joins
        <5>4. Every(R[n].id)' = 1 .. H'[x].count
          BY <5>1 DEF Every
        <5>5. Collected(R[n].id)' = {i \in H'[x].accepted : <<x, i>> \notin All(Holding')}
          BY <5>1 DEF Collected
        <5>6. {i \in H'[x].accepted : <<x, i>> \notin All(Holding')} = DOMAIN P
          BY <2>7 DEF Collected
        <5> QED BY <5>1, <5>2, <5>3, <5>4, <5>5, <5>6
      <4> QED BY <3>4, <4>1, <4>2
    <3>7. ASSUME NEW n \in 1 .. Len(R'), NEW j \in 1 .. Len(R'), n # j PROVE R'[n].id # R'[j].id
      <4>1. CASE n \in 1 .. Len(R) /\ j \in 1 .. Len(R)
        BY <2>13, <3>4, <3>7, <4>1
      <4>2. CASE n = m /\ j \in 1 .. Len(R)
        BY <2>4, <3>2, <3>4, <4>2
      <4>3. CASE n \in 1 .. Len(R) /\ j = m
        BY <2>4, <3>2, <3>4, <4>3
      <4> QED BY <3>4, <3>7, <4>1, <4>2, <4>3
    <3>8. ASSUME NEW id \in DOMAIN H', id \notin DOMAIN A', \A n \in 1 .. Len(R') : R'[n].id # id
          PROVE  Collected(id)' = {}
      <4>1. id # x /\ id \notin DOMAIN A /\ id \in DOMAIN H
        BY <2>2, <3>1, <3>2, <3>4, <3>8
      <4>2. \A n \in 1 .. Len(R) : R[n].id # id
        BY <3>4, <3>8
      <4> QED BY <2>12, <4>1, <4>2
    <3> QED BY <1>0, <1>3, <3>5, <3>6, <3>7, <3>8 DEF AssemblyInv
  <2> QED BY <2>6, <2>14, <2>15
<1> QED BY <1>2, <1>3

\* Every step keeps the parts of the responses.
LEMMA AssemblyStep ==
  ASSUME TypeInv, TypeInv', UserInv, UserInv', ChainInv, PlaceInv, TagInv, AssemblyInv, Effect
  PROVE  AssemblyInv'
<1>0. cfg' = cfg
  BY DEF Effect, Quiet, Popped, Submitted, BatchEnqueued, DispatchTakes, ControllerAnswers, Collects
<1>1. CASE cfg.user = "batch"
  <2>1. /\ host_submissions_' = Empty /\ host_assemblies_' = Empty /\ host_responses_' = <<>>
        /\ ~RetainsHost'
    BY <1>0, <1>1 DEF UserInv, RetainsHost
  <2> QED BY <2>1, EmptyFacts DEF AssemblyInv
<1>2. ASSUME UNCHANGED <<host_submissions_, host_assemblies_, host_responses_>>, ModeStep,
             All(Holding') = All(Holding)
      PROVE  AssemblyInv'
  <2>1. \A id \in DOMAIN host_submissions_ : Collected(id)' = Collected(id) /\ Every(id)' = Every(id)
    BY <1>2 DEF Collected, Every
  <2> DEFINE X == {}
  <2>2. DOMAIN host_submissions_' = DOMAIN host_submissions_ \cup X
    BY <1>2
  <2> QED BY <1>2, <2>1, <2>2, AssemblyKept
<1>3. ASSUME NEW t, Submitted(t), All(Holding') = All(Holding) \cup {Key(t)} PROVE AssemblyInv'
  <2>1. SubmitTag(t)
    BY <1>3, SubmitTagFacts
  <2>2. UNCHANGED <<host_assemblies_, host_responses_>> /\ ModeStep /\ t.idx \in 1 .. t.count
    BY <1>3 DEF Submitted
  <2>3. ASSUME t.id \notin DOMAIN host_submissions_ PROVE Collected(t.id)' = {} /\ 1 \in Every(t.id)'
    <3>1. Collected(t.id)' = {} /\ Every(t.id)' = 1 .. t.count /\ t.idx = 1
      BY <2>1, <2>3 DEF SubmitTag, Every
    <3> QED BY <2>2, <3>1
  <2> DEFINE X == {t.id}
  <2>4. /\ DOMAIN host_submissions_' = DOMAIN host_submissions_ \cup X
        /\ \A id \in DOMAIN host_submissions_ :
             /\ host_submissions_'[id].count = host_submissions_[id].count
             /\ Collected(id)' = Collected(id) /\ Every(id)' = Every(id)
    BY <2>1 DEF SubmitTag
  <2>5. \A id \in X : id \notin DOMAIN host_submissions_ => Collected(id)' = {} /\ 1 \in Every(id)'
    BY <2>3
  <2> HIDE DEF X
  <2> QED BY <2>2, <2>4, <2>5, AssemblyKept
<1>4. ASSUME NEW c, NEW r, Collects(c), cfg.user # "batch", r = Head(controllers_[c].responses),
             Key(r.t) \in All(Holding), All(Holding') = All(Holding) \ {Key(r.t)}
      PROVE  AssemblyInv'
  <2>1. CollectTag(r)
    BY <1>4, CollectTagFacts
  <2>2. r.t.id = r.id
    BY <1>4, CollectFacts
  <2> QED BY <1>4, <2>1, <2>2, AssemblyCollects
<1>5. CASE cfg.user # "batch"
  <2>1. HeldStep
    BY <1>5, PlaceStep
  <2>3. CASE All(Holding') = All(Holding) /\ (Quiet \/ Popped \/ (\E s, i, c : DispatchTakes(s, i, c))
                                        \/ \E c, i, status : ControllerAnswers(c, i, status))
    <3>1. CASE Quiet
      BY <1>2, <2>3, <3>1 DEF Quiet
    <3>2. CASE Popped
      BY <3>2, AssemblyPopped
    <3>3. CASE (\E s, i, c : DispatchTakes(s, i, c)) \/ \E c, i, status : ControllerAnswers(c, i, status)
      BY <1>2, <2>3, <3>3 DEF DispatchTakes, ControllerAnswers, ModeStep
    <3> QED BY <2>3, <3>1, <3>2, <3>3
  <2> QED BY <1>3, <1>4, <1>5, <2>1, <2>3 DEF HeldStep
<1> QED BY <1>1, <1>5

\* Collecting raises no exception.
LEMMA CollectsQuietly ==
  ASSUME TypeInv, TypeInv', UserInv, PlaceInv, TagInv, AssemblyInv, NEW c, Collects(c)
  PROVE  fatal' = fatal
<1>1. CASE cfg.user = "batch"
  <2>1. ~RetainsHost
    BY <1>1 DEF UserInv, RetainsHost
  <2> QED BY <2>1, CollectCases
<1>2. CASE cfg.user # "batch"
  <2> DEFINE r == Head(controllers_[c].responses)
             k == Key(r.t)
  <2>1. PICK x : Cuts(x, k) /\ SameBut({x})
    BY CollectSpots
  <2> HIDE DEF k, r
  <2>2. All(Holding') = All(Holding) \ {k} /\ k \in All(Holding)
    BY <1>2, <2>1, HoldingTake
  <2>3. CollectTag(r)
    BY <1>2, <2>2, CollectTagFacts DEF r, k
  <2> QED BY <2>3, CollectsSafely DEF r
<1> QED BY <1>1, <1>2

-----------------------------------------------------------------------------
(* The frontend.                                                           *)

\* What a frontend submits is never refused.
LEMMA FrontNotRefused ==
  ASSUME TypeInv, FrontInv, cfg.user = "frontend", NEW tag \in DOMAIN front, NEW k \in front[tag].left,
         k = 1 \/ 1 \notin front[tag].left
  PROVE  ~Refused(FrontTx(tag, k))
<1> DEFINE t == FrontTx(tag, k)
           f == front[tag]
<1>1. /\ k \in AllOf(f) /\ Len(f.sh.cells) \in Nat \ {0} /\ t.id = tag /\ t.idx = k
      /\ t.count = Len(f.sh.cells) /\ t.type = f.sh.type
  BY FrontTxFacts
<1> HIDE DEF t
<1>2. CASE tag \in DOMAIN host_submissions_
  <2>1. /\ host_submissions_[tag].count = Len(f.sh.cells) /\ host_submissions_[tag].type = f.sh.type
        /\ f.left = AllOf(f) \ host_submissions_[tag].accepted
    BY <1>2 DEF FrontInv
  <2>2. k \notin host_submissions_[tag].accepted
    BY <2>1
  <2> QED BY <1>1, <1>2, <2>1, <2>2 DEF Refused, t
<1>3. CASE tag \notin DOMAIN host_submissions_
  <2>1. f.left = AllOf(f)
    BY <1>3 DEF FrontInv
  <2>2. 1 \in AllOf(f)
    BY <1>1 DEF AllOf
  <2> QED BY <1>1, <1>3, <2>1, <2>2 DEF Refused, t
<1> QED BY <1>2, <1>3

\* A frontend begins a host request.
LEMMA FrontBegins ==
  ASSUME TypeInv, UserInv, TagInv, FrontInv, TakenInv, cfg.user = "frontend",
         NEW tag \in cfg.tags, NEW sh \in cfg.shapes, FrontendBegins(tag, sh)
  PROVE  FrontInv' /\ TakenInv'
<1> DEFINE f == [sh |-> sh, val |-> begun + 1, left |-> DOMAIN sh.cells, taken |-> {}]
           H == host_submissions_
<1>1. /\ tag \notin DOMAIN front /\ front' = Set(front, tag, f)
      /\ UNCHANGED <<cfg, response_delivery_mode_, H, stack_ingress_queues_, controllers_, outVars>>
  BY DEF FrontendBegins
<1>2. f.left = AllOf(f) /\ f.taken = {} /\ f.sh = sh
  BY ShapeFacts DEF TypeInv, AllOf
<1> HIDE DEF f
<1>3. /\ DOMAIN front' = DOMAIN front \cup {tag} /\ front'[tag] = f
      /\ \A id \in DOMAIN front : id # tag /\ front'[id] = front[id]
  BY <1>1 DEF Set
<1>4. Flying' = Flying /\ Holding' = Holding
  BY <1>1, QuietSpots
<1>5. \A id : Collected(id)' = Collected(id)
  BY <1>1, <1>4 DEF Collected
<1>7. FrontInv'
  <2>1. ASSUME NEW id \in DOMAIN H
        PROVE  /\ id \in DOMAIN front' /\ H[id].count = Len(front'[id].sh.cells) /\ H[id].type = front'[id].sh.type
               /\ front'[id].left = AllOf(front'[id]) \ H[id].accepted
    BY <1>3 DEF FrontInv
  <2>2. ASSUME NEW id \in DOMAIN front' \ DOMAIN H
        PROVE  \/ front'[id].left = AllOf(front'[id]) /\ front'[id].taken = {}
               \/ response_delivery_mode_ = "TransactionOnly" /\ front'[id].left = {}
    BY <1>2, <1>3 DEF FrontInv
  <2>3. /\ \A t \in Flying' : OfFront(t)'
        /\ \A id \in DOMAIN host_assemblies_' : \A k \in DOMAIN host_assemblies_'[id] :
             OfFront(host_assemblies_[id][k].t)'
        /\ \A n \in 1 .. Len(host_responses_') : \A k \in DOMAIN host_responses_'[n].parts :
             OfFront(host_responses_[n].parts[k].t)'
    BY <1>1, <1>3, <1>4 DEF FrontInv, OfFront
  <2> QED BY <1>1, <2>1, <2>2, <2>3 DEF FrontInv, AllOf
<1>8. TakenInv'
  <2> SUFFICES ASSUME ~RetainsHost' PROVE TakenInv'
    BY DEF TakenInv
  <2>0. ~RetainsHost
    BY <1>1 DEF RetainsHost
  <2>1. NoDup(TKeys(transaction_responses_))'
    BY <1>1, <2>0 DEF TakenInv
  <2>2. ASSUME NEW n \in 1 .. Len(transaction_responses_')
        PROVE  LET t == transaction_responses_[n].t
               IN  /\ t.id \in DOMAIN front' /\ t.count = Len(front'[t.id].sh.cells)
                   /\ t.idx \in AllOf(front'[t.id]) \ (front'[t.id].left \cup front'[t.id].taken)
                   /\ t.id \in DOMAIN H' => t.idx \in Collected(t.id)
    BY <1>1, <1>3, <2>0 DEF TakenInv
  <2>4. ASSUME NEW id \in DOMAIN front'
        PROVE  /\ front'[id].taken \subseteq AllOf(front'[id]) \ front'[id].left
               /\ id \in DOMAIN H' => front'[id].taken \subseteq Collected(id)'
    <3>1. CASE id = tag
      BY <1>2, <1>3, <3>1
    <3>2. CASE id # tag
      BY <1>1, <1>3, <1>5, <2>0, <3>2 DEF TakenInv
    <3> QED BY <3>1, <3>2
  <2>5. ASSUME NEW n \in 1 .. Len(transaction_responses_')
        PROVE  LET t == transaction_responses_'[n].t
               IN  /\ t.id \in DOMAIN front' /\ t.count = Len(front'[t.id].sh.cells)
                   /\ t.idx \in AllOf(front'[t.id]) \ (front'[t.id].left \cup front'[t.id].taken)
                   /\ t.id \in DOMAIN H' => t.idx \in {i \in H'[t.id].accepted : <<t.id, i>> \notin All(Holding')}
    <3> DEFINE t == transaction_responses_[n].t
    <3>1. t = transaction_responses_'[n].t
      BY <1>1
    <3>2. t.id \in DOMAIN H' => t.idx \in {i \in H'[t.id].accepted : <<t.id, i>> \notin All(Holding')}
      BY <1>1, <1>4, <2>2 DEF Collected
    <3> HIDE DEF t
    <3>3. /\ t.id \in DOMAIN front' /\ t.count = Len(front'[t.id].sh.cells)
          /\ t.idx \in AllOf(front'[t.id]) \ (front'[t.id].left \cup front'[t.id].taken)
      BY <2>2 DEF t
    <3> QED BY <3>1, <3>2, <3>3
  <2> QED BY <2>1, <2>4, <2>5 DEF TakenInv, Collected, AllOf
<1> QED BY <1>7, <1>8

\* Steps that take nothing from the frontend and give it nothing.
LEMMA FrontKept ==
  ASSUME FrontInv, TakenInv, cfg.user = "frontend", cfg' = cfg, ModeStep,
         UNCHANGED <<front, host_submissions_, outVars>>, Flying' \subseteq Flying, All(Holding') = All(Holding)
  PROVE  FrontInv' /\ TakenInv'
<1> DEFINE H == host_submissions_
<1>1. FrontInv'
  <2>1. ASSUME NEW id \in DOMAIN front \ DOMAIN H
        PROVE  \/ front[id].left = AllOf(front[id]) /\ front[id].taken = {}
               \/ response_delivery_mode_' = "TransactionOnly" /\ front[id].left = {}
    BY DEF FrontInv, ModeStep
  <2>2. /\ \A t \in Flying' : OfFront(t)'
        /\ \A id \in DOMAIN host_assemblies_' : \A k \in DOMAIN host_assemblies_'[id] :
             OfFront(host_assemblies_[id][k].t)'
        /\ \A n \in 1 .. Len(host_responses_') : \A k \in DOMAIN host_responses_'[n].parts :
             OfFront(host_responses_[n].parts[k].t)'
    BY DEF FrontInv, OfFront
  <2>3. ASSUME NEW id \in DOMAIN H
        PROVE  /\ id \in DOMAIN front' /\ H[id].count = Len(front'[id].sh.cells) /\ H[id].type = front'[id].sh.type
               /\ front'[id].left = AllOf(front'[id]) \ H[id].accepted
    BY DEF FrontInv
  <2> QED BY <2>1, <2>2, <2>3 DEF FrontInv, AllOf
<1>2. TakenInv'
  <2> SUFFICES ASSUME ~RetainsHost' PROVE TakenInv'
    BY DEF TakenInv
  <2>1. ~RetainsHost
    BY DEF RetainsHost, ModeStep
  <2> QED BY <2>1 DEF TakenInv, Collected
<1> QED BY <1>1, <1>2

\* A frontend submits a transaction.
LEMMA FrontSubmits ==
  ASSUME TypeInv, UserInv, PlaceInv, TagInv, ChainInv, FrontInv, TakenInv, cfg.user = "frontend",
         NEW tag \in DOMAIN front, NEW k \in front[tag].left, FrontendSubmits(tag, k)
  PROVE  FrontInv' /\ TakenInv' /\ ~fatal'
<1> DEFINE t == FrontTx(tag, k)
           f == front[tag]
           H == host_submissions_
<1>1. /\ t \in Tx /\ t.id = tag /\ t.idx = k /\ t.count = Len(f.sh.cells) /\ t.type = f.sh.type
      /\ t.val = f.val /\ k \in AllOf(f) /\ t.idx \in 1 .. t.count /\ f \in Tagged
  BY FrontTxFacts DEF AllOf
<1>2. /\ TrySubmit(t) /\ (k = 1 \/ 1 \notin f.left) /\ UNCHANGED <<cfg, controllers_, image, outVars>>
      /\ next_system_sequence_' = next_system_sequence_ => front' = front
      /\ next_system_sequence_' # next_system_sequence_ => front' = [front EXCEPT ![tag].left = @ \ {k}]
  BY DEF FrontendSubmits, FrontTx
<1>3. ~Refused(t) /\ ~fatal'
  BY <1>1, <1>2, FrontNotRefused, TryFacts
<1> HIDE DEF t
<1>4. CASE next_system_sequence_' = next_system_sequence_
  <2>1. Quiet /\ front' = front
    BY <1>1, <1>2, <1>4, TryEffect
  <2>2. Flying' = Flying /\ Holding' = Holding
    BY <2>1, QuietSpots DEF Quiet
  <2> QED BY <1>2, <1>3, <2>1, <2>2, FrontKept DEF Quiet
<1>5. CASE next_system_sequence_' # next_system_sequence_
  <2>1. Submitted(t)
    BY <1>1, <1>2, <1>5, TryEffect
  <2>2. All(Holding') = All(Holding) \cup {Key(t)}
    <3>1. PICK x : Puts(x, Key(t)) /\ SameBut({x})
      BY <1>1, <2>1, EnqueueSpots DEF Submitted
    <3> QED BY <2>1, <3>1, SubmittedFresh, HoldingPut
  <2>3. SubmitTag(t)
    BY <2>1, <2>2, SubmitTagFacts
  <2>4. \A u \in Flying' : u \in Flying \/ u = Numbered(t)
    BY <1>1, <2>1, FlyingEnqueue DEF Submitted
  <2>5. Numbered(t).id = tag /\ Numbered(t).val = f.val
    BY <1>1 DEF Numbered, Tx
  <2> DEFINE g == [f EXCEPT !.left = @ \ {k}]
  <2>6. g.sh = f.sh /\ g.val = f.val /\ g.taken = f.taken /\ g.left = f.left \ {k} /\ AllOf(g) = AllOf(f)
    BY <1>1 DEF Tagged, AllOf
  <2>7. front' = [front EXCEPT ![tag] = g]
    BY <1>2, <1>5
  <2> HIDE DEF g
  <2>8. /\ DOMAIN front' = DOMAIN front /\ front'[tag] = g
        /\ \A id \in DOMAIN front : id # tag => front'[id] = front[id]
    BY <2>7
  <2>9. ModeStep
    BY <2>1 DEF Submitted
  <2>10. \A id \in DOMAIN front : /\ front'[id].sh = front[id].sh /\ front'[id].val = front[id].val
                                  /\ front'[id].taken = front[id].taken /\ front'[id].left \subseteq front[id].left
                                  /\ AllOf(front'[id]) = AllOf(front[id])
    BY <2>6, <2>8
  <2>11. FrontInv'
    <3>1. ASSUME NEW id \in DOMAIN H'
          PROVE  /\ id \in DOMAIN front' /\ H'[id].count = Len(front'[id].sh.cells) /\ H'[id].type = front'[id].sh.type
                 /\ front'[id].left = AllOf(front'[id]) \ H'[id].accepted
      <4>1. CASE id # tag
        <5>1. id \in DOMAIN H
          BY <1>1, <2>3, <4>1 DEF SubmitTag
        <5>2. H'[id].count = H[id].count /\ H'[id].type = H[id].type /\ H'[id].accepted = H[id].accepted
          BY <1>1, <2>3, <4>1, <5>1 DEF SubmitTag
        <5> QED BY <2>8, <4>1, <5>1, <5>2 DEF FrontInv
      <4>2. CASE id = tag
        <5>1. H'[id].count = t.count /\ H'[id].type = t.type
          BY <1>1, <2>3, <4>2 DEF SubmitTag
        <5>2. g.left = AllOf(f) \ H'[tag].accepted
          <6>1. CASE tag \in DOMAIN H
            <7>1. f.left = AllOf(f) \ H[tag].accepted
              BY <6>1 DEF FrontInv
            <7>2. H'[tag].accepted = H[tag].accepted \cup {k}
              BY <1>1, <2>3, <6>1 DEF SubmitTag
            <7> QED BY <2>6, <7>1, <7>2
          <6>2. CASE tag \notin DOMAIN H
            <7>1. f.left = AllOf(f)
              BY <6>2 DEF FrontInv
            <7>2. H'[tag].accepted = {1} /\ k = 1
              BY <1>1, <2>3, <6>2 DEF SubmitTag
            <7> QED BY <2>6, <7>1, <7>2
          <6> QED BY <6>1, <6>2
        <5> QED BY <1>1, <2>6, <2>8, <4>2, <5>1, <5>2
      <4> QED BY <4>1, <4>2
    <3>2. ASSUME NEW id \in DOMAIN front' \ DOMAIN H'
          PROVE  \/ front'[id].left = AllOf(front'[id]) /\ front'[id].taken = {}
                 \/ response_delivery_mode_' = "TransactionOnly" /\ front'[id].left = {}
      <4>1. id \in DOMAIN front /\ id \notin DOMAIN H /\ id # tag /\ front'[id] = front[id]
        BY <1>1, <2>3, <2>8 DEF SubmitTag
      <4>2. \/ front[id].left = AllOf(front[id]) /\ front[id].taken = {}
            \/ response_delivery_mode_ = "TransactionOnly" /\ front[id].left = {}
        BY <4>1 DEF FrontInv
      <4> QED BY <2>9, <4>1, <4>2 DEF ModeStep
    <3>3. ASSUME NEW u \in Flying' PROVE OfFront(u)'
      <4>1. CASE u \in Flying
        BY <2>8, <2>10, <4>1 DEF FrontInv, OfFront
      <4>2. CASE u = Numbered(t)
        BY <2>5, <2>6, <2>8, <4>2 DEF OfFront
      <4> QED BY <2>4, <4>1, <4>2
    <3>4. /\ \A id \in DOMAIN host_assemblies_' : \A i \in DOMAIN host_assemblies_'[id] :
               OfFront(host_assemblies_[id][i].t)'
          /\ \A n \in 1 .. Len(host_responses_') : \A i \in DOMAIN host_responses_'[n].parts :
               OfFront(host_responses_[n].parts[i].t)'
      BY <1>2, <2>8, <2>10 DEF FrontInv, OfFront
    <3> QED BY <1>2, <3>1, <3>2, <3>3, <3>4 DEF FrontInv, AllOf
  <2>12. TakenInv'
    <3> SUFFICES ASSUME ~RetainsHost' PROVE TakenInv'
      BY DEF TakenInv
    <3> DEFINE T == transaction_responses_
    <3>1. ~RetainsHost
      BY <2>9 DEF RetainsHost, ModeStep
    <3>2. \A id \in DOMAIN H : {i \in H'[id].accepted : <<id, i>> \notin All(Holding')} = Collected(id)
      BY <2>3 DEF SubmitTag, Collected
    <3>3. DOMAIN H' = DOMAIN H \cup {tag}
      BY <1>1, <2>3 DEF SubmitTag
    <3>4. ASSUME tag \notin DOMAIN H PROVE f.left = AllOf(f) /\ f.taken = {}
      BY <3>4 DEF FrontInv
    <3>5. ASSUME NEW n \in 1 .. Len(T')
          PROVE  LET u == T'[n].t
                 IN  /\ u.id \in DOMAIN front' /\ u.count = Len(front'[u.id].sh.cells)
                     /\ u.idx \in AllOf(front'[u.id]) \ (front'[u.id].left \cup front'[u.id].taken)
                     /\ u.id \in DOMAIN H' => u.idx \in {i \in H'[u.id].accepted : <<u.id, i>> \notin All(Holding')}
      <4> DEFINE u == T[n].t
      <4>1. T'[n].t = u
        BY <1>2
      <4>2. /\ u.id \in DOMAIN front /\ u.count = Len(front[u.id].sh.cells)
            /\ u.idx \in AllOf(front[u.id]) \ (front[u.id].left \cup front[u.id].taken)
            /\ u.id \in DOMAIN H => u.idx \in Collected(u.id)
        BY <1>2, <3>1 DEF TakenInv
      <4> HIDE DEF u
      <4>3. u.id \notin DOMAIN H => u.id # tag
        BY <3>4, <4>2
      <4>4. u.id \in DOMAIN H' => u.idx \in {i \in H'[u.id].accepted : <<u.id, i>> \notin All(Holding')}
        BY <3>2, <3>3, <4>2, <4>3
      <4>5. /\ u.id \in DOMAIN front' /\ u.count = Len(front'[u.id].sh.cells)
            /\ u.idx \in AllOf(front'[u.id]) \ (front'[u.id].left \cup front'[u.id].taken)
        BY <2>8, <2>10, <4>2
      <4> QED BY <4>1, <4>4, <4>5
    <3>6. ASSUME NEW id \in DOMAIN front'
          PROVE  /\ front'[id].taken \subseteq AllOf(front'[id]) \ front'[id].left
                 /\ id \in DOMAIN H' => front'[id].taken \subseteq {i \in H'[id].accepted : <<id, i>> \notin All(Holding')}
      <4>1. /\ front[id].taken \subseteq AllOf(front[id]) \ front[id].left
            /\ id \in DOMAIN H => front[id].taken \subseteq Collected(id)
        BY <2>8, <3>1 DEF TakenInv
      <4>2. id \in DOMAIN H' => front'[id].taken \subseteq {i \in H'[id].accepted : <<id, i>> \notin All(Holding')}
        BY <2>8, <2>10, <3>2, <3>3, <3>4, <4>1
      <4> QED BY <2>8, <2>10, <4>1, <4>2
    <3>7. NoDup(TKeys(transaction_responses_))'
      BY <1>2, <3>1 DEF TakenInv
    <3> QED BY <3>5, <3>6, <3>7 DEF TakenInv, Collected, AllOf
  <2> QED BY <1>3, <2>11, <2>12
<1> QED BY <1>4, <1>5

\* The frontend takes a host response.
LEMMA FrontPops ==
  ASSUME TypeInv, UserInv, TagInv, AssemblyInv, FrontInv, TakenInv, FrontendPops
  PROVE  FrontInv' /\ TakenInv'
<1> DEFINE H == host_submissions_
           A == host_assemblies_
           R == host_responses_
           x == R[1].id
<1>0. cfg.user = "frontend" /\ Popped /\ front' = Drop(front, Head(R).id)
  BY DEF FrontendPops, Popped
<1>1. A' = A /\ RetainsHost' = RetainsHost /\ cfg' = cfg /\ response_delivery_mode_' = response_delivery_mode_
  BY <1>0 DEF Popped, RetainsHost
<1>2. R \in Seq(HostRsp) /\ R # <<>> /\ R' = Tail(R) /\ Head(R) = R[1]
  BY <1>0, PopFacts DEF Popped
<1>3. /\ Len(R) \in Nat \ {0} /\ Len(R') = Len(R) - 1 /\ 1 \in 1 .. Len(R)
      /\ \A n \in 1 .. Len(R') : n + 1 \in 1 .. Len(R) /\ n + 1 # 1 /\ R'[n] = R[n + 1]
  BY <1>2, HeadTail
<1>4. PopTag(x)
  BY <1>0, <1>2, PopTagFacts
<1>5. /\ DOMAIN H' = DOMAIN H \ {x} /\ \A y \in DOMAIN H : y # x => H'[y] = H[y]
      /\ \A u \in Flying : u.id # x
  BY <1>4 DEF PopTag
<1>6. x \notin DOMAIN A /\ \A n \in 1 .. Len(R) : n # 1 => R[n].id # x
  BY <1>3 DEF AssemblyInv
<1>7. front' = Drop(front, x)
  BY <1>0, <1>2
<1> HIDE DEF x
<1>8. DOMAIN front' = DOMAIN front \ {x} /\ \A y \in DOMAIN front' : front'[y] = front[y]
  BY <1>7 DEF Drop
<1>9. RetainsHost
  BY <1>2 DEF AssemblyInv
<1>10. Flying' = Flying
  BY <1>0, QuietSpots DEF Popped
<1>11. ASSUME NEW id \in DOMAIN H'
       PROVE  /\ id \in DOMAIN front' /\ H'[id].count = Len(front'[id].sh.cells) /\ H'[id].type = front'[id].sh.type
              /\ front'[id].left = AllOf(front'[id]) \ H'[id].accepted
  BY <1>0, <1>5, <1>8 DEF FrontInv
<1>12. ASSUME NEW id \in DOMAIN front' \ DOMAIN H'
       PROVE  \/ front'[id].left = AllOf(front'[id]) /\ front'[id].taken = {}
              \/ response_delivery_mode_' = "TransactionOnly" /\ front'[id].left = {}
  BY <1>0, <1>1, <1>5, <1>8 DEF FrontInv
<1>13. \A u \in Flying' : OfFront(u)'
  BY <1>0, <1>5, <1>8, <1>10 DEF FrontInv, OfFront
<1>14. ASSUME NEW id \in DOMAIN A', NEW i \in DOMAIN A'[id] PROVE OfFront(A[id][i].t)'
  <2> DEFINE u == A[id][i].t
  <2>1. OfFront(u) /\ u.id = id /\ id # x
    BY <1>0, <1>1, <1>6 DEF FrontInv, AssemblyInv, Joins
  <2>2. A'[id][i].t = u
    BY <1>1
  <2> HIDE DEF u
  <2>3. u.id \in DOMAIN front' /\ u.val = front'[u.id].val
    BY <1>8, <2>1 DEF OfFront
  <2> QED BY <2>2, <2>3 DEF OfFront
<1>15. ASSUME NEW n \in 1 .. Len(R'), NEW i \in DOMAIN R'[n].parts PROVE OfFront(R[n].parts[i].t)'
  <2> DEFINE q == R[n + 1]
             u == q.parts[i].t
  <2>1. n + 1 \in 1 .. Len(R) /\ n + 1 # 1 /\ R'[n] = q
    BY <1>3
  <2>2. OfFront(u) /\ u.id = q.id /\ q.id # x
    BY <1>0, <1>6, <2>1 DEF FrontInv, AssemblyInv, Joins
  <2>3. R'[n].parts[i].t = u
    BY <2>1
  <2> HIDE DEF u
  <2>4. u.id \in DOMAIN front' /\ u.val = front'[u.id].val
    BY <1>8, <2>2 DEF OfFront
  <2> QED BY <2>3, <2>4 DEF OfFront
<1>16. FrontInv'
  BY <1>11, <1>12, <1>13, <1>14, <1>15 DEF FrontInv, AllOf
<1> QED BY <1>1, <1>9, <1>16 DEF TakenInv

\* The frontend takes the response of a transaction.
LEMMA FrontTakes ==
  ASSUME TypeInv, UserInv, TagInv, AssemblyInv, FrontInv, TakenInv, cfg.user = "frontend", FrontendPopsTransaction
  PROVE  FrontInv' /\ TakenInv'
<1> DEFINE H == host_submissions_
           A == host_assemblies_
           R == host_responses_
           T == transaction_responses_
           r == Head(T)
           x == r.id
           taken == front[x].taken \cup {r.t.idx}
<1>1. /\ T # <<>> /\ T' = Tail(T)
      /\ UNCHANGED <<cfg, response_delivery_mode_, H, stack_ingress_queues_, controllers_, A, R>>
      /\ front' = IF RetainsHost THEN front
                  ELSE IF taken = 1 .. r.t.count THEN Drop(front, x)
                  ELSE [front EXCEPT ![x].taken = taken]
  BY DEF FrontendPopsTransaction
<1>2. T \in Seq(Resp)
  BY DEF TypeInv
<1>3. /\ r = T[1] /\ r \in Resp /\ Len(T) \in Nat \ {0} /\ Len(T') = Len(T) - 1 /\ 1 \in 1 .. Len(T)
      /\ \A n \in 1 .. Len(T') : n + 1 \in 1 .. Len(T) /\ n + 1 # 1 /\ T'[n] = T[n + 1]
  BY <1>1, <1>2, HeadTail
<1>4. Flying' = Flying /\ Holding' = Holding /\ RetainsHost' = RetainsHost
  BY <1>1, QuietSpots DEF RetainsHost
<1>5. CASE RetainsHost
  <2>1. front' = front
    BY <1>1, <1>5
  <2>2. /\ \A u \in Flying' : OfFront(u)'
        /\ \A id \in DOMAIN A' : \A k \in DOMAIN A'[id] : OfFront(A[id][k].t)'
        /\ \A n \in 1 .. Len(R') : \A k \in DOMAIN R'[n].parts : OfFront(R[n].parts[k].t)'
    <3>1. \A u : OfFront(u)' <=> OfFront(u)
      BY <2>1 DEF OfFront
    <3>2. \A u \in Flying' : OfFront(u)'
      BY <1>4, <3>1 DEF FrontInv
    <3>3. ASSUME NEW id \in DOMAIN A', NEW k \in DOMAIN A'[id] PROVE OfFront(A[id][k].t)'
      <4>1. OfFront(A[id][k].t)
        BY <1>1 DEF FrontInv
      <4> QED BY <1>1, <2>1, <4>1 DEF OfFront
    <3>4. ASSUME NEW n \in 1 .. Len(R'), NEW k \in DOMAIN R'[n].parts PROVE OfFront(R[n].parts[k].t)'
      <4>1. OfFront(R[n].parts[k].t)
        BY <1>1 DEF FrontInv
      <4> QED BY <1>1, <2>1, <4>1 DEF OfFront
    <3> QED BY <3>2, <3>3, <3>4
  <2>3. ASSUME NEW id \in DOMAIN H
        PROVE  /\ id \in DOMAIN front' /\ H[id].count = Len(front'[id].sh.cells) /\ H[id].type = front'[id].sh.type
               /\ front'[id].left = AllOf(front'[id]) \ H[id].accepted
    BY <2>1 DEF FrontInv
  <2>4. ASSUME NEW id \in DOMAIN front \ DOMAIN H
        PROVE  \/ front[id].left = AllOf(front[id]) /\ front[id].taken = {}
               \/ response_delivery_mode_' = "TransactionOnly" /\ front[id].left = {}
    BY <1>1 DEF FrontInv
  <2>5. FrontInv'
    BY <1>1, <2>1, <2>2, <2>3, <2>4 DEF FrontInv, AllOf
  <2> QED BY <1>4, <1>5, <2>5 DEF TakenInv
<1>6. CASE ~RetainsHost
  <2>1. x = r.t.id
    BY <1>3 DEF Resp
  <2>2. /\ x \in DOMAIN front /\ r.t.count = Len(front[x].sh.cells)
        /\ r.t.idx \in AllOf(front[x]) \ (front[x].left \cup front[x].taken)
        /\ x \in DOMAIN H => r.t.idx \in Collected(x)
    BY <1>3, <1>6, <2>1 DEF TakenInv
  <2>3. /\ front[x].taken \subseteq AllOf(front[x]) \ front[x].left
        /\ x \in DOMAIN H => front[x].taken \subseteq Collected(x)
    BY <1>6, <2>2 DEF TakenInv
  <2>4. A = Empty /\ R = <<>> /\ \A id \in DOMAIN H : Collected(id) # Every(id)
    BY <1>6 DEF AssemblyInv
  <2>5. \A n \in 1 .. Len(T) : n # 1 => Key(T[n].t) # Key(T[1].t)
    <3>1. NoDup(TKeys(T))
      BY <1>6 DEF TakenInv
    <3>2. Len(TKeys(T)) = Len(T) /\ \A n \in 1 .. Len(T) : TKeys(T)[n] = Key(T[n].t)
      BY <1>2 DEF TKeys
    <3> QED BY <1>3, <3>1, <3>2 DEF NoDup
  <2>6. NoDup(TKeys(T'))
    <3>1. NoDup(TKeys(T))
      BY <1>6 DEF TakenInv
    <3>2. Len(TKeys(T)) = Len(T) /\ \A n \in 1 .. Len(T) : TKeys(T)[n] = Key(T[n].t)
      BY <1>2 DEF TKeys
    <3>3. Len(TKeys(T')) = Len(T') /\ \A n \in 1 .. Len(T') : TKeys(T')[n] = Key(T'[n].t)
      <4>1. Len(T') \in Nat
        BY <1>3
      <4> HIDE DEF T
      <4> QED BY <4>1 DEF TKeys
    <3> SUFFICES ASSUME NEW i \in 1 .. Len(T'), NEW j \in 1 .. Len(T'), i # j PROVE TKeys(T')[i] # TKeys(T')[j]
      BY <3>3 DEF NoDup
    <3>4. i + 1 \in 1 .. Len(T) /\ j + 1 \in 1 .. Len(T) /\ i + 1 # j + 1
      BY <1>3
    <3>5. TKeys(T')[i] = TKeys(T)[i + 1] /\ TKeys(T')[j] = TKeys(T)[j + 1]
      BY <1>3, <3>2, <3>3, <3>4
    <3> QED BY <3>1, <3>2, <3>4, <3>5 DEF NoDup
  <2>7. ASSUME NEW n \in 1 .. Len(T')
        PROVE  LET u == T'[n].t
               IN  /\ u.id \in DOMAIN front /\ u.count = Len(front[u.id].sh.cells)
                   /\ u.idx \in AllOf(front[u.id]) \ (front[u.id].left \cup front[u.id].taken)
                   /\ u.id \in DOMAIN H => u.idx \in Collected(u.id)
                   /\ u.id = x => u.idx # r.t.idx
    <3> DEFINE q == T[n + 1]
    <3>1. n + 1 \in 1 .. Len(T) /\ n + 1 # 1 /\ T'[n] = q
      BY <1>3
    <3>2. Key(q.t) # Key(r.t)
      BY <1>3, <2>5, <3>1
    <3>3. LET u == q.t IN
                /\ u.id \in DOMAIN front /\ u.count = Len(front[u.id].sh.cells)
                /\ u.idx \in AllOf(front[u.id]) \ (front[u.id].left \cup front[u.id].taken)
                /\ u.id \in DOMAIN H => u.idx \in Collected(u.id)
      BY <1>6, <3>1 DEF TakenInv
    <3> HIDE DEF q
    <3> QED BY <2>1, <3>1, <3>2, <3>3 DEF Key
  <2>8. x \notin DOMAIN H => response_delivery_mode_ = "TransactionOnly" /\ front[x].left = {}
    BY <2>2 DEF FrontInv
  <2> HIDE DEF T, r, x
  <2>9. CASE taken = 1 .. r.t.count
    <3>1. front' = Drop(front, x)
      BY <1>1, <1>6, <2>9
    <3>2. DOMAIN front' = DOMAIN front \ {x} /\ \A id \in DOMAIN front' : front'[id] = front[id]
      BY <3>1 DEF Drop
    <3>3. x \notin DOMAIN H
      <4> SUFFICES ASSUME x \in DOMAIN H PROVE FALSE
        OBVIOUS
      <4>1. H[x].count = r.t.count
        BY <2>2 DEF FrontInv
      <4>2. Every(x) \subseteq Collected(x)
        BY <2>2, <2>3, <2>9, <4>1 DEF Every
      <4>3. Collected(x) \subseteq Every(x)
        BY HostFacts
      <4>4. Collected(x) = Every(x)
        BY <4>2, <4>3
      <4>5. Collected(x) # Every(x)
        BY <2>4
      <4> QED BY <4>4, <4>5
    <3>4. ASSUME NEW id \in DOMAIN H'
          PROVE  /\ id \in DOMAIN front' /\ H'[id].count = Len(front'[id].sh.cells) /\ H'[id].type = front'[id].sh.type
                 /\ front'[id].left = AllOf(front'[id]) \ H'[id].accepted
      BY <1>1, <3>2, <3>3 DEF FrontInv
    <3>5. ASSUME NEW id \in DOMAIN front' \ DOMAIN H'
          PROVE  \/ front'[id].left = AllOf(front'[id]) /\ front'[id].taken = {}
                 \/ response_delivery_mode_' = "TransactionOnly" /\ front'[id].left = {}
      BY <1>1, <3>2 DEF FrontInv
    <3>6. \A u \in Flying' : OfFront(u)'
      <4>1. \A u \in Flying : u.id # x /\ OfFront(u)
        BY <3>3 DEF TagInv, FrontInv
      <4> QED BY <1>4, <3>2, <4>1 DEF OfFront
    <3>7. A' = Empty /\ R' = <<>>
      BY <1>1, <2>4
    <3>8. FrontInv'
      BY <3>4, <3>5, <3>6, <3>7, EmptyFacts DEF FrontInv, AllOf
    <3>9. ASSUME NEW n \in 1 .. Len(T')
          PROVE  LET u == T'[n].t
                 IN  /\ u.id \in DOMAIN front' /\ u.count = Len(front'[u.id].sh.cells)
                     /\ u.idx \in AllOf(front'[u.id]) \ (front'[u.id].left \cup front'[u.id].taken)
                     /\ u.id \in DOMAIN H' => u.idx \in {i \in H'[u.id].accepted : <<u.id, i>> \notin All(Holding')}
      <4> DEFINE u == T'[n].t
      <4>1. /\ u.id \in DOMAIN front /\ u.count = Len(front[u.id].sh.cells)
            /\ u.idx \in AllOf(front[u.id]) \ (front[u.id].left \cup front[u.id].taken)
            /\ u.id \in DOMAIN H => u.idx \in Collected(u.id)
            /\ u.id = x => u.idx # r.t.idx
        BY <2>7
      <4> HIDE DEF u
      <4>2. u.id # x
        BY <2>2, <2>9, <4>1 DEF AllOf
      <4>3. u.id \in DOMAIN H' => u.idx \in {i \in H'[u.id].accepted : <<u.id, i>> \notin All(Holding')}
        BY <1>1, <1>4, <4>1 DEF Collected
      <4> QED BY <3>2, <4>1, <4>2, <4>3 DEF u
    <3>10. ASSUME NEW id \in DOMAIN front'
           PROVE  /\ front'[id].taken \subseteq AllOf(front'[id]) \ front'[id].left
                  /\ id \in DOMAIN H' => front'[id].taken \subseteq {i \in H'[id].accepted : <<id, i>> \notin All(Holding')}
      BY <1>1, <1>4, <1>6, <3>2 DEF TakenInv, Collected
    <3>11. TakenInv'
      BY <2>6, <3>9, <3>10 DEF TakenInv, Collected, AllOf, T
    <3> QED BY <3>8, <3>11
  <2>10. CASE taken # 1 .. r.t.count
    <3> DEFINE g == [front[x] EXCEPT !.taken = taken]
    <3>1. front' = [front EXCEPT ![x] = g]
      BY <1>1, <1>6, <2>10
    <3>2. front[x] \in Tagged
      BY <2>2, PFunFacts DEF TypeInv
    <3>3. g.sh = front[x].sh /\ g.val = front[x].val /\ g.left = front[x].left /\ g.taken = taken
      BY <3>2 DEF Tagged
    <3> HIDE DEF g
    <3>4. DOMAIN front' = DOMAIN front /\ front'[x] = g /\ \A id \in DOMAIN front : id # x => front'[id] = front[id]
      BY <2>2, <3>1
    <3>5. \A id \in DOMAIN front : /\ front'[id].sh = front[id].sh /\ front'[id].val = front[id].val
                                   /\ front'[id].left = front[id].left /\ AllOf(front'[id]) = AllOf(front[id])
      BY <3>3, <3>4 DEF AllOf
    <3>6. ASSUME NEW id \in DOMAIN H'
          PROVE  /\ id \in DOMAIN front' /\ H'[id].count = Len(front'[id].sh.cells) /\ H'[id].type = front'[id].sh.type
                 /\ front'[id].left = AllOf(front'[id]) \ H'[id].accepted
      <4>1. /\ id \in DOMAIN front /\ H[id].count = Len(front[id].sh.cells) /\ H[id].type = front[id].sh.type
            /\ front[id].left = AllOf(front[id]) \ H[id].accepted
        BY <1>1 DEF FrontInv
      <4>2. H' = H
        BY <1>1
      <4> HIDE DEF H
      <4> QED BY <3>4, <3>5, <4>1, <4>2
    <3>7. ASSUME NEW id \in DOMAIN front' \ DOMAIN H'
          PROVE  \/ front'[id].left = AllOf(front'[id]) /\ front'[id].taken = {}
                 \/ response_delivery_mode_' = "TransactionOnly" /\ front'[id].left = {}
      <4>1. CASE id = x
        BY <1>1, <2>8, <3>4, <3>5, <4>1
      <4>2. CASE id # x
        BY <1>1, <3>4, <4>2 DEF FrontInv
      <4> QED BY <4>1, <4>2
    <3>8. \A u \in Flying' : OfFront(u)'
      BY <1>4, <3>4, <3>5 DEF OfFront, FrontInv
    <3>9. A' = Empty /\ R' = <<>>
      BY <1>1, <2>4
    <3>10. FrontInv'
      BY <3>6, <3>7, <3>8, <3>9, EmptyFacts DEF FrontInv, AllOf
    <3>11. ASSUME NEW n \in 1 .. Len(T')
           PROVE  LET u == T'[n].t
                  IN  /\ u.id \in DOMAIN front' /\ u.count = Len(front'[u.id].sh.cells)
                      /\ u.idx \in AllOf(front'[u.id]) \ (front'[u.id].left \cup front'[u.id].taken)
                      /\ u.id \in DOMAIN H' => u.idx \in {i \in H'[u.id].accepted : <<u.id, i>> \notin All(Holding')}
      <4> DEFINE u == T'[n].t
      <4>1. /\ u.id \in DOMAIN front /\ u.count = Len(front[u.id].sh.cells)
            /\ u.idx \in AllOf(front[u.id]) \ (front[u.id].left \cup front[u.id].taken)
            /\ u.id \in DOMAIN H => u.idx \in Collected(u.id)
            /\ u.id = x => u.idx # r.t.idx
        BY <2>7
      <4> HIDE DEF u
      <4>2. u.id \in DOMAIN H' => u.idx \in {i \in H'[u.id].accepted : <<u.id, i>> \notin All(Holding')}
        BY <1>1, <1>4, <4>1 DEF Collected
      <4>3. u.idx \notin front'[u.id].taken
        <5>1. CASE u.id = x
          BY <3>3, <3>4, <4>1, <5>1
        <5>2. CASE u.id # x
          BY <3>4, <4>1, <5>2
        <5> QED BY <5>1, <5>2
      <4>4. u.id \in DOMAIN front' /\ u.count = Len(front'[u.id].sh.cells)
            /\ u.idx \in AllOf(front'[u.id]) /\ u.idx \notin front'[u.id].left
        BY <3>4, <3>5, <4>1
      <4> QED BY <4>2, <4>3, <4>4 DEF u
    <3>12. ASSUME NEW id \in DOMAIN front'
           PROVE  /\ front'[id].taken \subseteq AllOf(front'[id]) \ front'[id].left
                  /\ id \in DOMAIN H' => front'[id].taken \subseteq {i \in H'[id].accepted : <<id, i>> \notin All(Holding')}
      <4>1. CASE id = x
        <5>1. front'[id].taken = front[x].taken \cup {r.t.idx}
          BY <3>3, <3>4, <4>1
        <5>2. x \in DOMAIN H => Collected(x) = {i \in H'[x].accepted : <<x, i>> \notin All(Holding')}
          BY <1>1, <1>4 DEF Collected
        <5> QED BY <1>1, <2>2, <2>3, <3>5, <4>1, <5>1, <5>2, ZenonT(40)
      <4>2. CASE id # x
        BY <1>1, <1>4, <1>6, <3>4, <4>2 DEF TakenInv, Collected
      <4> QED BY <4>1, <4>2
    <3>13. TakenInv'
      BY <2>6, <3>11, <3>12 DEF TakenInv, Collected, AllOf, T
    <3> QED BY <3>10, <3>13
  <2> QED BY <2>9, <2>10
<1> QED BY <1>5, <1>6

-----------------------------------------------------------------------------
(* Parts of responses.                                                     *)

InAssembly(t) == \E id \in DOMAIN host_assemblies_ : \E k \in DOMAIN host_assemblies_[id] : t = host_assemblies_[id][k].t
InResponse(t) == \E n \in 1 .. Len(host_responses_) :
                    \E k \in DOMAIN host_responses_[n].parts : t = host_responses_[n].parts[k].t

\* What is joined is what was joined before and what is collected.
LEMMA CollectParts ==
  ASSUME TypeInv, NEW c, Collects(c), NEW r, r = Head(controllers_[c].responses), NEW t,
         InAssembly(t)' \/ InResponse(t)'
  PROVE  InAssembly(t) \/ InResponse(t) \/ t = r.t
<1> DEFINE A == host_assemblies_
           R == host_responses_
           P == JoinedParts(r)
           x == r.id
<1>1. CASE ~RetainsHost
  <2>1. A' = A /\ R' = R
    BY <1>1, CollectCases
  <2> QED BY <2>1 DEF InAssembly, InResponse
<1>2. CASE RetainsHost
  <2>1. /\ R \in Seq(HostRsp)
        /\ \/ R' = Append(R, HostResponse(x, P)) /\ A' = Drop(A, x)
           \/ A' = Set(A, x, P) /\ R' = R
    BY <1>2, CollectCases DEF TypeInv
  <2>2. /\ DOMAIN P = DOMAIN OldParts(r) \cup {r.t.idx} /\ P[r.t.idx] = r
        /\ \A k \in DOMAIN OldParts(r) : k # r.t.idx => P[k] = OldParts(r)[k]
    BY CollectFacts
  <2>3. \A k \in DOMAIN OldParts(r) : InAssembly(OldParts(r)[k].t)
    BY EmptyFacts DEF OldParts, InAssembly
  <2> HIDE DEF P, x
  <2>4. \A k \in DOMAIN P : P[k].t = r.t \/ InAssembly(P[k].t)
    <3> SUFFICES ASSUME NEW k \in DOMAIN P PROVE P[k].t = r.t \/ InAssembly(P[k].t)
      OBVIOUS
    <3>1. CASE k = r.t.idx
      BY <2>2, <3>1
    <3>2. CASE k # r.t.idx
      BY <2>2, <2>3, <3>2
    <3> QED BY <3>1, <3>2
  <2>5. CASE A' = Set(A, x, P) /\ R' = R
    <3>1. DOMAIN A' = DOMAIN A \cup {x} /\ A'[x] = P /\ \A id \in DOMAIN A : id # x => A'[id] = A[id]
      BY <2>5 DEF Set
    <3>2. CASE InAssembly(t)'
      <4>1. PICK id \in DOMAIN A' : \E k \in DOMAIN A'[id] : t = A'[id][k].t
        BY <3>2 DEF InAssembly
      <4>2. CASE id = x
        BY <2>4, <3>1, <4>1, <4>2
      <4>3. CASE id # x
        BY <3>1, <4>1, <4>3 DEF InAssembly
      <4> QED BY <4>2, <4>3
    <3>3. CASE InResponse(t)'
      BY <2>5, <3>3 DEF InResponse
    <3> QED BY <3>2, <3>3
  <2>6. CASE R' = Append(R, HostResponse(x, P)) /\ A' = Drop(A, x)
    <3> DEFINE v == HostResponse(x, P)
    <3>1. DOMAIN A' = DOMAIN A \ {x} /\ \A id \in DOMAIN A' : A'[id] = A[id]
      BY <2>6 DEF Drop
    <3>2. v.parts = P
      BY DEF HostResponse
    <3> HIDE DEF v
    <3>3. /\ \A n \in 1 .. Len(R) : R'[n] = R[n]
          /\ \A n \in 1 .. Len(R') : n \in 1 .. Len(R) \/ R'[n] = v
      BY <2>1, <2>6 DEF v
    <3>4. CASE InAssembly(t)'
      BY <3>1, <3>4 DEF InAssembly
    <3>5. CASE InResponse(t)'
      <4>1. PICK n \in 1 .. Len(R') : \E k \in DOMAIN R'[n].parts : t = R'[n].parts[k].t
        BY <3>5 DEF InResponse
      <4>2. CASE n \in 1 .. Len(R)
        BY <3>3, <4>1, <4>2 DEF InResponse
      <4>3. CASE R'[n] = v
        BY <2>4, <3>2, <4>1, <4>3
      <4> QED BY <3>3, <4>2, <4>3
    <3> QED BY <3>4, <3>5
  <2> QED BY <2>1, <2>5, <2>6
<1> QED BY <1>1, <1>2

\* A response is collected for a frontend.
LEMMA FrontCollects ==
  ASSUME TypeInv, TagInv, AssemblyInv, FrontInv, TakenInv, cfg.user = "frontend",
         NEW c, Collects(c), NEW r, r = Head(controllers_[c].responses), CollectTag(r)
  PROVE  FrontInv' /\ TakenInv'
<1> DEFINE H == host_submissions_
           A == host_assemblies_
           R == host_responses_
           T == transaction_responses_
           x == r.id
           k == r.t.idx
<1>1. /\ UNCHANGED <<cfg, response_delivery_mode_, front>> /\ RetainsHost' = RetainsHost
      /\ Flying' \subseteq Flying /\ r.t \in Flying /\ r.t.id = x /\ r \in Resp
  BY FlyingCollect, CollectFacts DEF Collects, RetainsHost
<1>2. /\ x \in DOMAIN H /\ r.t.count = H[x].count
      /\ k \in H[x].accepted /\ k \notin Collected(x)
      /\ \A y \in DOMAIN H : y # x => H'[y] = H[y] /\ Collected(y)' = Collected(y)
      /\ CollectLast(r) \/ CollectSome(r)
  BY DEF CollectTag
<1>3. ASSUME NEW y \in DOMAIN H'
      PROVE  /\ y \in DOMAIN H /\ H'[y].count = H[y].count /\ H'[y].type = H[y].type
             /\ H'[y].accepted = H[y].accepted /\ Collected(y) \subseteq Collected(y)'
             /\ y = x => k \in Collected(y)'
  <2>1. CASE CollectLast(r)
    BY <1>2, <2>1 DEF CollectLast
  <2>2. CASE CollectSome(r)
    <3>1. CASE y = x
      BY <1>2, <2>2, <3>1 DEF CollectSome
    <3>2. CASE y # x
      BY <1>2, <2>2, <3>2 DEF CollectSome
    <3> QED BY <3>1, <3>2
  <2> QED BY <1>2, <2>1, <2>2
<1>4. /\ x \in DOMAIN front /\ H[x].count = Len(front[x].sh.cells)
      /\ front[x].left = AllOf(front[x]) \ H[x].accepted
      /\ H[x].accepted \subseteq Every(x) /\ Collected(x) \subseteq H[x].accepted
      /\ Every(x) = AllOf(front[x])
  BY <1>2, HostFacts DEF FrontInv, Every, AllOf
<1>5. ~RetainsHost => response_delivery_mode_ = "TransactionOnly"
  <2>1. response_delivery_mode_ # "Disabled"
    BY <1>2, EmptyFacts DEF TagInv
  <2> QED BY <2>1 DEF TypeInv, Modes, RetainsHost
<1>6. ASSUME NEW y \in DOMAIN front \ DOMAIN H'
      PROVE  \/ front[y].left = AllOf(front[y]) /\ front[y].taken = {}
             \/ response_delivery_mode_ = "TransactionOnly" /\ front[y].left = {}
  <2>1. CASE y \notin DOMAIN H
    BY <2>1 DEF FrontInv
  <2>2. CASE y \in DOMAIN H
    <3>1. CollectLast(r) /\ y = x
      BY <1>2, <2>2 DEF CollectLast, CollectSome
    <3>2. ~RetainsHost /\ \A i \in Every(x) : i # k => i \in Collected(x)
      BY <3>1 DEF CollectLast
    <3>3. front[x].left = {}
      BY <1>2, <1>4, <3>2
    <3> QED BY <1>5, <3>1, <3>2, <3>3
  <2> QED BY <2>1, <2>2
<1>7. \A t : InAssembly(t) \/ InResponse(t) \/ t \in Flying => OfFront(t)
  BY DEF FrontInv, InAssembly, InResponse
<1>8. \A t : InAssembly(t)' \/ InResponse(t)' => InAssembly(t) \/ InResponse(t) \/ t = r.t
  BY CollectParts
<1>9. \A t : InAssembly(t)' \/ InResponse(t)' \/ t \in Flying' => OfFront(t)'
  BY <1>1, <1>7, <1>8 DEF OfFront
<1>10. FrontInv'
  <2>1. ASSUME NEW y \in DOMAIN H'
        PROVE  /\ y \in DOMAIN front' /\ H'[y].count = Len(front'[y].sh.cells) /\ H'[y].type = front'[y].sh.type
               /\ front'[y].left = AllOf(front'[y]) \ H'[y].accepted
    BY <1>1, <1>3 DEF FrontInv
  <2>2. ASSUME NEW id \in DOMAIN A', NEW i \in DOMAIN A'[id] PROVE OfFront(A[id][i].t)'
    <3>1. PICK u : u = A'[id][i].t
      OBVIOUS
    <3>2. InAssembly(u)'
      BY <2>2, <3>1 DEF InAssembly
    <3>3. OfFront(u)'
      BY <1>9, <3>2
    <3> QED BY <3>1, <3>3 DEF OfFront
  <2>3. ASSUME NEW n \in 1 .. Len(R'), NEW i \in DOMAIN R'[n].parts PROVE OfFront(R[n].parts[i].t)'
    <3>1. PICK u : u = R'[n].parts[i].t
      OBVIOUS
    <3>2. InResponse(u)'
      BY <2>3, <3>1 DEF InResponse
    <3>3. OfFront(u)'
      BY <1>9, <3>2
    <3> QED BY <3>1, <3>3 DEF OfFront
  <2> QED BY <1>1, <1>6, <1>9, <2>1, <2>2, <2>3 DEF FrontInv, AllOf
<1>11. TakenInv'
  <2> SUFFICES ASSUME ~RetainsHost PROVE TakenInv'
    BY <1>1 DEF TakenInv
  <2>1. T' = Append(T, r) /\ T \in Seq(Resp)
    BY <1>5, CollectCases DEF RetainsTransaction, TypeInv
  <2>2. /\ NoDup(TKeys(T))
        /\ \A id \in DOMAIN front : /\ front[id].taken \subseteq AllOf(front[id]) \ front[id].left
                                    /\ id \in DOMAIN H => front[id].taken \subseteq Collected(id)
        /\ \A n \in 1 .. Len(T) :
             /\ T[n].t.id \in DOMAIN front /\ T[n].t.count = Len(front[T[n].t.id].sh.cells)
             /\ T[n].t.idx \in AllOf(front[T[n].t.id]) \ (front[T[n].t.id].left \cup front[T[n].t.id].taken)
             /\ T[n].t.id \in DOMAIN H => T[n].t.idx \in Collected(T[n].t.id)
    BY DEF TakenInv
  <2> DEFINE m == Len(T) + 1
  <2>3. /\ Len(T) \in Nat /\ Len(T') = m /\ T'[m] = r
        /\ \A n \in 1 .. Len(T) : T'[n] = T[n]
        /\ \A n \in 1 .. m : n \in 1 .. Len(T) \/ n = m
    BY <2>1
  <2>4. NoDup(TKeys(T'))
    <3>1. Len(TKeys(T)) = Len(T) /\ \A n \in 1 .. Len(T) : TKeys(T)[n] = Key(T[n].t)
      BY <2>3 DEF TKeys
    <3>2. Len(TKeys(T')) = m /\ \A n \in 1 .. m : TKeys(T')[n] = Key(T'[n].t)
      BY <2>3 DEF TKeys
    <3>3. \A n \in 1 .. Len(T) : Key(T[n].t) # Key(r.t)
      <4> SUFFICES ASSUME NEW n \in 1 .. Len(T), Key(T[n].t) = Key(r.t) PROVE FALSE
        OBVIOUS
      <4>1. T[n].t.id = x /\ T[n].t.idx = k
        BY <1>1 DEF Key
      <4> QED BY <1>2, <2>2, <4>1
    <3> SUFFICES ASSUME NEW i \in 1 .. m, NEW j \in 1 .. m, i # j PROVE TKeys(T')[i] # TKeys(T')[j]
      BY <3>2 DEF NoDup
    <3> HIDE DEF m
    <3>4. CASE i \in 1 .. Len(T) /\ j \in 1 .. Len(T)
      <4>1. TKeys(T)[i] # TKeys(T)[j]
        BY <2>2, <3>1, <3>4 DEF NoDup
      <4> QED BY <2>3, <3>1, <3>2, <3>4, <4>1
    <3>5. CASE i = m /\ j \in 1 .. Len(T)
      BY <2>3, <3>2, <3>3, <3>5
    <3>6. CASE i \in 1 .. Len(T) /\ j = m
      BY <2>3, <3>2, <3>3, <3>6
    <3> QED BY <2>3, <3>4, <3>5, <3>6
  <2>5. ASSUME NEW n \in 1 .. Len(T')
        PROVE  LET u == T'[n].t
               IN  /\ u.id \in DOMAIN front' /\ u.count = Len(front'[u.id].sh.cells)
                   /\ u.idx \in AllOf(front'[u.id]) \ (front'[u.id].left \cup front'[u.id].taken)
                   /\ u.id \in DOMAIN H' => u.idx \in {i \in H'[u.id].accepted : <<u.id, i>> \notin All(Holding')}
    <3> DEFINE u == T'[n].t
    <3>1. /\ u.id \in DOMAIN front /\ u.count = Len(front[u.id].sh.cells)
          /\ u.idx \in AllOf(front[u.id]) \ (front[u.id].left \cup front[u.id].taken)
          /\ u.id \in DOMAIN H => u.idx \in Collected(u.id) \/ (u.id = x /\ u.idx = k)
      <4>1. CASE n \in 1 .. Len(T)
        BY <2>2, <2>3, <4>1
      <4>2. CASE n = m
        <5>1. u = r.t
          BY <2>3, <4>2
        <5> HIDE DEF u
        <5>2. front[x].taken \subseteq Collected(x)
          BY <1>2, <1>4, <2>2
        <5>3. /\ u.id = x /\ u.idx = k /\ u.count = H[x].count
          BY <1>1, <1>2, <5>1
        <5>4. k \in AllOf(front[x]) \ (front[x].left \cup front[x].taken)
          <6>1. k \in H[x].accepted /\ k \notin front[x].taken
            BY <1>2, <5>2
          <6>2. k \in AllOf(front[x]) /\ k \notin front[x].left
            BY <1>4, <6>1
          <6> QED BY <6>1, <6>2
        <5> HIDE DEF x, k, H
        <5> QED BY <1>4, <5>3, <5>4
      <4> QED BY <2>3, <4>1, <4>2
    <3> HIDE DEF u
    <3>2. ASSUME u.id \in DOMAIN H' PROVE u.idx \in {i \in H'[u.id].accepted : <<u.id, i>> \notin All(Holding')}
      <4>1. u.id \in DOMAIN H /\ Collected(u.id) \subseteq {i \in H'[u.id].accepted : <<u.id, i>> \notin All(Holding')}
            /\ (u.id = x => k \in {i \in H'[u.id].accepted : <<u.id, i>> \notin All(Holding')})
        BY <1>3, <3>2 DEF Collected
      <4> QED BY <3>1, <4>1
    <3> QED BY <1>1, <3>1, <3>2 DEF u
  <2>6. ASSUME NEW id \in DOMAIN front'
        PROVE  /\ front'[id].taken \subseteq AllOf(front'[id]) \ front'[id].left
               /\ id \in DOMAIN H' => front'[id].taken \subseteq {i \in H'[id].accepted : <<id, i>> \notin All(Holding')}
    <3>1. id \in DOMAIN H' => Collected(id) \subseteq {i \in H'[id].accepted : <<id, i>> \notin All(Holding')}
      BY <1>3 DEF Collected
    <3>2. id \in DOMAIN H' => id \in DOMAIN H
      BY <1>3
    <3> QED BY <1>1, <2>2, <3>1, <3>2
  <2> QED BY <2>4, <2>5, <2>6 DEF TakenInv, Collected, AllOf
<1> QED BY <1>10, <1>11

-----------------------------------------------------------------------------
(* What tick does to what is on its way.                                   *)

TickMoves ==
    /\ UNCHANGED <<cfg, response_delivery_mode_, next_system_sequence_, host_submissions_, outVars, fatal,
                   userVars, bridgeVars>>
    /\ Flying' \subseteq Flying /\ All(Holding') = All(Holding)

TickCollects(c, r) ==
    /\ Collects(c) /\ r = Head(controllers_[c].responses) /\ CollectTag(r)
    /\ r \in Resp /\ r.t \in Flying /\ r.t.id = r.id /\ Flying' \subseteq Flying
    /\ UNCHANGED <<cfg, response_delivery_mode_, next_system_sequence_, fatal, userVars, bridgeVars>>

\* A step of tick moves a transaction or collects a response.
LEMMA TickFacts ==
  ASSUME TypeInv, TypeInv', UserInv, ChainInv, PlaceInv, TagInv, AssemblyInv, cfg.user # "batch", TickStep
  PROVE  TickMoves \/ \E c, r : TickCollects(c, r)
<1>1. CASE MovesOn
  <2>1. UNCHANGED <<cfg, response_delivery_mode_, queueVars, controllers_, outVars, fatal, userVars, bridgeVars>>
    BY <1>1 DEF MovesOn
  <2>2. Flying' = Flying /\ Holding' = Holding
    BY <2>1, QuietSpots
  <2> QED BY <2>1, <2>2 DEF TickMoves
<1>2. ASSUME NEW s, NEW i, NEW c, DispatchTakes(s, i, c) PROVE TickMoves
  <2>1. PICK x, z, k : x # z /\ Cuts(x, k) /\ Puts(z, k) /\ SameBut({x, z})
    BY <1>2, DispatchSpots
  <2>2. All(Holding') = All(Holding)
    BY <2>1, HoldingMove
  <2>3. Flying' \subseteq Flying
    BY <1>2, FlyingDispatch
  <2> QED BY <1>2, <2>2, <2>3 DEF TickMoves, DispatchTakes
<1>3. ASSUME NEW c, NEW i, NEW status, ControllerAnswers(c, i, status) PROVE TickMoves
  <2>1. PICK x, z, k : x # z /\ Cuts(x, k) /\ Puts(z, k) /\ SameBut({x, z})
    BY <1>3, AnswerSpots
  <2>2. All(Holding') = All(Holding)
    BY <2>1, HoldingMove
  <2>3. Flying' \subseteq Flying
    BY <1>3, FlyingAnswer
  <2> QED BY <1>3, <2>2, <2>3 DEF TickMoves, ControllerAnswers
<1>4. ASSUME NEW c, Collects(c) PROVE \E r : TickCollects(c, r)
  <2> DEFINE r == Head(controllers_[c].responses)
             k == Key(r.t)
  <2>1. PICK x : Cuts(x, k) /\ SameBut({x})
    BY <1>4, CollectSpots
  <2>2. r \in Resp /\ r.t \in Flying /\ r.t.id = r.id /\ Flying' \subseteq Flying
    BY <1>4, FlyingCollect, CollectFacts
  <2> HIDE DEF k, r
  <2>3. All(Holding') = All(Holding) \ {k} /\ k \in All(Holding)
    BY <2>1, HoldingTake
  <2>4. CollectTag(r)
    BY <1>4, <2>3, CollectTagFacts DEF r, k
  <2>5. fatal' = fatal
    BY <1>4, CollectsQuietly
  <2>6. TickCollects(c, r)
    BY <1>4, <2>2, <2>4, <2>5 DEF TickCollects, Collects, r
  <2> QED BY <2>6
<1> QED BY <1>1, <1>2, <1>3, <1>4 DEF TickStep

\* Every step keeps what a frontend relies on, and raises no exception.
LEMMA FrontStep ==
  ASSUME TypeInv, TypeInv', AtInv, UserInv, RoomInv, WantInv, ChainInv, PlaceInv, TagInv, AssemblyInv,
         FrontInv, TakenInv, ~fatal, Next
  PROVE  FrontInv' /\ TakenInv' /\ (cfg.user # "bridge" => ~fatal')
<1>0. /\ cfg' = cfg /\ cfg.user \in {"bridge", "frontend", "batch"} /\ fatal \in BOOLEAN
      /\ FrontendStep \/ TickStep \/ BridgeNext
  <2>1. Effect
    BY Effects
  <2>2. cfg' = cfg
    BY <2>1 DEF Effect, Quiet, Popped, Submitted, BatchEnqueued, DispatchTakes, ControllerAnswers, Collects
  <2> QED BY <2>2, NextCases, ConfigFacts DEF TypeInv
<1>1. CASE cfg.user = "bridge"
  BY <1>0, <1>1 DEF FrontInv, TakenInv
<1>2. CASE cfg.user = "batch"
  <2>1. FrontInv' /\ TakenInv'
    BY <1>0, <1>2 DEF FrontInv, TakenInv
  <2>2. ~fatal'
    <3>1. CASE FrontendStep
      BY <1>2, <3>1 DEF FrontendStep, FrontendBegins, FrontendSubmits, FrontendPops, FrontendPopsTransaction
    <3>2. CASE TickStep
      <4>1. ASSUME NEW c, Collects(c) PROVE ~fatal'
        BY <4>1, CollectsQuietly
      <4>2. CASE MovesOn
        BY <4>2 DEF MovesOn
      <4>3. CASE (\E s, i, c : DispatchTakes(s, i, c)) \/ \E c, i, status : ControllerAnswers(c, i, status)
        BY <4>3 DEF DispatchTakes, ControllerAnswers
      <4> QED BY <3>2, <4>1, <4>2, <4>3 DEF TickStep
    <3>3. ~BridgeNext
      BY <1>2 DEF BridgeNext, TargetSends, TargetTakes, BridgeTurn, BridgePops, BridgeReturns, Bridge
    <3> QED BY <1>0, <3>1, <3>2, <3>3
  <2> QED BY <2>1, <2>2
<1>3. CASE cfg.user = "frontend"
  <2>1. CASE FrontendStep
    <3>1. ASSUME NEW tag \in cfg.tags, NEW sh \in cfg.shapes, FrontendBegins(tag, sh)
          PROVE  FrontInv' /\ TakenInv' /\ ~fatal'
      <4>1. FrontInv' /\ TakenInv'
        BY <1>3, <3>1, FrontBegins
      <4> QED BY <3>1, <4>1 DEF FrontendBegins
    <3>2. ASSUME NEW tag \in DOMAIN front, NEW k \in front[tag].left, FrontendSubmits(tag, k)
          PROVE  FrontInv' /\ TakenInv' /\ ~fatal'
      BY <1>3, <3>2, FrontSubmits
    <3>3. CASE FrontendPops
      <4>1. FrontInv' /\ TakenInv'
        BY <3>3, FrontPops
      <4> QED BY <3>3, <4>1 DEF FrontendPops
    <3>4. CASE FrontendPopsTransaction
      <4>1. FrontInv' /\ TakenInv'
        BY <1>3, <3>4, FrontTakes
      <4> QED BY <3>4, <4>1 DEF FrontendPopsTransaction
    <3> QED BY <2>1, <3>1, <3>2, <3>3, <3>4 DEF FrontendStep
  <2>2. CASE TickStep
    <3>1. CASE TickMoves
      <4>1. ModeStep
        BY <3>1 DEF TickMoves, ModeStep
      <4>2. FrontInv' /\ TakenInv'
        BY <1>3, <3>1, <4>1, FrontKept DEF TickMoves
      <4> QED BY <3>1, <4>2 DEF TickMoves
    <3>2. ASSUME NEW c, NEW r, TickCollects(c, r) PROVE FrontInv' /\ TakenInv' /\ ~fatal'
      <4>1. FrontInv' /\ TakenInv'
        BY <1>3, <3>2, FrontCollects DEF TickCollects
      <4> QED BY <3>2, <4>1 DEF TickCollects
    <3> QED BY <1>3, <2>2, <3>1, <3>2, TickFacts
  <2>3. ~BridgeNext
    BY <1>3 DEF BridgeNext, TargetSends, TargetTakes, BridgeTurn, BridgePops, BridgeReturns, Bridge
  <2> QED BY <1>0, <2>1, <2>2, <2>3
<1> QED BY <1>0, <1>1, <1>2, <1>3
=============================================================================
