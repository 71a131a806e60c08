------------------------------ MODULE CreditLoop ------------------------------
(***************************************************************************)
(* The credit loop of one direction of the bridge protocol: the            *)
(* tx_available side of the sender's CreditManager, the rx_pending_return  *)
(* side of the receiver's, and what is in flight between them.  A credit   *)
(* stands for one 5-byte granule of the receiver's buffer for a resource   *)
(* plane and a message kind.                                               *)
(*                                                                         *)
(* The direction towards AouTarget carries WREQ, RREQ and WDATA, the one   *)
(* towards FlitUnpacker RDATA and WRESP; a kind the receiver does not      *)
(* accept has capacity 0.  The order of flits does not matter here, so     *)
(* messages in flight, messages in a buffer and grants in flight are the   *)
(* granules they stand for; which message of the buffer is freed first is  *)
(* left open.                                                              *)
(***************************************************************************)
EXTENDS Naturals, FiniteSets

CONSTANTS
    RpCount,      \* rp_count_: resource planes in use
    Kinds,        \* message kinds of this direction
    NarrowKinds,  \* kinds whose credit field has 2 bits (WRESP)
    Capacity,     \* rx_capacity_, a function of plane and kind
    MsgGranules   \* the sizes a message of a kind may have

Planes == 0 .. (RpCount - 1)

CREDIT_COUNTER_MAX == 4095

ASSUME CreditAssumption ==
    /\ RpCount \in Nat \ {0}
    /\ NarrowKinds \subseteq Kinds
    /\ Capacity \in [Planes -> [Kinds -> 0 .. CREDIT_COUNTER_MAX]]
    /\ MsgGranules \in [Kinds -> SUBSET (Nat \ {0})]

VARIABLES
    published,       \* publish_initial_capacity has run
    tx_available,    \* sender: granted and not consumed
    carrying,        \* granules of messages packed and not yet received
    held,            \* granules in the receiver's buffers
    pending,         \* receiver: rx_pending_return, freed and not granted
    granting,        \* granules in grants on their way to the sender
    next_header_rp   \* receiver: where the next header grant starts looking

vars == <<published, tx_available, carrying, held, pending, granting,
          next_header_rp>>

Matrix == [Planes -> [Kinds -> Nat]]

Zero == [p \in Planes |-> [k \in Kinds |-> 0]]

-----------------------------------------------------------------------------
(* Credit encodings.                                                       *)

\* decode_credit_encoding
Decode(enc) == CASE enc = 0 -> 0  [] enc = 1 -> 1  [] enc = 2 -> 4
                 [] enc = 3 -> 8  [] enc = 4 -> 16 [] enc = 5 -> 32
                 [] enc = 6 -> 64 [] enc = 7 -> 128

MaxEncoding(k) == IF k \in NarrowKinds THEN 3 ELSE 7

GrantSizes(k) == {Decode(enc) : enc \in 1 .. MaxEncoding(k)}

\* encode_credit_amount: the largest encoding that does not exceed amount.
Encode(amount, max) ==
    CHOOSE enc \in 0 .. max :
      /\ Decode(enc) <= amount
      /\ \A e \in 0 .. max : Decode(e) <= amount => e <= enc

\* What take_encoded takes out of rx_pending_return_[p][k].
Grant(p, k) == Decode(Encode(pending[p][k], MaxEncoding(k)))

-----------------------------------------------------------------------------
(* CreditManager of the receiver.                                          *)

Init ==
    /\ published = FALSE
    /\ tx_available = Zero /\ carrying = Zero /\ held = Zero
    /\ pending = Zero /\ granting = Zero
    /\ next_header_rp = 0

\* publish_initial_capacity, when reset is released.
PublishInitialCapacity ==
    /\ ~published
    /\ published' = TRUE
    /\ pending' = Capacity
    /\ UNCHANGED <<tx_available, carrying, held, granting, next_header_rp>>

HasPending(p) == \E k \in Kinds : pending[p][k] # 0

\* next_header_rp_, next_header_rp_ + 1, ... modulo rp_count_: the first
\* plane with something pending.
Distance(p) == (p + RpCount - next_header_rp) % RpCount

HeaderPlane(p) ==
    /\ HasPending(p)
    /\ \A q \in Planes : HasPending(q) => Distance(p) <= Distance(q)

\* Variant: the search always starts at plane 0.
TakeHeaderGrantFirst ==
    \E p \in Planes :
      /\ HasPending(p)
      /\ \A q \in Planes : HasPending(q) => p <= q
      /\ pending' = [pending EXCEPT ![p] =
                       [k \in Kinds |-> pending[p][k] - Grant(p, k)]]
      /\ granting' = [granting EXCEPT ![p] =
                       [k \in Kinds |-> granting[p][k] + Grant(p, k)]]
      /\ UNCHANGED <<published, tx_available, carrying, held, next_header_rp>>

\* take_header_grant: the header of a flit has room for one plane.
TakeHeaderGrant ==
    \E p \in Planes :
      /\ HeaderPlane(p)
      /\ pending' = [pending EXCEPT ![p] =
                       [k \in Kinds |-> pending[p][k] - Grant(p, k)]]
      /\ granting' = [granting EXCEPT ![p] =
                       [k \in Kinds |-> granting[p][k] + Grant(p, k)]]
      /\ next_header_rp' = (p + 1) % RpCount
      /\ UNCHANGED <<published, tx_available, carrying, held>>

\* take_misc_grants: a dedicated CrdtGrant message covers every plane.  It is
\* sent when something is pending.
TakeMiscGrants ==
    /\ \E p \in Planes : HasPending(p)
    /\ pending' = [p \in Planes |-> [k \in Kinds |-> pending[p][k] - Grant(p, k)]]
    /\ granting' = [p \in Planes |-> [k \in Kinds |-> granting[p][k] + Grant(p, k)]]
    /\ UNCHANGED <<published, tx_available, carrying, held, next_header_rp>>

AtMost(bound, n) == IF n <= bound THEN n ELSE bound

\* Variant: the freed granules overwrite what was still pending.
ReturnRxCreditOverwrite(p, k, n) ==
    /\ n \in MsgGranules[k] /\ n <= held[p][k]
    /\ held' = [held EXCEPT ![p][k] = held[p][k] - n]
    /\ pending' = [pending EXCEPT ![p][k] = AtMost(Capacity[p][k], n)]
    /\ UNCHANGED <<published, tx_available, carrying, granting, next_header_rp>>

\* return_rx_credit: a message of n granules leaves the receive buffer (AXI
\* handshake of R or B in Axi2Flit; assemble and submit in AouTarget).
ReturnRxCredit(p, k, n) ==
    /\ n \in MsgGranules[k] /\ n <= held[p][k]
    /\ held' = [held EXCEPT ![p][k] = held[p][k] - n]
    /\ pending' = [pending EXCEPT ![p][k] =
                     AtMost(Capacity[p][k], pending[p][k] + n)]
    /\ UNCHANGED <<published, tx_available, carrying, granting, next_header_rp>>

-----------------------------------------------------------------------------
(* CreditManager of the sender, and the flits between the two.             *)

\* add_tx_credit: one field of a flit header or of a CrdtGrant arrives.
AddTxCredit(p, k, n) ==
    /\ n \in GrantSizes(k) /\ n <= granting[p][k]
    /\ granting' = [granting EXCEPT ![p][k] = granting[p][k] - n]
    /\ tx_available' = [tx_available EXCEPT ![p][k] =
                          AtMost(CREDIT_COUNTER_MAX, tx_available[p][k] + n)]
    /\ UNCHANGED <<published, carrying, held, pending, next_header_rp>>

\* Variant: only a non-zero balance is required.
CanConsumeAny(p, k, n) == tx_available[p][k] > 0

CanConsume(p, k, n) == tx_available[p][k] >= n

\* consume: the whole message is paid for when it is packed, even if it is
\* spread over two flits.
Consume(p, k, n) ==
    /\ n \in MsgGranules[k]
    /\ CanConsume(p, k, n)
    /\ tx_available' = [tx_available EXCEPT ![p][k] =
                          IF n <= tx_available[p][k] THEN tx_available[p][k] - n ELSE 0]
    /\ carrying' = [carrying EXCEPT ![p][k] = carrying[p][k] + n]
    /\ UNCHANGED <<published, held, pending, granting, next_header_rp>>

\* The last fragment of a message is unpacked into the receive buffer.
Receive(p, k, n) ==
    /\ n \in MsgGranules[k] /\ n <= carrying[p][k]
    /\ carrying' = [carrying EXCEPT ![p][k] = carrying[p][k] - n]
    /\ held' = [held EXCEPT ![p][k] = held[p][k] + n]
    /\ UNCHANGED <<published, tx_available, pending, granting, next_header_rp>>

-----------------------------------------------------------------------------
Next ==
    \/ PublishInitialCapacity
    \/ TakeHeaderGrant
    \/ TakeMiscGrants
    \/ \E p \in Planes, k \in Kinds :
         \/ \E n \in MsgGranules[k] :
              \/ ReturnRxCredit(p, k, n)
              \/ Consume(p, k, n)
              \/ Receive(p, k, n)
         \/ \E n \in GrantSizes(k) : AddTxCredit(p, k, n)

SafeSpec == Init /\ [][Next]_vars

\* The receiver's clocked thread takes a header grant whenever the link has
\* room (AouTarget::transmit runs on every clock edge), flits and grants in
\* flight arrive, and a buffered message is freed after some time.  Nothing
\* is assumed of the sender, nor of dedicated CrdtGrant messages.
Fairness ==
    /\ WF_vars(PublishInitialCapacity)
    /\ WF_vars(TakeHeaderGrant)
    /\ \A p \in Planes, k \in Kinds :
         /\ WF_vars(\E n \in GrantSizes(k) : AddTxCredit(p, k, n))
         /\ WF_vars(\E n \in MsgGranules[k] : Receive(p, k, n))
         /\ WF_vars(\E n \in MsgGranules[k] : ReturnRxCredit(p, k, n))

Spec == SafeSpec /\ Fairness

-----------------------------------------------------------------------------
(* Properties.                                                             *)

TypeOK ==
    /\ published \in BOOLEAN
    /\ tx_available \in Matrix /\ carrying \in Matrix /\ held \in Matrix
    /\ pending \in Matrix /\ granting \in Matrix
    /\ next_header_rp \in Planes

\* Where the granules of a plane and kind are.
Total(p, k) ==
    tx_available[p][k] + carrying[p][k] + held[p][k] + pending[p][k] + granting[p][k]

\* No granule is lost or created: once published, the capacity of a plane and
\* kind is split between the sender's balance, messages in flight, the
\* receive buffer, credits waiting to be granted and grants in flight.  In
\* particular neither saturating minimum of CreditManager ever discards a
\* credit, which would shrink the loop for good without any error.
Conservation ==
    \A p \in Planes, k \in Kinds :
      Total(p, k) = IF published THEN Capacity[p][k] ELSE 0

\* Every message on its way will find room: the capacity checks of
\* AouTarget::receive never fail and FlitUnpacker never waits for a receive
\* FIFO.  (The assertion in CreditManager::consume never fails either.)
RoomForAll ==
    \A p \in Planes, k \in Kinds : carrying[p][k] + held[p][k] <= Capacity[p][k]

\* No starvation: every plane and kind with room for a message again and
\* again has the credit for it, although a header serves one plane only, a
\* grant is rounded down to an encodable amount, and no dedicated grant need
\* ever be sent.
CreditComesBack ==
    \A p \in Planes, k \in Kinds : \A n \in MsgGranules[k] :
      n <= Capacity[p][k] => []<>CanConsume(p, k, n)
=============================================================================
