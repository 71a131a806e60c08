--------------------------- MODULE CreditLoopProofs ---------------------------
(***************************************************************************)
(* TypeOK /\ Conservation is inductive: the sum of the five places a       *)
(* credit may be is what bounds every counter, so neither minimum of       *)
(* CreditManager bites, and no other strengthening is needed.              *)
(***************************************************************************)
EXTENDS CreditLoop, Integers, TLAPS

Inv == TypeOK /\ Conservation

\* The table of decode_credit_encoding.
LEMMA DecodeFacts ==
    ASSUME NEW enc \in 0 .. 7
    PROVE  /\ Decode(enc) \in Nat
           /\ Decode(0) = 0
           /\ Decode(1) = 1
  BY DEF Decode

\* encode_credit_amount never overstates the amount, and never returns
\* nothing for something: a grant is between 1 and what is pending.
LEMMA EncodeFacts ==
    ASSUME NEW amount \in Nat, NEW max \in {3, 7}
    PROVE  /\ Encode(amount, max) \in 0 .. max
           /\ Decode(Encode(amount, max)) \in Nat
           /\ Decode(Encode(amount, max)) <= amount
           /\ amount > 0 => Decode(Encode(amount, max)) > 0
  <1> DEFINE P(enc) == /\ Decode(enc) <= amount
                       /\ \A e \in 0 .. max : Decode(e) <= amount => e <= enc
  <1>1. \A e \in 0 .. max : e \in 0 .. 7 /\ Decode(e) \in Nat
    BY DecodeFacts
  <1>2. \E enc \in 0 .. max : P(enc)
    <2> DEFINE Q(e) == Decode(e) <= amount
    <2>1. Q(0)
      BY DecodeFacts
    <2>2. CASE max = 3
      <3>1. CASE Q(3)
        BY <2>2, <3>1
      <3>2. CASE ~Q(3) /\ Q(2)
        BY <2>2, <3>2
      <3>3. CASE ~Q(3) /\ ~Q(2) /\ Q(1)
        BY <2>2, <3>3
      <3>4. CASE ~Q(3) /\ ~Q(2) /\ ~Q(1)
        BY <2>1, <2>2, <3>4
      <3> QED
        BY <3>1, <3>2, <3>3, <3>4
    <2>3. CASE max = 7
      <3>1. CASE Q(7)
        BY <2>3, <3>1
      <3>2. CASE ~Q(7) /\ Q(6)
        BY <2>3, <3>2
      <3>3. CASE ~Q(7) /\ ~Q(6) /\ Q(5)
        BY <2>3, <3>3
      <3>4. CASE ~Q(7) /\ ~Q(6) /\ ~Q(5) /\ Q(4)
        BY <2>3, <3>4
      <3>5. CASE ~Q(7) /\ ~Q(6) /\ ~Q(5) /\ ~Q(4) /\ Q(3)
        BY <2>3, <3>5
      <3>6. CASE ~Q(7) /\ ~Q(6) /\ ~Q(5) /\ ~Q(4) /\ ~Q(3) /\ Q(2)
        BY <2>3, <3>6
      <3>7. CASE ~Q(7) /\ ~Q(6) /\ ~Q(5) /\ ~Q(4) /\ ~Q(3) /\ ~Q(2) /\ Q(1)
        BY <2>3, <3>7
      <3>8. CASE ~Q(7) /\ ~Q(6) /\ ~Q(5) /\ ~Q(4) /\ ~Q(3) /\ ~Q(2) /\ ~Q(1)
        BY <2>1, <2>3, <3>8
      <3> QED
        BY <3>1, <3>2, <3>3, <3>4, <3>5, <3>6, <3>7, <3>8
    <2> QED
      BY <2>2, <2>3
  <1>3. Encode(amount, max) \in 0 .. max /\ P(Encode(amount, max))
    BY <1>2 DEF Encode
  <1>4. ASSUME amount > 0, Decode(Encode(amount, max)) = 0
        PROVE  FALSE
    <2>1. 1 \in 0 .. max /\ Decode(1) = 1
      BY DecodeFacts
    <2>2. 1 <= Encode(amount, max)
      BY <1>3, <1>4, <2>1
    <2>3. \A e \in 1 .. 7 : Decode(e) > 0
      BY DEF Decode
    <2> QED
      BY <1>3, <1>4, <2>2, <2>3
  <1> QED
    BY <1>1, <1>3, <1>4

\* What take_encoded takes is there to be taken.
LEMMA GrantFacts ==
    ASSUME TypeOK, NEW p \in Planes, NEW k \in Kinds
    PROVE  /\ Grant(p, k) \in Nat
           /\ Grant(p, k) <= pending[p][k]
           /\ pending[p][k] > 0 => Grant(p, k) > 0
  <1>1. pending[p][k] \in Nat /\ MaxEncoding(k) \in {3, 7}
    BY DEF TypeOK, Matrix, MaxEncoding
  <1> QED
    BY <1>1, EncodeFacts DEF Grant

\* Nothing published, nothing anywhere.
LEMMA InitInv == Init => Inv
  <1> SUFFICES ASSUME Init PROVE Inv
    OBVIOUS
  <1>1. Zero \in Matrix
    BY DEF Zero, Matrix
  <1>2. 0 \in Planes
    BY CreditAssumption DEF Planes
  <1>3. TypeOK
    BY <1>1, <1>2 DEF Init, TypeOK
  <1>4. \A p \in Planes, k \in Kinds : Total(p, k) = 0
    BY DEF Init, Total, Zero
  <1>5. Conservation
    BY <1>4 DEF Init, Conservation
  <1> QED
    BY <1>3, <1>5 DEF Inv

\* A sum of naturals bounds its parts.
LEMMA SumFacts ==
    ASSUME NEW a \in Nat, NEW b \in Nat, NEW c \in Nat, NEW d \in Nat,
           NEW e \in Nat, NEW s \in Nat, a + b + c + d + e <= s
    PROVE  a + e <= s /\ b + c <= s /\ c + d <= s
  OBVIOUS

\* The counters are naturals.
LEMMA Numbers ==
    ASSUME TypeOK, NEW p \in Planes, NEW k \in Kinds
    PROVE  /\ tx_available[p][k] \in Nat /\ carrying[p][k] \in Nat
           /\ held[p][k] \in Nat /\ pending[p][k] \in Nat
           /\ granting[p][k] \in Nat
  BY DEF TypeOK, Matrix

\* A step that keeps the totals keeps Conservation.
LEMMA SameTotals ==
    ASSUME Conservation, published' = published,
           \A p \in Planes, k \in Kinds : Total(p, k)' = Total(p, k)
    PROVE  Conservation'
  BY DEF Conservation

\* The whole capacity becomes pending, once.
LEMMA PublishInv == Inv /\ PublishInitialCapacity => Inv'
  <1> SUFFICES ASSUME Inv, PublishInitialCapacity PROVE Inv'
    OBVIOUS
  <1>1. Capacity \in Matrix
    BY CreditAssumption DEF Matrix
  <1>2. TypeOK'
    BY <1>1 DEF Inv, TypeOK, PublishInitialCapacity
  <1>3. ASSUME NEW p \in Planes, NEW k \in Kinds
        PROVE  Total(p, k)' = Capacity[p][k]
    <2>1. Total(p, k) = 0
      BY DEF Inv, Conservation, PublishInitialCapacity
    <2>2. /\ tx_available[p][k] \in Nat /\ carrying[p][k] \in Nat
          /\ held[p][k] \in Nat /\ pending[p][k] \in Nat
          /\ granting[p][k] \in Nat /\ Capacity[p][k] \in Nat
      BY <1>1 DEF Inv, TypeOK, Matrix
    <2>3. /\ tx_available[p][k] = 0 /\ carrying[p][k] = 0 /\ held[p][k] = 0
          /\ granting[p][k] = 0
      <3>1. tx_available[p][k] + carrying[p][k] + held[p][k] + pending[p][k]
              + granting[p][k] <= 0
        BY <2>1 DEF Total
      <3> QED
        BY <2>2, <3>1, SumFacts
    <2> QED
      BY <2>2, <2>3 DEF Total, PublishInitialCapacity
  <1>4. Conservation'
    BY <1>3 DEF Conservation, PublishInitialCapacity
  <1> QED
    BY <1>2, <1>4 DEF Inv

\* A header grant moves credits of one plane from pending to granting.
LEMMA HeaderGrantInv == Inv /\ TakeHeaderGrant => Inv'
  <1> SUFFICES ASSUME Inv, TakeHeaderGrant PROVE Inv'
    OBVIOUS
  <1>1. PICK q \in Planes :
          /\ pending' = [pending EXCEPT ![q] =
                           [k \in Kinds |-> pending[q][k] - Grant(q, k)]]
          /\ granting' = [granting EXCEPT ![q] =
                           [k \in Kinds |-> granting[q][k] + Grant(q, k)]]
          /\ next_header_rp' = (q + 1) % RpCount
          /\ UNCHANGED <<published, tx_available, carrying, held>>
    BY DEF TakeHeaderGrant
  <1>2. \A k \in Kinds : Grant(q, k) \in Nat /\ Grant(q, k) <= pending[q][k]
    BY GrantFacts DEF Inv
  <1>3. pending' \in Matrix /\ granting' \in Matrix
    BY <1>1, <1>2 DEF Inv, TypeOK, Matrix
  <1>4. next_header_rp' \in Planes
    <2>1. q + 1 \in Int /\ RpCount \in Nat /\ RpCount > 0
      BY CreditAssumption DEF Planes
    <2>2. (q + 1) % RpCount \in 0 .. (RpCount - 1)
      BY <2>1
    <2> QED
      BY <1>1, <2>2 DEF Planes
  <1>5. TypeOK'
    BY <1>1, <1>3, <1>4 DEF Inv, TypeOK
  <1>6. ASSUME NEW p \in Planes, NEW k \in Kinds
        PROVE  Total(p, k)' = Total(p, k)
    <2>1. pending'[p][k] + granting'[p][k] = pending[p][k] + granting[p][k]
      BY <1>1, <1>2 DEF Inv, TypeOK, Matrix
    <2>2. /\ tx_available[p][k] \in Nat /\ carrying[p][k] \in Nat
          /\ held[p][k] \in Nat /\ pending[p][k] \in Nat
          /\ granting[p][k] \in Nat
      BY Numbers DEF Inv
    <2>3. /\ tx_available'[p][k] \in Nat /\ carrying'[p][k] \in Nat
          /\ held'[p][k] \in Nat /\ pending'[p][k] \in Nat
          /\ granting'[p][k] \in Nat
      BY <1>5 DEF TypeOK, Matrix
    <2> QED
      BY <1>1, <2>1, <2>2, <2>3 DEF Total
  <1>7. Conservation'
    BY <1>1, <1>6, SameTotals DEF Inv
  <1> QED
    BY <1>5, <1>7 DEF Inv

\* A dedicated grant does so for every plane.
LEMMA MiscGrantsInv == Inv /\ TakeMiscGrants => Inv'
  <1> SUFFICES ASSUME Inv, TakeMiscGrants PROVE Inv'
    OBVIOUS
  <1>1. \A p \in Planes, k \in Kinds :
          Grant(p, k) \in Nat /\ Grant(p, k) <= pending[p][k]
    BY GrantFacts DEF Inv
  <1>2. pending' \in Matrix /\ granting' \in Matrix
    BY <1>1 DEF Inv, TypeOK, Matrix, TakeMiscGrants
  <1>3. TypeOK'
    BY <1>2 DEF Inv, TypeOK, TakeMiscGrants
  <1>4. ASSUME NEW p \in Planes, NEW k \in Kinds
        PROVE  Total(p, k)' = Total(p, k)
    <2>1. pending'[p][k] + granting'[p][k] = pending[p][k] + granting[p][k]
      BY <1>1 DEF Inv, TypeOK, Matrix, TakeMiscGrants
    <2>2. /\ tx_available[p][k] \in Nat /\ carrying[p][k] \in Nat
          /\ held[p][k] \in Nat /\ pending[p][k] \in Nat
          /\ granting[p][k] \in Nat
      BY Numbers DEF Inv
    <2>3. /\ tx_available'[p][k] \in Nat /\ carrying'[p][k] \in Nat
          /\ held'[p][k] \in Nat /\ pending'[p][k] \in Nat
          /\ granting'[p][k] \in Nat
      BY <1>3 DEF TypeOK, Matrix
    <2>4. UNCHANGED <<tx_available, carrying, held>>
      BY DEF TakeMiscGrants
    <2> QED
      BY <2>1, <2>2, <2>3, <2>4 DEF Total
  <1>5. Conservation'
    BY <1>4, SameTotals DEF Inv, TakeMiscGrants
  <1> QED
    BY <1>3, <1>5 DEF Inv

\* Every place holds at most the capacity, and the capacity fits the counter.
LEMMA Bounds ==
    ASSUME Inv, NEW p \in Planes, NEW k \in Kinds
    PROVE  /\ tx_available[p][k] \in Nat /\ carrying[p][k] \in Nat
           /\ held[p][k] \in Nat /\ pending[p][k] \in Nat
           /\ granting[p][k] \in Nat /\ Capacity[p][k] \in Nat
           /\ Capacity[p][k] <= CREDIT_COUNTER_MAX /\ CREDIT_COUNTER_MAX \in Nat
           /\ tx_available[p][k] + granting[p][k] <= Capacity[p][k]
           /\ carrying[p][k] + held[p][k] <= Capacity[p][k]
           /\ held[p][k] + pending[p][k] <= Capacity[p][k]
  <1>1. /\ tx_available[p][k] \in Nat /\ carrying[p][k] \in Nat
        /\ held[p][k] \in Nat /\ pending[p][k] \in Nat
        /\ granting[p][k] \in Nat
    BY DEF Inv, TypeOK, Matrix
  <1>2. /\ CREDIT_COUNTER_MAX \in Nat
        /\ Capacity[p][k] \in 0 .. CREDIT_COUNTER_MAX
    <2>1. CREDIT_COUNTER_MAX \in Nat
      BY DEF CREDIT_COUNTER_MAX
    <2> QED
      BY <2>1, CreditAssumption
  <1>3. Total(p, k) = Capacity[p][k] \/ Total(p, k) = 0
    BY DEF Inv, Conservation
  <1>4. /\ Capacity[p][k] \in Nat /\ Capacity[p][k] <= CREDIT_COUNTER_MAX
        /\ 0 <= Capacity[p][k] /\ Capacity[p][k] <= Capacity[p][k]
    BY <1>2
  <1>5. tx_available[p][k] + carrying[p][k] + held[p][k] + pending[p][k]
          + granting[p][k] <= Capacity[p][k]
    BY <1>3, <1>4, Zenon DEF Total
  <1> QED
    BY <1>1, <1>2, <1>4, <1>5, SumFacts

\* A freed message moves from held to pending; the minimum does not bite.
LEMMA ReturnInv ==
    ASSUME Inv, NEW p \in Planes, NEW k \in Kinds, NEW n \in MsgGranules[k],
           ReturnRxCredit(p, k, n)
    PROVE  Inv'
  <1>1. n \in Nat /\ n <= held[p][k]
    BY CreditAssumption DEF ReturnRxCredit
  <1>2. AtMost(Capacity[p][k], pending[p][k] + n) = pending[p][k] + n
    <2>1. /\ held[p][k] \in Nat /\ pending[p][k] \in Nat /\ Capacity[p][k] \in Nat
          /\ held[p][k] + pending[p][k] <= Capacity[p][k]
      BY Bounds
    <2>2. pending[p][k] + n <= Capacity[p][k]
      BY <1>1, <2>1
    <2> QED
      BY <2>2 DEF AtMost
  <1>3. /\ held' = [held EXCEPT ![p][k] = held[p][k] - n]
        /\ pending' = [pending EXCEPT ![p][k] = pending[p][k] + n]
        /\ UNCHANGED <<published, tx_available, carrying, granting, next_header_rp>>
    BY <1>2 DEF ReturnRxCredit
  <1>4. held[p][k] - n \in Nat /\ pending[p][k] + n \in Nat
    BY <1>1, Bounds
  <1>5. TypeOK'
    BY <1>3, <1>4 DEF Inv, TypeOK, Matrix
  <1>6. ASSUME NEW q \in Planes, NEW j \in Kinds
        PROVE  Total(q, j)' = Total(q, j)
    <2>1. held'[q][j] + pending'[q][j] = held[q][j] + pending[q][j]
      BY <1>1, <1>3, <1>4 DEF Inv, TypeOK, Matrix
    <2>2. /\ tx_available[q][j] \in Nat /\ carrying[q][j] \in Nat
          /\ held[q][j] \in Nat /\ pending[q][j] \in Nat
          /\ granting[q][j] \in Nat
      BY Numbers DEF Inv
    <2>3. /\ tx_available'[q][j] \in Nat /\ carrying'[q][j] \in Nat
          /\ held'[q][j] \in Nat /\ pending'[q][j] \in Nat
          /\ granting'[q][j] \in Nat
      BY <1>5 DEF TypeOK, Matrix
    <2> QED
      BY <1>3, <2>1, <2>2, <2>3 DEF Total
  <1>7. Conservation'
    BY <1>3, <1>6, SameTotals DEF Inv
  <1> QED
    BY <1>5, <1>7 DEF Inv

\* A grant arrives; the 12-bit counter does not saturate.
LEMMA AddInv ==
    ASSUME Inv, NEW p \in Planes, NEW k \in Kinds, NEW n \in GrantSizes(k),
           AddTxCredit(p, k, n)
    PROVE  Inv'
  <1>1. n \in Nat /\ n <= granting[p][k]
    <2>1. MaxEncoding(k) \in {3, 7}
      BY DEF MaxEncoding
    <2>2. \A enc \in 1 .. MaxEncoding(k) : Decode(enc) \in Nat
      BY <2>1, DecodeFacts
    <2> QED
      BY <2>2 DEF AddTxCredit, GrantSizes
  <1>2. AtMost(CREDIT_COUNTER_MAX, tx_available[p][k] + n) = tx_available[p][k] + n
    <2>1. /\ tx_available[p][k] \in Nat /\ granting[p][k] \in Nat
          /\ Capacity[p][k] \in Nat
          /\ Capacity[p][k] <= CREDIT_COUNTER_MAX /\ CREDIT_COUNTER_MAX \in Nat
          /\ tx_available[p][k] + granting[p][k] <= Capacity[p][k]
      BY Bounds
    <2>2. tx_available[p][k] + n <= CREDIT_COUNTER_MAX
      BY <1>1, <2>1
    <2> QED
      BY <2>2 DEF AtMost
  <1>3. /\ granting' = [granting EXCEPT ![p][k] = granting[p][k] - n]
        /\ tx_available' = [tx_available EXCEPT ![p][k] = tx_available[p][k] + n]
        /\ UNCHANGED <<published, carrying, held, pending, next_header_rp>>
    BY <1>2 DEF AddTxCredit
  <1>4. granting[p][k] - n \in Nat /\ tx_available[p][k] + n \in Nat
    BY <1>1, Bounds
  <1>5. TypeOK'
    BY <1>3, <1>4 DEF Inv, TypeOK, Matrix
  <1>6. ASSUME NEW q \in Planes, NEW j \in Kinds
        PROVE  Total(q, j)' = Total(q, j)
    <2>1. tx_available'[q][j] + granting'[q][j] = tx_available[q][j] + granting[q][j]
      BY <1>1, <1>3, <1>4 DEF Inv, TypeOK, Matrix
    <2>2. /\ tx_available[q][j] \in Nat /\ carrying[q][j] \in Nat
          /\ held[q][j] \in Nat /\ pending[q][j] \in Nat
          /\ granting[q][j] \in Nat
      BY Numbers DEF Inv
    <2>3. /\ tx_available'[q][j] \in Nat /\ carrying'[q][j] \in Nat
          /\ held'[q][j] \in Nat /\ pending'[q][j] \in Nat
          /\ granting'[q][j] \in Nat
      BY <1>5 DEF TypeOK, Matrix
    <2> QED
      BY <1>3, <2>1, <2>2, <2>3 DEF Total
  <1>7. Conservation'
    BY <1>3, <1>6, SameTotals DEF Inv
  <1> QED
    BY <1>5, <1>7 DEF Inv

\* A message is paid for in full.
LEMMA ConsumeInv ==
    ASSUME Inv, NEW p \in Planes, NEW k \in Kinds, NEW n \in MsgGranules[k],
           Consume(p, k, n)
    PROVE  Inv'
  <1>1. n \in Nat /\ n <= tx_available[p][k]
    BY CreditAssumption, Bounds DEF Consume, CanConsume
  <1>2. /\ tx_available' = [tx_available EXCEPT ![p][k] = tx_available[p][k] - n]
        /\ carrying' = [carrying EXCEPT ![p][k] = carrying[p][k] + n]
        /\ UNCHANGED <<published, held, pending, granting, next_header_rp>>
    BY <1>1 DEF Consume
  <1>3. tx_available[p][k] - n \in Nat /\ carrying[p][k] + n \in Nat
    BY <1>1, Bounds
  <1>4. TypeOK'
    BY <1>2, <1>3 DEF Inv, TypeOK, Matrix
  <1>5. ASSUME NEW q \in Planes, NEW j \in Kinds
        PROVE  Total(q, j)' = Total(q, j)
    <2>1. tx_available'[q][j] + carrying'[q][j] = tx_available[q][j] + carrying[q][j]
      BY <1>1, <1>2, <1>3 DEF Inv, TypeOK, Matrix
    <2>2. /\ tx_available[q][j] \in Nat /\ carrying[q][j] \in Nat
          /\ held[q][j] \in Nat /\ pending[q][j] \in Nat
          /\ granting[q][j] \in Nat
      BY Numbers DEF Inv
    <2>3. /\ tx_available'[q][j] \in Nat /\ carrying'[q][j] \in Nat
          /\ held'[q][j] \in Nat /\ pending'[q][j] \in Nat
          /\ granting'[q][j] \in Nat
      BY <1>4 DEF TypeOK, Matrix
    <2> QED
      BY <1>2, <2>1, <2>2, <2>3 DEF Total
  <1>6. Conservation'
    BY <1>2, <1>5, SameTotals DEF Inv
  <1> QED
    BY <1>4, <1>6 DEF Inv

\* A message moves into the receive buffer.
LEMMA ReceiveInv ==
    ASSUME Inv, NEW p \in Planes, NEW k \in Kinds, NEW n \in MsgGranules[k],
           Receive(p, k, n)
    PROVE  Inv'
  <1>1. n \in Nat /\ n <= carrying[p][k]
    BY CreditAssumption DEF Receive
  <1>2. /\ carrying' = [carrying EXCEPT ![p][k] = carrying[p][k] - n]
        /\ held' = [held EXCEPT ![p][k] = held[p][k] + n]
        /\ UNCHANGED <<published, tx_available, pending, granting, next_header_rp>>
    BY DEF Receive
  <1>3. carrying[p][k] - n \in Nat /\ held[p][k] + n \in Nat
    BY <1>1, Bounds
  <1>4. TypeOK'
    BY <1>2, <1>3 DEF Inv, TypeOK, Matrix
  <1>5. ASSUME NEW q \in Planes, NEW j \in Kinds
        PROVE  Total(q, j)' = Total(q, j)
    <2>1. carrying'[q][j] + held'[q][j] = carrying[q][j] + held[q][j]
      BY <1>1, <1>2, <1>3 DEF Inv, TypeOK, Matrix
    <2>2. /\ tx_available[q][j] \in Nat /\ carrying[q][j] \in Nat
          /\ held[q][j] \in Nat /\ pending[q][j] \in Nat
          /\ granting[q][j] \in Nat
      BY Numbers DEF Inv
    <2>3. /\ tx_available'[q][j] \in Nat /\ carrying'[q][j] \in Nat
          /\ held'[q][j] \in Nat /\ pending'[q][j] \in Nat
          /\ granting'[q][j] \in Nat
      BY <1>4 DEF TypeOK, Matrix
    <2>4. /\ tx_available'[q][j] = tx_available[q][j]
          /\ pending'[q][j] = pending[q][j] /\ granting'[q][j] = granting[q][j]
      BY <1>2
    <2> QED
      BY <2>1, <2>2, <2>3, <2>4 DEF Total
  <1>6. Conservation'
    BY <1>2, <1>5, SameTotals DEF Inv
  <1> QED
    BY <1>4, <1>6 DEF Inv

-----------------------------------------------------------------------------
\* The invariant holds for every number of planes, every capacity that fits
\* the 12-bit counters and every set of message sizes.
THEOREM InvHolds == SafeSpec => []Inv
  <1>1. Inv /\ [Next]_vars => Inv'
    <2> SUFFICES ASSUME Inv, [Next]_vars PROVE Inv'
      OBVIOUS
    <2>1. CASE PublishInitialCapacity
      BY <2>1, PublishInv
    <2>2. CASE TakeHeaderGrant
      BY <2>2, HeaderGrantInv
    <2>3. CASE TakeMiscGrants
      BY <2>3, MiscGrantsInv
    <2>4. ASSUME NEW p \in Planes, NEW k \in Kinds, NEW n \in MsgGranules[k],
                 ReturnRxCredit(p, k, n) \/ Consume(p, k, n) \/ Receive(p, k, n)
          PROVE  Inv'
      BY <2>4, ReturnInv, ConsumeInv, ReceiveInv
    <2>5. ASSUME NEW p \in Planes, NEW k \in Kinds, NEW n \in GrantSizes(k),
                 AddTxCredit(p, k, n)
          PROVE  Inv'
      BY <2>5, AddInv
    <2>6. CASE UNCHANGED vars
      BY <2>6 DEF Inv, TypeOK, Conservation, Total, vars
    <2> QED
      BY <2>1, <2>2, <2>3, <2>4, <2>5, <2>6 DEF Next
  <1> QED
    BY InitInv, <1>1, PTL DEF SafeSpec

\* Every counter stays a natural number: no grant and no consumption takes
\* more than there is (the counters of the code are unsigned).
THEOREM TypeCorrect == SafeSpec => []TypeOK
  <1>1. Inv => TypeOK
    BY DEF Inv
  <1> QED
    BY <1>1, InvHolds, PTL

\* Credits are conserved: no sequence of grants, partial encodings, returns
\* and saturating additions of CreditManager loses or creates one.
THEOREM CreditsConserved == SafeSpec => []Conservation
  <1>1. Inv => Conservation
    BY DEF Inv
  <1> QED
    BY <1>1, InvHolds, PTL

\* A sender that pays before it packs never overruns a receive buffer.
THEOREM NeverOverrun == SafeSpec => []RoomForAll
  <1>1. Inv => RoomForAll
    <2> SUFFICES ASSUME Inv, NEW p \in Planes, NEW k \in Kinds
                 PROVE  carrying[p][k] + held[p][k] <= Capacity[p][k]
      BY DEF RoomForAll
    <2> QED
      BY Bounds
  <1> QED
    BY <1>1, InvHolds, PTL
=============================================================================
