-------------------------- MODULE FlitStreamProofs --------------------------
(***************************************************************************)
(* The stream of granules is read by a cursor.  Its position says which    *)
(* message is unfinished and how many messages of every kind and plane     *)
(* were finished; CellStep says which granule may come next.  The flits on *)
(* their way, from the position of the target on, lead to the position of  *)
(* the packer, and the granules packed so far to that of the packer's      *)
(* spill and queues.                                                       *)
(***************************************************************************)
EXTENDS FlitStream, SequenceLemmas

(***************************************************************************)
(* Messages, granules and positions.                                       *)
(***************************************************************************)
Msgs   == [kind : KindSet, rp : Planes, id : Nat]
Grants == [kind : {"MISC"}, rp : {0}, id : Nat]
AnyMsg == Msgs \cup Grants

Cell    == {x \in [msg : AnyMsg, offset : Nat] : x.offset < Size(x.msg)}
MsgCell == {x \in [msg : Msgs, offset : Nat] : x.offset < Size(x.msg)}

Cursor == {NoSpill} \cup {c \in [msg : AnyMsg, done : Nat] : 0 < c.done /\ c.done < Size(c.msg)}
Counts == [KindSet -> [Planes -> Nat]]
Pos    == [cur : Cursor, next : Counts]

\* Where the cursor is after a granule.
AfterCell(x) == IF x.offset + 1 = Size(x.msg) THEN NoSpill ELSE [msg |-> x.msg, done |-> x.offset + 1]

\* The granule is the next one of the unfinished message, or starts one.
Continues(cur, x) == IF cur = NoSpill THEN x.offset = 0 ELSE x = Granule(cur.msg, cur.done)

\* The message is the next one of its kind and plane.
Due(next, msg) == msg.kind \in KindSet => msg.id = next[msg.kind][msg.rp]

Counted(next, msg) == IF msg.kind \in KindSet THEN [next EXCEPT ![msg.kind][msg.rp] = @ + 1] ELSE next

CellStep ==
    {t \in Pos \X Cell \X Pos :
       /\ Continues(t[1].cur, t[2]) /\ Due(t[1].next, t[2].msg)
       /\ t[3].cur = AfterCell(t[2])
       /\ t[3].next = IF t[2].offset + 1 = Size(t[2].msg) THEN Counted(t[1].next, t[2].msg) ELSE t[1].next}

Flit == [granules : Seq(Cell), msg_credit : Nat]

\* A message is cut only at the end of a full flit.
FlitStep ==
    {t \in Pos \X Flit \X Pos :
       /\ Len(t[2].granules) <= GranuleCount
       /\ Leads(t[2].granules, CellStep, t[1], t[3])
       /\ t[3].cur # NoSpill => Len(t[2].granules) = GranuleCount}

\* The first n granules of a message.
Cells(msg, n) == [i \in 1 .. n |-> Granule(msg, i - 1)]

CarryOf(cur) == IF cur = NoSpill THEN <<>> ELSE Cells(cur.msg, cur.done)

\* Whole messages, as the decoder finds them.
MsgStep ==
    {t \in Counts \X Seq(Cell) \X Counts :
       \E msg \in AnyMsg : /\ t[2] = Cells(msg, Size(msg)) /\ Due(t[1], msg)
                           /\ t[3] = Counted(t[1], msg)}

-----------------------------------------------------------------------------
(* Sums of credit.                                                         *)

GrantStep == {t \in Nat \X Cell \X Nat : t[3] = AddGrant(t[1], t[2])}

\* Sizes of messages.
LEMMA SizeFacts ==
  ASSUME NEW msg \in AnyMsg
  PROVE  Size(msg) \in 1 .. GranuleCount /\ Size(msg) \in Nat \ {0} /\ GranuleCount \in Nat \ {0}
         /\ Size(msg) <= GranuleCount
BY StreamAssumption DEF AnyMsg, Msgs, Grants, Size, KindSet

\* A granule adds a natural to the credit.
LEMMA AddGrantType ==
  ASSUME NEW x \in Cell, NEW n \in Nat
  PROVE  AddGrant(n, x) \in Nat
BY DEF AddGrant, Cell, AnyMsg, Msgs, Grants

\* CreditOf reads the granules from left to right.
LEMMA CreditFold ==
  ASSUME NEW f \in Flit
  PROVE  CreditOf(f) \in Nat /\ Leads(f.granules, GrantStep, f.msg_credit, CreditOf(f))
<1> DEFINE s == f.granules
           a == f.msg_credit
           n == Len(s)
           h == [i \in 1 .. n |-> [t \in Nat |-> AddGrant(t, s[i])]]
           Eq(it) == it = [z \in SUBSET DOMAIN s |->
                             IF z = {} THEN a ELSE AddGrant(it[z \ {Max(z)}], s[Max(z)])]
           it == CHOOSE g : Eq(g)
<1>1. s \in Seq(Cell) /\ a \in Nat /\ n \in Nat /\ DOMAIN s = 1 .. n
  BY DEF Flit
<1> HIDE DEF s, a
<1>2. \A i \in 1 .. n : s[i] \in Cell
  BY <1>1
<1>3. h \in [1 .. n -> [Nat -> Nat]]
  BY <1>2, AddGrantType
<1> HIDE DEF n
<1>4. \A i \in 1 .. n : \A t \in Nat : h[i][t] = AddGrant(t, s[i])
  OBVIOUS
<1> HIDE DEF h
<1>i. PICK g \in [SUBSET (1 .. n) -> Nat] : IsIter(g, n, a, h)
  BY <1>1, <1>3, FoldIter
<1>5. /\ g[{}] = a
      /\ \A z \in SUBSET (1 .. n) : z # {} => g[z] = h[Max(z)][g[z \ {Max(z)}]]
  BY <1>i, Zenon DEF IsIter
<1>6. ASSUME NEW z \in SUBSET (1 .. n), z # {} PROVE g[z] = AddGrant(g[z \ {Max(z)}], s[Max(z)])
  <2>1. Max(z) \in 1 .. n /\ z \ {Max(z)} \in SUBSET (1 .. n)
    BY <1>1, <1>6, MaxFacts
  <2>2. g[z \ {Max(z)}] \in Nat
    BY <2>1
  <2> QED BY <1>4, <1>5, <1>6, <2>1, <2>2
<1>7. Eq(g)
  BY <1>1, <1>5, <1>6
<1>8. Eq(it)
  <2> HIDE DEF Eq
  <2> QED BY <1>7
<1>9. CreditOf(f) = it[DOMAIN s]
  BY DEF CreditOf, FoldLeft, MapThenFoldSet, s, a
<1> HIDE DEF it
<1> DEFINE c == [i \in 0 .. n |-> it[1 .. i]]
<1>10. it[{}] = a /\ \A z \in SUBSET (1 .. n) : z # {} => it[z] = AddGrant(it[z \ {Max(z)}], s[Max(z)])
  BY <1>1, <1>8
<1>11. c[0] = a /\ \A i \in 1 .. n : c[i] = AddGrant(c[i - 1], s[i])
  <2>1. c[0] = a
    BY <1>1, <1>10
  <2>2. ASSUME NEW i \in 1 .. n PROVE c[i] = AddGrant(c[i - 1], s[i])
    <3>1. /\ 1 .. i \in SUBSET (1 .. n) /\ 1 .. i # {} /\ Max(1 .. i) = i
          /\ (1 .. i) \ {i} = 1 .. (i - 1)
      BY <1>1, IntervalParts
    <3>2. i \in 0 .. n /\ i - 1 \in 0 .. n
      BY <1>1
    <3>3. c[i] = it[1 .. i] /\ c[i - 1] = it[1 .. (i - 1)]
      BY <3>2
    <3> QED BY <3>1, <3>3, <1>10
  <2> QED BY <2>1, <2>2
<1>12. c[n] = it[DOMAIN s] /\ c = [i \in 0 .. n |-> c[i]]
  BY <1>1
<1> HIDE DEF c, Eq
<1>13. \A i \in 0 .. n : c[i] \in Nat
  <2>1. \A i \in 1 .. n : c[i - 1] \in Nat => c[i] \in Nat
    BY <1>2, <1>11, AddGrantType
  <2> QED BY <2>1, <1>1, <1>11, Along, Zenon
<1>14. ASSUME NEW i \in 1 .. n PROVE <<c[i - 1], s[i], c[i]>> \in GrantStep
  <2>1. c[i - 1] \in Nat /\ c[i] \in Nat /\ s[i] \in Cell /\ c[i] = AddGrant(c[i - 1], s[i])
    BY <1>1, <1>2, <1>11, <1>13
  <2> QED BY <2>1 DEF GrantStep
<1>15. IsPath(c, s, GrantStep)
  BY <1>12, <1>14 DEF IsPath, n
<1>16. Leads(s, GrantStep, a, CreditOf(f))
  BY <1>9, <1>11, <1>12, <1>15 DEF Leads, n
<1>17. CreditOf(f) \in Nat
  BY <1>1, <1>9, <1>12, <1>13
<1> QED BY <1>16, <1>17 DEF s, a

\* A flit without CrdtGrants grants what its header says.
LEMMA CreditPlain ==
  ASSUME NEW f \in Flit, f.granules \in Seq(MsgCell)
  PROVE  CreditOf(f) = f.msg_credit
<1> DEFINE s == f.granules
           a == f.msg_credit
<1>1. s \in Seq(MsgCell) /\ a \in Nat /\ Leads(s, GrantStep, a, CreditOf(f)) /\ Len(s) \in Nat
  BY CreditFold DEF Flit
<1> HIDE DEF s, a
<1>2. PICK c : IsPath(c, s, GrantStep) /\ c[0] = a /\ c[Len(s)] = CreditOf(f)
  BY <1>1 DEF Leads
<1>3. ASSUME NEW i \in 1 .. Len(s), c[i - 1] \in {a} PROVE c[i] \in {a}
  <2>0. s[i] \in MsgCell
    BY <1>1
  <2>1. <<c[i - 1], s[i], c[i]>> \in GrantStep
    BY <1>2 DEF IsPath
  <2>2. c[i] = AddGrant(c[i - 1], s[i]) /\ s[i].msg.kind # "MISC"
    BY <2>0, <2>1 DEF GrantStep, MsgCell, Msgs, KindSet
  <2> QED BY <1>1, <1>3, <2>2 DEF AddGrant
<1> DEFINE T == {a}
<1>4. c[0] \in T /\ \A i \in 1 .. Len(s) : c[i - 1] \in T => c[i] \in T
  BY <1>2, <1>3
<1> HIDE DEF T
<1>5. \A i \in 0 .. Len(s) : c[i] \in T
  BY <1>1, <1>4, Along
<1>6. Len(s) \in 0 .. Len(s)
  BY <1>1
<1> QED BY <1>2, <1>5, <1>6 DEF a, T

\* The cells of a message.
LEMMA CellsFacts ==
  ASSUME NEW msg \in AnyMsg, NEW n \in 0 .. Size(msg)
  PROVE  /\ Cells(msg, n) \in Seq(Cell) /\ Len(Cells(msg, n)) = n
         /\ \A i \in 1 .. n : Cells(msg, n)[i] = Granule(msg, i - 1) /\ Cells(msg, n)[i].msg = msg
                               /\ Cells(msg, n)[i].offset = i - 1
<1>1. Size(msg) \in Nat
  BY SizeFacts
<1>2. \A i \in 1 .. n : Granule(msg, i - 1) \in Cell
  BY <1>1 DEF Granule, Cell
<1>3. \A i \in 1 .. n : Granule(msg, i - 1).msg = msg /\ Granule(msg, i - 1).offset = i - 1
  BY DEF Granule
<1> QED BY <1>1, <1>2, <1>3 DEF Cells

\* A CrdtGrant of n grants n.
LEMMA CreditGrant ==
  ASSUME NEW n \in Nat,
         NEW f, f = [granules |-> Cells(CrdtGrant(n), Size(CrdtGrant(n))), msg_credit |-> 0]
  PROVE  f \in Flit /\ CreditOf(f) = n
<1> DEFINE msg == CrdtGrant(n)
           s == f.granules
<1>1. msg \in AnyMsg /\ msg.kind = "MISC" /\ msg.id = n
  BY DEF CrdtGrant, Message, AnyMsg, Grants
<1>2. Size(msg) \in Nat \ {0}
  BY <1>1, SizeFacts
<1> HIDE DEF msg
<1>3. /\ s \in Seq(Cell) /\ Len(s) = Size(msg)
      /\ \A i \in 1 .. Size(msg) : s[i].msg = msg /\ s[i].offset = i - 1
  BY <1>1, <1>2, CellsFacts DEF msg
<1>4. f \in Flit
  BY <1>3 DEF Flit
<1>5. Leads(s, GrantStep, 0, CreditOf(f))
  BY <1>4, CreditFold
<1> HIDE DEF s
<1>6. PICK c : IsPath(c, s, GrantStep) /\ c[0] = 0 /\ c[Len(s)] = CreditOf(f)
  BY <1>5 DEF Leads
<1>7. ASSUME NEW i \in 1 .. Size(msg) PROVE c[i] = IF i = 1 THEN c[i - 1] + n ELSE c[i - 1] + 0
  <2>1. <<c[i - 1], s[i], c[i]>> \in GrantStep
    BY <1>3, <1>6 DEF IsPath
  <2>2. c[i] = AddGrant(c[i - 1], s[i])
    BY <2>1 DEF GrantStep
  <2>3. s[i].msg.kind = "MISC" /\ s[i].msg.id = n /\ (s[i].offset = 0 <=> i = 1)
    BY <1>1, <1>3
  <2> QED BY <2>2, <2>3 DEF AddGrant
<1>8. c[1] = n
  <2>1. 1 \in 1 .. Size(msg) /\ 1 - 1 = 0
    BY <1>2
  <2> QED BY <2>1, <1>6, <1>7
<1> DEFINE T == {n}
           e == [i \in 0 .. (Size(msg) - 1) |-> c[i + 1]]
<1>9. ASSUME NEW i \in 1 .. (Size(msg) - 1), e[i - 1] \in T PROVE e[i] \in T
  <2>1. i + 1 \in 1 .. Size(msg) /\ i + 1 # 1 /\ i - 1 \in 0 .. (Size(msg) - 1) /\ i \in 0 .. (Size(msg) - 1)
        /\ (i + 1) - 1 = i /\ (i - 1) + 1 = i
    BY <1>2
  <2>2. e[i - 1] = c[i] /\ e[i] = c[i + 1]
    BY <2>1
  <2>3. c[i + 1] = c[i] + 0
    BY <2>1, <1>7
  <2> QED BY <1>9, <2>2, <2>3
<1>10. e[0] \in T /\ \A i \in 1 .. (Size(msg) - 1) : e[i - 1] \in T => e[i] \in T
  <2>1. 0 \in 0 .. (Size(msg) - 1) /\ 0 + 1 = 1
    BY <1>2
  <2>2. e[0] = c[1]
    BY <2>1
  <2> QED BY <2>2, <1>8, <1>9
<1>11. Size(msg) - 1 \in Nat /\ Size(msg) - 1 \in 0 .. (Size(msg) - 1) /\ (Size(msg) - 1) + 1 = Size(msg)
  BY <1>2
<1>12. e[Size(msg) - 1] = c[Size(msg)]
  BY <1>11
<1> HIDE DEF e, T
<1>13. \A i \in 0 .. (Size(msg) - 1) : e[i] \in T
  BY <1>10, <1>11, Along
<1> QED BY <1>3, <1>4, <1>6, <1>11, <1>12, <1>13 DEF T

-----------------------------------------------------------------------------
(* What receive stores.                                                    *)

Stores == [KindSet -> [Planes -> Seq(Msgs)]]

\* The stores hold the messages counted, each in its place.
Intact(d, v) ==
    /\ d \in Stores /\ v \in Counts
    /\ \A k \in KindSet, rp \in Planes :
         /\ Len(d[k][rp]) = v[k][rp]
         /\ \A i \in 1 .. Len(d[k][rp]) : d[k][rp][i] = Message(k, rp, i - 1)

\* A whole message is decoded as what it is.
LEMMA WholeDecoded ==
  ASSUME NEW msg \in AnyMsg
  PROVE  Cells(msg, Size(msg))[1].msg = msg /\ Decoded(Cells(msg, Size(msg))) = msg
<1> DEFINE g == Cells(msg, Size(msg))
<1>1. Size(msg) \in Nat \ {0} /\ Size(msg) \in 0 .. Size(msg) /\ 1 \in 1 .. Size(msg)
  BY SizeFacts
<1>2. /\ Len(g) = Size(msg)
      /\ \A i \in 1 .. Size(msg) : g[i] = Granule(msg, i - 1) /\ g[i].msg = msg
  BY <1>1, CellsFacts
<1> HIDE DEF g
<1>3. g[1].msg = msg
  BY <1>1, <1>2
<1>4. Whole(g)
  BY <1>2, <1>3 DEF Whole
<1> QED BY <1>3, <1>4 DEF Decoded, g

\* A message of a kind and plane goes to their store.
LEMMA StoredWhole ==
  ASSUME NEW d \in Stores, NEW msg \in AnyMsg
  PROVE  LET g == Cells(msg, Size(msg))
         IN  /\ Stored(d, g) \in Stores
             /\ msg.kind \notin KindSet => Stored(d, g) = d
             /\ msg.kind \in KindSet =>
                  /\ msg \in Msgs
                  /\ Stored(d, g) = [d EXCEPT ![msg.kind] = [d[msg.kind] EXCEPT ![msg.rp] = Append(d[msg.kind][msg.rp], msg)]]
<1> DEFINE g == Cells(msg, Size(msg))
<1>1. g[1].msg = msg /\ Decoded(g) = msg
  BY WholeDecoded
<1> HIDE DEF g
<1>2. msg.kind \in KindSet => msg \in Msgs /\ msg.rp \in Planes
  BY DEF AnyMsg, Msgs, Grants, KindSet
<1>3. CASE msg.kind \notin KindSet
  BY <1>1, <1>3 DEF Stored, g
<1>4. CASE msg.kind \in KindSet
  <2>1. Stored(d, g) = [d EXCEPT ![msg.kind] = [d[msg.kind] EXCEPT ![msg.rp] = Append(d[msg.kind][msg.rp], msg)]]
    BY <1>1, <1>2, <1>4 DEF Stored, Stores
  <2>2. Append(d[msg.kind][msg.rp], msg) \in Seq(Msgs) /\ d[msg.kind] \in [Planes -> Seq(Msgs)]
    BY <1>2, <1>4 DEF Stores
  <2>3. [d[msg.kind] EXCEPT ![msg.rp] = Append(d[msg.kind][msg.rp], msg)] \in [Planes -> Seq(Msgs)]
    BY <2>2
  <2>4. Stored(d, g) \in Stores
    BY <2>1, <2>3 DEF Stores
  <2> QED BY <1>2, <1>4, <2>1, <2>4 DEF g
<1> QED BY <1>3, <1>4

\* Storing the message that is due keeps the stores intact.
LEMMA StoredOne ==
  ASSUME NEW d, NEW v, NEW g, NEW w, Intact(d, v), <<v, g, w>> \in MsgStep
  PROVE  Intact(Stored(d, g), w)
<1>1. PICK msg \in AnyMsg : g = Cells(msg, Size(msg)) /\ Due(v, msg) /\ w = Counted(v, msg)
  BY DEF MsgStep
<1>2. d \in Stores /\ v \in Counts
  BY DEF Intact
<1>3. CASE msg.kind \notin KindSet
  <2>1. Stored(d, g) = d /\ w = v
    BY <1>1, <1>2, <1>3, StoredWhole DEF Counted
  <2> QED BY <2>1
<1>4. CASE msg.kind \in KindSet
  <2> DEFINE k0 == msg.kind
             r0 == msg.rp
             q == Append(d[k0][r0], msg)
             e == Stored(d, g)
  <2>1. /\ e \in Stores /\ msg \in Msgs
        /\ e = [d EXCEPT ![k0] = [d[k0] EXCEPT ![r0] = q]]
    BY <1>1, <1>2, <1>4, StoredWhole
  <2>2. k0 \in KindSet /\ r0 \in Planes /\ msg = Message(k0, r0, msg.id) /\ msg.id \in Nat
    BY <2>1 DEF Msgs, Message
  <2>3. w = [v EXCEPT ![k0] = [v[k0] EXCEPT ![r0] = v[k0][r0] + 1]] /\ msg.id = v[k0][r0] /\ v[k0][r0] \in Nat
    BY <1>1, <1>2, <2>2 DEF Counted, Due, Counts
  <2>4. w \in Counts
    BY <1>2, <2>2, <2>3 DEF Counts
  <2>5. /\ d[k0][r0] \in Seq(Msgs) /\ Len(d[k0][r0]) = v[k0][r0]
        /\ \A i \in 1 .. Len(d[k0][r0]) : d[k0][r0][i] = Message(k0, r0, i - 1)
    BY <1>2, <2>2 DEF Intact, Stores
  <2>6. /\ Len(q) = v[k0][r0] + 1 /\ q[v[k0][r0] + 1] = msg
        /\ \A i \in 1 .. v[k0][r0] : q[i] = d[k0][r0][i]
    BY <2>1, <2>5
  <2> HIDE DEF q
  <2>7. ASSUME NEW k \in KindSet, NEW rp \in Planes
        PROVE  /\ Len(e[k][rp]) = w[k][rp]
               /\ \A i \in 1 .. Len(e[k][rp]) : e[k][rp][i] = Message(k, rp, i - 1)
    <3>1. CASE k = k0 /\ rp = r0
      <4>1. e[k][rp] = q /\ w[k][rp] = v[k0][r0] + 1
        BY <1>2, <2>1, <2>2, <2>3, <3>1 DEF Stores, Counts
      <4>2. ASSUME NEW i \in 1 .. Len(q) PROVE q[i] = Message(k, rp, i - 1)
        <5>1. CASE i = v[k0][r0] + 1
          <6>1. i - 1 = v[k0][r0]
            BY <5>1, <2>3
          <6> QED BY <6>1, <5>1, <2>2, <2>3, <2>6, <3>1
        <5>2. CASE i # v[k0][r0] + 1
          <6>1. i \in 1 .. v[k0][r0]
            BY <5>2, <2>3, <2>6
          <6> QED BY <6>1, <2>5, <2>6, <3>1
        <5> QED BY <5>1, <5>2
      <4> QED BY <4>1, <4>2, <2>6
    <3>2. CASE ~(k = k0 /\ rp = r0)
      <4>1. e[k][rp] = d[k][rp] /\ w[k][rp] = v[k][rp]
        <5>1. CASE k # k0
          BY <1>2, <2>1, <2>2, <2>3, <5>1 DEF Stores, Counts
        <5>2. CASE k = k0 /\ rp # r0
          BY <1>2, <2>1, <2>2, <2>3, <5>2 DEF Stores, Counts
        <5> QED BY <3>2, <5>1, <5>2
      <4> QED BY <4>1 DEF Intact
    <3> QED BY <3>1, <3>2
  <2> QED BY <2>1, <2>4, <2>7 DEF Intact
<1> QED BY <1>3, <1>4

\* Storing whole messages one after the other.
LEMMA StoredAll ==
  ASSUME NEW d, NEW v, NEW w, NEW s \in Seq(Seq(Cell)),
         Intact(d, v), Leads(s, MsgStep, v, w)
  PROVE  Intact(FoldLeft(Stored, d, s), w)
<1> DEFINE n == Len(s)
           h == [i \in 1 .. n |-> [t \in Stores |-> Stored(t, s[i])]]
           Eq(it) == it = [z \in SUBSET DOMAIN s |->
                             IF z = {} THEN d ELSE Stored(it[z \ {Max(z)}], s[Max(z)])]
           it == CHOOSE g : Eq(g)
<1>1. n \in Nat /\ DOMAIN s = 1 .. n /\ d \in Stores
  BY DEF Intact
<1>2. PICK e : IsPath(e, s, MsgStep) /\ e[0] = v /\ e[Len(s)] = w
  BY DEF Leads
<1>3. \A i \in 1 .. n : <<e[i - 1], s[i], e[i]>> \in MsgStep
  BY <1>2 DEF IsPath
<1> HIDE DEF n
<1>4. ASSUME NEW i \in 1 .. n, NEW t \in Stores PROVE Stored(t, s[i]) \in Stores
  <2>1. <<e[i - 1], s[i], e[i]>> \in MsgStep
    BY <1>3
  <2>2. PICK msg \in AnyMsg : s[i] = Cells(msg, Size(msg))
    BY <2>1 DEF MsgStep
  <2> QED BY <2>2, StoredWhole
<1>5. h \in [1 .. n -> [Stores -> Stores]]
  BY <1>4
<1>6. \A i \in 1 .. n : \A t \in Stores : h[i][t] = Stored(t, s[i])
  OBVIOUS
<1> HIDE DEF h
<1>7. PICK g \in [SUBSET (1 .. n) -> Stores] : IsIter(g, n, d, h)
  BY <1>1, <1>5, FoldIter
<1>8. /\ g[{}] = d
      /\ \A z \in SUBSET (1 .. n) : z # {} => g[z] = h[Max(z)][g[z \ {Max(z)}]]
  BY <1>7, Zenon DEF IsIter
<1>9. ASSUME NEW z \in SUBSET (1 .. n), z # {} PROVE g[z] = Stored(g[z \ {Max(z)}], s[Max(z)])
  <2>1. Max(z) \in 1 .. n /\ z \ {Max(z)} \in SUBSET (1 .. n)
    BY <1>1, <1>9, MaxFacts
  <2>2. g[z \ {Max(z)}] \in Stores
    BY <2>1
  <2> QED BY <1>6, <1>8, <1>9, <2>1, <2>2
<1>10. Eq(g)
  BY <1>1, <1>8, <1>9
<1>11. Eq(it)
  <2> HIDE DEF Eq
  <2> QED BY <1>10
<1>12. FoldLeft(Stored, d, s) = it[DOMAIN s]
  BY DEF FoldLeft, MapThenFoldSet
<1> HIDE DEF it
<1> DEFINE c == [i \in 0 .. n |-> it[1 .. i]]
<1>13. it[{}] = d /\ \A z \in SUBSET (1 .. n) : z # {} => it[z] = Stored(it[z \ {Max(z)}], s[Max(z)])
  BY <1>1, <1>11
<1>14. c[0] = d /\ \A i \in 1 .. n : c[i] = Stored(c[i - 1], s[i])
  <2>1. c[0] = d
    BY <1>1, <1>13
  <2>2. ASSUME NEW i \in 1 .. n PROVE c[i] = Stored(c[i - 1], s[i])
    <3>1. /\ 1 .. i \in SUBSET (1 .. n) /\ 1 .. i # {} /\ Max(1 .. i) = i
          /\ (1 .. i) \ {i} = 1 .. (i - 1)
      BY <1>1, IntervalParts
    <3>2. i \in 0 .. n /\ i - 1 \in 0 .. n
      BY <1>1
    <3>3. c[i] = it[1 .. i] /\ c[i - 1] = it[1 .. (i - 1)]
      BY <3>2
    <3> QED BY <3>1, <3>3, <1>13
  <2> QED BY <2>1, <2>2
<1>15. c[n] = it[DOMAIN s]
  BY <1>1
<1> HIDE DEF c, Eq
<1> DEFINE T == {i \in Nat : Intact(c[i], e[i])}
           id == [i \in 0 .. n |-> i]
<1>16. ASSUME NEW i \in 1 .. n, id[i - 1] \in T PROVE id[i] \in T
  <2>1. i - 1 \in 0 .. n /\ i \in 0 .. n
    BY <1>1
  <2>2. Intact(c[i - 1], e[i - 1]) /\ <<e[i - 1], s[i], e[i]>> \in MsgStep
    BY <2>1, <1>3, <1>16
  <2>3. Intact(Stored(c[i - 1], s[i]), e[i])
    BY <2>2, StoredOne
  <2> QED BY <2>1, <2>3, <1>14
<1>17. id[0] \in T /\ n \in 0 .. n /\ id[n] = n
  BY <1>1, <1>2, <1>14
<1>18. \A i \in 1 .. n : id[i - 1] \in T => id[i] \in T
  BY <1>16
<1> HIDE DEF T, id
<1>19. \A i \in 0 .. n : id[i] \in T
  BY <1>1, <1>17, <1>18, Along
<1> QED BY <1>2, <1>12, <1>15, <1>17, <1>19 DEF T, n

-----------------------------------------------------------------------------
(* What the decoder finds in a flit.                                       *)

\* The parts of a step.
LEMMA CellStepFacts ==
  ASSUME NEW p, NEW x, NEW q, <<p, x, q>> \in CellStep
  PROVE  /\ p \in Pos /\ x \in Cell /\ q \in Pos
         /\ Continues(p.cur, x) /\ Due(p.next, x.msg) /\ q.cur = AfterCell(x)
         /\ q.next = IF x.offset + 1 = Size(x.msg) THEN Counted(p.next, x.msg) ELSE p.next
BY DEF CellStep

\* At granule i of a flit d granules of the message are done.
InRun(gs, c, i, msg, d) ==
    \/ d = 0 /\ c[i].cur = NoSpill /\ i < Len(gs) /\ gs[i + 1].msg = msg
    \/ d > 0 /\ c[i].cur = [msg |-> msg, done |-> d]

\* From there on it runs to its end, or to that of the flit.
RunsOn(gs, c, i, msg, d) ==
    \A j \in 1 .. (Size(msg) - d) : i + j <= Len(gs) =>
      /\ gs[i + j] = Granule(msg, d + j - 1)
      /\ c[i + j].cur = IF d + j = Size(msg) THEN NoSpill ELSE [msg |-> msg, done |-> d + j]
      /\ c[i + j].next = IF d + j = Size(msg) THEN Counted(c[i].next, msg) ELSE c[i].next

\* A message that is begun goes on, granule by granule, to its end.
LEMMA RunOn ==
  ASSUME NEW gs \in Seq(Cell), NEW c, IsPath(c, gs, CellStep), NEW i \in 0 .. Len(gs),
         NEW msg \in AnyMsg, NEW d \in Nat, d < Size(msg), InRun(gs, c, i, msg, d)
  PROVE  RunsOn(gs, c, i, msg, d)
<1> DEFINE L == Len(gs)
           Claim(j) == /\ gs[i + j] = Granule(msg, d + j - 1)
                       /\ c[i + j].cur = IF d + j = Size(msg) THEN NoSpill ELSE [msg |-> msg, done |-> d + j]
                       /\ c[i + j].next = IF d + j = Size(msg) THEN Counted(c[i].next, msg) ELSE c[i].next
           P == {j \in Nat : j + 1 <= Size(msg) - d /\ i + j + 1 <= L => Claim(j + 1)}
<1>1. L \in Nat /\ Size(msg) \in Nat \ {0} /\ i \in Nat
  BY SizeFacts
<1>2. ASSUME NEW k \in 1 .. L
      PROVE  /\ <<c[k - 1], gs[k], c[k]>> \in CellStep /\ gs[k] \in Cell
             /\ Continues(c[k - 1].cur, gs[k]) /\ c[k].cur = AfterCell(gs[k])
             /\ c[k].next = IF gs[k].offset + 1 = Size(gs[k].msg) THEN Counted(c[k - 1].next, gs[k].msg) ELSE c[k - 1].next
  <2>1. <<c[k - 1], gs[k], c[k]>> \in CellStep
    BY DEF IsPath
  <2> QED BY <2>1, CellStepFacts
<1>3. ASSUME NEW j \in Nat, i + j + 1 <= L, j + 1 <= Size(msg) - d, gs[i + j + 1] = Granule(msg, d + j),
             c[i + j].next = c[i].next
      PROVE  Claim(j + 1)
  <2>1. i + j + 1 \in 1 .. L /\ (i + j + 1) - 1 = i + j /\ i + (j + 1) = i + j + 1
        /\ d + (j + 1) - 1 = d + j /\ d + (j + 1) = d + j + 1
    BY <1>1, <1>3
  <2>2. gs[i + j + 1].msg = msg /\ gs[i + j + 1].offset = d + j
    BY <1>3 DEF Granule
  <2>3. /\ c[i + j + 1].cur = AfterCell(gs[i + j + 1])
        /\ c[i + j + 1].next = IF gs[i + j + 1].offset + 1 = Size(gs[i + j + 1].msg)
                               THEN Counted(c[i + j].next, gs[i + j + 1].msg) ELSE c[i + j].next
    BY <1>2, <2>1
  <2> QED BY <1>3, <2>1, <2>2, <2>3 DEF AfterCell
<1>4. 0 \in P
  <2> SUFFICES ASSUME 1 <= Size(msg) - d, i + 1 <= L PROVE Claim(0 + 1)
    BY <1>1
  <2>1. i + 0 + 1 = i + 1 /\ i + 0 = i /\ d + 0 = d /\ 0 + 1 = 1 /\ (i + 1) - 1 = i /\ i + 1 \in 1 .. L
    BY <1>1
  <2>2. Continues(c[i].cur, gs[i + 1]) /\ gs[i + 1] \in Cell
    BY <1>2, <2>1
  <2>3. gs[i + 1] = Granule(msg, d)
    <3>1. CASE d = 0 /\ c[i].cur = NoSpill /\ i < Len(gs) /\ gs[i + 1].msg = msg
      <4>1. gs[i + 1].offset = 0
        BY <2>2, <3>1 DEF Continues
      <4> QED BY <2>2, <3>1, <4>1 DEF Cell, Granule
    <3>2. CASE d > 0 /\ c[i].cur = [msg |-> msg, done |-> d]
      <4>1. c[i].cur # NoSpill /\ c[i].cur.msg = msg /\ c[i].cur.done = d
        BY <3>2 DEF NoSpill
      <4> QED BY <2>2, <4>1 DEF Continues
    <3> QED BY <3>1, <3>2 DEF InRun
  <2> QED BY <1>3, <2>1, <2>3
<1>5. ASSUME NEW j \in Nat, j \in P PROVE j + 1 \in P
  <2> SUFFICES ASSUME (j + 1) + 1 <= Size(msg) - d, i + (j + 1) + 1 <= L PROVE Claim((j + 1) + 1)
    OBVIOUS
  <2>1. /\ j + 1 <= Size(msg) - d /\ i + j + 1 <= L /\ d + (j + 1) # Size(msg)
        /\ i + (j + 1) + 1 \in 1 .. L /\ (i + (j + 1) + 1) - 1 = i + (j + 1) /\ j + 1 \in Nat
    BY <1>1
  <2>2. Claim(j + 1)
    BY <1>5, <2>1
  <2>3. /\ c[i + (j + 1)].cur = [msg |-> msg, done |-> d + (j + 1)] /\ c[i + (j + 1)].next = c[i].next
    BY <2>1, <2>2
  <2>4. Continues(c[i + (j + 1)].cur, gs[i + (j + 1) + 1])
    BY <1>2, <2>1
  <2>5. c[i + (j + 1)].cur # NoSpill /\ c[i + (j + 1)].cur.msg = msg /\ c[i + (j + 1)].cur.done = d + (j + 1)
    BY <2>1, <2>3 DEF NoSpill
  <2>6. gs[i + (j + 1) + 1] = Granule(msg, d + (j + 1))
    BY <2>4, <2>5 DEF Continues
  <2> QED BY <1>3, <2>1, <2>3, <2>6
<1> HIDE DEF P
<1>6. \A j \in Nat : j \in P
  BY <1>4, <1>5, SetInduction, Zenon
<1>7. ASSUME NEW j \in 1 .. (Size(msg) - d), i + j <= Len(gs) PROVE Claim(j)
  <2>1. j - 1 \in Nat /\ (j - 1) + 1 = j /\ i + (j - 1) + 1 = i + j
    BY <1>1
  <2>2. j - 1 \in P
    BY <1>6, <2>1
  <2> QED BY <1>1, <1>7, <2>1, <2>2 DEF P
<1> QED BY <1>7 DEF RunsOn

\* A message that starts goes on to its end, or to that of the flit.
LEMMA StartOn ==
  ASSUME NEW gs \in Seq(Cell), NEW c, IsPath(c, gs, CellStep), NEW i \in 0 .. Len(gs), i < Len(gs),
         NEW msg \in AnyMsg, c[i].cur = NoSpill, gs[i + 1].msg = msg
  PROVE  RunsOn(gs, c, i, msg, 0)
<1>1. 0 \in Nat /\ 0 < Size(msg)
  BY SizeFacts
<1>2. InRun(gs, c, i, msg, 0)
  BY DEF InRun
<1> QED BY <1>1, <1>2, RunOn

HoldsCells(pl, i, msg, n) == \A j \in 1 .. n : pl[i + j] = Granule(msg, j - 1)

\* A piece of a payload that holds the first granules of a message.
LEMMA PieceFacts ==
  ASSUME NEW S, NEW pl \in Seq(S), NEW i \in Nat, NEW n \in Nat \ {0}, i + n <= Len(pl),
         NEW msg, HoldsCells(pl, i, msg, n)
  PROVE  SubSeq(pl, i + 1, i + n) = Cells(msg, n)
<1> DEFINE s == SubSeq(pl, i + 1, i + n)
<1>1. s = [j \in 1 .. n |-> pl[i + 1 + j - 1]]
  <2> DEFINE lo == i + 1
             hi == i + n
  <2>1. hi - lo + 1 = n /\ lo <= hi /\ lo \in Int /\ hi \in Int /\ \A j \in lo .. hi : pl[j] \in S
    OBVIOUS
  <2> HIDE DEF lo, hi
  <2>2. /\ SubSeq(pl, lo, hi) \in Seq(S) /\ Len(SubSeq(pl, lo, hi)) = IF lo <= hi THEN hi - lo + 1 ELSE 0
        /\ \A j \in 1 .. hi - lo + 1 : SubSeq(pl, lo, hi)[j] = pl[lo + j - 1]
    BY <2>1, SubSeqProperties
  <2>3. /\ s \in Seq(S) /\ Len(s) = n
        /\ \A j \in 1 .. n : s[j] = pl[i + 1 + j - 1]
    BY <2>1, <2>2, Zenon DEF lo, hi
  <2> HIDE DEF s
  <2>4. DOMAIN s = 1 .. n /\ s = [j \in DOMAIN s |-> s[j]]
    BY <2>3
  <2> QED BY <2>3, <2>4
<1>2. \A j \in 1 .. n : pl[i + 1 + j - 1] = Granule(msg, j - 1)
  <2> TAKE j \in 1 .. n
  <2>1. i + 1 + j - 1 = i + j
    OBVIOUS
  <2> QED BY <2>1 DEF HoldsCells
<1> HIDE DEF s
<1> QED BY <1>1, <1>2 DEF Cells, s

\* The recursion of Scan.
ScanBody(payload, scan, g) ==
    IF g > GranuleCount THEN Parsed(<<>>, <<>>, TRUE)
    ELSE IF ~IsStart(payload[g]) THEN scan[g + 1]
    ELSE LET total == Size(payload[g].msg)
             take  == Smaller(total, GranuleCount - g + 1)
             found == SubSeq(payload, g, g + take - 1)
             rest  == scan[g + take]
         IN  Parsed(IF take = total THEN <<found>> \o rest.messages
                                    ELSE rest.messages,
                    IF take = total THEN rest.carry ELSE found,
                    /\ \A i \in 2 .. take : ~IsStart(found[i])
                    /\ rest.ok)

IsScan(payload, scan) == scan = [g \in 1 .. (GranuleCount + 1) |-> ScanBody(payload, scan, g)]

\* What the recursion gives at g depends only on what it gives further on.
LEMMA ScanAgrees ==
  ASSUME NEW payload \in Seq(Cell \cup {NoGranule}), Len(payload) = GranuleCount, NEW e, NEW f,
         NEW g \in 1 .. (GranuleCount + 1),
         \A y \in (g + 1) .. (GranuleCount + 1) : e[y] = f[y]
  PROVE  ScanBody(payload, e, g) = ScanBody(payload, f, g)
<1>0. GranuleCount \in Nat \ {0}
  BY StreamAssumption
<1>1. CASE g > GranuleCount
  BY <1>1 DEF ScanBody
<1>2. CASE ~(g > GranuleCount) /\ ~IsStart(payload[g])
  <2>1. g + 1 \in (g + 1) .. (GranuleCount + 1)
    BY <1>0, <1>2
  <2> QED BY <1>2, <2>1 DEF ScanBody
<1>3. CASE ~(g > GranuleCount) /\ IsStart(payload[g])
  <2> DEFINE total == Size(payload[g].msg)
             take  == Smaller(total, GranuleCount - g + 1)
  <2>1. payload[g] \in Cell
    <3>1. payload[g] \in Cell \cup {NoGranule}
      BY <1>0, <1>3
    <3> QED BY <1>3, <3>1 DEF NoGranule, Granule, IsStart
  <2>2. total \in Nat \ {0}
    BY <2>1, SizeFacts DEF Cell
  <2> HIDE DEF total
  <2>3. take \in 1 .. (GranuleCount - g + 1)
    BY <1>0, <1>3, <2>2 DEF Smaller
  <2> HIDE DEF take
  <2>4. g + take \in (g + 1) .. (GranuleCount + 1)
    BY <1>0, <2>3
  <2>5. e[g + take] = f[g + take]
    BY <2>4
  <2> QED BY <1>3, <2>5, Zenon DEF ScanBody, total, take
<1> QED BY <1>1, <1>2, <1>3

\* Scan is what its recursion says.
LEMMA ScanDef ==
  ASSUME NEW payload \in Seq(Cell \cup {NoGranule}), Len(payload) = GranuleCount
  PROVE  \E scan : IsScan(payload, scan) /\ \A first : Scan(payload, first) = scan[first]
<1> DEFINE G == GranuleCount
           Part(f, lo) == f = [g \in lo .. (G + 1) |-> ScanBody(payload, f, g)]
           Has(k) == \E f : Part(f, G + 1 - k)
           P == {k \in Nat : k <= G => Has(k)}
<1>0. G \in Nat \ {0}
  BY StreamAssumption
<1> HIDE DEF G
<1>1. 0 \in P
  <2> DEFINE f == [g \in (G + 1) .. (G + 1) |-> Parsed(<<>>, <<>>, TRUE)]
  <2>1. ASSUME NEW g \in (G + 1) .. (G + 1) PROVE ScanBody(payload, f, g) = Parsed(<<>>, <<>>, TRUE)
    <3>1. g > GranuleCount
      BY <1>0 DEF G
    <3> QED BY <3>1, Zenon DEF ScanBody
  <2>2. Part(f, G + 1)
    BY <2>1
  <2>3. G + 1 - 0 = G + 1
    BY <1>0
  <2>4. Has(0)
    <3> HIDE DEF Part
    <3> QED BY <2>2, <2>3
  <2> HIDE DEF Has
  <2> QED BY <2>4
<1>2. ASSUME NEW k \in Nat, k \in P PROVE k + 1 \in P
  <2> SUFFICES ASSUME k + 1 <= G PROVE Has(k + 1)
    <3> HIDE DEF Has
    <3> QED OBVIOUS
  <2>a. Has(k)
    <3> HIDE DEF Has
    <3> QED BY <1>0, <1>2
  <2> DEFINE lo == G + 1 - k
  <2>1. PICK f : Part(f, lo)
    <3> HIDE DEF Part
    <3> QED BY <2>a
  <2>2. lo \in Nat /\ lo - 1 \in 1 .. G /\ G + 1 - (k + 1) = lo - 1 /\ lo \in 1 .. (G + 1)
    BY <1>0
  <2> HIDE DEF lo
  <2> DEFINE e == [x \in (lo - 1) .. (G + 1) |-> IF x = lo - 1 THEN ScanBody(payload, f, lo - 1) ELSE f[x]]
  <2>3. e[lo - 1] = ScanBody(payload, f, lo - 1) /\ \A x \in lo .. (G + 1) : e[x] = f[x]
    BY <1>0, <2>2
  <2>4. DOMAIN e = (lo - 1) .. (G + 1) /\ e = [x \in (lo - 1) .. (G + 1) |-> e[x]]
    OBVIOUS
  <2> HIDE DEF e
  <2>5. ASSUME NEW x \in (lo - 1) .. (G + 1) PROVE e[x] = ScanBody(payload, e, x)
    <3>1. x \in 1 .. (G + 1) /\ \A y \in (x + 1) .. (G + 1) : e[y] = f[y]
      BY <1>0, <2>2, <2>3
    <3>2. ScanBody(payload, e, x) = ScanBody(payload, f, x)
      BY <3>1, ScanAgrees DEF G
    <3>3. CASE x = lo - 1
      BY <2>3, <3>2, <3>3
    <3>4. CASE x # lo - 1
      <4>1. x \in lo .. (G + 1)
        BY <1>0, <2>2, <3>4
      <4>2. f[x] = ScanBody(payload, f, x)
        BY <2>1, <4>1
      <4> QED BY <2>3, <3>2, <4>1, <4>2
    <3> QED BY <3>3, <3>4
  <2>6. Part(e, lo - 1)
    BY <2>4, <2>5
  <2> HIDE DEF Part
  <2> QED BY <2>2, <2>6
<1> HIDE DEF P
<1>3. G \in P
  BY <1>0, <1>1, <1>2, SetInduction, Zenon
<1>4. Has(G)
  <2> HIDE DEF Has
  <2> QED BY <1>0, <1>3 DEF P
<1>5. \E f : Part(f, 1)
  <2> HIDE DEF Part
  <2>1. G + 1 - G = 1
    BY <1>0
  <2> QED BY <1>4, <2>1
<1> DEFINE scan == CHOOSE f : IsScan(payload, f)
<1>6. IsScan(payload, scan)
  <2>1. \E f : IsScan(payload, f)
    BY <1>5, Zenon DEF IsScan, G
  <2> QED BY <2>1
<1>7. \A first : Scan(payload, first) = scan[first]
  BY DEF Scan, IsScan, ScanBody
<1> HIDE DEF scan
<1> QED BY <1>6, <1>7

\* The granules of a flit, and nothing after them.
LEMMA PayloadFacts ==
  ASSUME NEW f \in Flit, Len(f.granules) <= GranuleCount
  PROVE  /\ Payload(f) \in Seq(Cell \cup {NoGranule}) /\ Len(Payload(f)) = GranuleCount
         /\ \A g \in 1 .. GranuleCount :
              Payload(f)[g] = IF g <= Len(f.granules) THEN f.granules[g] ELSE NoGranule
<1>1. GranuleCount \in Nat /\ f.granules \in Seq(Cell)
  BY StreamAssumption DEF Flit
<1>2. \A g \in 1 .. GranuleCount : g <= Len(f.granules) => f.granules[g] \in Cell
  BY <1>1
<1> QED BY <1>1, <1>2 DEF Payload

\* What a parse of the rest of a flit from position p on should find, if q is
\* the position at its end.
GoodParse(res, p, q) ==
    /\ res.ok = TRUE /\ res.carry = CarryOf(q.cur)
    /\ res.messages \in Seq(Seq(Cell)) /\ Leads(res.messages, MsgStep, p.next, q.next)

\* From the boundary of a message on.
LEMMA ScanGood ==
  ASSUME NEW p, NEW f, NEW q, <<p, f, q>> \in FlitStep,
         NEW c, IsPath(c, f.granules, CellStep), c[0] = p, c[Len(f.granules)] = q,
         NEW scan, IsScan(Payload(f), scan)
  PROVE  \A i \in 0 .. Len(f.granules) : c[i].cur = NoSpill => GoodParse(scan[i + 1], c[i], q)
<1> DEFINE gs == f.granules
           L == Len(gs)
           G == GranuleCount
           pl == Payload(f)
<1>1. /\ f \in Flit /\ gs \in Seq(Cell) /\ L \in Nat /\ G \in Nat \ {0} /\ L <= G
      /\ q \in Pos /\ (q.cur # NoSpill => L = G)
  BY StreamAssumption DEF FlitStep, Flit
<1>2. /\ pl \in Seq(Cell \cup {NoGranule}) /\ Len(pl) = G
      /\ \A g \in 1 .. G : pl[g] = IF g <= L THEN gs[g] ELSE NoGranule
  BY <1>1, PayloadFacts
<1>3. \A g \in 1 .. (G + 1) : scan[g] = ScanBody(pl, scan, g)
  BY DEF IsScan
<1>4. ASSUME NEW k \in 1 .. L
      PROVE  gs[k] \in Cell /\ c[k - 1] \in Pos /\ c[k] \in Pos /\ Due(c[k - 1].next, gs[k].msg)
             /\ Continues(c[k - 1].cur, gs[k])
  <2>1. <<c[k - 1], gs[k], c[k]>> \in CellStep
    BY DEF IsPath
  <2> QED BY <2>1, CellStepFacts
<1> HIDE DEF gs, L, G, pl
<1>5. GoodParse(Parsed(<<>>, <<>>, TRUE), q, q) \/ q.cur # NoSpill
  BY LeadsEmpty DEF GoodParse, Parsed, CarryOf
<1>6. ASSUME NEW g \in (L + 1) .. (G + 1) PROVE scan[g] = Parsed(<<>>, <<>>, TRUE)
  <2> DEFINE Empty == Parsed(<<>>, <<>>, TRUE)
             P == {k \in Nat : k <= G - L => scan[G + 1 - k] = Empty}
  <2>1. 0 \in P
    <3>1. G + 1 - 0 = G + 1 /\ G + 1 \in 1 .. (G + 1) /\ G + 1 > GranuleCount
      BY <1>1 DEF G
    <3>2. ScanBody(pl, scan, G + 1) = Empty
      BY <3>1, Zenon DEF ScanBody
    <3> HIDE DEF Empty
    <3> QED BY <3>1, <3>2, <1>3
  <2>2. ASSUME NEW k \in Nat, k \in P PROVE k + 1 \in P
    <3> SUFFICES ASSUME k + 1 <= G - L PROVE scan[G + 1 - (k + 1)] = Empty
      <4> HIDE DEF Empty
      <4> QED OBVIOUS
    <3> DEFINE x == G + 1 - (k + 1)
    <3>1. x \in 1 .. G /\ x \in 1 .. (G + 1) /\ ~(x <= L) /\ ~(x > GranuleCount) /\ x + 1 = G + 1 - k /\ k <= G - L
      BY <1>1 DEF G
    <3> HIDE DEF x
    <3>2. ~IsStart(pl[x])
      BY <1>2, <3>1 DEF IsStart, NoGranule, Granule
    <3>3. ScanBody(pl, scan, x) = scan[x + 1]
      BY <3>1, <3>2, Zenon DEF ScanBody
    <3>4. scan[G + 1 - k] = Empty
      <4> HIDE DEF Empty
      <4> QED BY <2>2, <3>1
    <3> HIDE DEF Empty
    <3> QED BY <1>3, <3>1, <3>3, <3>4 DEF x
  <2> HIDE DEF P
  <2>3. \A k \in Nat : k \in P
    BY <2>1, <2>2, SetInduction, Zenon
  <2>4. G + 1 - g \in Nat /\ G + 1 - g <= G - L /\ G + 1 - (G + 1 - g) = g
    BY <1>1
  <2>5. G + 1 - g \in P
    BY <2>3, <2>4
  <2> HIDE DEF Empty
  <2>6. scan[G + 1 - (G + 1 - g)] = Empty
    BY <2>4, <2>5 DEF P
  <2> QED BY <2>4, <2>6 DEF Empty
<1> DEFINE P == {k \in Nat : \A i \in 0 .. L : L - i <= k /\ c[i].cur = NoSpill => GoodParse(scan[i + 1], c[i], q)}
<1>7. 0 \in P
  <2> SUFFICES ASSUME NEW i \in 0 .. L, L - i <= 0, c[i].cur = NoSpill PROVE GoodParse(scan[i + 1], c[i], q)
    OBVIOUS
  <2>1. i = L /\ L + 1 \in (L + 1) .. (G + 1)
    BY <1>1
  <2>2. c[i] = q /\ scan[i + 1] = Parsed(<<>>, <<>>, TRUE)
    BY <1>6, <2>1 DEF L, gs
  <2> QED BY <1>5, <2>2
<1>8. ASSUME NEW k \in Nat, k \in P PROVE k + 1 \in P
  <2> SUFFICES ASSUME NEW i \in 0 .. L, L - i <= k + 1, c[i].cur = NoSpill PROVE GoodParse(scan[i + 1], c[i], q)
    OBVIOUS
  <2>1. CASE L - i <= k
    BY <1>8, <2>1
  <2>2. CASE ~(L - i <= k)
    <3> DEFINE x == gs[i + 1]
               msg == x.msg
               total == Size(msg)
               take == Smaller(total, G - (i + 1) + 1)
               found == SubSeq(pl, i + 1, i + 1 + take - 1)
               rest == scan[i + 1 + take]
    <3>1. /\ i + 1 \in 1 .. L /\ i + 1 \in 1 .. G /\ i + 1 \in 1 .. (G + 1) /\ (i + 1) - 1 = i /\ i < L
          /\ ~(i + 1 > GranuleCount) /\ G - (i + 1) + 1 = G - i /\ i \in Nat
      BY <1>1, <2>2 DEF G
    <3>2. x \in Cell /\ c[i] \in Pos /\ Due(c[i].next, msg) /\ Continues(c[i].cur, x)
      BY <1>4, <3>1
    <3>3. msg \in AnyMsg /\ x.offset = 0 /\ total \in Nat \ {0} /\ total <= G
      <4>1. msg \in AnyMsg /\ x.offset = 0
        BY <3>2 DEF Cell, Continues
      <4> QED BY <4>1, SizeFacts DEF G
    <3>4. pl[i + 1] = x /\ IsStart(pl[i + 1])
      BY <1>2, <3>1, <3>3 DEF IsStart
    <3>5. scan[i + 1] = Parsed(IF take = total THEN <<found>> \o rest.messages ELSE rest.messages,
                               IF take = total THEN rest.carry ELSE found,
                               (\A j \in 2 .. take : ~IsStart(found[j])) /\ rest.ok)
      <4>1. scan[i + 1] = ScanBody(pl, scan, i + 1)
        BY <1>3, <3>1
      <4>2. ~(i + 1 > GranuleCount) /\ IsStart(pl[i + 1]) /\ Size(pl[i + 1].msg) = total /\ G = GranuleCount
        BY <3>1, <3>4 DEF G
      <4> HIDE DEF total
      <4> QED BY <4>1, <4>2, Zenon DEF ScanBody
    <3>6. RunsOn(gs, c, i, msg, 0)
      <4>1. gs[i + 1].msg = msg
        OBVIOUS
      <4> HIDE DEF msg
      <4>2. IsPath(c, gs, CellStep) /\ i < Len(gs) /\ i \in 0 .. Len(gs) /\ gs \in Seq(Cell)
        BY <1>1, <3>1 DEF gs, L
      <4>3. c[i].cur = NoSpill /\ msg \in AnyMsg
        BY <3>3
      <4> QED BY <4>1, <4>2, <4>3, StartOn
    <3>7. ASSUME NEW j \in 1 .. total, i + j <= L
          PROVE  /\ pl[i + j] = Granule(msg, j - 1)
                 /\ c[i + j].cur = IF j = total THEN NoSpill ELSE [msg |-> msg, done |-> j]
                 /\ c[i + j].next = IF j = total THEN Counted(c[i].next, msg) ELSE c[i].next
      <4>0. total = Size(msg)
        OBVIOUS
      <4> HIDE DEF total, msg
      <4>1. i + j \in 1 .. G /\ 0 + j = j /\ 0 + j - 1 = j - 1 /\ j \in 1 .. (total - 0)
        BY <1>1, <3>1, <3>3, <3>7
      <4>2. pl[i + j] = gs[i + j]
        BY <1>2, <3>7, <4>1
      <4>3. /\ gs[i + j] = Granule(msg, 0 + j - 1)
            /\ c[i + j].cur = IF 0 + j = total THEN NoSpill ELSE [msg |-> msg, done |-> 0 + j]
            /\ c[i + j].next = IF 0 + j = total THEN Counted(c[i].next, msg) ELSE c[i].next
        BY <3>6, <3>7, <4>0, <4>1, Zenon DEF RunsOn, L
      <4> QED BY <4>1, <4>2, <4>3
    <3> HIDE DEF x, msg, total, take, found, rest
    <3>8. ASSUME NEW n \in 1 .. total, i + n <= L, take = n
          PROVE  found = Cells(msg, n) /\ found \in Seq(Cell) /\ \A j \in 2 .. take : ~IsStart(found[j])
      <4>1. i + 1 + take - 1 = i + n /\ i + n <= G /\ i + n \in 1 .. G
        BY <1>1, <3>1, <3>8
      <4>2. ASSUME NEW j \in 1 .. n PROVE pl[i + j] = Granule(msg, j - 1)
        <5>1. j \in 1 .. total /\ i + j <= L
          BY <1>1, <3>1, <3>3, <3>8
        <5> QED BY <5>1, <3>7
      <4>3. n \in Nat \ {0} /\ i + n <= Len(pl)
        BY <1>2, <3>3, <3>8, <4>1
      <4>4. found = SubSeq(pl, i + 1, i + n)
        BY <4>1 DEF found
      <4>6. found = Cells(msg, n)
        <5> DEFINE S == Cell \cup {NoGranule}
        <5>0. HoldsCells(pl, i, msg, n)
          BY <4>2 DEF HoldsCells
        <5>1. pl \in Seq(S) /\ i \in Nat
          BY <1>2, <3>1
        <5> HIDE DEF S
        <5>2. SubSeq(pl, i + 1, i + n) = Cells(msg, n)
          BY <4>3, <5>0, <5>1, PieceFacts
        <5> QED BY <4>4, <5>2
      <4>7. n \in 0 .. Size(msg)
        BY <3>3, <3>8 DEF total
      <4>8. found \in Seq(Cell) /\ \A j \in 1 .. n : found[j].offset = j - 1
        BY <3>3, <4>6, <4>7, CellsFacts
      <4> QED BY <3>8, <4>6, <4>8 DEF IsStart
    <3>9. CASE i + total <= L
      <4>1. take = total /\ total \in 1 .. total /\ i + 1 + take = (i + total) + 1
            /\ i + total \in 0 .. L /\ L - (i + total) <= k
        BY <1>1, <2>2, <3>1, <3>3, <3>9 DEF take, Smaller
      <4>2. found = Cells(msg, total) /\ found \in Seq(Cell) /\ \A j \in 2 .. take : ~IsStart(found[j])
        BY <3>8, <3>9, <4>1
      <4>3. c[i + total].cur = NoSpill /\ c[i + total].next = Counted(c[i].next, msg)
        BY <3>7, <3>9, <4>1
      <4>4. GoodParse(rest, c[i + total], q)
        <5>1. GoodParse(scan[(i + total) + 1], c[i + total], q)
          BY <1>8, <4>1, <4>3
        <5> QED BY <4>1, <5>1 DEF rest
      <4>5. <<c[i].next, found, Counted(c[i].next, msg)>> \in MsgStep
        <5>1. c[i + total] \in Pos
          <6>1. i + total \in 1 .. L
            BY <1>1, <3>1, <3>3, <3>9
          <6> QED BY <6>1, <1>4
        <5>2. c[i].next \in Counts /\ Counted(c[i].next, msg) \in Counts
          BY <3>2, <4>3, <5>1 DEF Pos
        <5> QED BY <3>2, <3>3, <4>2, <5>2 DEF MsgStep, total
      <4>6. Leads(<<found>> \o rest.messages, MsgStep, c[i].next, q.next)
        <5>1. rest.messages \in Seq(Seq(Cell)) /\ Leads(rest.messages, MsgStep, Counted(c[i].next, msg), q.next)
          BY <4>3, <4>4 DEF GoodParse
        <5> QED BY <4>2, <4>5, <5>1, LeadsCons
      <4>7. <<found>> \o rest.messages \in Seq(Seq(Cell))
        BY <4>2, <4>4 DEF GoodParse
      <4>8. rest.ok = TRUE /\ rest.carry = CarryOf(q.cur)
        BY <4>4 DEF GoodParse
      <4>9. scan[i + 1] = Parsed(<<found>> \o rest.messages, CarryOf(q.cur), TRUE)
        BY <3>5, <4>1, <4>2, <4>8
      <4> QED BY <4>6, <4>7, <4>9 DEF GoodParse, Parsed
    <3>10. CASE ~(i + total <= L)
      <4> DEFINE n == L - i
      <4>1. n \in 1 .. total /\ i + n <= L /\ n # total /\ i + n = L
        BY <1>1, <3>1, <3>3, <3>10
      <4> HIDE DEF n
      <4>2. c[L].cur = [msg |-> msg, done |-> n] /\ c[L].next = c[i].next
        BY <3>7, <4>1
      <4>3. c[L] = q /\ q.cur # NoSpill
        BY <4>1, <4>2 DEF NoSpill, L, gs
      <4>4. L = G
        BY <1>1, <4>3
      <4>5. take = n /\ i + 1 + take = G + 1 /\ G + 1 \in (L + 1) .. (G + 1) /\ take # total
        BY <1>1, <3>1, <3>3, <3>10, <4>1, <4>4 DEF take, Smaller, n
      <4>6. found = Cells(msg, n) /\ \A j \in 2 .. take : ~IsStart(found[j])
        BY <3>8, <4>1, <4>5
      <4>7. rest = Parsed(<<>>, <<>>, TRUE)
        BY <1>6, <4>5 DEF rest
      <4>8. found = CarryOf(q.cur)
        BY <4>2, <4>3, <4>6 DEF CarryOf
      <4>9. rest.messages = <<>> /\ rest.ok = TRUE
        BY <4>7 DEF Parsed
      <4>10. scan[i + 1] = Parsed(<<>>, CarryOf(q.cur), TRUE)
        BY <3>5, <4>5, <4>6, <4>8, <4>9
      <4>11. Leads(<<>>, MsgStep, c[i].next, q.next)
        BY <4>2, <4>3, LeadsEmpty
      <4> QED BY <4>10, <4>11 DEF GoodParse, Parsed
    <3> QED BY <3>9, <3>10
  <2> QED BY <2>1, <2>2
<1> HIDE DEF P
<1>9. \A k \in Nat : k \in P
  BY <1>7, <1>8, SetInduction, Zenon
<1>10. L \in P
  BY <1>1, <1>9
<1>11. ASSUME NEW i \in 0 .. L, c[i].cur = NoSpill PROVE GoodParse(scan[i + 1], c[i], q)
  <2>1. L - i <= L
    BY <1>1
  <2> QED BY <1>10, <1>11, <2>1 DEF P
<1> QED BY <1>11 DEF L, gs

\* The tail of a message that is completed by the next flit.
LEMMA CellsJoin ==
  ASSUME NEW msg \in AnyMsg, NEW d \in Nat, NEW n \in Nat \ {0}, d + n <= Size(msg), NEW S, NEW pl \in Seq(S),
         n <= Len(pl), \A j \in 1 .. n : pl[j] = Granule(msg, d + j - 1)
  PROVE  Cells(msg, d) \o SubSeq(pl, 1, n) = Cells(msg, d + n)
<1> DEFINE s == SubSeq(pl, 1, n)
           a == Cells(msg, d)
<1>1. /\ s \in Seq(S) /\ Len(s) = n /\ \A j \in 1 .. n : s[j] = pl[j]
  <2>1. PICK lo \in Int : lo = 1
    OBVIOUS
  <2>2. n - lo + 1 = n /\ lo <= n /\ n \in Int /\ \A j \in lo .. n : pl[j] \in S
    BY <2>1
  <2>3. /\ SubSeq(pl, lo, n) \in Seq(S) /\ Len(SubSeq(pl, lo, n)) = IF lo <= n THEN n - lo + 1 ELSE 0
        /\ \A j \in 1 .. n - lo + 1 : SubSeq(pl, lo, n)[j] = pl[lo + j - 1]
    BY <2>2, SubSeqProperties
  <2>4. \A j \in 1 .. n : lo + j - 1 = j
    BY <2>1
  <2> QED BY <2>1, <2>2, <2>3, <2>4
<1>2. a \in Seq(Cell) /\ Len(a) = d /\ \A j \in 1 .. d : a[j] = Granule(msg, j - 1)
  <2>1. d \in 0 .. Size(msg)
    BY SizeFacts
  <2> QED BY <2>1, CellsFacts DEF Cells
<1> HIDE DEF s, a
<1>3. a \o s = [j \in 1 .. (d + n) |-> IF j <= d THEN a[j] ELSE s[j - d]]
  <2> DEFINE T == S \cup Cell
  <2>1. a \in Seq(T) /\ s \in Seq(T)
    BY <1>1, <1>2
  <2> HIDE DEF T
  <2>2. /\ a \o s \in Seq(T) /\ Len(a \o s) = d + n
        /\ \A j \in 1 .. (d + n) : (a \o s)[j] = IF j <= d THEN a[j] ELSE s[j - d]
    <3>1. /\ a \o s \in Seq(T) /\ Len(a \o s) = Len(a) + Len(s)
          /\ \A j \in 1 .. Len(a) + Len(s) : (a \o s)[j] = IF j <= Len(a) THEN a[j] ELSE s[j - Len(a)]
      BY <2>1, ConcatProperties
    <3>2. Len(a) = d /\ Len(s) = n
      BY <1>1, <1>2
    <3> QED BY <3>1, <3>2, Zenon
  <2>3. PICK w : w = a \o s
    OBVIOUS
  <2>4. w \in Seq(T) /\ Len(w) = d + n
    BY <2>2, <2>3, Zenon
  <2>5. DOMAIN w = 1 .. (d + n) /\ w = [j \in DOMAIN w |-> w[j]]
    BY <2>4
  <2>6. \A j \in 1 .. (d + n) : w[j] = IF j <= d THEN a[j] ELSE s[j - d]
    BY <2>2, <2>3, Zenon
  <2>7. w = [j \in 1 .. (d + n) |-> IF j <= d THEN a[j] ELSE s[j - d]]
    BY <2>5, <2>6
  <2> QED BY <2>3, <2>7
<1>4. ASSUME NEW j \in 1 .. (d + n) PROVE (IF j <= d THEN a[j] ELSE s[j - d]) = Granule(msg, j - 1)
  <2>1. CASE j <= d
    BY <1>2, <2>1
  <2>2. CASE ~(j <= d)
    <3>1. j - d \in 1 .. n /\ d + (j - d) - 1 = j - 1
      BY <2>2
    <3> QED BY <1>1, <2>2, <3>1
  <2> QED BY <2>1, <2>2
<1>5. a \o s = Cells(msg, d + n)
  BY <1>3, <1>4 DEF Cells
<1> QED BY <1>5 DEF a, s

\* From any position on, the decoder finds the messages that end in the flit
\* and keeps the beginning of the one that does not.
LEMMA ParseGood ==
  ASSUME NEW p, NEW f, NEW q, <<p, f, q>> \in FlitStep
  PROVE  GoodParse(Parse(Payload(f), CarryOf(p.cur)), p, q)
<1> DEFINE gs == f.granules
           L == Len(gs)
           G == GranuleCount
           pl == Payload(f)
<1>1. /\ f \in Flit /\ gs \in Seq(Cell) /\ L \in Nat /\ G \in Nat \ {0} /\ L <= G
      /\ p \in Pos /\ q \in Pos /\ (q.cur # NoSpill => L = G) /\ Leads(gs, CellStep, p, q)
  BY StreamAssumption DEF FlitStep, Flit
<1>2. /\ pl \in Seq(Cell \cup {NoGranule}) /\ Len(pl) = G
      /\ \A g \in 1 .. G : pl[g] = IF g <= L THEN gs[g] ELSE NoGranule
  BY <1>1, PayloadFacts
<1>3. PICK c : IsPath(c, gs, CellStep) /\ c[0] = p /\ c[L] = q
  BY <1>1 DEF Leads
<1>4. PICK scan : IsScan(pl, scan) /\ \A first : Scan(pl, first) = scan[first]
  BY <1>2, ScanDef
<1>5. \A i \in 0 .. L : c[i].cur = NoSpill => GoodParse(scan[i + 1], c[i], q)
  BY <1>3, <1>4, ScanGood
<1>6. CASE p.cur = NoSpill
  <2>1. Parse(pl, CarryOf(p.cur)) = scan[1]
    BY <1>4, <1>6 DEF Parse, CarryOf
  <2>2. 0 \in 0 .. L /\ 0 + 1 = 1
    BY <1>1
  <2>3. GoodParse(scan[0 + 1], c[0], q)
    BY <1>3, <1>5, <1>6, <2>2
  <2> QED BY <1>3, <2>1, <2>2, <2>3
<1>7. CASE p.cur # NoSpill
  <2> DEFINE msg == p.cur.msg
             d == p.cur.done
             total == Size(msg)
             carried == Cells(msg, d)
             n == total - d
  <2>1. /\ msg \in AnyMsg /\ d \in Nat /\ 0 < d /\ d < total /\ total \in Nat \ {0} /\ total <= G
        /\ p.cur = [msg |-> msg, done |-> d] /\ p.next \in Counts
    <3>1. p.cur \in [msg : AnyMsg, done : Nat] /\ 0 < d /\ d < total /\ p.next \in Counts
      BY <1>1, <1>7 DEF Pos, Cursor
    <3>2. msg \in AnyMsg /\ d \in Nat /\ p.cur = [msg |-> msg, done |-> d]
      BY <3>1
    <3> QED BY <3>1, <3>2, SizeFacts
  <2>2. CarryOf(p.cur) = carried
    BY <1>7 DEF CarryOf
  <2>t. total = Size(msg)
    OBVIOUS
  <2> HIDE DEF gs, L, G, pl, msg, d, total
  <2>3. carried \in Seq(Cell) /\ Len(carried) = d /\ carried # <<>> /\ carried[1].msg = msg
    <3>1. d \in 0 .. Size(msg)
      BY <2>1, <2>t
    <3>2. carried \in Seq(Cell) /\ Len(carried) = d
      BY <2>1, <3>1, CellsFacts
    <3>3. carried[1] = Granule(msg, 1 - 1)
      BY <2>1 DEF Cells
    <3>4. carried # <<>>
      BY <2>1, <3>2
    <3> HIDE DEF carried
    <3> QED BY <3>2, <3>3, <3>4 DEF Granule
  <2> HIDE DEF carried
  <2>4. n \in Nat \ {0} /\ n <= G /\ Smaller(total - d, G) = n /\ d + n = total /\ n < total
    BY <1>1, <2>1 DEF Smaller
  <2>5. RunsOn(gs, c, 0, msg, d)
    <3>1. InRun(gs, c, 0, msg, d)
      BY <1>3, <2>1 DEF InRun
    <3>2. 0 \in 0 .. Len(gs) /\ IsPath(c, gs, CellStep)
      BY <1>1, <1>3 DEF L, gs
    <3> QED BY <1>1, <2>1, <2>t, <3>1, <3>2, RunOn
  <2>n. n = total - d
    OBVIOUS
  <2> HIDE DEF n
  <2>6. ASSUME NEW j \in 1 .. n, j <= L
        PROVE  /\ gs[j] = Granule(msg, d + j - 1)
               /\ c[j].cur = IF d + j = total THEN NoSpill ELSE [msg |-> msg, done |-> d + j]
               /\ c[j].next = IF d + j = total THEN Counted(p.next, msg) ELSE p.next
    <3>1. 0 + j = j /\ j \in 1 .. (Size(msg) - d)
      BY <2>4, <2>n, <2>t
    <3>2. /\ gs[0 + j] = Granule(msg, d + j - 1)
          /\ c[0 + j].cur = IF d + j = Size(msg) THEN NoSpill ELSE [msg |-> msg, done |-> d + j]
          /\ c[0 + j].next = IF d + j = Size(msg) THEN Counted(c[0].next, msg) ELSE c[0].next
      <4>1. 0 + j <= Len(gs)
        BY <2>6, <3>1 DEF L
      <4> QED BY <2>5, <3>1, <4>1, Zenon DEF RunsOn
    <3> QED BY <1>3, <2>t, <3>1, <3>2
  <2>7. n <= L
    <3> SUFFICES ASSUME L < n PROVE FALSE
      BY <1>1, <2>4
    <3>1. q.cur # NoSpill
      <4>1. CASE L = 0
        BY <1>3, <1>7, <4>1 DEF L, gs
      <4>2. CASE L # 0
        <5>1. L \in 1 .. n /\ d + L # total
          BY <1>1, <2>1, <2>4, <4>2
        <5>2. c[L].cur = [msg |-> msg, done |-> d + L] /\ d + L # 0
          BY <1>1, <2>1, <2>6, <5>1
        <5> QED BY <1>3, <5>2 DEF NoSpill, L, gs
      <4> QED BY <4>1, <4>2
    <3>2. L = G
      BY <1>1, <3>1
    <3> QED BY <1>1, <2>1, <2>4, <3>2
  <2>8. c[n].cur = NoSpill /\ c[n].next = Counted(p.next, msg) /\ n \in 0 .. L
    <3>1. n \in 1 .. n /\ n \in 0 .. L
      BY <1>1, <2>4, <2>7
    <3> QED BY <2>4, <2>6, <2>7, <3>1
  <2>9. ASSUME NEW j \in 1 .. n PROVE pl[j] = Granule(msg, d + j - 1) /\ ~IsStart(pl[j])
    <3>1. j <= L /\ j \in 1 .. G
      BY <1>1, <2>4, <2>7
    <3>2. pl[j] = Granule(msg, d + j - 1)
      BY <1>2, <2>6, <3>1
    <3>3. d + j - 1 # 0
      BY <2>1, <2>4
    <3> QED BY <3>2, <3>3 DEF IsStart, Granule
  <2> DEFINE whole == carried \o SubSeq(pl, 1, n)
             rest == scan[n + 1]
  <2>10. whole = Cells(msg, total) /\ whole \in Seq(Cell) /\ Len(whole) = total
    <3>1. whole = Cells(msg, d + n)
      <4> DEFINE S == Cell \cup {NoGranule}
      <4>1. pl \in Seq(S)
        BY <1>2
      <4> HIDE DEF S
      <4>2. n <= Len(pl) /\ d + n <= Size(msg) /\ \A j \in 1 .. n : pl[j] = Granule(msg, d + j - 1)
        BY <1>2, <2>1, <2>4, <2>9, <2>t
      <4>3. Cells(msg, d) \o SubSeq(pl, 1, n) = Cells(msg, d + n)
        BY <2>1, <2>4, <4>1, <4>2, CellsJoin
      <4> QED BY <4>3 DEF carried
    <3> HIDE DEF whole
    <3>2. total \in 0 .. Size(msg)
      BY <2>1, <2>t
    <3> QED BY <2>1, <2>4, <3>1, <3>2, CellsFacts
  <2>11. GoodParse(rest, c[n], q)
    BY <1>5, <2>8
  <2>12. Parse(pl, carried) = Parsed(<<whole>> \o rest.messages, rest.carry,
                                     (\A i \in 1 .. n : ~IsStart(pl[i])) /\ rest.ok)
    <3>1. Smaller(Size(carried[1].msg) - Len(carried), GranuleCount) = n
      BY <2>3, <2>4, <2>t DEF G
    <3>2. Len(whole) = Size(carried[1].msg) /\ Scan(pl, n + 1) = rest
      BY <1>4, <2>3, <2>10, <2>t
    <3> HIDE DEF rest
    <3> QED BY <2>3, <3>1, <3>2, Zenon DEF Parse
  <2> HIDE DEF whole, rest
  <2>13. rest.ok = TRUE /\ rest.carry = CarryOf(q.cur) /\ rest.messages \in Seq(Seq(Cell))
         /\ Leads(rest.messages, MsgStep, Counted(p.next, msg), q.next)
    BY <2>8, <2>11 DEF GoodParse
  <2>14. <<p.next, whole, Counted(p.next, msg)>> \in MsgStep
    <3>1. 1 \in 1 .. L /\ 1 \in 1 .. n
      BY <1>1, <2>4, <2>7
    <3>2. gs[1].msg = msg
      <4>1. 1 <= L
        BY <1>1, <3>1
      <4>2. gs[1] = Granule(msg, d + 1 - 1)
        BY <2>6, <3>1, <4>1
      <4> QED BY <4>2 DEF Granule
    <3>3. <<c[1 - 1], gs[1], c[1]>> \in CellStep
      BY <1>3, <3>1 DEF IsPath, L
    <3>4. Due(p.next, msg)
      BY <1>3, <3>2, <3>3, CellStepFacts
    <3>5. c[n] \in Pos
      <4>1. n \in 1 .. L
        BY <2>4, <2>7, <2>8
      <4>2. <<c[n - 1], gs[n], c[n]>> \in CellStep
        BY <1>3, <4>1 DEF IsPath, L
      <4> QED BY <4>2, CellStepFacts
    <3>6. Counted(p.next, msg) \in Counts
      BY <2>8, <3>5 DEF Pos
    <3> QED BY <2>1, <2>10, <2>t, <3>4, <3>6 DEF MsgStep
  <2>15. Leads(<<whole>> \o rest.messages, MsgStep, p.next, q.next)
    BY <2>10, <2>13, <2>14, LeadsCons
  <2>16. Parse(pl, carried) = Parsed(<<whole>> \o rest.messages, CarryOf(q.cur), TRUE)
    BY <2>9, <2>12, <2>13
  <2>17. <<whole>> \o rest.messages \in Seq(Seq(Cell))
    BY <2>10, <2>13
  <2>18. GoodParse(Parse(pl, carried), p, q)
    BY <2>15, <2>16, <2>17 DEF GoodParse, Parsed
  <2> QED BY <2>2, <2>18 DEF pl
<1> QED BY <1>6, <1>7

-----------------------------------------------------------------------------
(* What the packer does to the stream.                                     *)

\* A change at one kind and plane.
LEMMA GridPut ==
  ASSUME NEW S, NEW f \in [KindSet -> [Planes -> S]], NEW k \in KindSet, NEW rp \in Planes, NEW x \in S
  PROVE  LET g == [f EXCEPT ![k][rp] = x]
         IN  /\ g \in [KindSet -> [Planes -> S]] /\ g[k][rp] = x
             /\ \A l \in KindSet, rq \in Planes : ~(l = k /\ rq = rp) => g[l][rq] = f[l][rq]
<1> DEFINE row == [f[k] EXCEPT ![rp] = x]
           g == [f EXCEPT ![k] = row]
<1>1. row \in [Planes -> S] /\ row[rp] = x /\ \A rq \in Planes : rq # rp => row[rq] = f[k][rq]
  OBVIOUS
<1> HIDE DEF row
<1>2. g \in [KindSet -> [Planes -> S]] /\ g[k] = row /\ \A l \in KindSet : l # k => g[l] = f[l]
  BY <1>1
<1>3. [f EXCEPT ![k][rp] = x] = g
  BY DEF row
<1> HIDE DEF g
<1> QED BY <1>1, <1>2, <1>3

\* A message is counted where it belongs.
LEMMA CountedFacts ==
  ASSUME NEW next \in Counts, NEW msg \in AnyMsg
  PROVE  /\ Counted(next, msg) \in Counts
         /\ \A k \in KindSet, rp \in Planes :
              /\ k = msg.kind /\ rp = msg.rp => Counted(next, msg)[k][rp] = next[k][rp] + 1
              /\ ~(k = msg.kind /\ rp = msg.rp) => Counted(next, msg)[k][rp] = next[k][rp]
<1>1. CASE msg.kind \notin KindSet
  BY <1>1 DEF Counted
<1>2. CASE msg.kind \in KindSet
  <2>1. msg.rp \in Planes
    BY <1>2 DEF AnyMsg, Msgs, Grants, KindSet
  <2> DEFINE k0 == msg.kind
             r0 == msg.rp
             n == next[k0][r0] + 1
  <2>2. n \in Nat /\ next \in [KindSet -> [Planes -> Nat]] /\ k0 \in KindSet /\ r0 \in Planes
    BY <1>2, <2>1 DEF Counts
  <2>3. Counted(next, msg) = [next EXCEPT ![k0][r0] = n]
    BY <1>2, <2>2 DEF Counted
  <2>4. n = next[k0][r0] + 1
    OBVIOUS
  <2> HIDE DEF k0, r0, n
  <2>5. LET g == [next EXCEPT ![k0][r0] = n]
        IN  /\ g \in [KindSet -> [Planes -> Nat]] /\ g[k0][r0] = n
            /\ \A l \in KindSet, rq \in Planes : ~(l = k0 /\ rq = r0) => g[l][rq] = next[l][rq]
    BY <2>2, GridPut
  <2>6. PICK g : g = [next EXCEPT ![k0][r0] = n]
    OBVIOUS
  <2> QED BY <2>3, <2>4, <2>5, <2>6 DEF Counts, k0, r0
<1> QED BY <1>1, <1>2

\* Where the cursor is when done granules of the message were sent, and what
\* is counted then.
At(msg, done) == IF done = Size(msg) THEN NoSpill ELSE [msg |-> msg, done |-> done]

CountedAt(next, msg, done) == IF done = Size(msg) THEN Counted(next, msg) ELSE next

\* The message goes on after its first off granules.
Resumes(cur, msg, off) ==
    \/ off = 0 /\ cur = NoSpill
    \/ off > 0 /\ cur = [msg |-> msg, done |-> off]

\* Some, but not all, of the granules that are left.
LEMMA SumBelow ==
  ASSUME NEW a \in Nat, NEW i \in Nat, NEW n \in Nat, NEW s \in Nat, a + n <= s, i <= n, 1 <= i, a + i # s
  PROVE  a + i \in Nat /\ 0 < a + i /\ a + i < s
OBVIOUS

Piece(msg, off, n) == [i \in 1 .. n |-> Granule(msg, off + i - 1)]

EndAt(a, msg, done) == [cur |-> At(msg, done), next |-> CountedAt(a.next, msg, done)]

\* Sending some granules of a message.
LEMMA RunLeads ==
  ASSUME NEW a \in Pos, NEW msg \in AnyMsg, NEW off \in Nat, NEW n \in Nat \ {0}, off + n <= Size(msg),
         Resumes(a.cur, msg, off), Due(a.next, msg),
         NEW frag, frag = Piece(msg, off, n), NEW e, e = EndAt(a, msg, off + n)
  PROVE  frag \in Seq(Cell) /\ Len(frag) = n /\ e \in Pos /\ Leads(frag, CellStep, a, e)
<1> DEFINE sz == Size(msg)
<1>1. sz \in Nat \ {0}
  BY SizeFacts
<1>2. sz = Size(msg)
  OBVIOUS
<1> HIDE DEF sz
<1>0. frag = [i \in 1 .. n |-> Granule(msg, off + i - 1)]
      /\ e = [cur |-> At(msg, off + n), next |-> CountedAt(a.next, msg, off + n)]
  BY DEF Piece, EndAt
<1> DEFINE P(i) == [cur |-> At(msg, off + i), next |-> CountedAt(a.next, msg, off + i)]
           c == [i \in 0 .. n |-> IF i = 0 THEN a ELSE P(i)]
<1>3. ASSUME NEW i \in 1 .. n PROVE P(i) \in Pos
  <2>1. At(msg, off + i) \in Cursor
    <3>1. CASE off + i = Size(msg)
      BY <3>1 DEF At, Cursor
    <3>2. CASE off + i # Size(msg)
      <4>1. off + i \in Nat /\ 0 < off + i /\ off + i < Size(msg)
        <5>1. off + n <= sz /\ off + i # sz
          BY <1>2, <3>2
        <5>2. off + i \in Nat /\ 0 < off + i /\ off + i < sz
          <6> HIDE DEF P
          <6>1. i \in Nat /\ i <= n /\ 1 <= i
            OBVIOUS
          <6>2. sz \in Nat /\ n \in Nat
            BY <1>1
          <6> QED BY <5>1, <6>1, <6>2, SumBelow, Zenon
        <5> QED BY <1>2, <5>2
      <4> QED BY <3>2, <4>1 DEF At, Cursor
    <3> QED BY <3>1, <3>2
  <2>2. CountedAt(a.next, msg, off + i) \in Counts
    <3>1. a.next \in Counts
      BY DEF Pos
    <3> QED BY <3>1, CountedFacts DEF CountedAt
  <2> QED BY <2>1, <2>2 DEF Pos
<1>4. ASSUME NEW i \in 1 .. n PROVE Granule(msg, off + i - 1) \in Cell
  BY <1>1, <1>2 DEF Granule, Cell
<1>5. frag \in Seq(Cell) /\ Len(frag) = n /\ \A i \in 1 .. n : frag[i] = Granule(msg, off + i - 1)
  BY <1>0, <1>4
<1>6. ASSUME NEW i \in 1 .. n PROVE <<c[i - 1], frag[i], c[i]>> \in CellStep
  <2> DEFINE x == Granule(msg, off + i - 1)
             u == c[i - 1]
             w == c[i]
  <2>1. w = P(i) /\ w \in Pos /\ w.cur = At(msg, off + i) /\ w.next = CountedAt(a.next, msg, off + i)
    BY <1>3
  <2>2. x \in Cell /\ x.msg = msg /\ x.offset = off + i - 1 /\ x.offset + 1 = off + i /\ frag[i] = x
    <3>1. x \in Cell /\ frag[i] = x
      BY <1>4, <1>5
    <3>2. x.msg = msg /\ x.offset = off + i - 1
      BY DEF Granule
    <3>3. off + i - 1 + 1 = off + i
      OBVIOUS
    <3> QED BY <3>1, <3>2, <3>3
  <2>3. u \in Pos /\ Continues(u.cur, x) /\ u.next = a.next
    <3>1. CASE i = 1
      <4>1. u = a /\ off + i - 1 = off
        BY <3>1
      <4> HIDE DEF u
      <4>2. CASE off = 0 /\ a.cur = NoSpill
        BY <2>2, <4>1, <4>2 DEF Continues
      <4>3. CASE off > 0 /\ a.cur = [msg |-> msg, done |-> off]
        <5>1. a.cur # NoSpill /\ a.cur.msg = msg /\ a.cur.done = off
          BY <4>3 DEF NoSpill
        <5> QED BY <4>1, <5>1 DEF Continues
      <4> QED BY <4>1, <4>2, <4>3 DEF Resumes
    <3>2. CASE i # 1
      <4>1. i - 1 \in 1 .. n /\ off + (i - 1) # Size(msg) /\ off + (i - 1) = off + i - 1 /\ off + i - 1 > 0
        BY <1>1, <1>2, <3>2
      <4>2. u = P(i - 1) /\ u \in Pos
        <5>1. i - 1 \in 0 .. n /\ i - 1 # 0
          BY <4>1
        <5>2. P(i - 1) \in Pos
          BY <1>3, <4>1
        <5> HIDE DEF P
        <5> QED BY <5>1, <5>2
      <4>3. u.cur = [msg |-> msg, done |-> off + (i - 1)] /\ u.next = a.next
        BY <4>1, <4>2 DEF At, CountedAt
      <4> HIDE DEF u
      <4>4. u.cur # NoSpill /\ u.cur.msg = msg /\ u.cur.done = off + i - 1
        BY <4>1, <4>3 DEF NoSpill
      <4> QED BY <4>2, <4>3, <4>4 DEF Continues
    <3> QED BY <3>1, <3>2
  <2> HIDE DEF u, w, x, P
  <2>4. w.cur = AfterCell(x) /\ w.next = IF x.offset + 1 = Size(x.msg) THEN Counted(u.next, x.msg) ELSE u.next
    BY <2>1, <2>2, <2>3 DEF At, AfterCell, CountedAt
  <2>5. <<u, x, w>> \in CellStep
    BY <2>1, <2>2, <2>3, <2>4 DEF CellStep
  <2> QED BY <2>2, <2>5 DEF u, w
<1>7. c[0] = a /\ c[n] = e /\ e \in Pos
  <2>1. n \in 1 .. n /\ n # 0
    OBVIOUS
  <2>2. P(n) \in Pos
    BY <1>3, <2>1
  <2> QED BY <1>0, <2>2
<1>p. c = [i \in 0 .. Len(frag) |-> c[i]]
  BY <1>5
<1> HIDE DEF c, P
<1>8. IsPath(c, frag, CellStep)
  BY <1>5, <1>6, <1>p DEF IsPath
<1> QED BY <1>5, <1>7, <1>8 DEF Leads

\* A sequence over a subset.
LEMMA SeqWithin ==
  ASSUME NEW S, NEW T, S \subseteq T, NEW s \in Seq(S)
  PROVE  s \in Seq(T)
<1>1. Len(s) \in Nat /\ \A i \in 1 .. Len(s) : s[i] \in T
  OBVIOUS
<1>2. DOMAIN s = 1 .. Len(s) /\ s = [i \in 1 .. Len(s) |-> s[i]]
  OBVIOUS
<1>3. s \in [1 .. Len(s) -> T]
  BY <1>1, <1>2
<1> QED BY <1>1, <1>3, SeqDef

\* The granules of messages that are no grants.
LEMMA MsgCells ==
  ASSUME NEW s \in Seq(MsgCell)
  PROVE  /\ s \in Seq(Cell)
         /\ s \in Seq([msg : [kind : KindSet \cup {"MISC"}, rp : Planes, id : Nat], offset : Nat])
<1>1. MsgCell \subseteq Cell
  BY DEF MsgCell, Cell, AnyMsg
<1>2. MsgCell \subseteq [msg : [kind : KindSet \cup {"MISC"}, rp : Planes, id : Nat], offset : Nat]
  BY DEF MsgCell, Msgs
<1>3. s \in Seq(Cell)
  BY <1>1, SeqWithin
<1> DEFINE T == [msg : [kind : KindSet \cup {"MISC"}, rp : Planes, id : Nat], offset : Nat]
<1>4. s \in Seq(T)
  <2>1. MsgCell \subseteq T
    BY <1>2
  <2> HIDE DEF T
  <2> QED BY <2>1, SeqWithin
<1> QED BY <1>3, <1>4

\* A fragment fills the flit or finishes the message.
LEMMA FragmentLeads ==
  ASSUME NEW flit, Len(flit) \in Nat, Len(flit) < GranuleCount,
         NEW a \in Pos, NEW msg \in AnyMsg, NEW off \in Nat, off < Size(msg),
         Resumes(a.cur, msg, off), Due(a.next, msg)
  PROVE  \E n \in Nat \ {0} :
           LET frag == Fragment(flit, msg, off)
               e == EndAt(a, msg, off + n)
           IN  /\ frag \in Seq(Cell) /\ Len(frag) = n /\ off + n <= Size(msg) /\ Len(flit) + n <= GranuleCount
               /\ off + n # Size(msg) => Len(flit) + n = GranuleCount
               /\ Size(msg) <= GranuleCount - Len(flit) /\ off = 0 => n = Size(msg)
               /\ msg \in Msgs => frag \in Seq(MsgCell)
               /\ e \in Pos /\ Leads(frag, CellStep, a, e)
<1> DEFINE sz == Size(msg)
           len == Len(flit)
           G == GranuleCount
           n == Smaller(sz - off, G - len)
           frag == Fragment(flit, msg, off)
<1>1. sz \in Nat \ {0} /\ G \in Nat \ {0} /\ off < sz /\ len \in Nat /\ len < G
  BY SizeFacts
<1>2. frag = Piece(msg, off, n) /\ sz = Size(msg)
  BY DEF Fragment, Remaining, Piece
<1> HIDE DEF sz, len, G, frag
<1>3. /\ n \in Nat \ {0} /\ off + n <= sz /\ len + n <= G /\ (off + n # sz => len + n = G)
      /\ (sz <= G - len /\ off = 0 => n = sz)
  BY <1>1 DEF Smaller
<1> HIDE DEF n
<1> DEFINE e == EndAt(a, msg, off + n)
<1>5. frag \in Seq(Cell) /\ Len(frag) = n /\ e \in Pos /\ Leads(frag, CellStep, a, e)
  <2>1. off + n <= Size(msg)
    BY <1>2, <1>3
  <2> QED BY <1>2, <1>3, <2>1, RunLeads
<1>6. ASSUME msg \in Msgs PROVE frag \in Seq(MsgCell)
  <2>1. \A i \in 1 .. n : Granule(msg, off + i - 1) \in MsgCell
    <3> TAKE i \in 1 .. n
    <3>1. off + i - 1 \in Nat /\ off + i - 1 < sz
      BY <1>1, <1>3
    <3> QED BY <1>2, <1>6, <3>1 DEF Granule, MsgCell
  <2> QED BY <1>2, <1>3, <2>1 DEF Piece
<1>7. /\ frag \in Seq(Cell) /\ Len(frag) = n /\ off + n <= Size(msg) /\ Len(flit) + n <= GranuleCount
      /\ off + n # Size(msg) => Len(flit) + n = GranuleCount
      /\ Size(msg) <= GranuleCount - Len(flit) /\ off = 0 => n = Size(msg)
      /\ msg \in Msgs => frag \in Seq(MsgCell)
      /\ e \in Pos /\ Leads(frag, CellStep, a, e)
  <2>1. e \in Pos /\ Leads(frag, CellStep, a, e)
    BY <1>5, Zenon
  <2> HIDE DEF e
  <2>2. off + n <= Size(msg) /\ Len(flit) + n <= GranuleCount
    BY <1>2, <1>3 DEF G, len
  <2>3. /\ off + n # Size(msg) => Len(flit) + n = GranuleCount
        /\ Size(msg) <= GranuleCount - Len(flit) /\ off = 0 => n = Size(msg)
    BY <1>2, <1>3 DEF G, len
  <2> QED BY <1>5, <1>6, <2>1, <2>2, <2>3
<1> QED BY <1>3, <1>7, Zenon DEF frag

\* The unfinished message of a kind and plane counts as taken from its queue.
Begun(cur, k, rp) == IF cur # NoSpill /\ cur.msg.kind = k /\ cur.msg.rp = rp THEN 1 ELSE 0

Taken(e, k, rp) == e.next[k][rp] + Begun(e.cur, k, rp)

\* The queues hold what was queued and not taken.
QueuesOk(messages, e, enq) ==
    \A k \in KindSet, rp \in Planes :
      /\ enq[k][rp] = Taken(e, k, rp) + Len(messages[k][rp])
      /\ \A i \in 1 .. Len(messages[k][rp]) : messages[k][rp][i] = Message(k, rp, Taken(e, k, rp) + i - 1)

\* The flit under construction leads from b to e, and there the packer goes
\* on: with its spill, and then with its queues.
PackerAt(s, b, e, enq) ==
    /\ s \in PackerState /\ s.cur_flit \in Seq(MsgCell) /\ Len(s.cur_flit) <= GranuleCount
    /\ e \in Pos /\ Leads(s.cur_flit, CellStep, b, e) /\ e.cur = s.spill
    /\ e.cur # NoSpill => e.cur.msg \in Msgs /\ Due(e.next, e.cur.msg)
    /\ s.cur_flit # <<>> /\ e.cur # NoSpill => Len(s.cur_flit) = GranuleCount
    /\ QueuesOk(s.messages, e, enq)

PackerOk(s, b, enq) == \E e \in Pos : PackerAt(s, b, e, enq)

\* What packing a fragment does to the flit and to the stream.
Packed(b, e, flit, msg, off) ==
    LET frag == Fragment(flit, msg, off)
        n == Len(frag)
        e2 == EndAt(e, msg, off + n)
        more == flit \o frag
    IN  /\ n \in Nat \ {0} /\ off + n <= Size(msg) /\ frag \in Seq(MsgCell)
        /\ more \in Seq(MsgCell) /\ Len(more) <= GranuleCount /\ more # <<>>
        /\ e2 \in Pos /\ Leads(more, CellStep, b, e2) /\ e2.cur = At(msg, off + n)
        /\ e2.cur # NoSpill => /\ e2.cur.msg \in Msgs /\ Due(e2.next, e2.cur.msg)
                               /\ Len(more) = GranuleCount
        /\ \A k \in KindSet, rp \in Planes :
             Taken(e2, k, rp) = IF off = 0 /\ k = msg.kind /\ rp = msg.rp
                                THEN Taken(e, k, rp) + 1 ELSE Taken(e, k, rp)

\* Packing a fragment.
LEMMA FragmentPacked ==
  ASSUME NEW b, NEW e \in Pos, NEW flit \in Seq(MsgCell), Len(flit) < GranuleCount, Leads(flit, CellStep, b, e),
         NEW msg \in Msgs, NEW off \in Nat, off < Size(msg), Resumes(e.cur, msg, off), Due(e.next, msg)
  PROVE  Packed(b, e, flit, msg, off)
<1> DEFINE frag == Fragment(flit, msg, off)
           n == Len(frag)
           e2 == EndAt(e, msg, off + n)
           more == flit \o frag
<1>1. msg \in AnyMsg /\ Len(flit) \in Nat /\ flit \in Seq(Cell) /\ GranuleCount \in Nat \ {0}
  BY MsgCells, StreamAssumption DEF AnyMsg
<1>s. Size(msg) \in Nat \ {0}
  BY <1>1, SizeFacts
<1>2. /\ n \in Nat \ {0} /\ off + n <= Size(msg) /\ Len(flit) + n <= GranuleCount
      /\ off + n # Size(msg) => Len(flit) + n = GranuleCount
      /\ frag \in Seq(MsgCell) /\ frag \in Seq(Cell) /\ e2 \in Pos /\ Leads(frag, CellStep, e, e2)
  <2>1. PICK m \in Nat \ {0} :
           LET w == EndAt(e, msg, off + m)
           IN  /\ frag \in Seq(Cell) /\ Len(frag) = m /\ off + m <= Size(msg) /\ Len(flit) + m <= GranuleCount
               /\ off + m # Size(msg) => Len(flit) + m = GranuleCount
               /\ Size(msg) <= GranuleCount - Len(flit) /\ off = 0 => m = Size(msg)
               /\ msg \in Msgs => frag \in Seq(MsgCell)
               /\ w \in Pos /\ Leads(frag, CellStep, e, w)
    BY <1>1, FragmentLeads
  <2> HIDE DEF frag
  <2> QED BY <2>1, Zenon
<1> HIDE DEF frag
<1>3. more \in Seq(MsgCell) /\ Len(more) = Len(flit) + n
  BY <1>2, ConcatProperties
<1>4. Leads(more, CellStep, b, e2)
  <2> HIDE DEF e2
  <2> QED BY <1>1, <1>2, LeadsConcat
<1> HIDE DEF n, more
<1>5. Len(more) <= GranuleCount /\ more # <<>>
  BY <1>1, <1>2, <1>3
<1>6. e2.cur = At(msg, off + n) /\ e2.next = CountedAt(e.next, msg, off + n)
  BY DEF EndAt
<1>c. e.next \in Counts
  BY DEF Pos
<1>7. CASE off + n = Size(msg)
  <2>1. e2.cur = NoSpill /\ e2.next = Counted(e.next, msg)
    BY <1>6, <1>7 DEF At, CountedAt
  <2> HIDE DEF e2
  <2>2. ASSUME NEW k \in KindSet, NEW rp \in Planes
        PROVE  Taken(e2, k, rp) = IF off = 0 /\ k = msg.kind /\ rp = msg.rp
                                  THEN Taken(e, k, rp) + 1 ELSE Taken(e, k, rp)
    <3>1. e.next[k][rp] \in Nat
      BY <1>c DEF Counts
    <3>2. /\ k = msg.kind /\ rp = msg.rp => e2.next[k][rp] = e.next[k][rp] + 1
          /\ ~(k = msg.kind /\ rp = msg.rp) => e2.next[k][rp] = e.next[k][rp]
      BY <1>1, <1>c, <2>1, CountedFacts
    <3>3. Begun(e2.cur, k, rp) = 0
      BY <2>1 DEF Begun
    <3>4. CASE off = 0
      <4>1. e.cur = NoSpill
        BY <3>4 DEF Resumes
      <4>2. Begun(e.cur, k, rp) = 0
        BY <4>1 DEF Begun
      <4>3. Taken(e, k, rp) = e.next[k][rp] /\ Taken(e2, k, rp) = e2.next[k][rp]
        <5>1. e2.next[k][rp] \in Nat
          BY <3>1, <3>2
        <5> QED BY <3>1, <3>3, <4>2, <5>1 DEF Taken
      <4> QED BY <3>2, <3>4, <4>3
    <3>5. CASE off # 0
      <4>1. e.cur = [msg |-> msg, done |-> off]
        BY <3>5 DEF Resumes
      <4>2. e.cur # NoSpill /\ e.cur.msg = msg
        BY <3>5, <4>1 DEF NoSpill
      <4>3. Begun(e.cur, k, rp) = IF k = msg.kind /\ rp = msg.rp THEN 1 ELSE 0
        BY <4>2 DEF Begun
      <4> QED BY <3>1, <3>2, <3>3, <3>5, <4>3 DEF Taken
    <3> QED BY <3>4, <3>5
  <2> QED BY <1>2, <1>3, <1>4, <1>5, <1>6, <2>1, <2>2 DEF frag, n, more, e2, Packed
<1>8. CASE off + n # Size(msg)
  <2>1. e2.cur = [msg |-> msg, done |-> off + n] /\ e2.next = e.next /\ off + n # 0
    BY <1>2, <1>6, <1>8 DEF At, CountedAt
  <2>2. e2.cur # NoSpill /\ e2.cur.msg = msg /\ Len(more) = GranuleCount /\ Due(e2.next, e2.cur.msg)
    <3>1. e2.cur # NoSpill /\ e2.cur.msg = msg
      BY <2>1 DEF NoSpill
    <3>2. Len(more) = GranuleCount
      BY <1>2, <1>3, <1>8
    <3> HIDE DEF e2
    <3> QED BY <2>1, <3>1, <3>2
  <2> HIDE DEF e2
  <2>3. ASSUME NEW k \in KindSet, NEW rp \in Planes
        PROVE  Taken(e2, k, rp) = IF off = 0 /\ k = msg.kind /\ rp = msg.rp
                                  THEN Taken(e, k, rp) + 1 ELSE Taken(e, k, rp)
    <3>1. e.next[k][rp] \in Nat
      BY <1>c DEF Counts
    <3>2. Begun(e2.cur, k, rp) = IF k = msg.kind /\ rp = msg.rp THEN 1 ELSE 0
      BY <2>2 DEF Begun
    <3>3. CASE off = 0
      <4>1. e.cur = NoSpill
        BY <3>3 DEF Resumes
      <4>2. Begun(e.cur, k, rp) = 0
        BY <4>1 DEF Begun
      <4> QED BY <2>1, <3>1, <3>2, <3>3, <4>2 DEF Taken
    <3>4. CASE off # 0
      <4>1. e.cur = [msg |-> msg, done |-> off]
        BY <3>4 DEF Resumes
      <4>2. e.cur # NoSpill /\ e.cur.msg = msg
        BY <3>4, <4>1 DEF NoSpill
      <4>3. Begun(e.cur, k, rp) = IF k = msg.kind /\ rp = msg.rp THEN 1 ELSE 0
        BY <4>2 DEF Begun
      <4> QED BY <2>1, <3>1, <3>2, <3>4, <4>3 DEF Taken
    <3> QED BY <3>3, <3>4
  <2> QED BY <1>2, <1>3, <1>4, <1>5, <1>6, <2>2, <2>3 DEF frag, n, more, e2, Packed
<1> QED BY <1>7, <1>8

\* The spill is the cursor.
LEMMA SpillType ==
  ASSUME NEW cur \in Cursor, cur # NoSpill => cur.msg \in Msgs
  PROVE  cur \in [msg : {NoMsg} \cup [kind : KindSet, rp : Planes, id : Nat], done : Nat]
<1>1. CASE cur = NoSpill
  BY <1>1 DEF NoSpill
<1>2. CASE cur # NoSpill
  BY <1>2 DEF Cursor, Msgs
<1> QED BY <1>1, <1>2

\* Sending the tail of the message that was cut.
LEMMA ResumeKeeps ==
  ASSUME NEW s, NEW b, NEW enq, PackerOk(s, b, enq), s.spill # NoSpill, s.cur_flit = EmptyFlit
  PROVE  PackerOk(ResumeSpill(s), b, enq) /\ ResumeSpill(s).cur_flit # <<>>
<1>1. PICK e \in Pos : PackerAt(s, b, e, enq)
  BY DEF PackerOk
<1>2. /\ s \in PackerState /\ s.cur_flit \in Seq(MsgCell)
      /\ Leads(s.cur_flit, CellStep, b, e) /\ e.cur = s.spill
      /\ e.cur.msg \in Msgs /\ Due(e.next, e.cur.msg) /\ QueuesOk(s.messages, e, enq)
  BY <1>1 DEF PackerAt
<1> DEFINE msg == s.spill.msg
           off == s.spill.done
           flit == s.cur_flit
           frag == Fragment(flit, msg, off)
           n == Len(frag)
           more == flit \o frag
           e2 == EndAt(e, msg, off + n)
           t == ResumeSpill(s)
<1>3. /\ msg \in Msgs /\ off \in Nat /\ 0 < off /\ off < Size(msg) /\ e.cur = [msg |-> msg, done |-> off]
      /\ s.spill = [msg |-> msg, done |-> off]
  <2>1. e.cur \in [msg : AnyMsg, done : Nat] /\ 0 < e.cur.done /\ e.cur.done < Size(e.cur.msg)
    BY <1>2 DEF Pos, Cursor
  <2>2. e.cur = [msg |-> e.cur.msg, done |-> e.cur.done] /\ e.cur.done \in Nat
    BY <2>1
  <2> QED BY <1>2, <2>1, <2>2
<1>4. Size(msg) \in Nat \ {0} /\ GranuleCount \in Nat \ {0} /\ Len(flit) < GranuleCount
  <2>1. msg \in AnyMsg
    BY <1>3 DEF AnyMsg
  <2>2. Len(<<>>) = 0
    OBVIOUS
  <2> QED BY <2>1, <2>2, SizeFacts DEF EmptyFlit
<1>5. Resumes(e.cur, msg, off) /\ Due(e.next, msg)
  BY <1>2, <1>3 DEF Resumes
<1>6. /\ n \in Nat \ {0} /\ off + n <= Size(msg)
      /\ more \in Seq(MsgCell) /\ Len(more) <= GranuleCount /\ more # <<>>
      /\ e2 \in Pos /\ Leads(more, CellStep, b, e2) /\ e2.cur = At(msg, off + n)
      /\ e2.cur # NoSpill => /\ e2.cur.msg \in Msgs /\ Due(e2.next, e2.cur.msg)
                             /\ Len(more) = GranuleCount
      /\ \A k \in KindSet, rp \in Planes :
           Taken(e2, k, rp) = IF off = 0 /\ k = msg.kind /\ rp = msg.rp THEN Taken(e, k, rp) + 1 ELSE Taken(e, k, rp)
  <2> HIDE DEF msg, off, flit
  <2>1. flit \in Seq(MsgCell) /\ Leads(flit, CellStep, b, e)
    BY <1>2 DEF flit
  <2>2. Packed(b, e, flit, msg, off)
    BY <1>3, <1>4, <1>5, <2>1, FragmentPacked
  <2> QED BY <2>2, Zenon DEF Packed
<1>7. t = [s EXCEPT !.cur_flit = more, !.spill = IF off + n >= Size(msg) THEN NoSpill ELSE [s.spill EXCEPT !.done = off + n]]
  BY DEF ResumeSpill
<1> HIDE DEF t, more, e2, n, frag
<1>8. (IF off + n >= Size(msg) THEN NoSpill ELSE [s.spill EXCEPT !.done = off + n]) = e2.cur
  <2> HIDE DEF msg, off
  <2>1. CASE off + n = Size(msg)
    <3>1. off + n >= Size(msg)
      BY <1>4, <2>1
    <3> QED BY <1>6, <2>1, <3>1 DEF At
  <2>2. CASE off + n # Size(msg)
    <3>1. ~(off + n >= Size(msg))
      BY <1>3, <1>4, <1>6, <2>2
    <3>2. [s.spill EXCEPT !.done = off + n] = [msg |-> msg, done |-> off + n]
      BY <1>3
    <3> QED BY <1>6, <2>2, <3>1, <3>2 DEF At
  <2> QED BY <2>1, <2>2
<1>9. t = [s EXCEPT !.cur_flit = more, !.spill = e2.cur]
  BY <1>7, <1>8, Zenon
<1>10. t \in PackerState /\ t.cur_flit = more /\ t.spill = e2.cur /\ t.messages = s.messages
  <2>1. more \in Seq([msg : [kind : KindSet \cup {"MISC"}, rp : Planes, id : Nat], offset : Nat])
    BY <1>6, MsgCells
  <2>2. e2.cur \in [msg : {NoMsg} \cup [kind : KindSet, rp : Planes, id : Nat], done : Nat]
    <3>1. e2.cur \in Cursor
      BY <1>6 DEF Pos
    <3> QED BY <1>6, <3>1, SpillType
  <2> HIDE DEF msg, off, flit
  <2> QED BY <1>2, <1>9, <2>1, <2>2 DEF PackerState
<1>11. QueuesOk(t.messages, e2, enq)
  <2>1. \A k \in KindSet, rp \in Planes : Taken(e2, k, rp) = Taken(e, k, rp)
    BY <1>3, <1>6
  <2> QED BY <1>2, <1>10, <2>1 DEF QueuesOk
<1>12. PackerAt(t, b, e2, enq)
  BY <1>6, <1>10, <1>11 DEF PackerAt
<1> QED BY <1>6, <1>10, <1>12 DEF PackerOk, t

\* Packing the message of a candidate.
LEMMA ConsumeKeeps ==
  ASSUME NEW s, NEW b, NEW enq, PackerOk(s, b, enq), s.spill = NoSpill, Remaining(s.cur_flit) # 0,
         NEW k \in KindSet, NEW rp \in Planes, Payable(s, k, rp)
  PROVE  PackerOk(ConsumeCandidate(s, k, rp), b, enq) /\ ConsumeCandidate(s, k, rp).cur_flit # <<>>
<1>1. PICK e \in Pos : PackerAt(s, b, e, enq)
  BY DEF PackerOk
<1>2. /\ s \in PackerState /\ s.cur_flit \in Seq(MsgCell) /\ Len(s.cur_flit) <= GranuleCount
      /\ Leads(s.cur_flit, CellStep, b, e) /\ e.cur = NoSpill /\ QueuesOk(s.messages, e, enq)
  BY <1>1 DEF PackerAt
<1> DEFINE q == s.messages[k][rp]
           msg == Head(q)
           flit == s.cur_flit
           frag == Fragment(flit, msg, 0)
           n == Len(frag)
           more == flit \o frag
           e2 == EndAt(e, msg, 0 + n)
           t == ConsumeCandidate(s, k, rp)
<1>3. /\ s.messages \in [KindSet -> [Planes -> Seq(Msgs)]] /\ s.tx_available \in [KindSet -> [Planes -> Nat]]
      /\ s.next_rp \in Planes
  BY <1>2 DEF PackerState, Msgs
<1>4. q \in Seq(Msgs) /\ q # <<>> /\ s.tx_available[k][rp] \in Nat /\ s.tx_available[k][rp] >= Granules[k]
  BY <1>3 DEF Payable
<1>5. /\ Len(q) \in Nat \ {0} /\ msg = q[1] /\ msg \in Msgs /\ Tail(q) \in Seq(Msgs) /\ Len(Tail(q)) = Len(q) - 1
      /\ \A i \in 1 .. (Len(q) - 1) : Tail(q)[i] = q[i + 1]
  <2> HIDE DEF q
  <2> QED BY <1>4, HeadTail
<1>6. e.next \in Counts /\ e.next[k][rp] \in Nat /\ Taken(e, k, rp) = e.next[k][rp]
  <2>1. e.next \in Counts
    BY DEF Pos
  <2>2. e.next[k][rp] \in Nat
    BY <2>1 DEF Counts
  <2>3. Begun(e.cur, k, rp) = 0
    BY <1>2 DEF Begun
  <2> QED BY <2>1, <2>2, <2>3 DEF Taken
<1>7. msg = Message(k, rp, e.next[k][rp]) /\ msg.kind = k /\ msg.rp = rp /\ Due(e.next, msg)
  <2>1. 1 \in 1 .. Len(q)
    BY <1>5
  <2>2. q[1] = Message(k, rp, Taken(e, k, rp) + 1 - 1)
    BY <1>2, <2>1 DEF QueuesOk
  <2>3. Taken(e, k, rp) + 1 - 1 = e.next[k][rp]
    BY <1>6
  <2>4. msg = Message(k, rp, e.next[k][rp])
    BY <1>5, <2>2, <2>3, Zenon
  <2> HIDE DEF msg
  <2> QED BY <2>4 DEF Message, Due
<1>8. Size(msg) \in Nat \ {0} /\ GranuleCount \in Nat \ {0} /\ Len(flit) < GranuleCount /\ Size(msg) = Granules[k]
  <2>1. msg \in AnyMsg
    BY <1>5 DEF AnyMsg
  <2>2. Size(msg) \in Nat \ {0} /\ GranuleCount \in Nat \ {0}
    BY <2>1, SizeFacts
  <2>3. Size(msg) = Granules[k]
    BY <1>7 DEF Size
  <2>4. Len(flit) \in Nat
    BY <1>2
  <2>5. Len(flit) < GranuleCount
    BY <1>2, <2>2, <2>4 DEF Remaining
  <2> QED BY <2>2, <2>3, <2>5
<1>9. Resumes(e.cur, msg, 0) /\ 0 < Size(msg) /\ 0 \in Nat
  BY <1>2, <1>8 DEF Resumes
<1>10. /\ n \in Nat \ {0} /\ 0 + n <= Size(msg)
       /\ more \in Seq(MsgCell) /\ Len(more) <= GranuleCount /\ more # <<>>
       /\ e2 \in Pos /\ Leads(more, CellStep, b, e2) /\ e2.cur = At(msg, 0 + n)
       /\ e2.cur # NoSpill => /\ e2.cur.msg \in Msgs /\ Due(e2.next, e2.cur.msg)
                              /\ Len(more) = GranuleCount
       /\ \A l \in KindSet, rq \in Planes :
            Taken(e2, l, rq) = IF 0 = 0 /\ l = msg.kind /\ rq = msg.rp THEN Taken(e, l, rq) + 1 ELSE Taken(e, l, rq)
  <2> HIDE DEF msg, flit
  <2>1. flit \in Seq(MsgCell) /\ Leads(flit, CellStep, b, e)
    BY <1>2 DEF flit
  <2>2. Packed(b, e, flit, msg, 0)
    BY <1>5, <1>7, <1>8, <1>9, <2>1, FragmentPacked
  <2> QED BY <2>2, Zenon DEF Packed
<1> HIDE DEF more, e2, n, frag
<1>11. t = [messages |-> [s.messages EXCEPT ![k][rp] = Tail(q)],
            tx_available |-> [s.tx_available EXCEPT ![k][rp] = s.tx_available[k][rp] - Size(msg)],
            cur_flit |-> more,
            spill |-> IF n < Size(msg) THEN [msg |-> msg, done |-> n] ELSE s.spill,
            next_rp |-> (rp + 1) % RpCount]
  BY <1>3 DEF ConsumeCandidate, more, n, frag
<1>12. (IF n < Size(msg) THEN [msg |-> msg, done |-> n] ELSE s.spill) = e2.cur
  <2> HIDE DEF msg
  <2>1. 0 + n = n
    BY <1>10
  <2>2. CASE n = Size(msg)
    BY <1>8, <1>10, <2>1, <2>2 DEF At
  <2>3. CASE n # Size(msg)
    <3>1. n < Size(msg)
      BY <1>8, <1>10, <2>1, <2>3
    <3> QED BY <1>10, <2>1, <2>3, <3>1 DEF At
  <2> QED BY <2>2, <2>3
<1> DEFINE M == [s.messages EXCEPT ![k][rp] = Tail(q)]
           X == [s.tx_available EXCEPT ![k][rp] = s.tx_available[k][rp] - Size(msg)]
<1>13. /\ M \in [KindSet -> [Planes -> Seq(Msgs)]] /\ M[k][rp] = Tail(q)
       /\ \A l \in KindSet, rq \in Planes : ~(l = k /\ rq = rp) => M[l][rq] = s.messages[l][rq]
  <2> DEFINE x == Tail(q)
             f == s.messages
             S == Seq(Msgs)
  <2>1. f \in [KindSet -> [Planes -> S]] /\ x \in S
    BY <1>3, <1>5
  <2> HIDE DEF x, f, S
  <2>2. LET g == [f EXCEPT ![k][rp] = x]
        IN  /\ g \in [KindSet -> [Planes -> S]] /\ g[k][rp] = x
            /\ \A l \in KindSet, rq \in Planes : ~(l = k /\ rq = rp) => g[l][rq] = f[l][rq]
    BY <2>1, GridPut
  <2> QED BY <2>2 DEF x, f, S
<1>14. X \in [KindSet -> [Planes -> Nat]]
  <2> DEFINE x == s.tx_available[k][rp] - Size(msg)
             f == s.tx_available
  <2>1. x \in Nat
    BY <1>4, <1>8
  <2>2. f \in [KindSet -> [Planes -> Nat]]
    BY <1>3
  <2> HIDE DEF x, f
  <2>3. LET g == [f EXCEPT ![k][rp] = x]
        IN  /\ g \in [KindSet -> [Planes -> Nat]] /\ g[k][rp] = x
            /\ \A l \in KindSet, rq \in Planes : ~(l = k /\ rq = rp) => g[l][rq] = f[l][rq]
    BY <2>1, <2>2, GridPut
  <2> QED BY <2>3 DEF x, f
<1> HIDE DEF M, X
<1>15. (rp + 1) % RpCount \in Planes
  <2>1. RpCount \in Nat \ {0} /\ rp + 1 \in Nat
    BY StreamAssumption DEF Planes
  <2> QED BY <2>1, DivModFacts DEF Planes
<1>16. t = [messages |-> M, tx_available |-> X, cur_flit |-> more, spill |-> e2.cur, next_rp |-> (rp + 1) % RpCount]
  BY <1>11, <1>12, Zenon DEF M, X
<1> HIDE DEF t, msg, q, flit
<1>17. t \in PackerState /\ t.cur_flit = more /\ t.spill = e2.cur /\ t.messages = M
  <2>1. more \in Seq([msg : [kind : KindSet \cup {"MISC"}, rp : Planes, id : Nat], offset : Nat])
    BY <1>10, MsgCells
  <2>2. e2.cur \in [msg : {NoMsg} \cup [kind : KindSet, rp : Planes, id : Nat], done : Nat]
    <3>1. e2.cur \in Cursor
      BY <1>10 DEF Pos
    <3> QED BY <1>10, <3>1, SpillType
  <2> QED BY <1>13, <1>14, <1>15, <1>16, <2>1, <2>2 DEF PackerState, Msgs
<1>18. QueuesOk(M, e2, enq)
  <2>1. ASSUME NEW l \in KindSet, NEW rq \in Planes
        PROVE  /\ enq[l][rq] = Taken(e2, l, rq) + Len(M[l][rq])
               /\ \A i \in 1 .. Len(M[l][rq]) : M[l][rq][i] = Message(l, rq, Taken(e2, l, rq) + i - 1)
    <3>0. /\ enq[l][rq] = Taken(e, l, rq) + Len(s.messages[l][rq])
          /\ \A i \in 1 .. Len(s.messages[l][rq]) : s.messages[l][rq][i] = Message(l, rq, Taken(e, l, rq) + i - 1)
      BY <1>2 DEF QueuesOk
    <3>1. CASE l = k /\ rq = rp
      <4>1. Taken(e2, k, rp) = Taken(e, k, rp) + 1 /\ M[k][rp] = Tail(q) /\ s.messages[k][rp] = q
        BY <1>7, <1>10, <1>13 DEF q
      <4>2. Taken(e, k, rp) \in Nat
        BY <1>6
      <4>3. enq[k][rp] = Taken(e2, k, rp) + Len(M[k][rp])
        BY <1>5, <3>0, <3>1, <4>1, <4>2
      <4>4. ASSUME NEW i \in 1 .. Len(M[k][rp]) PROVE M[k][rp][i] = Message(k, rp, Taken(e2, k, rp) + i - 1)
        <5>1. i \in 1 .. (Len(q) - 1) /\ i + 1 \in 1 .. Len(q) /\ Taken(e, k, rp) + (i + 1) - 1 = Taken(e2, k, rp) + i - 1
          BY <1>5, <4>1, <4>2
        <5>2. Tail(q)[i] = q[i + 1]
          BY <1>5, <5>1
        <5>3. q[i + 1] = Message(k, rp, Taken(e, k, rp) + (i + 1) - 1)
          BY <3>0, <3>1, <4>1, <5>1
        <5> QED BY <4>1, <5>1, <5>2, <5>3
      <4> QED BY <3>1, <4>3, <4>4
    <3>2. CASE ~(l = k /\ rq = rp)
      <4>1. Taken(e2, l, rq) = Taken(e, l, rq) /\ M[l][rq] = s.messages[l][rq]
        BY <1>7, <1>10, <1>13, <3>2
      <4> QED BY <3>0, <4>1
    <3> QED BY <3>1, <3>2
  <2> QED BY <2>1 DEF QueuesOk
<1>19. PackerAt(t, b, e2, enq)
  BY <1>10, <1>17, <1>18 DEF PackerAt
<1> QED BY <1>10, <1>17, <1>19 DEF PackerOk, t

\* Runs of pack_cycle that keep the stream in order.  The loop goes on only
\* without a spill, and a flit without granules leaves none.
Runs(b, enq) ==
    {r \in [s : PackerState, go : BOOLEAN, exhausted : BOOLEAN] :
       /\ PackerOk(r.s, b, enq)
       /\ r.go => r.s.spill = NoSpill
       /\ r.s.cur_flit = <<>> => r.s.spill = NoSpill}

\* A run with its parts.
LEMMA RunFacts ==
  ASSUME NEW b, NEW enq, NEW s, PackerOk(s, b, enq), s.cur_flit = <<>> => s.spill = NoSpill,
         NEW go \in BOOLEAN, NEW ex \in BOOLEAN, go => s.spill = NoSpill
  PROVE  Run(s, go, ex) \in Runs(b, enq)
<1>1. s \in PackerState
  BY DEF PackerOk, PackerAt
<1>2. PICK r : r = Run(s, go, ex)
  OBVIOUS
<1>3. r.s = s /\ r.go = go /\ r.exhausted = ex /\ r \in [s : PackerState, go : BOOLEAN, exhausted : BOOLEAN]
  BY <1>1, <1>2 DEF Run
<1> QED BY <1>2, <1>3 DEF Runs

\* A turn of the packing loop.
LEMMA PackMessageKeeps ==
  ASSUME NEW b, NEW enq, NEW r \in Runs(b, enq)
  PROVE  PackMessage(r) \subseteq Runs(b, enq)
<1>1. /\ PackerOk(r.s, b, enq) /\ (r.go => r.s.spill = NoSpill) /\ (r.s.cur_flit = <<>> => r.s.spill = NoSpill)
      /\ r.go \in BOOLEAN /\ r.exhausted \in BOOLEAN
  BY DEF Runs
<1>2. CASE ~r.go \/ Remaining(r.s.cur_flit) = 0
  <2>1. Run(r.s, FALSE, r.exhausted) \in Runs(b, enq)
    BY <1>1, RunFacts
  <2>2. PackMessage(r) = {Run(r.s, FALSE, r.exhausted)}
    BY <1>2, Zenon DEF PackMessage
  <2> QED BY <2>1, <2>2
<1>3. CASE ~(~r.go \/ Remaining(r.s.cur_flit) = 0) /\ Candidates(r.s) = {}
  <2>1. Run(r.s, FALSE, TRUE) \in Runs(b, enq)
    BY <1>1, RunFacts
  <2>2. PackMessage(r) = {Run(r.s, FALSE, TRUE)}
    BY <1>3, Zenon DEF PackMessage
  <2> QED BY <2>1, <2>2
<1>4. CASE ~(~r.go \/ Remaining(r.s.cur_flit) = 0) /\ Candidates(r.s) # {}
  <2>1. PackMessage(r) = {Run(s, s.spill = NoSpill, FALSE) : s \in {ConsumeCandidate(r.s, c[1], c[2]) : c \in Candidates(r.s)}}
    BY <1>4, Zenon DEF PackMessage
  <2>2. ASSUME NEW c \in Candidates(r.s), NEW s, s = ConsumeCandidate(r.s, c[1], c[2])
        PROVE  Run(s, s.spill = NoSpill, FALSE) \in Runs(b, enq)
    <3>1. c[1] \in KindSet /\ c[2] \in Planes /\ Payable(r.s, c[1], c[2])
      BY DEF Candidates
    <3>2. r.s.spill = NoSpill /\ Remaining(r.s.cur_flit) # 0
      BY <1>1, <1>4
    <3>3. PackerOk(s, b, enq) /\ s.cur_flit # <<>>
      <4>1. PICK k \in KindSet, rp \in Planes : k = c[1] /\ rp = c[2]
        BY <3>1
      <4>2. PackerOk(ConsumeCandidate(r.s, k, rp), b, enq) /\ ConsumeCandidate(r.s, k, rp).cur_flit # <<>>
        BY <1>1, <3>1, <3>2, <4>1, ConsumeKeeps
      <4> QED BY <2>2, <4>1, <4>2
    <3>4. PICK go \in BOOLEAN : go = (s.spill = NoSpill)
      OBVIOUS
    <3>5. Run(s, go, FALSE) \in Runs(b, enq)
      BY <3>3, <3>4, RunFacts
    <3> QED BY <3>4, <3>5
  <2> QED BY <2>1, <2>2
<1> QED BY <1>2, <1>3, <1>4

\* pack_cycle.
LEMMA PackCycleKeeps ==
  ASSUME NEW b, NEW enq, NEW start, PackerOk(start, b, enq)
  PROVE  PackCycle(start) \subseteq Runs(b, enq)
<1> DEFINE U == Runs(b, enq)
           T == SUBSET U
           n == PackMsgs
           first == {Run(s, s.spill = NoSpill, FALSE) : s \in {AfterSpill(start)}}
           Turn(S) == UNION {PackMessage(r) : r \in S}
           h == [i \in 1 .. n |-> [S \in T |-> Turn(S)]]
           Eq(loop) == loop = [i \in 0 .. n |-> IF i = 0 THEN first ELSE Turn(loop[i - 1])]
           loop == CHOOSE g : Eq(g)
<1>0. n \in Nat \ {0}
  BY StreamAssumption
<1>1. PackerOk(AfterSpill(start), b, enq)
      /\ (AfterSpill(start).cur_flit = <<>> => AfterSpill(start).spill = NoSpill)
  <2>1. CASE start.spill = NoSpill \/ start.cur_flit # EmptyFlit
    <3>1. AfterSpill(start) = start
      BY <2>1 DEF AfterSpill
    <3> QED BY <2>1, <3>1 DEF EmptyFlit
  <2>2. CASE ~(start.spill = NoSpill \/ start.cur_flit # EmptyFlit)
    <3>1. AfterSpill(start) = ResumeSpill(start)
      BY <2>2, Zenon DEF AfterSpill
    <3>2. PackerOk(ResumeSpill(start), b, enq) /\ ResumeSpill(start).cur_flit # <<>>
      BY <2>2, ResumeKeeps
    <3> QED BY <3>1, <3>2
  <2> QED BY <2>1, <2>2
<1>2. first \in T
  <2>1. PICK s : s = AfterSpill(start)
    OBVIOUS
  <2>2. PICK go \in BOOLEAN : go = (s.spill = NoSpill)
    OBVIOUS
  <2>3. Run(s, go, FALSE) \in U
    BY <1>1, <2>1, <2>2, RunFacts
  <2> HIDE DEF U
  <2> QED BY <2>1, <2>2, <2>3
<1>3. \A S \in T : Turn(S) \in T
  BY PackMessageKeeps
<1> HIDE DEF U, first, Turn, n, T
<1>4. h \in [1 .. n -> [T -> T]] /\ \A i \in 1 .. n : \A S \in T : h[i][S] = Turn(S)
  BY <1>3
<1> HIDE DEF h
<1>5. PICK f \in [0 .. n -> T] : f[0] = first /\ \A i \in 1 .. n : f[i] = h[i][f[i - 1]]
  <2>1. n \in Nat /\ first \in T /\ h \in [1 .. n -> [T -> T]]
    BY <1>0, <1>2, <1>4
  <2> HIDE DEF Eq, loop
  <2> QED BY <2>1, Recursion
<1>6. Eq(f)
  <2>1. ASSUME NEW i \in 0 .. n PROVE f[i] = IF i = 0 THEN first ELSE Turn(f[i - 1])
    <3>1. CASE i = 0
      BY <1>5, <3>1
    <3>2. CASE i # 0
      <4>1. i \in 1 .. n /\ i - 1 \in 0 .. n
        BY <1>0, <3>2
      <4>2. f[i - 1] \in T
        BY <4>1
      <4> QED BY <1>4, <1>5, <3>2, <4>1, <4>2
    <3> QED BY <3>1, <3>2
  <2> QED BY <2>1
<1>7. Eq(loop)
  <2> HIDE DEF Eq
  <2> QED BY <1>6
<1>8. PackCycle(start) = loop[n]
  BY DEF PackCycle, first, Turn, n
<1> HIDE DEF loop
<1>9. loop[0] = first /\ \A i \in 1 .. n : loop[i] = Turn(loop[i - 1])
  BY <1>0, <1>7
<1> HIDE DEF Eq
<1>10. \A i \in 1 .. n : loop[i - 1] \in T => loop[i] \in T
  BY <1>3, <1>9
<1>11. \A i \in 0 .. n : loop[i] \in T
  <2>1. n \in Nat /\ loop[0] \in T
    BY <1>0, <1>2, <1>9
  <2> QED BY <1>10, <2>1, Along
<1>12. loop[n] \in T
  BY <1>0, <1>11
<1> QED BY <1>8, <1>12 DEF T, U

-----------------------------------------------------------------------------
(* Flits.                                                                  *)

CreditStep == {t \in Int \X Flit \X Int : t[3] = t[1] + CreditOf(t[2])}

\* One step.
LEMMA LeadsOne ==
  ASSUME NEW S, NEW x \in S, NEW R, NEW a, NEW b, <<a, x, b>> \in R
  PROVE  <<x>> \in Seq(S) /\ Len(<<x>>) = 1 /\ Leads(<<x>>, R, a, b)
<1>1. <<>> \in Seq(S) /\ Append(<<>>, x) = <<x>>
  OBVIOUS
<1>2. Leads(<<>>, R, a, a)
  BY LeadsEmpty
<1>3. Leads(Append(<<>>, x), R, a, b)
  BY <1>1, <1>2, LeadsAppend
<1> QED BY <1>1, <1>3

\* The output register moves on to the FIFO of the link.
LEMMA LeadsMove ==
  ASSUME NEW S, NEW s \in Seq(S), NEW o \in Seq(S), NEW R, NEW a, NEW m, NEW b, Leads(s, R, a, m), Leads(o, R, m, b),
         NEW rd \in BOOLEAN, o = <<>> \/ rd
  PROVE  Leads(IF rd THEN s \o o ELSE s, R, a, b)
<1>1. CASE rd
  <2>1. Leads(s \o o, R, a, b)
    BY LeadsConcat
  <2> QED BY <1>1, <2>1
<1>2. CASE ~rd
  <2>1. m = b
    BY <1>2, LeadsNothing
  <2> QED BY <1>2, <2>1
<1> QED BY <1>1, <1>2

FlitOf(s, n) == [granules |-> s.cur_flit, msg_credit |-> n]

Emptied(s) == [s EXCEPT !.cur_flit = EmptyFlit]

\* Sending the flit under construction.
LEMMA FlitSent ==
  ASSUME NEW s, NEW b \in Pos, NEW enq, PackerOk(s, b, enq), s.cur_flit # <<>>, NEW n \in Nat,
         NEW f, f = FlitOf(s, n), NEW t, t = Emptied(s)
  PROVE  /\ f \in Flit /\ CreditOf(f) = n
         /\ \E e \in Pos : <<b, f, e>> \in FlitStep /\ PackerOk(t, e, enq)
<1>1. PICK e \in Pos : PackerAt(s, b, e, enq)
  BY DEF PackerOk
<1>2. /\ s \in PackerState /\ s.cur_flit \in Seq(MsgCell) /\ Len(s.cur_flit) <= GranuleCount
      /\ Leads(s.cur_flit, CellStep, b, e) /\ e.cur = s.spill
      /\ e.cur # NoSpill => e.cur.msg \in Msgs /\ Due(e.next, e.cur.msg)
      /\ e.cur # NoSpill => Len(s.cur_flit) = GranuleCount
      /\ QueuesOk(s.messages, e, enq)
  BY <1>1 DEF PackerAt
<1>3. f \in Flit /\ f.granules = s.cur_flit /\ f.msg_credit = n
  BY <1>2, MsgCells DEF Flit, FlitOf
<1>4. CreditOf(f) = n
  BY <1>2, <1>3, CreditPlain
<1>5. <<b, f, e>> \in FlitStep
  BY <1>2, <1>3 DEF FlitStep
<1>6. t \in PackerState /\ t.cur_flit = <<>> /\ t.spill = s.spill /\ t.messages = s.messages
  <2>1. <<>> \in Seq([msg : [kind : KindSet \cup {"MISC"}, rp : Planes, id : Nat], offset : Nat])
    OBVIOUS
  <2>2. t = [s EXCEPT !.cur_flit = <<>>]
    BY DEF EmptyFlit, Emptied
  <2>3. PICK nil : nil = <<>>
    OBVIOUS
  <2> QED BY <1>2, <2>1, <2>2, <2>3 DEF PackerState
<1>7. <<>> \in Seq(MsgCell) /\ Len(<<>>) <= GranuleCount /\ Leads(<<>>, CellStep, e, e)
  BY StreamAssumption, LeadsEmpty
<1>8. PackerAt(t, e, e, enq)
  BY <1>2, <1>6, <1>7 DEF PackerAt
<1> QED BY <1>3, <1>4, <1>5, <1>8 DEF PackerOk

\* Sending a CrdtGrant of its own, between two messages.
LEMMA GrantSent ==
  ASSUME NEW s, NEW b \in Pos, NEW enq, PackerOk(s, b, enq), s.cur_flit = <<>>, s.spill = NoSpill, NEW n \in Nat,
         NEW f, f = [granules |-> Fragment(EmptyFlit, CrdtGrant(n), 0), msg_credit |-> 0]
  PROVE  f \in Flit /\ CreditOf(f) = n /\ <<b, f, b>> \in FlitStep
<1> DEFINE msg == CrdtGrant(n)
           frag == Fragment(EmptyFlit, msg, 0)
<1>1. msg \in AnyMsg /\ msg.kind \notin KindSet
  BY DEF CrdtGrant, Message, AnyMsg, Grants, KindSet
<1>2. b.cur = NoSpill
  <2>1. PICK e \in Pos : PackerAt(s, b, e, enq)
    BY DEF PackerOk
  <2>2. Leads(<<>>, CellStep, b, e) /\ e.cur = NoSpill
    BY <2>1 DEF PackerAt
  <2>3. b = e
    BY <2>2, LeadsNothing
  <2> QED BY <2>2, <2>3
<1>3. Resumes(b.cur, msg, 0) /\ Due(b.next, msg)
  BY <1>1, <1>2 DEF Resumes, Due
<1>4. Size(msg) \in Nat \ {0} /\ GranuleCount \in Nat \ {0} /\ Size(msg) <= GranuleCount
  BY <1>1, SizeFacts
<1>5. Len(EmptyFlit) = 0
  BY DEF EmptyFlit
<1> HIDE DEF msg
<1>6. PICK m \in Nat \ {0} :
        LET e == EndAt(b, msg, 0 + m)
        IN  /\ frag \in Seq(Cell) /\ Len(frag) = m /\ 0 + m <= Size(msg) /\ Len(EmptyFlit) + m <= GranuleCount
            /\ 0 + m # Size(msg) => Len(EmptyFlit) + m = GranuleCount
            /\ Size(msg) <= GranuleCount - Len(EmptyFlit) /\ 0 = 0 => m = Size(msg)
            /\ msg \in Msgs => frag \in Seq(MsgCell)
            /\ e \in Pos /\ Leads(frag, CellStep, b, e)
  <2>1. Len(EmptyFlit) \in Nat /\ Len(EmptyFlit) < GranuleCount /\ 0 \in Nat /\ 0 < Size(msg)
    BY <1>4, <1>5
  <2> QED BY <1>1, <1>3, <2>1, FragmentLeads
<1>7. m = Size(msg) /\ 0 + m = Size(msg)
  BY <1>4, <1>5, <1>6
<1>8. EndAt(b, msg, 0 + m) = b
  <2>1. At(msg, 0 + m) = b.cur /\ CountedAt(b.next, msg, 0 + m) = b.next
    BY <1>1, <1>2, <1>7 DEF At, CountedAt, Counted
  <2> QED BY <2>1 DEF EndAt, Pos
<1>9. frag \in Seq(Cell) /\ Len(frag) <= GranuleCount /\ Leads(frag, CellStep, b, b)
  BY <1>4, <1>6, <1>7, <1>8
<1>10. frag = Cells(msg, Size(msg))
  <2> DEFINE take == Smaller(Size(msg) - 0, GranuleCount - Len(EmptyFlit))
  <2>1. take = Size(msg)
    BY <1>4, <1>5 DEF Smaller
  <2>2. frag = [i \in 1 .. take |-> Granule(msg, 0 + i - 1)]
    BY DEF Fragment, Remaining
  <2> HIDE DEF take, frag
  <2>3. \A i \in 1 .. Size(msg) : 0 + i - 1 = i - 1
    BY <1>4
  <2> QED BY <2>1, <2>2, <2>3 DEF Cells
<1>11. f = [granules |-> Cells(CrdtGrant(n), Size(CrdtGrant(n))), msg_credit |-> 0]
  BY <1>10 DEF msg
<1>12. f \in Flit /\ CreditOf(f) = n
  BY <1>11, CreditGrant
<1>13. f.granules = frag
  BY DEF msg
<1> HIDE DEF frag
<1> QED BY <1>2, <1>9, <1>12, <1>13 DEF FlitStep

-----------------------------------------------------------------------------
(* The inductive invariant.                                                *)

\* The flits on their way lead from the target to the packer.
InOrder ==
    \E a, m, b \in Pos :
      /\ carry = CarryOf(a.cur) /\ Intact(delivered, a.next)
      /\ Leads(fdi, FlitStep, a, m) /\ Leads(output, FlitStep, m, b)
      /\ PackerOk(packer, b, enqueued)

\* ... and so does the credit in them.
CreditInOrder ==
    \E x \in Int : Leads(fdi, CreditStep, granted, x) /\ Leads(output, CreditStep, x, returned - returns)

StreamInv ==
    /\ TypeOK /\ decoder_ok /\ ReadyIsReservation
    /\ fdi \in Seq(Flit) /\ output \in Seq(Flit)
    /\ InOrder /\ CreditInOrder

\* It holds at the start.
LEMMA StreamInit == Init => StreamInv
<1> SUFFICES ASSUME Init PROVE StreamInv
  OBVIOUS
<1> DEFINE zero == [k \in KindSet |-> [rp \in Planes |-> 0]]
           none == [k \in KindSet |-> [rp \in Planes |-> <<>>]]
           p == [cur |-> NoSpill, next |-> zero]
<1>1. zero \in Counts /\ p \in Pos /\ p.cur = NoSpill /\ p.next = zero
  BY DEF Counts, Pos, Cursor
<1>2. 0 \in Planes
  BY StreamAssumption DEF Planes
<1>3. packer \in PackerState /\ packer.cur_flit = <<>> /\ packer.spill = NoSpill /\ packer.messages = none
  <2>1. none \in [KindSet -> [Planes -> Seq([kind : KindSet, rp : Planes, id : Nat])]]
    OBVIOUS
  <2>2. NoSpill \in [msg : {NoMsg} \cup [kind : KindSet, rp : Planes, id : Nat], done : Nat]
    BY DEF NoSpill
  <2>3. <<>> \in Seq([msg : [kind : KindSet \cup {"MISC"}, rp : Planes, id : Nat], offset : Nat])
    OBVIOUS
  <2>4. zero \in [KindSet -> [Planes -> Nat]]
    OBVIOUS
  <2>5. packer = [messages |-> none, tx_available |-> zero, cur_flit |-> <<>>, spill |-> NoSpill, next_rp |-> 0]
    BY DEF Init, EmptyFlit
  <2> HIDE DEF none, zero
  <2> QED BY <1>2, <2>1, <2>2, <2>3, <2>4, <2>5 DEF PackerState
<1>4. TypeOK /\ decoder_ok /\ ReadyIsReservation
  <2>1. Len(output) <= 1
    BY DEF Init
  <2>2. enqueued \in [KindSet -> [Planes -> Nat]] /\ returned \in Nat /\ returns \in Nat /\ granted \in Nat
    BY DEF Init
  <2>3. timeout_cnt \in 0 .. FlushTimeout /\ credit_return_idle_cnt \in 0 .. GrantTimeout
    BY StreamAssumption DEF Init
  <2>4. link_state \in {"Training", "Active", "Failed"} /\ ready = FALSE /\ decoder_ok = TRUE
    BY DEF Init
  <2> QED BY <1>3, <2>1, <2>2, <2>3, <2>4 DEF TypeOK, ReadyIsReservation
<1>5. fdi = <<>> /\ output = <<>> /\ carry = <<>> /\ enqueued = zero /\ delivered = none /\ granted = 0 /\ returned - returns = 0
  BY DEF Init
<1>6. fdi \in Seq(Flit) /\ output \in Seq(Flit)
  BY <1>5
<1>7. Intact(delivered, zero)
  <2>1. none \in Stores
    BY DEF Stores
  <2>2. ASSUME NEW k \in KindSet, NEW rp \in Planes PROVE none[k][rp] = <<>> /\ zero[k][rp] = 0
    OBVIOUS
  <2> HIDE DEF none, zero
  <2> QED BY <1>1, <1>5, <2>1, <2>2 DEF Intact
<1>8. QueuesOk(packer.messages, p, enqueued)
  <2>1. ASSUME NEW k \in KindSet, NEW rp \in Planes PROVE none[k][rp] = <<>> /\ zero[k][rp] = 0
    OBVIOUS
  <2> HIDE DEF none, zero, p
  <2>2. ASSUME NEW k \in KindSet, NEW rp \in Planes PROVE Taken(p, k, rp) = 0
    BY <1>1, <2>1 DEF Taken, Begun
  <2> QED BY <1>3, <1>5, <2>1, <2>2 DEF QueuesOk
<1> HIDE DEF p, zero, none
<1>9. Leads(<<>>, CellStep, p, p) /\ Leads(<<>>, FlitStep, p, p) /\ Leads(<<>>, CreditStep, 0, 0)
  BY LeadsEmpty
<1>10. <<>> \in Seq(MsgCell) /\ Len(<<>>) <= GranuleCount
  BY StreamAssumption
<1>11. PackerOk(packer, p, enqueued)
  BY <1>1, <1>3, <1>8, <1>9, <1>10 DEF PackerOk, PackerAt
<1>12. InOrder
  <2>1. carry = CarryOf(p.cur)
    BY <1>1, <1>5 DEF CarryOf
  <2> QED BY <1>1, <1>5, <1>7, <1>9, <1>11, <2>1 DEF InOrder
<1>13. CreditInOrder
  <2>1. 0 \in Int
    OBVIOUS
  <2> QED BY <1>5, <1>9, <2>1 DEF CreditInOrder
<1> QED BY <1>4, <1>6, <1>12, <1>13 DEF StreamInv

\* The AXI threads queue a message.
LEMMA EnqueueKeeps ==
  ASSUME StreamInv, NEW k \in KindSet, NEW rp \in Planes, Enqueue(k, rp)
  PROVE  StreamInv'
<1> DEFINE msg == Message(k, rp, enqueued[k][rp])
           s == packer
           t == [s EXCEPT !.messages[k][rp] = Append(@, msg)]
           M == [s.messages EXCEPT ![k][rp] = Append(s.messages[k][rp], msg)]
           E == [enqueued EXCEPT ![k][rp] = enqueued[k][rp] + 1]
<1>1. /\ packer' = t /\ enqueued' = E
      /\ UNCHANGED <<returned, returns, output, timeout_cnt, credit_return_idle_cnt, link_state, ready, fdi,
                     carry, delivered, granted, decoder_ok>>
  BY DEF Enqueue, linkVars, targetVars, StreamInv, TypeOK
<1>2. /\ s \in PackerState /\ s.messages \in [KindSet -> [Planes -> Seq(Msgs)]]
      /\ enqueued \in [KindSet -> [Planes -> Nat]]
  BY DEF StreamInv, TypeOK, PackerState, Msgs
<1>3. msg \in Msgs /\ s.messages[k][rp] \in Seq(Msgs) /\ enqueued[k][rp] \in Nat
  BY <1>2 DEF Message, Msgs
<1> DEFINE q == s.messages[k][rp]
           q2 == Append(q, msg)
<1>4. /\ q2 \in Seq(Msgs) /\ Len(q2) = Len(q) + 1 /\ Len(q) \in Nat /\ q2[Len(q) + 1] = msg
      /\ \A i \in 1 .. Len(q) : q2[i] = q[i]
  <2>1. q \in Seq(Msgs) /\ msg \in Msgs
    BY <1>3
  <2> HIDE DEF q, msg
  <2> QED BY <2>1, Appended
<1>5. /\ M \in [KindSet -> [Planes -> Seq(Msgs)]] /\ M[k][rp] = q2
      /\ \A l \in KindSet, rq \in Planes : ~(l = k /\ rq = rp) => M[l][rq] = s.messages[l][rq]
  <2> DEFINE x == q2
             f == s.messages
             S == Seq(Msgs)
  <2>1. f \in [KindSet -> [Planes -> S]] /\ x \in S
    BY <1>2, <1>4
  <2> HIDE DEF x, f, S
  <2>2. LET g == [f EXCEPT ![k][rp] = x]
        IN  /\ g \in [KindSet -> [Planes -> S]] /\ g[k][rp] = x
            /\ \A l \in KindSet, rq \in Planes : ~(l = k /\ rq = rp) => g[l][rq] = f[l][rq]
    BY <2>1, GridPut
  <2> QED BY <2>2 DEF x, f, S
<1>6. /\ E \in [KindSet -> [Planes -> Nat]] /\ E[k][rp] = enqueued[k][rp] + 1
      /\ \A l \in KindSet, rq \in Planes : ~(l = k /\ rq = rp) => E[l][rq] = enqueued[l][rq]
  <2> DEFINE x == enqueued[k][rp] + 1
  <2>1. x \in Nat
    BY <1>3
  <2> HIDE DEF x
  <2>2. LET g == [enqueued EXCEPT ![k][rp] = x]
        IN  /\ g \in [KindSet -> [Planes -> Nat]] /\ g[k][rp] = x
            /\ \A l \in KindSet, rq \in Planes : ~(l = k /\ rq = rp) => g[l][rq] = enqueued[l][rq]
    BY <1>2, <2>1, GridPut
  <2> QED BY <2>2 DEF x
<1>7. t = [s EXCEPT !.messages = M]
  BY <1>2 DEF PackerState
<1> HIDE DEF M, E, t, q2
<1>8. t \in PackerState /\ t.messages = M /\ t.cur_flit = s.cur_flit /\ t.spill = s.spill
  <2> HIDE DEF s
  <2> QED BY <1>2, <1>5, <1>7 DEF PackerState, Msgs
<1>9. PICK a \in Pos, m \in Pos, b \in Pos :
        /\ carry = CarryOf(a.cur) /\ Intact(delivered, a.next)
        /\ Leads(fdi, FlitStep, a, m) /\ Leads(output, FlitStep, m, b) /\ PackerOk(s, b, enqueued)
  BY DEF StreamInv, InOrder
<1>10. PICK e \in Pos : PackerAt(s, b, e, enqueued)
  BY <1>9 DEF PackerOk
<1> HIDE DEF s
<1>11. QueuesOk(M, e, E)
  <2>0. QueuesOk(s.messages, e, enqueued)
    BY <1>10 DEF PackerAt
  <2>1. ASSUME NEW l \in KindSet, NEW rq \in Planes
        PROVE  /\ E[l][rq] = Taken(e, l, rq) + Len(M[l][rq])
               /\ \A i \in 1 .. Len(M[l][rq]) : M[l][rq][i] = Message(l, rq, Taken(e, l, rq) + i - 1)
    <3>0. /\ enqueued[l][rq] = Taken(e, l, rq) + Len(s.messages[l][rq])
          /\ \A i \in 1 .. Len(s.messages[l][rq]) : s.messages[l][rq][i] = Message(l, rq, Taken(e, l, rq) + i - 1)
      BY <2>0 DEF QueuesOk
    <3>1. CASE l = k /\ rq = rp
      <4>1. Taken(e, k, rp) \in Nat
        <5>1. e.next[k][rp] \in Nat
          BY DEF Pos, Counts
        <5> QED BY <5>1 DEF Taken, Begun
      <4>2. E[k][rp] = Taken(e, k, rp) + Len(M[k][rp])
        <5>1. enqueued[k][rp] = Taken(e, k, rp) + Len(q)
          BY <3>0, <3>1
        <5>2. M[k][rp] = q2 /\ E[k][rp] = enqueued[k][rp] + 1
          BY <1>5, <1>6
        <5> HIDE DEF q
        <5>3. Len(q2) = Len(q) + 1 /\ Len(q) \in Nat
          BY <1>4
        <5>4. PICK n \in Nat, l1 \in Nat : n = Taken(e, k, rp) /\ l1 = Len(q)
          BY <4>1, <5>3
        <5>5. n + l1 + 1 = n + (l1 + 1)
          OBVIOUS
        <5> QED BY <5>1, <5>2, <5>3, <5>4, <5>5
      <4>3. ASSUME NEW i \in 1 .. Len(q2) PROVE q2[i] = Message(k, rp, Taken(e, k, rp) + i - 1)
        <5>1. CASE i = Len(q) + 1
          <6>1. Taken(e, k, rp) + i - 1 = enqueued[k][rp]
            BY <1>4, <3>0, <3>1, <4>1, <5>1
          <6> QED BY <1>4, <5>1, <6>1
        <5>2. CASE i # Len(q) + 1
          <6>1. i \in 1 .. Len(q)
            BY <1>4, <5>2
          <6> QED BY <1>4, <3>0, <3>1, <6>1
        <5> QED BY <5>1, <5>2
      <4> QED BY <1>5, <3>1, <4>2, <4>3
    <3>2. CASE ~(l = k /\ rq = rp)
      <4>1. E[l][rq] = enqueued[l][rq] /\ M[l][rq] = s.messages[l][rq]
        BY <1>5, <1>6, <3>2
      <4> QED BY <3>0, <4>1
    <3> QED BY <3>1, <3>2
  <2> QED BY <2>1 DEF QueuesOk
<1>12. PackerOk(t, b, E)
  <2>1. PackerAt(t, b, e, E)
    BY <1>8, <1>10, <1>11 DEF PackerAt
  <2> QED BY <2>1 DEF PackerOk
<1>13. InOrder'
  <2>1. PackerOk(packer', b, enqueued')
    BY <1>1, <1>12
  <2> QED BY <1>1, <1>9, <2>1 DEF InOrder
<1>14. CreditInOrder'
  BY <1>1 DEF StreamInv, CreditInOrder
<1>15. TypeOK'
  BY <1>1, <1>6, <1>8 DEF StreamInv, TypeOK
<1> QED BY <1>1, <1>13, <1>14, <1>15 DEF StreamInv, ReadyIsReservation

\* Credit from the target.
LEMMA AddTxCreditKeeps ==
  ASSUME StreamInv, NEW k \in KindSet, NEW rp \in Planes, AddTxCredit(k, rp)
  PROVE  StreamInv'
<1> DEFINE s == packer
           X == [s.tx_available EXCEPT ![k][rp] = s.tx_available[k][rp] + 1]
           t == [s EXCEPT !.tx_available[k][rp] = @ + 1]
<1>1. /\ packer' = t
      /\ UNCHANGED <<enqueued, returned, returns, output, timeout_cnt, credit_return_idle_cnt, link_state, ready, fdi,
                     carry, delivered, granted, decoder_ok>>
  BY DEF AddTxCredit, linkVars, targetVars, sourceVars
<1>2. s \in PackerState /\ s.tx_available \in [KindSet -> [Planes -> Nat]] /\ s.tx_available[k][rp] + 1 \in Nat
  <2>1. s \in PackerState
    BY DEF StreamInv, TypeOK
  <2> HIDE DEF s
  <2>2. s.tx_available \in [KindSet -> [Planes -> Nat]]
    BY <2>1 DEF PackerState
  <2>3. s.tx_available[k][rp] \in Nat
    BY <2>2
  <2> QED BY <2>1, <2>2, <2>3
<1>3. X \in [KindSet -> [Planes -> Nat]]
  <2> DEFINE x == s.tx_available[k][rp] + 1
             f == s.tx_available
  <2>1. x \in Nat /\ f \in [KindSet -> [Planes -> Nat]]
    BY <1>2
  <2> HIDE DEF x, f
  <2>2. LET g == [f EXCEPT ![k][rp] = x]
        IN  /\ g \in [KindSet -> [Planes -> Nat]] /\ g[k][rp] = x
            /\ \A l \in KindSet, rq \in Planes : ~(l = k /\ rq = rp) => g[l][rq] = f[l][rq]
    BY <2>1, GridPut
  <2> QED BY <2>2 DEF x, f
<1>4. t = [s EXCEPT !.tx_available = X]
  BY <1>2 DEF PackerState
<1> HIDE DEF X, t
<1>5. t \in PackerState /\ t.messages = s.messages /\ t.cur_flit = s.cur_flit /\ t.spill = s.spill
  <2> HIDE DEF s
  <2> QED BY <1>2, <1>3, <1>4 DEF PackerState
<1>6. PICK a \in Pos, m \in Pos, b \in Pos :
        /\ carry = CarryOf(a.cur) /\ Intact(delivered, a.next)
        /\ Leads(fdi, FlitStep, a, m) /\ Leads(output, FlitStep, m, b) /\ PackerOk(s, b, enqueued)
  BY DEF StreamInv, InOrder
<1>7. PackerOk(t, b, enqueued)
  BY <1>5, <1>6 DEF PackerOk, PackerAt
<1>8. InOrder'
  <2>1. PackerOk(packer', b, enqueued')
    BY <1>1, <1>7
  <2> QED BY <1>1, <1>6, <2>1 DEF InOrder
<1>9. CreditInOrder'
  BY <1>1 DEF StreamInv, CreditInOrder
<1>10. TypeOK'
  BY <1>1, <1>5 DEF StreamInv, TypeOK
<1> QED BY <1>1, <1>8, <1>9, <1>10 DEF StreamInv, ReadyIsReservation

\* Credit to be returned.
LEMMA ReturnKeeps ==
  ASSUME StreamInv, ReturnRxCredit
  PROVE  StreamInv'
<1>1. /\ returned' = returned + 1 /\ returns' = returns + 1
      /\ UNCHANGED <<enqueued, packer, output, timeout_cnt, credit_return_idle_cnt, link_state, ready, fdi,
                     carry, delivered, granted, decoder_ok>>
  BY DEF ReturnRxCredit, linkVars, targetVars
<1>2. returned \in Nat /\ returns \in Nat
  BY DEF StreamInv, TypeOK
<1>3. returned' - returns' = returned - returns /\ returned' \in Nat /\ returns' \in Nat
  BY <1>1, <1>2
<1>4. InOrder'
  BY <1>1 DEF StreamInv, InOrder
<1>5. CreditInOrder'
  BY <1>1, <1>3 DEF StreamInv, CreditInOrder
<1>6. TypeOK'
  BY <1>1, <1>3 DEF StreamInv, TypeOK
<1> QED BY <1>1, <1>4, <1>5, <1>6 DEF StreamInv, ReadyIsReservation

\* The link trains or fails, or nothing happens.
LEMMA LinkKeeps ==
  ASSUME StreamInv, LinkTrained \/ LinkFails \/ UNCHANGED vars
  PROVE  StreamInv'
<1>1. /\ link_state' \in {"Training", "Active", "Failed"}
      /\ UNCHANGED <<enqueued, returned, packer, returns, output, timeout_cnt, credit_return_idle_cnt, ready, fdi,
                     carry, delivered, granted, decoder_ok>>
  <2>1. CASE LinkTrained
    BY <2>1 DEF LinkTrained, sourceVars, packerVars, targetVars
  <2>2. CASE LinkFails
    BY <2>2 DEF LinkFails, sourceVars, packerVars, targetVars
  <2>3. CASE UNCHANGED vars
    BY <2>3 DEF vars, sourceVars, packerVars, linkVars, targetVars, StreamInv, TypeOK
  <2> QED BY <2>1, <2>2, <2>3
<1>2. InOrder'
  BY <1>1 DEF StreamInv, InOrder
<1>3. CreditInOrder'
  BY <1>1 DEF StreamInv, CreditInOrder
<1>4. TypeOK'
  BY <1>1 DEF StreamInv, TypeOK
<1> QED BY <1>1, <1>2, <1>3, <1>4 DEF StreamInv, ReadyIsReservation

\* The target takes a flit.
LEMMA ReceiveKeeps ==
  ASSUME StreamInv, TargetReceive
  PROVE  StreamInv'
<1> DEFINE f == Head(fdi)
           rest == Tail(fdi)
           parsed == Parse(Payload(f), carry)
<1>1. /\ fdi # <<>> /\ fdi' = rest /\ decoder_ok' = parsed.ok
      /\ carry' = IF parsed.ok THEN parsed.carry ELSE carry
      /\ granted' = IF parsed.ok THEN granted + CreditOf(f) ELSE granted
      /\ delivered' = IF parsed.ok THEN FoldLeft(Stored, delivered, parsed.messages) ELSE delivered
      /\ UNCHANGED <<enqueued, returned, packer, returns, output, timeout_cnt, credit_return_idle_cnt, link_state, ready>>
  BY DEF TargetReceive, sourceVars, packerVars
<1>2. fdi \in Seq(Flit) /\ output \in Seq(Flit) /\ granted \in Nat
  BY DEF StreamInv, TypeOK
<1>3. f \in Flit /\ rest \in Seq(Flit) /\ Len(rest) = Len(fdi) - 1 /\ Len(fdi) \in Nat \ {0}
  BY <1>1, <1>2, HeadTail
<1>4. PICK a \in Pos, m \in Pos, b \in Pos :
        /\ carry = CarryOf(a.cur) /\ Intact(delivered, a.next)
        /\ Leads(fdi, FlitStep, a, m) /\ Leads(output, FlitStep, m, b) /\ PackerOk(packer, b, enqueued)
  BY DEF StreamInv, InOrder
<1>5. PICK d : <<a, f, d>> \in FlitStep /\ Leads(rest, FlitStep, d, m)
  BY <1>1, <1>2, <1>4, LeadsTail
<1>6. GoodParse(parsed, a, d)
  <2>1. GoodParse(Parse(Payload(f), CarryOf(a.cur)), a, d)
    BY <1>5, ParseGood
  <2> QED BY <1>4, <2>1
<1>7. d \in Pos
  BY <1>5 DEF FlitStep
<1> HIDE DEF parsed
<1>8. parsed.ok = TRUE /\ parsed.carry = CarryOf(d.cur) /\ Intact(FoldLeft(Stored, delivered, parsed.messages), d.next)
  <2>1. /\ parsed.ok = TRUE /\ parsed.carry = CarryOf(d.cur)
        /\ parsed.messages \in Seq(Seq(Cell)) /\ Leads(parsed.messages, MsgStep, a.next, d.next)
    BY <1>6 DEF GoodParse
  <2>2. Intact(FoldLeft(Stored, delivered, parsed.messages), d.next)
    BY <1>4, <2>1, StoredAll
  <2> QED BY <2>1, <2>2
<1>9. decoder_ok' = TRUE /\ carry' = CarryOf(d.cur) /\ granted' = granted + CreditOf(f) /\ Intact(delivered', d.next)
  <2>1. delivered' = FoldLeft(Stored, delivered, parsed.messages)
    BY <1>1, <1>8, Zenon
  <2>2. decoder_ok' = TRUE /\ carry' = CarryOf(d.cur) /\ granted' = granted + CreditOf(f)
    BY <1>1, <1>8, Zenon
  <2>3. Intact(delivered', d.next)
    BY <1>8, <2>1, Zenon
  <2> QED BY <2>2, <2>3
<1>10. CreditOf(f) \in Nat /\ granted' \in Nat
  <2>1. CreditOf(f) \in Nat
    BY <1>3, CreditFold
  <2> QED BY <1>2, <1>9, <2>1
<1>11. InOrder'
  <2>1. Leads(fdi', FlitStep, d, m) /\ Leads(output', FlitStep, m, b) /\ PackerOk(packer', b, enqueued')
    BY <1>1, <1>4, <1>5
  <2> QED BY <1>7, <1>9, <2>1 DEF InOrder
<1>12. CreditInOrder'
  <2>1. PICK x \in Int : Leads(fdi, CreditStep, granted, x) /\ Leads(output, CreditStep, x, returned - returns)
    BY DEF StreamInv, CreditInOrder
  <2>2. PICK y : <<granted, f, y>> \in CreditStep /\ Leads(rest, CreditStep, y, x)
    BY <1>1, <1>2, <2>1, LeadsTail
  <2>3. y = granted'
    BY <1>9, <2>2 DEF CreditStep
  <2>4. Leads(fdi', CreditStep, granted', x)
    BY <1>1, <2>2, <2>3
  <2>5. Leads(output', CreditStep, x, returned' - returns')
    BY <1>1, <2>1
  <2> QED BY <2>4, <2>5 DEF CreditInOrder
<1>13. TypeOK'
  BY <1>1, <1>9, <1>10 DEF StreamInv, TypeOK
<1>14. ReadyIsReservation'
  <2>1. ready => Len(fdi) < FdiDepth
    BY DEF StreamInv, ReadyIsReservation
  <2>2. Len(fdi) < FdiDepth => Len(rest) < FdiDepth
    BY <1>3, StreamAssumption
  <2> QED BY <1>1, <2>1, <2>2 DEF ReadyIsReservation
<1>15. fdi' \in Seq(Flit) /\ output' \in Seq(Flit)
  BY <1>1, <1>2, <1>3
<1> QED BY <1>9, <1>11, <1>12, <1>13, <1>14, <1>15 DEF StreamInv

\* What the packer leaves in its output register leads on from b.
EdgeResult(b, c, enq, out, pk, rt, ret) ==
    /\ out \in Seq(Flit) /\ Len(out) <= 1 /\ rt \in Nat
    /\ \E e \in Pos : Leads(out, FlitStep, b, e) /\ PackerOk(pk, e, enq)
    /\ Leads(out, CreditStep, c, ret - rt)

\* An edge on which the output register is free.
LEMMA DecideKeeps ==
  ASSUME NEW b \in Pos, NEW r \in Runs(b, enqueued), Decide(r), TypeOK
  PROVE  /\ EdgeResult(b, returned - returns, enqueued, output', packer', returns', returned)
         /\ timeout_cnt' \in 0 .. FlushTimeout /\ credit_return_idle_cnt' \in 0 .. GrantTimeout
<1> DEFINE s == r.s
           idle == credit_return_idle_cnt + 1
<1>1. PackerOk(s, b, enqueued) /\ (s.cur_flit = <<>> => s.spill = NoSpill)
  BY DEF Runs
<1>2. /\ returned \in Nat /\ returns \in Nat /\ FlushTimeout \in Nat /\ GrantTimeout \in Nat \ {0}
      /\ timeout_cnt \in 0 .. FlushTimeout /\ credit_return_idle_cnt \in 0 .. GrantTimeout
  BY StreamAssumption DEF TypeOK
<1> DEFINE x == returned - returns
<1>3. x \in Int
  BY <1>2
<1>4. ASSUME output' = <<>>, packer' = s, returns' = returns
      PROVE  EdgeResult(b, x, enqueued, output', packer', returns', returned)
  <2>1. <<>> \in Seq(Flit) /\ Len(<<>>) <= 1
    OBVIOUS
  <2>2. Leads(<<>>, FlitStep, b, b) /\ Leads(<<>>, CreditStep, x, x)
    BY LeadsEmpty
  <2>3. EdgeResult(b, x, enqueued, <<>>, s, returns, returned)
    BY <1>1, <1>2, <2>1, <2>2 DEF EdgeResult
  <2> QED BY <1>4, <2>3
<1>5. ASSUME NEW f \in Flit, NEW n \in 0 .. returns, CreditOf(f) = n, NEW e \in Pos, <<b, f, e>> \in FlitStep,
             PackerOk(packer', e, enqueued), output' = <<f>>, returns' = returns - n
      PROVE  EdgeResult(b, x, enqueued, output', packer', returns', returned)
  <2>1. returns - n \in Nat /\ returned - (returns - n) = x + n /\ x + n \in Int
    BY <1>2
  <2>2. <<x, f, x + n>> \in CreditStep
    BY <1>3, <1>5, <2>1 DEF CreditStep
  <2>3. <<f>> \in Seq(Flit) /\ Len(<<f>>) = 1 /\ Leads(<<f>>, FlitStep, b, e)
    BY <1>5, LeadsOne
  <2> HIDE DEF x
  <2>4. Leads(<<f>>, CreditStep, x, x + n)
    BY <2>2, LeadsOne
  <2>5. Leads(<<f>>, CreditStep, x, returned - (returns - n))
    BY <2>1, <2>4
  <2>6. EdgeResult(b, x, enqueued, <<f>>, packer', returns - n, returned)
    BY <1>5, <2>1, <2>3, <2>5 DEF EdgeResult
  <2> QED BY <1>5, <2>6
<1> HIDE DEF s, x
<1>6. \/ s.cur_flit # EmptyFlit /\ FullOrTimedOut(r) /\ SendFlit(s)
      \/ s.cur_flit # EmptyFlit /\ ~FullOrTimedOut(r)
         /\ Hold(s, <<>>, IF r.exhausted THEN timeout_cnt + 1 ELSE 0, credit_return_idle_cnt)
      \/ s.cur_flit = EmptyFlit /\ returns > 0 /\ idle >= GrantTimeout /\ SendDedicatedGrant(s)
      \/ s.cur_flit = EmptyFlit /\ returns > 0 /\ idle < GrantTimeout /\ Hold(s, <<>>, timeout_cnt, idle)
      \/ s.cur_flit = EmptyFlit /\ returns = 0 /\ Hold(s, <<>>, timeout_cnt, credit_return_idle_cnt)
  BY Zenon DEF Decide, s
<1>7. CASE s.cur_flit # EmptyFlit /\ FullOrTimedOut(r) /\ SendFlit(s)
  <2>1. PICK n \in 0 .. returns :
           /\ output' = <<[granules |-> s.cur_flit, msg_credit |-> n]>> /\ timeout_cnt' = 0
           /\ returns' = returns - n
           /\ credit_return_idle_cnt' = IF n > 0 THEN 0 ELSE credit_return_idle_cnt
    BY <1>7 DEF SendFlit, FlushFlit
  <2>2. packer' = [s EXCEPT !.cur_flit = EmptyFlit]
    BY <1>7 DEF SendFlit
  <2>3. PICK f : f = FlitOf(s, n)
    OBVIOUS
  <2>4. PICK t : t = Emptied(s)
    OBVIOUS
  <2>5. n \in Nat /\ s.cur_flit # <<>>
    BY <1>2, <1>7 DEF EmptyFlit
  <2>6. f \in Flit /\ CreditOf(f) = n /\ \E e \in Pos : <<b, f, e>> \in FlitStep /\ PackerOk(t, e, enqueued)
    BY <1>1, <2>3, <2>4, <2>5, FlitSent
  <2>7. EdgeResult(b, x, enqueued, output', packer', returns', returned)
    <3>1. PICK e \in Pos : <<b, f, e>> \in FlitStep /\ PackerOk(t, e, enqueued)
      BY <2>6
    <3>2. PackerOk(packer', e, enqueued) /\ output' = <<f>>
      BY <2>1, <2>2, <2>3, <2>4, <3>1 DEF FlitOf, Emptied
    <3> QED BY <1>5, <2>1, <2>6, <3>1, <3>2
  <2>8. timeout_cnt' \in 0 .. FlushTimeout /\ credit_return_idle_cnt' \in 0 .. GrantTimeout
    BY <1>2, <2>1
  <2> QED BY <2>7, <2>8 DEF x
<1>8. CASE s.cur_flit # EmptyFlit /\ ~FullOrTimedOut(r)
           /\ Hold(s, <<>>, IF r.exhausted THEN timeout_cnt + 1 ELSE 0, credit_return_idle_cnt)
  <2>1. output' = <<>> /\ packer' = s /\ returns' = returns /\ credit_return_idle_cnt' = credit_return_idle_cnt
        /\ timeout_cnt' = IF r.exhausted THEN timeout_cnt + 1 ELSE 0
    BY <1>8 DEF Hold
  <2>2. ~(r.exhausted /\ timeout_cnt >= FlushTimeout)
    BY <1>8 DEF FullOrTimedOut
  <2>3. timeout_cnt' \in 0 .. FlushTimeout
    <3>1. CASE r.exhausted
      BY <1>2, <2>1, <2>2, <3>1
    <3>2. CASE ~r.exhausted
      BY <1>2, <2>1, <3>2
    <3> QED BY <3>1, <3>2
  <2> QED BY <1>2, <1>4, <2>1, <2>3 DEF x
<1>9. CASE s.cur_flit = EmptyFlit /\ returns > 0 /\ idle >= GrantTimeout /\ SendDedicatedGrant(s)
  <2>1. PICK n \in 1 .. returns :
           /\ output' = <<[granules |-> Fragment(EmptyFlit, CrdtGrant(n), 0), msg_credit |-> 0]>> /\ timeout_cnt' = 0
           /\ returns' = returns - n
    BY <1>9 DEF SendDedicatedGrant, FlushFlit
  <2>2. packer' = s /\ credit_return_idle_cnt' = 0
    BY <1>9 DEF SendDedicatedGrant
  <2>3. PICK f : f = [granules |-> Fragment(EmptyFlit, CrdtGrant(n), 0), msg_credit |-> 0]
    OBVIOUS
  <2>4. n \in Nat /\ n \in 0 .. returns /\ s.cur_flit = <<>> /\ s.spill = NoSpill
    BY <1>1, <1>2, <1>9 DEF EmptyFlit
  <2>5. f \in Flit /\ CreditOf(f) = n /\ <<b, f, b>> \in FlitStep
    BY <1>1, <2>3, <2>4, GrantSent
  <2>6. EdgeResult(b, x, enqueued, output', packer', returns', returned)
    <3>1. PackerOk(packer', b, enqueued) /\ output' = <<f>>
      BY <1>1, <2>1, <2>2, <2>3
    <3> QED BY <1>5, <2>1, <2>4, <2>5, <3>1
  <2>7. timeout_cnt' \in 0 .. FlushTimeout /\ credit_return_idle_cnt' \in 0 .. GrantTimeout
    BY <1>2, <2>1, <2>2
  <2> QED BY <2>6, <2>7 DEF x
<1>10. CASE s.cur_flit = EmptyFlit /\ returns > 0 /\ idle < GrantTimeout /\ Hold(s, <<>>, timeout_cnt, idle)
  <2>1. output' = <<>> /\ packer' = s /\ returns' = returns /\ credit_return_idle_cnt' = idle /\ timeout_cnt' = timeout_cnt
    BY <1>10 DEF Hold
  <2>2. idle \in 0 .. GrantTimeout
    BY <1>2, <1>10
  <2> QED BY <1>2, <1>4, <2>1, <2>2 DEF x
<1>11. CASE s.cur_flit = EmptyFlit /\ returns = 0 /\ Hold(s, <<>>, timeout_cnt, credit_return_idle_cnt)
  <2>1. output' = <<>> /\ packer' = s /\ returns' = returns /\ credit_return_idle_cnt' = credit_return_idle_cnt
        /\ timeout_cnt' = timeout_cnt
    BY <1>11 DEF Hold
  <2> QED BY <1>2, <1>4, <2>1 DEF x
<1> QED BY <1>6, <1>7, <1>8, <1>9, <1>10, <1>11

\* A clock edge.
LEMMA EdgeKeeps ==
  ASSUME StreamInv, Edge
  PROVE  StreamInv'
<1>1. /\ UNCHANGED <<enqueued, returned, link_state, carry, delivered, granted, decoder_ok>>
      /\ fdi' = IF ready THEN fdi \o output ELSE fdi
      /\ ready' = (link_state = "Active" /\ Len(fdi') < FdiDepth)
  BY DEF Edge, AdapterEdge, targetVars
<1>2. PICK r \in PackCycle(packer) :
        \/ (output = <<>> \/ ready) /\ Decide(r)
        \/ output # <<>> /\ ~ready /\ Hold(r.s, output, timeout_cnt, credit_return_idle_cnt)
  BY DEF Edge, PackerEdge
<1>3. fdi \in Seq(Flit) /\ output \in Seq(Flit) /\ ready \in BOOLEAN /\ TypeOK
  BY DEF StreamInv, TypeOK
<1>4. PICK a \in Pos, m \in Pos, b \in Pos :
        /\ carry = CarryOf(a.cur) /\ Intact(delivered, a.next)
        /\ Leads(fdi, FlitStep, a, m) /\ Leads(output, FlitStep, m, b) /\ PackerOk(packer, b, enqueued)
  BY DEF StreamInv, InOrder
<1>5. PICK x \in Int : Leads(fdi, CreditStep, granted, x) /\ Leads(output, CreditStep, x, returned - returns)
  BY DEF StreamInv, CreditInOrder
<1>6. r \in Runs(b, enqueued) /\ PackerOk(r.s, b, enqueued)
  <2>1. r \in Runs(b, enqueued)
    BY <1>2, <1>4, PackCycleKeeps
  <2> QED BY <2>1 DEF Runs
<1>7. ReadyIsReservation' /\ ready' \in BOOLEAN
  BY <1>1 DEF ReadyIsReservation
<1>8. CASE (output = <<>> \/ ready) /\ Decide(r)
  <2>1. /\ EdgeResult(b, returned - returns, enqueued, output', packer', returns', returned)
        /\ timeout_cnt' \in 0 .. FlushTimeout /\ credit_return_idle_cnt' \in 0 .. GrantTimeout
    BY <1>3, <1>6, <1>8, DecideKeeps
  <2>2. fdi' \in Seq(Flit)
    <3>1. fdi \o output \in Seq(Flit)
      BY <1>3, ConcatProperties
    <3> QED BY <1>1, <1>3, <3>1
  <2>3. Leads(fdi', FlitStep, a, b)
    <3>1. Leads(IF ready THEN fdi \o output ELSE fdi, FlitStep, a, b)
      BY <1>3, <1>4, <1>8, LeadsMove
    <3> QED BY <1>1, <3>1
  <2>4. Leads(fdi', CreditStep, granted, returned - returns)
    <3>1. Leads(IF ready THEN fdi \o output ELSE fdi, CreditStep, granted, returned - returns)
      BY <1>3, <1>5, <1>8, LeadsMove
    <3> QED BY <1>1, <3>1
  <2>5. PICK e \in Pos : Leads(output', FlitStep, b, e) /\ PackerOk(packer', e, enqueued)
    BY <2>1 DEF EdgeResult
  <2>6. output' \in Seq(Flit) /\ Len(output') <= 1 /\ returns' \in Nat
        /\ Leads(output', CreditStep, returned - returns, returned - returns')
    BY <2>1 DEF EdgeResult
  <2>7. InOrder'
    <3>1. PackerOk(packer', e, enqueued') /\ carry' = CarryOf(a.cur) /\ Intact(delivered', a.next)
      BY <1>1, <1>4, <2>5
    <3> QED BY <2>3, <2>5, <3>1 DEF InOrder
  <2>8. CreditInOrder'
    <3>1. returned - returns \in Int
      BY <1>3 DEF TypeOK
    <3>2. Leads(fdi', CreditStep, granted', returned - returns) /\ Leads(output', CreditStep, returned - returns, returned' - returns')
      BY <1>1, <2>4, <2>6
    <3> QED BY <3>1, <3>2 DEF CreditInOrder
  <2>9. packer' \in PackerState
    BY <2>5 DEF PackerOk, PackerAt
  <2>10. TypeOK'
    BY <1>1, <1>3, <1>7, <2>1, <2>6, <2>9 DEF TypeOK
  <2> QED BY <1>1, <1>7, <2>2, <2>6, <2>7, <2>8, <2>10 DEF StreamInv
<1>9. CASE output # <<>> /\ ~ready /\ Hold(r.s, output, timeout_cnt, credit_return_idle_cnt)
  <2>1. /\ packer' = r.s /\ fdi' = fdi
        /\ UNCHANGED <<output, returns, timeout_cnt, credit_return_idle_cnt>>
    BY <1>1, <1>9 DEF Hold
  <2>2. InOrder'
    <3>1. PackerOk(packer', b, enqueued') /\ carry' = CarryOf(a.cur) /\ Intact(delivered', a.next)
          /\ Leads(fdi', FlitStep, a, m) /\ Leads(output', FlitStep, m, b)
      BY <1>1, <1>4, <1>6, <2>1
    <3> QED BY <3>1 DEF InOrder
  <2>3. CreditInOrder'
    BY <1>1, <1>5, <2>1 DEF CreditInOrder
  <2>4. packer' \in PackerState
    BY <1>6, <2>1 DEF PackerOk, PackerAt
  <2>5. TypeOK'
    BY <1>1, <1>3, <1>7, <2>1, <2>4 DEF TypeOK
  <2> QED BY <1>1, <1>3, <1>7, <2>1, <2>2, <2>3, <2>5 DEF StreamInv
<1> QED BY <1>2, <1>8, <1>9

\* The stream stays in order: StreamInv is an invariant of the bridge's
\* request direction, for every number of planes, size of messages and flits,
\* depth of FIFO and number of messages.
THEOREM StreamInvariant == SafeSpec => []StreamInv
<1>1. Init => StreamInv
  BY StreamInit
<1>2. StreamInv /\ [Next]_vars => StreamInv'
  <2> SUFFICES ASSUME StreamInv, [Next]_vars PROVE StreamInv'
    OBVIOUS
  <2>1. CASE Edge
    BY <2>1, EdgeKeeps
  <2>2. CASE TargetReceive
    BY <2>2, ReceiveKeeps
  <2>3. ASSUME NEW k \in KindSet, NEW rp \in Planes, Enqueue(k, rp) \/ AddTxCredit(k, rp) PROVE StreamInv'
    BY <2>3, EnqueueKeeps, AddTxCreditKeeps
  <2>4. CASE ReturnRxCredit
    BY <2>4, ReturnKeeps
  <2>5. CASE LinkTrained \/ LinkFails \/ UNCHANGED vars
    BY <2>5, LinkKeeps
  <2> QED BY <2>1, <2>2, <2>3, <2>4, <2>5 DEF Next
<1> QED BY <1>1, <1>2, PTL DEF SafeSpec

\* Messages arrive whole, once and in order, however they are cut at the
\* boundaries of flits, mixed and held back.
THEOREM MessagesStayIntact == SafeSpec => []MessagesIntact
<1>1. StreamInv => MessagesIntact
  BY DEF StreamInv, InOrder, Intact, MessagesIntact
<1> QED BY <1>1, StreamInvariant, PTL

\* Nothing throws: the decoder rejects no flit, none meets a full FIFO and no
\* counter leaves its range.
THEOREM NothingThrows == SafeSpec => []NoException
<1>1. StreamInv => NoException
  BY DEF StreamInv, NoException
<1> QED BY <1>1, StreamInvariant, PTL

\* Credit read along a queue of flits adds up.
LEMMA CreditTotal ==
  ASSUME NEW s \in Seq(Flit), NEW x \in Int, NEW y, Leads(s, CreditStep, x, y)
  PROVE  FoldLeft(AddCredit, 0, s) \in Nat /\ y = x + FoldLeft(AddCredit, 0, s)
<1> DEFINE n == Len(s)
           h == [i \in 1 .. n |-> [t \in Nat |-> AddCredit(t, s[i])]]
           Eq(it) == it = [z \in SUBSET DOMAIN s |->
                             IF z = {} THEN 0 ELSE AddCredit(it[z \ {Max(z)}], s[Max(z)])]
           it == CHOOSE g : Eq(g)
<1>1. n \in Nat /\ DOMAIN s = 1 .. n
  OBVIOUS
<1>2. \A i \in 1 .. n : s[i] \in Flit /\ CreditOf(s[i]) \in Nat
  BY <1>1, CreditFold
<1>3. h \in [1 .. n -> [Nat -> Nat]]
  BY <1>2 DEF AddCredit
<1> HIDE DEF n
<1>4. \A i \in 1 .. n : \A t \in Nat : h[i][t] = AddCredit(t, s[i])
  OBVIOUS
<1> HIDE DEF h
<1>i. PICK g \in [SUBSET (1 .. n) -> Nat] : IsIter(g, n, 0, h)
  <2>1. 0 \in Nat
    OBVIOUS
  <2> QED BY <1>1, <1>3, <2>1, FoldIter
<1>5. /\ g[{}] = 0
      /\ \A z \in SUBSET (1 .. n) : z # {} => g[z] = h[Max(z)][g[z \ {Max(z)}]]
  BY <1>i, Zenon DEF IsIter
<1>6. ASSUME NEW z \in SUBSET (1 .. n), z # {} PROVE g[z] = AddCredit(g[z \ {Max(z)}], s[Max(z)])
  <2>1. Max(z) \in 1 .. n /\ z \ {Max(z)} \in SUBSET (1 .. n)
    BY <1>1, <1>6, MaxFacts
  <2>2. g[z \ {Max(z)}] \in Nat
    BY <2>1
  <2> QED BY <1>4, <1>5, <1>6, <2>1, <2>2
<1>7. Eq(g)
  BY <1>1, <1>5, <1>6
<1>8. Eq(it)
  <2> HIDE DEF Eq
  <2> QED BY <1>7
<1>9. FoldLeft(AddCredit, 0, s) = it[DOMAIN s]
  BY DEF FoldLeft, MapThenFoldSet
<1> HIDE DEF it
<1>10. it[{}] = 0 /\ \A z \in SUBSET (1 .. n) : z # {} => it[z] = AddCredit(it[z \ {Max(z)}], s[Max(z)])
  BY <1>1, <1>8
<1> HIDE DEF Eq
<1>11. PICK c : IsPath(c, s, CreditStep) /\ c[0] = x /\ c[n] = y
  BY DEF Leads, n
<1> DEFINE Good(i) == it[1 .. i] \in Nat /\ c[i] = x + it[1 .. i]
           P == {i \in Nat : i <= n => Good(i)}
<1>12. 0 \in P
  <2>1. it[1 .. 0] = 0
    BY <1>10
  <2>2. Good(0)
    BY <1>11, <2>1
  <2> HIDE DEF Good
  <2> QED BY <2>2
<1>13. ASSUME NEW j \in Nat, j \in P PROVE j + 1 \in P
  <2> SUFFICES ASSUME j + 1 <= n PROVE Good(j + 1)
    <3> HIDE DEF Good
    <3> QED OBVIOUS
  <2>a. Good(j)
    <3> HIDE DEF Good
    <3> QED BY <1>1, <1>13
  <2> DEFINE i == j + 1
  <2>0. i \in 1 .. n /\ i - 1 = j
    BY <1>1
  <2> HIDE DEF i
  <2>1. /\ 1 .. i \in SUBSET (1 .. n) /\ 1 .. i # {} /\ Max(1 .. i) = i
        /\ (1 .. i) \ {i} = 1 .. (i - 1)
    BY <1>1, <2>0, IntervalParts
  <2>2. it[1 .. i] = AddCredit(it[1 .. j], s[i])
    BY <1>10, <2>0, <2>1
  <2>3. <<c[i - 1], s[i], c[i]>> \in CreditStep
    BY <1>11, <2>0 DEF IsPath, n
  <2>4. c[i] = c[j] + CreditOf(s[i])
    BY <2>0, <2>3 DEF CreditStep
  <2>5. CreditOf(s[i]) \in Nat
    BY <1>2, <2>0
  <2>6. PICK u \in Nat, v \in Nat : u = it[1 .. j] /\ v = CreditOf(s[i])
    BY <2>a, <2>5
  <2>7. it[1 .. i] = u + v /\ c[i] = (x + u) + v
    BY <2>a, <2>2, <2>4, <2>6 DEF AddCredit
  <2>8. u + v \in Nat /\ (x + u) + v = x + (u + v)
    OBVIOUS
  <2>9. Good(i)
    BY <2>7, <2>8
  <2> QED BY <2>9 DEF i
<1> HIDE DEF P
<1>14. n \in P
  BY <1>1, <1>12, <1>13, SetInduction, Zenon
<1>15. Good(n)
  <2> HIDE DEF Good
  <2> QED BY <1>1, <1>14 DEF P
<1>16. it[DOMAIN s] = it[1 .. n]
  BY <1>1
<1> QED BY <1>9, <1>11, <1>15, <1>16

\* Credit returned by the bridge is pending, in a flit, or with the target:
\* none is lost and none granted twice.
THEOREM CreditConserved == SafeSpec => []GrantsConserved
<1>1. StreamInv => GrantsConserved
  <2> SUFFICES ASSUME StreamInv PROVE GrantsConserved
    OBVIOUS
  <2>1. PICK x \in Int : Leads(fdi, CreditStep, granted, x) /\ Leads(output, CreditStep, x, returned - returns)
    BY DEF StreamInv, CreditInOrder
  <2>2. fdi \in Seq(Flit) /\ output \in Seq(Flit) /\ granted \in Nat /\ returned \in Nat /\ returns \in Nat
    BY DEF StreamInv, TypeOK
  <2>3. Leads(fdi \o output, CreditStep, granted, returned - returns) /\ fdi \o output \in Seq(Flit)
    <3>1. Leads(fdi \o output, CreditStep, granted, returned - returns)
      BY <2>1, <2>2, LeadsConcat
    <3>2. fdi \o output \in Seq(Flit)
      BY <2>2, ConcatProperties
    <3> QED BY <3>1, <3>2
  <2> DEFINE z == FoldLeft(AddCredit, 0, fdi \o output)
  <2>4. z \in Nat /\ returned - returns = granted + z
    <3>a. PICK s \in Seq(Flit) : s = fdi \o output
      BY <2>3
    <3>b. PICK g \in Int : g = granted
      BY <2>2
    <3>c. PICK y : y = returned - returns
      OBVIOUS
    <3>1. s = fdi \o output /\ g = granted /\ y = returned - returns
      BY <3>a, <3>b, <3>c
    <3>2. FoldLeft(AddCredit, 0, s) \in Nat /\ y = g + FoldLeft(AddCredit, 0, s)
      BY <2>3, <3>1, CreditTotal
    <3> QED BY <3>1, <3>2
  <2>5. GrantsConserved <=> returned = returns + granted + z
    BY DEF GrantsConserved
  <2> HIDE DEF z
  <2>6. returned = returns + granted + z
    BY <2>2, <2>4
  <2> QED BY <2>5, <2>6
<1> QED BY <1>1, StreamInvariant, PTL
============================================================================
