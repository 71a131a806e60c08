-------------------------- MODULE MemSimOrderProofs --------------------------
(***************************************************************************)
(* The bridge, and what a read returns: for every line, the writes on      *)
(* their way to the stack, from the image to the queue and to the bursts   *)
(* not yet submitted, end in what was stored last.  With the parts that    *)
(* MemSimBackendProofs proves this is the invariant; what the memory       *)
(* system and the bridge promise follows.                                  *)
(***************************************************************************)
EXTENDS MemSimBackendProofs

USE DEF queueVars, outVars, userVars, sysVars, bridgeVars, vars

-----------------------------------------------------------------------------
(* The bridge: its bursts bs, the children ch of them, the next memory id  *)
(* nm and the number bg of bursts so far.                                  *)

KidsOf(ch, s) == {id \in DOMAIN ch : ch[id].serial = s}

Fits(b, ch, bg) ==
    /\ b.sent \in 0 .. Len(b.sh.cells)
    /\ b.sh.bad => b.error /\ ~IsUnsent(b)
    /\ (b.sh.type = "W" \/ b.sh.bad) => b.want = <<>>
    /\ b.sh.type = "R" /\ ~b.sh.bad => Len(b.want) = Len(b.sh.cells)
    /\ b.pending = Cardinality(KidsOf(ch, b.serial))
    /\ b.sh.bad => KidsOf(ch, b.serial) = {}
    /\ b.serial \in 1 .. bg

InBurst(c, b) == c.serial = b.serial /\ c.offset \in 1 .. b.sent

OnlyCandidate(bs, n, nm, D) ==
    bs[n].candidate # 0 => /\ bs[n].candidate < nm /\ bs[n].candidate \notin D
                           /\ IsUnsent(bs[n]) /\ \A m \in 1 .. (n - 1) : ~IsUnsent(bs[m])

BridgeOk(bs, ch, nm, bg) ==
    /\ \A id \in DOMAIN ch : id < nm /\ \E n \in 1 .. Len(bs) : InBurst(ch[id], bs[n])
    /\ \A n \in 1 .. Len(bs) : Fits(bs[n], ch, bg)
    /\ \A n, m \in 1 .. Len(bs) : m < n => bs[m].serial < bs[n].serial
    /\ \A n \in 1 .. Len(bs) : OnlyCandidate(bs, n, nm, DOMAIN ch)

\* Transaction t is that of child c of burst b.
IsChild(t, c, b) ==
    c.serial = b.serial /\ t.type = b.sh.type /\ (t.type = "R" => t.want = b.want[c.offset])
Member(t, bs, ch) ==
    t.count = 1 /\ t.id \in DOMAIN ch /\ \E n \in 1 .. Len(bs) : IsChild(t, ch[t.id], bs[n])

JoinOk(b, ch) ==
    b.sh.type = "R" /\ ~b.sh.bad =>
      /\ \A k \in DOMAIN b.data : k \in 1 .. b.sent /\ b.data[k] = b.want[k]
      /\ \A k \in 1 .. b.sent : k \in DOMAIN b.data
           \/ \E id \in DOMAIN ch : ch[id].serial = b.serial /\ ch[id].offset = k

BurstMeans ==
    /\ BridgeOk(bursts, children, nextMem, begun)
    /\ DOMAIN children = DOMAIN host_submissions_
    /\ \A id \in DOMAIN children : host_submissions_[id].count = 1
    /\ \A t : t \in Flying \/ InResponse(t) => Member(t, bursts, children)

\* The invariants of the bridge in these words.
LEMMA BurstInvIs == /\ cfg.user = "bridge" => (BurstInv <=> BurstMeans)
                    /\ JoinInv <=> \A n \in 1 .. Len(bursts) : JoinOk(bursts[n], children)
<1>3. JoinInv <=> \A n \in 1 .. Len(bursts) : JoinOk(bursts[n], children)
  BY DEF JoinInv, JoinOk
<1> SUFFICES ASSUME cfg.user = "bridge" PROVE BurstInv <=> BurstMeans
  BY <1>3
<1>1. ASSUME BurstInv
      PROVE  /\ BridgeOk(bursts, children, nextMem, begun)
             /\ DOMAIN children = DOMAIN host_submissions_
             /\ \A id \in DOMAIN children : host_submissions_[id].count = 1
             /\ \A t : t \in Flying \/ InResponse(t) => Member(t, bursts, children)
  <2>1. BridgeOk(bursts, children, nextMem, begun)
    BY <1>1 DEF BurstInv, BridgeOk, InBurst, OnlyCandidate, Fits, BurstOk, Kids, KidsOf
  <2>2. \A t : t \in Flying \/ InResponse(t) => OfBurst(t)
    BY <1>1 DEF BurstInv, InResponse
  <2>3. \A t : OfBurst(t) => Member(t, bursts, children)
    BY DEF OfBurst, Member, IsChild, ChildIn
  <2> QED BY <1>1, <2>1, <2>2, <2>3 DEF BurstInv
<1>2. ASSUME BridgeOk(bursts, children, nextMem, begun), DOMAIN children = DOMAIN host_submissions_,
             \A id \in DOMAIN children : host_submissions_[id].count = 1,
             \A t : t \in Flying \/ InResponse(t) => Member(t, bursts, children)
      PROVE  BurstInv
  <2>1. \A t : Member(t, bursts, children) => OfBurst(t)
    BY DEF OfBurst, Member, IsChild, ChildIn
  <2>2. \A t \in Flying : OfBurst(t)
    BY <1>2, <2>1
  <2>3. \A n \in 1 .. Len(host_responses_) : \A k \in DOMAIN host_responses_[n].parts :
           OfBurst(host_responses_[n].parts[k].t)
    BY <1>2, <2>1 DEF InResponse
  <2>4. /\ \A id \in DOMAIN children :
             /\ id < nextMem
             /\ \E n \in 1 .. Len(bursts) : children[id].serial = bursts[n].serial
                                            /\ children[id].offset \in 1 .. bursts[n].sent
        /\ \A n \in 1 .. Len(bursts) : BurstOk(bursts[n])
        /\ \A n, m \in 1 .. Len(bursts) : m < n => bursts[m].serial < bursts[n].serial
        /\ \A n \in 1 .. Len(bursts) : bursts[n].candidate # 0 =>
             /\ bursts[n].candidate < nextMem /\ bursts[n].candidate \notin DOMAIN children
             /\ IsUnsent(bursts[n]) /\ \A m \in 1 .. (n - 1) : ~IsUnsent(bursts[m])
    BY <1>2 DEF BridgeOk, InBurst, OnlyCandidate, Fits, BurstOk, Kids, KidsOf
  <2> QED BY <1>2, <2>2, <2>3, <2>4 DEF BurstInv
<1> QED BY <1>1, <1>2 DEF BurstMeans

\* The children of a burst can be counted.
LEMMA KidsFinite ==
  ASSUME NEW ch \in PFun(Nat \ {0}, ChildRec), NEW nm \in Nat, \A id \in DOMAIN ch : id < nm, NEW s
  PROVE  IsFiniteSet(KidsOf(ch, s)) /\ Cardinality(KidsOf(ch, s)) \in Nat
<1>1. DOMAIN ch \subseteq Nat \ {0}
  BY PFunFacts
<1>2. KidsOf(ch, s) \subseteq 1 .. nm
  BY <1>1 DEF KidsOf
<1> QED BY <1>2, CountFacts

\* Bursts that differ in what the invariants do not speak of.
Alike(b, d) == /\ d.serial = b.serial /\ d.sh = b.sh /\ d.sent = b.sent /\ d.pending = b.pending
               /\ d.candidate = b.candidate /\ d.error = b.error /\ d.want = b.want /\ d.data = b.data

\* Bursts that differ only in what the invariant does not look at.
LEMMA BridgeAlike ==
  ASSUME NEW bs, NEW cs, NEW ch, NEW nm, NEW bg, Len(cs) = Len(bs), \A n \in 1 .. Len(bs) : Alike(bs[n], cs[n])
  PROVE  /\ BridgeOk(bs, ch, nm, bg) => BridgeOk(cs, ch, nm, bg)
         /\ \A t : Member(t, bs, ch) => Member(t, cs, ch)
         /\ \A n \in 1 .. Len(bs) : JoinOk(bs[n], ch) => JoinOk(cs[n], ch)
<1>1. \A t : Member(t, bs, ch) => Member(t, cs, ch)
  BY DEF Member, IsChild, Alike
<1>2. \A n \in 1 .. Len(bs) : JoinOk(bs[n], ch) => JoinOk(cs[n], ch)
  BY DEF JoinOk, Alike
<1>3. ASSUME BridgeOk(bs, ch, nm, bg) PROVE BridgeOk(cs, ch, nm, bg)
  <2>1. \A id \in DOMAIN ch : id < nm /\ \E n \in 1 .. Len(cs) : InBurst(ch[id], cs[n])
    BY <1>3 DEF BridgeOk, InBurst, Alike
  <2>2. \A n \in 1 .. Len(cs) : Fits(cs[n], ch, bg)
    BY <1>3, ZenonT(40) DEF BridgeOk, Fits, Alike, IsUnsent
  <2>3. \A n, m \in 1 .. Len(cs) : m < n => cs[m].serial < cs[n].serial
    BY <1>3 DEF BridgeOk, Alike
  <2>4. ASSUME NEW n \in 1 .. Len(cs) PROVE OnlyCandidate(cs, n, nm, DOMAIN ch)
    <3>1. OnlyCandidate(bs, n, nm, DOMAIN ch)
      BY <1>3, <2>4 DEF BridgeOk
    <3>2. \A m \in 1 .. (n - 1) : m \in 1 .. Len(bs)
      BY <2>4
    <3>3. \A m \in 1 .. Len(bs) : IsUnsent(cs[m]) <=> IsUnsent(bs[m])
      BY DEF Alike, IsUnsent
    <3>4. cs[n].candidate = bs[n].candidate
      BY <2>4 DEF Alike
    <3> QED BY <2>4, <3>1, <3>2, <3>3, <3>4 DEF OnlyCandidate
  <2> QED BY <2>1, <2>2, <2>3, <2>4 DEF BridgeOk
<1> QED BY <1>1, <1>2, <1>3

\* A burst is admitted.
LEMMA BridgeAdmits ==
  ASSUME TypeInv, NEW bs \in Seq(BurstRec), NEW ch \in PFun(Nat \ {0}, ChildRec), NEW nm \in Nat, NEW bg \in Nat,
         NEW b \in BurstRec, b.serial = bg + 1, b.sent = (IF b.sh.bad THEN Len(b.sh.cells) ELSE 0),
         b.pending = 0, b.candidate = 0, b.error = b.sh.bad, b.data = Empty, WantOk(b),
         BridgeOk(bs, ch, nm, bg)
  PROVE  /\ BridgeOk(Append(bs, b), ch, nm, bg + 1)
         /\ \A t : Member(t, bs, ch) => Member(t, Append(bs, b), ch)
         /\ JoinOk(b, ch)
<1> DEFINE cs == Append(bs, b)
           z == Len(bs) + 1
<1>1. /\ Len(bs) \in Nat /\ Len(cs) = z /\ cs[z] = b /\ \A n \in 1 .. Len(bs) : cs[n] = bs[n] /\ n \in 1 .. z /\ n < z
      /\ \A n \in 1 .. z : n \in 1 .. Len(bs) \/ n = z
  OBVIOUS
<1>2. \A n \in 1 .. Len(bs) : Fits(bs[n], ch, bg) /\ bs[n].serial \in 1 .. bg
  BY DEF BridgeOk, Fits
<1>3. KidsOf(ch, b.serial) = {}
  <2> SUFFICES ASSUME NEW id \in KidsOf(ch, b.serial) PROVE FALSE
    OBVIOUS
  <2>1. id \in DOMAIN ch /\ ch[id].serial = bg + 1
    BY DEF KidsOf
  <2>2. PICK n \in 1 .. Len(bs) : InBurst(ch[id], bs[n])
    BY <2>1 DEF BridgeOk
  <2> QED BY <1>2, <2>1, <2>2 DEF InBurst
<1>4. /\ b.sh.type \in Types /\ Len(b.sh.cells) \in Nat \ {0} /\ b.sh.bad \in BOOLEAN
  BY BurstFacts
<1>5. Fits(b, ch, bg + 1)
  <2>1. Cardinality({}) = 0
    BY FS_EmptySet
  <2>2. b.sent \in 0 .. Len(b.sh.cells) /\ (b.sh.bad => b.error /\ ~IsUnsent(b))
    BY <1>4 DEF IsUnsent
  <2>3. /\ (b.sh.type = "W" \/ b.sh.bad) => b.want = <<>>
        /\ b.sh.type = "R" /\ ~b.sh.bad => Len(b.want) = Len(b.sh.cells)
    BY DEF WantOk
  <2>4. b.serial \in 1 .. (bg + 1)
    OBVIOUS
  <2> QED BY <1>3, <2>1, <2>2, <2>3, <2>4 DEF Fits
<1>6. \A n \in 1 .. Len(cs) : Fits(cs[n], ch, bg + 1)
  <2>1. \A n \in 1 .. Len(bs) : Fits(bs[n], ch, bg + 1)
    <3>1. \A n \in 1 .. Len(bs) : bs[n].serial \in 1 .. (bg + 1)
      BY <1>2
    <3> QED BY <1>2, <3>1 DEF Fits
  <2> QED BY <1>1, <1>5, <2>1
<1>7. \A id \in DOMAIN ch : id < nm /\ \E n \in 1 .. Len(cs) : InBurst(ch[id], cs[n])
  BY <1>1 DEF BridgeOk
<1>8. ASSUME NEW n \in 1 .. Len(cs), NEW m \in 1 .. Len(cs), m < n PROVE cs[m].serial < cs[n].serial
  <2>1. m \in 1 .. Len(bs)
    BY <1>1, <1>8
  <2>2. CASE n = z
    BY <1>1, <1>2, <2>1, <2>2
  <2>3. CASE n \in 1 .. Len(bs)
    BY <1>1, <1>8, <2>1, <2>3 DEF BridgeOk
  <2> QED BY <1>1, <2>2, <2>3
<1>9. ASSUME NEW n \in 1 .. Len(cs) PROVE OnlyCandidate(cs, n, nm, DOMAIN ch)
  <2>1. CASE n = z
    BY <1>1, <2>1 DEF OnlyCandidate
  <2>2. CASE n \in 1 .. Len(bs)
    <3>1. OnlyCandidate(bs, n, nm, DOMAIN ch)
      BY <2>2 DEF BridgeOk
    <3>2. \A m \in 1 .. (n - 1) : m \in 1 .. Len(bs)
      BY <1>1, <2>2
    <3> HIDE DEF cs
    <3> QED BY <1>1, <2>2, <3>1, <3>2 DEF OnlyCandidate
  <2> QED BY <1>1, <2>1, <2>2
<1>10. BridgeOk(cs, ch, nm, bg + 1)
  BY <1>6, <1>7, <1>8, <1>9 DEF BridgeOk
<1>11. \A t : Member(t, bs, ch) => Member(t, cs, ch)
  BY <1>1 DEF Member
<1>12. JoinOk(b, ch)
  BY EmptyFacts DEF JoinOk
<1> QED BY <1>10, <1>11, <1>12

\* Burst n of bs goes on: its next child c gets memory id, which was free.
GoesOn(bs, ch, nm, bg, n, id, mm, c, cs, dh) ==
    /\ bs \in Seq(BurstRec) /\ ch \in PFun(Nat \ {0}, ChildRec) /\ nm \in Nat /\ bg \in Nat /\ mm \in Nat
    /\ BridgeOk(bs, ch, nm, bg) /\ n \in 1 .. Len(bs) /\ IsUnsent(bs[n])
    /\ \A m \in 1 .. (n - 1) : ~IsUnsent(bs[m])
    /\ id \notin DOMAIN ch /\ nm <= mm /\ id < mm
    /\ c.serial = bs[n].serial /\ c.offset = bs[n].sent + 1
    /\ cs = [bs EXCEPT ![n] = Advanced(bs[n])] /\ dh = Set(ch, id, c)

\* A child of a burst is submitted.
LEMMA BridgeAdvances ==
  ASSUME TypeInv, NEW bs, NEW ch, NEW nm, NEW bg, NEW n, NEW id, NEW mm, NEW c, NEW cs, NEW dh,
         GoesOn(bs, ch, nm, bg, n, id, mm, c, cs, dh)
  PROVE  /\ BridgeOk(cs, dh, mm, bg) /\ ~bs[n].sh.bad
         /\ \A t : Member(t, bs, ch) => Member(t, cs, dh)
         /\ \A t : t.count = 1 /\ t.id = id /\ IsChild(t, c, bs[n]) => Member(t, cs, dh)
         /\ (\A m \in 1 .. Len(bs) : JoinOk(bs[m], ch)) => \A m \in 1 .. Len(cs) : JoinOk(cs[m], dh)
<1>a. PICK b, d : b = bs[n] /\ d = Advanced(b)
  OBVIOUS
<1>b. /\ bs \in Seq(BurstRec) /\ ch \in PFun(Nat \ {0}, ChildRec) /\ nm \in Nat /\ bg \in Nat /\ mm \in Nat
      /\ BridgeOk(bs, ch, nm, bg) /\ n \in 1 .. Len(bs) /\ IsUnsent(b)
      /\ \A m \in 1 .. (n - 1) : ~IsUnsent(bs[m])
      /\ id \notin DOMAIN ch /\ nm <= mm /\ id < mm
      /\ c.serial = b.serial /\ c.offset = b.sent + 1
      /\ cs = [bs EXCEPT ![n] = d] /\ dh = Set(ch, id, c)
  BY <1>a DEF GoesOn
<1> USE <1>a, <1>b
<1>1. /\ b \in BurstRec /\ b.sent \in Nat /\ b.pending \in Int /\ Len(b.sh.cells) \in Nat \ {0} /\ d \in BurstRec
      /\ d.serial = b.serial /\ d.sh = b.sh /\ d.sent = b.sent + 1 /\ d.pending = b.pending + 1 /\ d.candidate = 0
      /\ d.error = b.error /\ d.want = b.want /\ d.data = b.data
  <2>1. b \in BurstRec
    OBVIOUS
  <2> QED BY <2>1, BurstFacts, AdvancedFacts
<1>2. /\ Len(cs) = Len(bs) /\ Len(bs) \in Nat /\ cs[n] = d /\ \A m \in 1 .. Len(bs) : m # n => cs[m] = bs[m]
  BY <1>1, Replaced
<1>3. DOMAIN dh = DOMAIN ch \cup {id} /\ dh[id] = c /\ \A x \in DOMAIN ch : dh[x] = ch[x] /\ x # id
  BY DEF Set
<1>4. Fits(b, ch, bg) /\ \A m \in 1 .. Len(bs) : Fits(bs[m], ch, bg)
  BY DEF BridgeOk
<1>5. ~b.sh.bad
  BY <1>4 DEF Fits
<1>6. \A m \in 1 .. Len(bs) : m # n => bs[m].serial # b.serial
  <2> SUFFICES ASSUME NEW m \in 1 .. Len(bs), m # n PROVE bs[m].serial # b.serial
    OBVIOUS
  <2>1. bs[m].serial \in Nat /\ b.serial \in Nat
    BY <1>4 DEF Fits
  <2>2. m < n \/ n < m
    OBVIOUS
  <2>3. bs[m].serial < b.serial \/ b.serial < bs[m].serial
    BY <2>2 DEF BridgeOk
  <2> QED BY <2>1, <2>3
<1>7. \A x \in DOMAIN dh : x < mm /\ \E m \in 1 .. Len(cs) : InBurst(dh[x], cs[m])
  <2> SUFFICES ASSUME NEW x \in DOMAIN dh PROVE x < mm /\ \E m \in 1 .. Len(cs) : InBurst(dh[x], cs[m])
    OBVIOUS
  <2>1. CASE x = id
    <3>1. InBurst(c, d)
      BY <1>1 DEF InBurst
    <3> QED BY <1>2, <1>3, <2>1, <3>1
  <2>2. CASE x # id
    <3>1. x \in DOMAIN ch /\ dh[x] = ch[x] /\ x < nm
      BY <1>3, <2>2 DEF BridgeOk
    <3>2. x \in Nat
      BY <3>1, PFunFacts
    <3>3. PICK m \in 1 .. Len(bs) : InBurst(ch[x], bs[m])
      BY <3>1 DEF BridgeOk
    <3>4. InBurst(ch[x], cs[m])
      <4>1. CASE m = n
        BY <1>1, <1>2, <3>3, <4>1 DEF InBurst
      <4>2. CASE m # n
        BY <1>2, <3>3, <4>2
      <4> QED BY <4>1, <4>2
    <3> QED BY <1>2, <3>1, <3>2, <3>3, <3>4
  <2> QED BY <2>1, <2>2
<1>8. KidsOf(dh, b.serial) = KidsOf(ch, b.serial) \cup {id} /\ id \notin KidsOf(ch, b.serial)
  <2>1. \A x : x \in KidsOf(dh, b.serial) <=> x \in KidsOf(ch, b.serial) \/ x = id
    BY <1>3 DEF KidsOf
  <2> QED BY <2>1 DEF KidsOf
<1>9. Fits(d, dh, bg)
  <2>1. IsFiniteSet(KidsOf(ch, b.serial)) /\ Cardinality(KidsOf(ch, b.serial)) \in Nat
    BY KidsFinite DEF BridgeOk
  <2>2. Cardinality(KidsOf(dh, b.serial)) = Cardinality(KidsOf(ch, b.serial)) + 1
    BY <1>8, <2>1, FS_AddElement
  <2>3. d.pending = Cardinality(KidsOf(dh, d.serial))
    BY <1>1, <1>4, <2>2 DEF Fits
  <2>4. d.sent \in 0 .. Len(d.sh.cells)
    BY <1>1, SMTT(30) DEF IsUnsent
  <2> QED BY <1>1, <1>4, <1>5, <2>3, <2>4 DEF Fits
<1>10. \A m \in 1 .. Len(cs) : Fits(cs[m], dh, bg)
  <2> SUFFICES ASSUME NEW m \in 1 .. Len(bs), m # n PROVE Fits(bs[m], dh, bg)
    BY <1>2, <1>9
  <2>1. KidsOf(dh, bs[m].serial) = KidsOf(ch, bs[m].serial)
    <3>1. \A x : x \in KidsOf(dh, bs[m].serial) <=> x \in KidsOf(ch, bs[m].serial)
      BY <1>3, <1>6 DEF KidsOf
    <3> QED BY <3>1
  <2> QED BY <1>4, <2>1 DEF Fits
<1>11. \A i, m \in 1 .. Len(cs) : m < i => cs[m].serial < cs[i].serial
  <2>1. \A m \in 1 .. Len(bs) : cs[m].serial = bs[m].serial
    BY <1>1, <1>2
  <2> QED BY <1>2, <2>1 DEF BridgeOk
<1>12. \A m \in 1 .. Len(cs) : cs[m].candidate = 0
  <2> SUFFICES ASSUME NEW m \in 1 .. Len(bs), m # n, bs[m].candidate # 0 PROVE FALSE
    BY <1>1, <1>2
  <2>1. IsUnsent(bs[m]) /\ \A i \in 1 .. (m - 1) : ~IsUnsent(bs[i])
    BY DEF BridgeOk, OnlyCandidate
  <2> QED BY <2>1
<1>13. BridgeOk(cs, dh, mm, bg)
  BY <1>7, <1>10, <1>11, <1>12 DEF BridgeOk, OnlyCandidate
<1>14. ASSUME NEW t, NEW h, NEW m \in 1 .. Len(bs), IsChild(t, h, bs[m]) PROVE IsChild(t, h, cs[m])
  <2>1. CASE m = n
    BY <1>1, <1>2, <1>14, <2>1 DEF IsChild
  <2>2. CASE m # n
    BY <1>2, <1>14, <2>2
  <2> QED BY <2>1, <2>2
<1>15. \A t : Member(t, bs, ch) => Member(t, cs, dh)
  BY <1>2, <1>3, <1>14 DEF Member
<1>16. \A t : t.count = 1 /\ t.id = id /\ IsChild(t, c, b) => Member(t, cs, dh)
  BY <1>2, <1>3, <1>14 DEF Member
<1>17. ASSUME \A m \in 1 .. Len(bs) : JoinOk(bs[m], ch), NEW m \in 1 .. Len(cs) PROVE JoinOk(cs[m], dh)
  <2>1. JoinOk(bs[m], ch)
    BY <1>2, <1>17
  <2>2. JoinOk(bs[m], dh)
    BY <1>3, <2>1 DEF JoinOk
  <2>3. CASE m # n
    BY <1>2, <2>2, <2>3
  <2>4. CASE m = n
    <3>1. JoinOk(b, dh)
      BY <2>2, <2>4
    <3>2. \A k \in 1 .. d.sent : k \in 1 .. b.sent \/ k = c.offset
      BY <1>1
    <3>3. \A k \in 1 .. b.sent : k \in 1 .. d.sent
      BY <1>1
    <3>4. JoinOk(d, dh)
      BY <1>1, <1>3, <3>1, <3>2, <3>3, SMTT(30) DEF JoinOk
    <3> QED BY <1>2, <2>4, <3>4
  <2> QED BY <2>3, <2>4
<1> QED BY <1>5, <1>13, <1>15, <1>16, <1>17

\* No room for a child: the burst keeps its memory id.
LEMMA BridgeDefers ==
  ASSUME TypeInv, NEW bs \in Seq(BurstRec), NEW ch \in PFun(Nat \ {0}, ChildRec), NEW nm \in Nat, NEW bg \in Nat,
         BridgeOk(bs, ch, nm, bg), NEW n \in 1 .. Len(bs), NEW b, b = bs[n], IsUnsent(b),
         \A m \in 1 .. (n - 1) : ~IsUnsent(bs[m]),
         NEW mm \in Nat, nm <= mm, Candidate(b) < mm, Candidate(b) \notin DOMAIN ch,
         NEW cs, cs = [bs EXCEPT ![n] = Deferred(b)]
  PROVE  /\ BridgeOk(cs, ch, mm, bg)
         /\ \A t : Member(t, bs, ch) => Member(t, cs, ch)
         /\ (\A m \in 1 .. Len(bs) : JoinOk(bs[m], ch)) => \A m \in 1 .. Len(cs) : JoinOk(cs[m], ch)
<1> DEFINE d == Deferred(b)
<1>1. /\ b \in BurstRec /\ d \in BurstRec
      /\ d.serial = b.serial /\ d.sh = b.sh /\ d.sent = b.sent /\ d.pending = b.pending
      /\ d.candidate = Candidate(b) /\ d.error = b.error /\ d.want = b.want /\ d.data = b.data
  <2>1. b \in BurstRec
    OBVIOUS
  <2> QED BY <2>1, BurstFacts, AdvancedFacts
<1> HIDE DEF d
<1>2. /\ Len(cs) = Len(bs) /\ Len(bs) \in Nat /\ cs[n] = d /\ \A m \in 1 .. Len(bs) : m # n => cs[m] = bs[m]
  BY <1>1, Replaced DEF d
<1>3. \A m \in 1 .. Len(bs) : /\ cs[m].serial = bs[m].serial /\ cs[m].sh = bs[m].sh /\ cs[m].sent = bs[m].sent
                              /\ cs[m].pending = bs[m].pending /\ cs[m].error = bs[m].error
                              /\ cs[m].want = bs[m].want /\ cs[m].data = bs[m].data
  BY <1>1, <1>2
<1>4. \A t : Member(t, bs, ch) => Member(t, cs, ch)
  BY <1>2, <1>3 DEF Member, IsChild
<1>5. \A m \in 1 .. Len(bs) : JoinOk(bs[m], ch) => JoinOk(cs[m], ch)
  BY <1>3 DEF JoinOk
<1>6. \A id \in DOMAIN ch : id < mm /\ \E m \in 1 .. Len(cs) : InBurst(ch[id], cs[m])
  <2>1. \A id \in DOMAIN ch : id \in Nat /\ id < nm /\ \E m \in 1 .. Len(bs) : InBurst(ch[id], bs[m])
    BY PFunFacts DEF BridgeOk
  <2> QED BY <1>2, <1>3, <2>1 DEF InBurst
<1>7. \A m \in 1 .. Len(cs) : Fits(cs[m], ch, bg)
  <2> SUFFICES ASSUME NEW m \in 1 .. Len(bs) PROVE Fits(cs[m], ch, bg)
    BY <1>2
  <2>1. Fits(bs[m], ch, bg)
    BY DEF BridgeOk
  <2> QED BY <1>3, <2>1 DEF Fits, IsUnsent
<1>8. \A i, m \in 1 .. Len(cs) : m < i => cs[m].serial < cs[i].serial
  BY <1>2, <1>3 DEF BridgeOk
<1>9. ASSUME NEW m \in 1 .. Len(cs) PROVE OnlyCandidate(cs, m, mm, DOMAIN ch)
  <2>1. \A i \in 1 .. Len(bs) : IsUnsent(cs[i]) <=> IsUnsent(bs[i])
    BY <1>3 DEF IsUnsent
  <2>2. CASE m = n
    <3>1. \A i \in 1 .. (n - 1) : i \in 1 .. Len(bs)
      OBVIOUS
    <3> QED BY <1>1, <1>2, <2>1, <2>2, <3>1 DEF OnlyCandidate
  <2>3. CASE m # n
    <3> SUFFICES ASSUME bs[m].candidate # 0 PROVE FALSE
      BY <1>2, <2>3 DEF OnlyCandidate
    <3>1. IsUnsent(bs[m]) /\ \A i \in 1 .. (m - 1) : ~IsUnsent(bs[i])
      BY <1>2 DEF BridgeOk, OnlyCandidate
    <3> QED BY <1>2, <2>3, <3>1
  <2> QED BY <2>2, <2>3
<1>10. BridgeOk(cs, ch, mm, bg)
  BY <1>6, <1>7, <1>8, <1>9 DEF BridgeOk
<1> QED BY <1>2, <1>4, <1>5, <1>10

\* What joining does to a burst.
LEMMA JoinedFields ==
  ASSUME TypeInv, NEW b \in BurstRec, NEW k \in Nat \ {0}, NEW r, r.parts[1].data \in Nat
  PROVE  LET d == Joined(b, k, r)
         IN  /\ d.serial = b.serial /\ d.sh = b.sh /\ d.sent = b.sent /\ d.pending = b.pending - 1
             /\ d.candidate = b.candidate /\ d.error = (b.error \/ r.status # "Ok")
             /\ d.want = b.want
             /\ b.sh.type = "R" => /\ DOMAIN d.data = DOMAIN b.data \cup {k} /\ d.data[k] = r.parts[1].data
                                   /\ \A y \in DOMAIN b.data : y # k => d.data[y] = b.data[y]
<1>1. PICK d : d = Joined(b, k, r)
  OBVIOUS
<1>2. b.sh.type = "R" => r.parts[1].data \in Nat
  OBVIOUS
<1>3. d.serial = b.serial /\ d.sh = b.sh /\ d.sent = b.sent /\ d.pending = b.pending - 1
  BY <1>1, <1>2, JoinedFacts
<1>4. d.candidate = b.candidate /\ d.error = (b.error \/ r.status # "Ok") /\ d.want = b.want
  BY <1>1, <1>2, JoinedFacts
<1>5. b.sh.type = "R" => /\ DOMAIN d.data = DOMAIN b.data \cup {k} /\ d.data[k] = r.parts[1].data
                         /\ \A y \in DOMAIN b.data : y # k => d.data[y] = b.data[y]
  <2> SUFFICES ASSUME b.sh.type = "R"
               PROVE  /\ DOMAIN d.data = DOMAIN b.data \cup {k} /\ d.data[k] = r.parts[1].data
                      /\ \A y \in DOMAIN b.data : y # k => d.data[y] = b.data[y]
    OBVIOUS
  <2>1. PICK v : v = r.parts[1].data
    OBVIOUS
  <2>2. d.data = Set(b.data, k, v)
    BY <1>1, <2>1 DEF Joined, BurstRec
  <2>3. PICK e, g : e = b.data /\ g = d.data
    OBVIOUS
  <2>4. g = Set(e, k, v)
    BY <2>2, <2>3
  <2>5. g[k] = v /\ DOMAIN g = DOMAIN e \cup {k} /\ \A y \in DOMAIN e : y # k => g[y] = e[y]
    BY <2>4 DEF Set
  <2> QED BY <2>1, <2>3, <2>5
<1> QED BY <1>1, <1>3, <1>4, <1>5

\* The response of a child is joined.
LEMMA BridgeJoins ==
  ASSUME TypeInv, NEW bs \in Seq(BurstRec), NEW ch \in PFun(Nat \ {0}, ChildRec), NEW nm \in Nat, NEW bg \in Nat,
         BridgeOk(bs, ch, nm, bg), NEW x \in DOMAIN ch, NEW r, r.parts[1].data \in Nat,
         NEW cs \in Seq(BurstRec), Len(cs) = Len(bs), NEW dh, dh = Drop(ch, x),
         \A n \in 1 .. Len(bs) : cs[n] = IF bs[n].serial = ch[x].serial THEN Joined(bs[n], ch[x].offset, r) ELSE bs[n]
  PROVE  /\ BridgeOk(cs, dh, nm, bg)
         /\ \A t : Member(t, bs, ch) /\ t.id # x => Member(t, cs, dh)
         /\ (/\ \A n \in 1 .. Len(bs) : JoinOk(bs[n], ch)
             /\ \A n \in 1 .. Len(bs) : bs[n].serial = ch[x].serial /\ bs[n].sh.type = "R"
                                          => r.parts[1].data = bs[n].want[ch[x].offset])
            => \A n \in 1 .. Len(cs) : JoinOk(cs[n], dh)
<1> DEFINE c == ch[x]
<1>1. DOMAIN dh = DOMAIN ch \ {x} /\ \A id \in DOMAIN dh : dh[id] = ch[id]
  BY DEF Drop
<1>2. c \in ChildRec /\ c.offset \in Nat \ {0} /\ DOMAIN ch \subseteq Nat \ {0}
  <2>1. ch[x] \in ChildRec /\ DOMAIN ch \subseteq Nat \ {0}
    BY PFunFacts
  <2> QED BY <2>1 DEF ChildRec
<1> HIDE DEF c
<1>3. ASSUME NEW n \in 1 .. Len(bs)
      PROVE  /\ cs[n].serial = bs[n].serial /\ cs[n].sh = bs[n].sh /\ cs[n].sent = bs[n].sent
             /\ cs[n].candidate = bs[n].candidate /\ cs[n].want = bs[n].want /\ bs[n] \in BurstRec
             /\ bs[n].error => cs[n].error
             /\ cs[n].pending = IF bs[n].serial = c.serial THEN bs[n].pending - 1 ELSE bs[n].pending
             /\ bs[n].serial # c.serial => cs[n].data = bs[n].data
             /\ bs[n].serial = c.serial /\ bs[n].sh.type = "R" =>
                  /\ DOMAIN cs[n].data = DOMAIN bs[n].data \cup {c.offset} /\ cs[n].data[c.offset] = r.parts[1].data
                  /\ \A y \in DOMAIN bs[n].data : y # c.offset => cs[n].data[y] = bs[n].data[y]
  <2> DEFINE b == bs[n]
  <2>0. b \in BurstRec
    OBVIOUS
  <2>1. LET d == Joined(b, c.offset, r)
        IN  /\ d.serial = b.serial /\ d.sh = b.sh /\ d.sent = b.sent /\ d.pending = b.pending - 1
            /\ d.candidate = b.candidate /\ d.error = (b.error \/ r.status # "Ok")
            /\ d.want = b.want
            /\ b.sh.type = "R" => /\ DOMAIN d.data = DOMAIN b.data \cup {c.offset} /\ d.data[c.offset] = r.parts[1].data
                                  /\ \A y \in DOMAIN b.data : y # c.offset => d.data[y] = b.data[y]
    <3>1. PICK k \in Nat \ {0} : k = c.offset
      BY <1>2
    <3>2. PICK a \in BurstRec : a = b
      BY <2>0
    <3>3. LET d == Joined(a, k, r)
          IN  /\ d.serial = a.serial /\ d.sh = a.sh /\ d.sent = a.sent /\ d.pending = a.pending - 1
              /\ d.candidate = a.candidate /\ d.error = (a.error \/ r.status # "Ok")
              /\ d.want = a.want
              /\ a.sh.type = "R" => /\ DOMAIN d.data = DOMAIN a.data \cup {k} /\ d.data[k] = r.parts[1].data
                                    /\ \A y \in DOMAIN a.data : y # k => d.data[y] = a.data[y]
      BY JoinedFields
    <3> QED BY <3>1, <3>2, <3>3
  <2>2. cs[n] = IF b.serial = c.serial THEN Joined(b, c.offset, r) ELSE b
    BY DEF c
  <2> DEFINE d == Joined(b, c.offset, r)
  <2> HIDE DEF d
  <2>3. /\ d.serial = b.serial /\ d.sh = b.sh /\ d.sent = b.sent /\ d.pending = b.pending - 1
        /\ d.candidate = b.candidate /\ d.error = (b.error \/ r.status # "Ok")
        /\ d.want = b.want
        /\ b.sh.type = "R" => /\ DOMAIN d.data = DOMAIN b.data \cup {c.offset} /\ d.data[c.offset] = r.parts[1].data
                              /\ \A y \in DOMAIN b.data : y # c.offset => d.data[y] = b.data[y]
    BY <2>1 DEF d
  <2>4. CASE b.serial = c.serial
    <3>1. cs[n] = d
      BY <2>2, <2>4 DEF d
    <3> QED BY <2>0, <2>3, <2>4, <3>1
  <2>5. CASE b.serial # c.serial
    BY <2>0, <2>2, <2>5
  <2> QED BY <2>4, <2>5
<1>4. \A id \in DOMAIN dh : id < nm /\ \E n \in 1 .. Len(cs) : InBurst(dh[id], cs[n])
  <2>1. \A id \in DOMAIN ch : id < nm /\ \E n \in 1 .. Len(bs) : InBurst(ch[id], bs[n])
    BY DEF BridgeOk
  <2> QED BY <1>1, <1>3, <2>1 DEF InBurst
<1>5. ASSUME NEW n \in 1 .. Len(cs) PROVE Fits(cs[n], dh, bg)
  <2> DEFINE b == bs[n]
             s == b.serial
  <2>1. Fits(b, ch, bg)
    BY DEF BridgeOk
  <2>2. IsFiniteSet(KidsOf(ch, s)) /\ Cardinality(KidsOf(ch, s)) \in Nat
    BY KidsFinite DEF BridgeOk
  <2>3. cs[n].pending = Cardinality(KidsOf(dh, s)) /\ (KidsOf(ch, s) = {} => KidsOf(dh, s) = {})
    <3>1. CASE s = c.serial
      <4>1. x \in KidsOf(ch, s)
        BY <3>1 DEF KidsOf, c
      <4>2. \A y : y \in KidsOf(dh, s) <=> y \in KidsOf(ch, s) \ {x}
        BY <1>1 DEF KidsOf
      <4>3. KidsOf(dh, s) = KidsOf(ch, s) \ {x}
        BY <4>2
      <4>4. Cardinality(KidsOf(dh, s)) = Cardinality(KidsOf(ch, s)) - 1
        BY <2>2, <4>1, <4>3, FS_RemoveElement
      <4> QED BY <1>3, <2>1, <3>1, <4>1, <4>4 DEF Fits
    <3>2. CASE s # c.serial
      <4>1. \A y : y \in KidsOf(dh, s) <=> y \in KidsOf(ch, s)
        BY <1>1, <3>2 DEF KidsOf, c
      <4>2. KidsOf(dh, s) = KidsOf(ch, s)
        BY <4>1
      <4> QED BY <1>3, <2>1, <3>2, <4>2 DEF Fits
    <3> QED BY <3>1, <3>2
  <2>4. /\ cs[n].serial = b.serial /\ cs[n].sh = b.sh /\ cs[n].sent = b.sent /\ cs[n].want = b.want
        /\ b.error => cs[n].error
    BY <1>3
  <2> QED BY <2>1, <2>3, <2>4 DEF Fits, IsUnsent
<1>6. \A n, m \in 1 .. Len(cs) : m < n => cs[m].serial < cs[n].serial
  BY <1>3 DEF BridgeOk
<1>7. ASSUME NEW n \in 1 .. Len(cs) PROVE OnlyCandidate(cs, n, nm, DOMAIN dh)
  <2>1. OnlyCandidate(bs, n, nm, DOMAIN ch)
    BY DEF BridgeOk
  <2>2. \A m \in 1 .. (n - 1) : m \in 1 .. Len(bs)
    BY <1>7
  <2>3. \A m \in 1 .. Len(bs) : IsUnsent(cs[m]) <=> IsUnsent(bs[m])
    BY <1>3 DEF IsUnsent
  <2> QED BY <1>1, <1>3, <2>1, <2>2, <2>3 DEF OnlyCandidate
<1>8. BridgeOk(cs, dh, nm, bg)
  BY <1>4, <1>5, <1>6, <1>7 DEF BridgeOk
<1>9. \A t : Member(t, bs, ch) /\ t.id # x => Member(t, cs, dh)
  BY <1>1, <1>3 DEF Member, IsChild
<1>10. ASSUME \A n \in 1 .. Len(bs) : JoinOk(bs[n], ch),
              \A n \in 1 .. Len(bs) : bs[n].serial = ch[x].serial /\ bs[n].sh.type = "R"
                                          => r.parts[1].data = bs[n].want[ch[x].offset],
              NEW n \in 1 .. Len(cs)
       PROVE  JoinOk(cs[n], dh)
  <2> DEFINE b == bs[n]
             d == cs[n]
  <2>1. JoinOk(b, ch) /\ Fits(b, ch, bg) /\ b \in BurstRec
    BY <1>3, <1>10 DEF BridgeOk
  <2>2. /\ d.serial = b.serial /\ d.sh = b.sh /\ d.sent = b.sent /\ d.want = b.want
    BY <1>3
  <2>3. CASE b.serial # c.serial
    <3>1. d.data = b.data
      BY <1>3, <2>3
    <3>2. \A id \in DOMAIN ch : ch[id].serial = b.serial => id \in DOMAIN dh /\ dh[id] = ch[id]
      BY <1>1, <2>3 DEF c
    <3> HIDE DEF b, d
    <3>3. JoinOk(d, dh)
      BY <2>1, <2>2, <3>1, <3>2 DEF JoinOk
    <3> QED BY <3>3 DEF d
  <2>4. CASE b.serial = c.serial /\ b.sh.type = "R"
    <3>1. /\ DOMAIN d.data = DOMAIN b.data \cup {c.offset} /\ d.data[c.offset] = b.want[c.offset]
          /\ \A y \in DOMAIN b.data : y # c.offset => d.data[y] = b.data[y]
      BY <1>3, <1>10, <2>4 DEF c
    <3>2. \A id \in DOMAIN ch : id # x => id \in DOMAIN dh /\ dh[id] = ch[id]
      BY <1>1
    <3>3. c.offset \in 1 .. b.sent
      <4>1. PICK m \in 1 .. Len(bs) : InBurst(c, bs[m])
        BY DEF BridgeOk, c
      <4>2. m = n
        <5>1. bs[m].serial = bs[n].serial
          BY <2>4, <4>1 DEF InBurst
        <5>2. bs[m].serial \in Nat /\ bs[n].serial \in Nat
          BY <1>3, BurstFacts
        <5>3. ~(m < n) /\ ~(n < m)
          BY <5>1, <5>2 DEF BridgeOk
        <5> QED BY <5>3
      <4> QED BY <4>1, <4>2 DEF InBurst
    <3> HIDE DEF b, d
    <3>4. d.sh.type = "R" /\ ~d.sh.bad =>
            /\ \A k \in DOMAIN d.data : k \in 1 .. d.sent /\ d.data[k] = d.want[k]
      <4> SUFFICES ASSUME ~d.sh.bad, NEW k \in DOMAIN d.data PROVE k \in 1 .. d.sent /\ d.data[k] = d.want[k]
        OBVIOUS
      <4>1. CASE k = c.offset
        BY <2>2, <3>1, <3>3, <4>1
      <4>2. CASE k # c.offset
        BY <2>1, <2>2, <2>4, <3>1, <4>2 DEF JoinOk
      <4> QED BY <4>1, <4>2
    <3>5. ~d.sh.bad => \A k \in 1 .. d.sent : k \in DOMAIN d.data
               \/ \E id \in DOMAIN dh : dh[id].serial = d.serial /\ dh[id].offset = k
      <4> SUFFICES ASSUME ~d.sh.bad, NEW k \in 1 .. d.sent, k \notin DOMAIN d.data
                   PROVE  \E id \in DOMAIN dh : dh[id].serial = d.serial /\ dh[id].offset = k
        OBVIOUS
      <4>1. k # c.offset /\ k \notin DOMAIN b.data /\ k \in 1 .. b.sent
        BY <2>2, <3>1
      <4>2. PICK id \in DOMAIN ch : ch[id].serial = b.serial /\ ch[id].offset = k
        BY <2>1, <2>2, <2>4, <4>1 DEF JoinOk
      <4>3. id # x
        BY <4>1, <4>2 DEF c
      <4> QED BY <2>2, <3>2, <4>2, <4>3
    <3>6. JoinOk(d, dh)
      BY <3>4, <3>5 DEF JoinOk
    <3> QED BY <3>6 DEF d
  <2>5. CASE b.sh.type # "R"
    <3>1. d.sh.type # "R"
      BY <2>2, <2>5
    <3> QED BY <3>1 DEF JoinOk
  <2> QED BY <2>3, <2>4, <2>5
<1> QED BY <1>8, <1>9, <1>10

\* The oldest burst is complete: it has no children, and those of the others
\* are still there when it is returned.
LEMMA BridgeReturnsFirst ==
  ASSUME TypeInv, NEW bs \in Seq(BurstRec), NEW ch \in PFun(Nat \ {0}, ChildRec), NEW nm \in Nat, NEW bg \in Nat,
         BridgeOk(bs, ch, nm, bg), bs # <<>>, BurstComplete(bs[1]), NEW cs, cs = Tail(bs)
  PROVE  /\ KidsOf(ch, bs[1].serial) = {}
         /\ BridgeOk(cs, ch, nm, bg)
         /\ \A t : Member(t, bs, ch) => Member(t, cs, ch)
         /\ (\A n \in 1 .. Len(bs) : JoinOk(bs[n], ch)) => \A n \in 1 .. Len(cs) : JoinOk(cs[n], ch)
<1>1. /\ Len(bs) \in Nat \ {0} /\ Len(cs) = Len(bs) - 1 /\ 1 \in 1 .. Len(bs)
      /\ \A n \in 1 .. Len(cs) : n + 1 \in 1 .. Len(bs) /\ cs[n] = bs[n + 1]
  BY HeadTail
<1>2. KidsOf(ch, bs[1].serial) = {}
  <2>1. IsFiniteSet(KidsOf(ch, bs[1].serial))
    BY KidsFinite DEF BridgeOk
  <2>2. Cardinality(KidsOf(ch, bs[1].serial)) = 0
    BY <1>1 DEF BridgeOk, Fits, BurstComplete
  <2> QED BY <2>1, <2>2, FS_EmptySet
<1>3. ASSUME NEW n \in 1 .. Len(bs), NEW id \in DOMAIN ch, ch[id].serial = bs[n].serial
      PROVE  n - 1 \in 1 .. Len(cs) /\ cs[n - 1] = bs[n]
  <2>1. n # 1
    BY <1>2, <1>3 DEF KidsOf
  <2>2. n - 1 \in 1 .. Len(cs) /\ (n - 1) + 1 = n
    BY <1>1, <2>1
  <2> QED BY <1>1, <2>2
<1>4. \A id \in DOMAIN ch : id < nm /\ \E n \in 1 .. Len(cs) : InBurst(ch[id], cs[n])
  <2> SUFFICES ASSUME NEW id \in DOMAIN ch PROVE id < nm /\ \E n \in 1 .. Len(cs) : InBurst(ch[id], cs[n])
    OBVIOUS
  <2>1. id < nm
    BY DEF BridgeOk
  <2>2. PICK n \in 1 .. Len(bs) : InBurst(ch[id], bs[n])
    BY DEF BridgeOk
  <2>3. n - 1 \in 1 .. Len(cs) /\ cs[n - 1] = bs[n]
    BY <1>3, <2>2 DEF InBurst
  <2> QED BY <2>1, <2>2, <2>3
<1>5. \A n \in 1 .. Len(cs) : Fits(cs[n], ch, bg)
  BY <1>1 DEF BridgeOk
<1>6. ASSUME NEW n \in 1 .. Len(cs), NEW m \in 1 .. Len(cs), m < n PROVE cs[m].serial < cs[n].serial
  <2>1. m + 1 < n + 1 /\ m + 1 \in 1 .. Len(bs) /\ n + 1 \in 1 .. Len(bs)
    BY <1>1, <1>6
  <2>2. bs[m + 1].serial < bs[n + 1].serial
    BY <2>1 DEF BridgeOk
  <2> QED BY <1>1, <2>2
<1>7. ASSUME NEW n \in 1 .. Len(cs) PROVE OnlyCandidate(cs, n, nm, DOMAIN ch)
  <2>1. OnlyCandidate(bs, n + 1, nm, DOMAIN ch) /\ cs[n] = bs[n + 1]
    BY <1>1 DEF BridgeOk
  <2>2. \A m \in 1 .. (n - 1) : m + 1 \in 1 .. ((n + 1) - 1) /\ cs[m] = bs[m + 1]
    BY <1>1
  <2> QED BY <2>1, <2>2 DEF OnlyCandidate
<1>8. BridgeOk(cs, ch, nm, bg)
  BY <1>4, <1>5, <1>6, <1>7 DEF BridgeOk
<1>9. ASSUME NEW t, Member(t, bs, ch) PROVE Member(t, cs, ch)
  <2>1. PICK n \in 1 .. Len(bs) : IsChild(t, ch[t.id], bs[n])
    BY <1>9 DEF Member
  <2>2. t.count = 1 /\ t.id \in DOMAIN ch
    BY <1>9 DEF Member
  <2>3. n - 1 \in 1 .. Len(cs) /\ cs[n - 1] = bs[n]
    BY <1>3, <2>1, <2>2 DEF IsChild
  <2> QED BY <2>1, <2>2, <2>3 DEF Member
<1> QED BY <1>1, <1>2, <1>8, <1>9

\* How to come to the invariants of the bridge after a step.
LEMMA BurstNext ==
  ASSUME cfg' = cfg, cfg.user = "bridge", BridgeOk(bursts', children', nextMem', begun'),
         DOMAIN children' = DOMAIN host_submissions_', \A id \in DOMAIN children' : host_submissions_'[id].count = 1,
         \A t : t \in Flying' \/ InResponse(t)' => Member(t, bursts', children'),
         \A n \in 1 .. Len(bursts') : JoinOk(bursts'[n], children')
  PROVE  BurstInv' /\ JoinInv'
<1>1. /\ (cfg.user = "bridge" => (BurstInv <=> BurstMeans))'
      /\ (JoinInv <=> \A n \in 1 .. Len(bursts) : JoinOk(bursts[n], children))'
  BY BurstInvIs, PTL
<1>2. BurstMeans'
  BY DEF BurstMeans, BridgeOk, Fits, IsUnsent, KidsOf, InBurst, OnlyCandidate, Member, IsChild
<1>3. (\A n \in 1 .. Len(bursts) : JoinOk(bursts[n], children))'
  BY DEF JoinOk
<1> QED BY <1>1, <1>2, <1>3

\* The response that the bridge takes is that of one of its children.
LEMMA PopKnown ==
  ASSUME TypeInv, TagInv, AssemblyInv, BurstInv, cfg.user = "bridge", host_responses_ # <<>>,
         NEW r, r = Head(host_responses_)
  PROVE  /\ r.id \in DOMAIN children /\ r.parts[1].data \in Nat
         /\ \A n \in 1 .. Len(bursts) : bursts[n].serial = children[r.id].serial /\ bursts[n].sh.type = "R"
              => r.parts[1].data = bursts[n].want[children[r.id].offset]
<1> DEFINE R == host_responses_
           H == host_submissions_
           p == r.parts[1]
<1>1. R \in Seq(HostRsp) /\ r = R[1] /\ 1 \in 1 .. Len(R) /\ r \in HostRsp
  <2>1. R \in Seq(HostRsp)
    BY DEF TypeInv
  <2> QED BY <2>1, HeadTail
<1>2. BurstMeans
  BY BurstInvIs
<1>3. /\ r.id \in DOMAIN H /\ Joins(r.id, r.parts) /\ DOMAIN r.parts = Every(r.id)
  BY <1>1 DEF AssemblyInv
<1>4. r.id \in DOMAIN children /\ H[r.id].count = 1
  BY <1>2, <1>3 DEF BurstMeans
<1>5. 1 \in DOMAIN r.parts
  BY <1>3, <1>4 DEF Every
<1>6. p \in Resp
  <2>1. r.parts \in Parts
    BY <1>1 DEF HostRsp
  <2> QED BY <1>5, <2>1, PFunFacts DEF Parts
<1>7. p.data \in Nat /\ (p.t.type = "R" => p.data = p.t.want) /\ p.t.id = r.id
  BY <1>3, <1>5, <1>6 DEF Resp, RespRec, Joins
<1>8. Member(p.t, bursts, children)
  <2>1. InResponse(p.t)
    BY <1>1, <1>5 DEF InResponse
  <2> QED BY <1>2, <2>1 DEF BurstMeans
<1> HIDE DEF p
<1>9. PICK m \in 1 .. Len(bursts) : IsChild(p.t, children[r.id], bursts[m])
  BY <1>7, <1>8 DEF Member
<1>10. ASSUME NEW n \in 1 .. Len(bursts), bursts[n].serial = children[r.id].serial, bursts[n].sh.type = "R"
       PROVE  p.data = bursts[n].want[children[r.id].offset]
  <2>1. bursts[n].serial = bursts[m].serial
    BY <1>9, <1>10 DEF IsChild
  <2>2. bursts[n] \in BurstRec /\ bursts[m] \in BurstRec
    BY DEF TypeInv
  <2>3. bursts[n].serial \in Nat /\ bursts[m].serial \in Nat
    BY <2>2, BurstFacts
  <2>4. ~(m < n) /\ ~(n < m)
    BY <1>2, <2>1, <2>3 DEF BurstMeans, BridgeOk
  <2>5. m = n
    <3>1. m \in Int /\ n \in Int
      OBVIOUS
    <3> QED BY <2>4, <3>1
  <2> QED BY <1>7, <1>9, <1>10, <2>5 DEF IsChild
<1> QED BY <1>4, <1>7, <1>10 DEF p

\* The hypothesis of TypeStep.
LEMMA PopsSafely ==
  ASSUME TypeInv, TagInv, AssemblyInv, BurstInv
  PROVE  BridgePops => LET r == Head(host_responses_)
                       IN  r.id \in DOMAIN children /\ r.parts[1].data \in Nat
<1>1. ASSUME BridgePops PROVE cfg.user = "bridge" /\ host_responses_ # <<>>
  BY <1>1 DEF BridgePops, Bridge, PopHost
<1> QED BY <1>1, PopKnown

\* Steps that leave the bursts and their children alone.
LEMMA BurstKept ==
  ASSUME TypeInv, BurstInv, JoinInv, cfg' = cfg, cfg.user = "bridge", UNCHANGED <<children, nextMem, begun>>,
         Len(bursts') = Len(bursts), \A n \in 1 .. Len(bursts) : Alike(bursts[n], bursts'[n]),
         DOMAIN host_submissions_' = DOMAIN host_submissions_,
         \A id \in DOMAIN host_submissions_ : host_submissions_'[id].count = host_submissions_[id].count,
         \A t : t \in Flying' \/ InResponse(t)' => t \in Flying \/ InResponse(t)
  PROVE  BurstInv' /\ JoinInv'
<1>1. BurstMeans /\ \A n \in 1 .. Len(bursts) : JoinOk(bursts[n], children)
  BY BurstInvIs
<1>2. /\ BridgeOk(bursts', children, nextMem, begun)
      /\ \A t : Member(t, bursts, children) => Member(t, bursts', children)
      /\ \A n \in 1 .. Len(bursts) : JoinOk(bursts'[n], children)
  <2> DEFINE cs == bursts'
  <2>1. Len(cs) = Len(bursts) /\ \A n \in 1 .. Len(bursts) : Alike(bursts[n], cs[n])
    OBVIOUS
  <2>2. BridgeOk(bursts, children, nextMem, begun)
    BY <1>1 DEF BurstMeans
  <2> HIDE DEF cs
  <2>3. /\ BridgeOk(cs, children, nextMem, begun)
        /\ \A t : Member(t, bursts, children) => Member(t, cs, children)
        /\ \A n \in 1 .. Len(bursts) : JoinOk(bursts[n], children) => JoinOk(cs[n], children)
    BY <2>1, <2>2, BridgeAlike
  <2> QED BY <1>1, <2>3 DEF cs
<1>3. \A t : t \in Flying' \/ InResponse(t)' => Member(t, bursts', children')
  BY <1>1, <1>2 DEF BurstMeans
<1>4. DOMAIN children' = DOMAIN host_submissions_' /\ \A id \in DOMAIN children' : host_submissions_'[id].count = 1
  BY <1>1 DEF BurstMeans
<1> QED BY <1>2, <1>3, <1>4, BurstNext

\* tick with a bridge.
LEMMA BurstTicks ==
  ASSUME TypeInv, TypeInv', UserInv, ChainInv, PlaceInv, TagInv, AssemblyInv, BurstInv, JoinInv,
         cfg.user = "bridge", TickStep
  PROVE  BurstInv' /\ JoinInv' /\ fatal' = fatal
<1>0. \A n \in 1 .. Len(bursts) : Alike(bursts[n], bursts[n])
  BY DEF Alike
<1>1. CASE TickMoves
  <2>1. \A t : InResponse(t)' <=> InResponse(t)
    BY <1>1 DEF TickMoves, InResponse
  <2>2. UNCHANGED <<cfg, children, nextMem, begun, bursts, host_submissions_, fatal>> /\ Flying' \subseteq Flying
    BY <1>1 DEF TickMoves
  <2> QED BY <1>0, <2>1, <2>2, BurstKept
<1>2. ASSUME NEW c, NEW r, TickCollects(c, r) PROVE BurstInv' /\ JoinInv' /\ fatal' = fatal
  <2>1. UNCHANGED <<cfg, children, nextMem, begun, bursts, fatal>> /\ Flying' \subseteq Flying /\ r.t \in Flying
    BY <1>2 DEF TickCollects
  <2>2. CollectSome(r) /\ r.id \in DOMAIN host_submissions_
        /\ \A x \in DOMAIN host_submissions_ : x # r.id => host_submissions_'[x] = host_submissions_[x]
    <3>1. RetainsHost
      BY DEF UserInv, RetainsHost
    <3> QED BY <1>2, <3>1 DEF TickCollects, CollectTag, CollectLast
  <2>3. /\ DOMAIN host_submissions_' = DOMAIN host_submissions_
        /\ host_submissions_'[r.id].count = host_submissions_[r.id].count
    BY <2>2 DEF CollectSome
  <2>4. \A id \in DOMAIN host_submissions_ : host_submissions_'[id].count = host_submissions_[id].count
    BY <2>2, <2>3
  <2>5. \A t : ~InAssembly(t)
    <3> SUFFICES ASSUME NEW id \in DOMAIN host_assemblies_, NEW k \in DOMAIN host_assemblies_[id] PROVE FALSE
      BY DEF InAssembly
    <3>1. /\ id \in DOMAIN host_submissions_ /\ k \in Collected(id) /\ Collected(id) # Every(id)
      BY DEF AssemblyInv
    <3>2. Collected(id) \subseteq Every(id) /\ Every(id) = 1 .. host_submissions_[id].count
      BY <3>1, HostFacts
    <3>3. host_submissions_[id].count = 1
      BY <3>1 DEF BurstInv
    <3>4. Every(id) = {1}
      BY <3>2, <3>3
    <3> QED BY <3>1, <3>2, <3>4
  <2>6. \A t : InResponse(t)' => InResponse(t) \/ t \in Flying
    BY <1>2, <2>1, <2>5, CollectParts DEF TickCollects
  <2> QED BY <1>0, <2>1, <2>3, <2>4, <2>6, BurstKept
<1> QED BY <1>1, <1>2, TickFacts

\* The target asks and takes answers.
LEMMA BurstTarget ==
  ASSUME TypeInv, BurstInv, JoinInv, (\E sh \in cfg.shapes : TargetSends(sh)) \/ TargetTakes
  PROVE  BurstInv' /\ JoinInv' /\ fatal' = fatal
<1>1. /\ cfg.user = "bridge" /\ UNCHANGED <<sysVars, userVars, bursts, children, nextMem>>
  BY DEF TargetSends, TargetTakes, Bridge
<1>2. \A n \in 1 .. Len(bursts) : Alike(bursts[n], bursts'[n])
  BY <1>1 DEF Alike
<1>3. Flying' = Flying
  BY <1>1, QuietSpots
<1>4. \A t : InResponse(t)' <=> InResponse(t)
  BY <1>1 DEF InResponse
<1> QED BY <1>1, <1>2, <1>3, <1>4, BurstKept

\* The end of a turn.
LEMMA BurstReturns ==
  ASSUME TypeInv, BurstInv, JoinInv, BridgeReturns
  PROVE  BurstInv' /\ JoinInv' /\ fatal' = fatal
<1>1. /\ cfg.user = "bridge"
      /\ UNCHANGED <<cfg, queueVars, controllers_, host_responses_, fatal, begun, children, nextMem>>
  BY DEF BridgeReturns, Bridge
<1>2. Flying' = Flying
  BY <1>1, QuietSpots
<1>3. \A t : InResponse(t)' <=> InResponse(t)
  BY <1>1 DEF InResponse
<1>4. /\ bursts \in Seq(BurstRec) /\ Len(bursts) \in Nat
      /\ bursts # <<>> => /\ 1 \in 1 .. Len(bursts) /\ Head(bursts) = bursts[1] /\ bursts[1] \in BurstRec
                          /\ Older(bursts[1]) \in BurstRec
  BY ReturnsFacts
<1>5. CASE ReturnsNothing
  <2>1. \A n \in 1 .. Len(bursts) : Alike(bursts[n], bursts'[n])
    BY <1>5 DEF Alike, ReturnsNothing
  <2> QED BY <1>1, <1>2, <1>3, <1>5, <2>1, BurstKept DEF ReturnsNothing
<1>6. CASE HoldsBurst
  <2> DEFINE d == Older(bursts[1])
  <2>1. bursts # <<>> /\ bursts' = [bursts EXCEPT ![1] = d]
    BY <1>6 DEF HoldsBurst
  <2>2. Alike(bursts[1], d)
    BY <1>4, <2>1 DEF Alike, Older, BurstRec
  <2>3. d \in BurstRec /\ 1 \in 1 .. Len(bursts)
    BY <1>4, <2>1
  <2> HIDE DEF d
  <2>4. /\ Len(bursts') = Len(bursts) /\ bursts'[1] = d /\ \A m \in 1 .. Len(bursts) : m # 1 => bursts'[m] = bursts[m]
    BY <1>4, <2>1, <2>3, Replaced
  <2>5. \A n \in 1 .. Len(bursts) : Alike(bursts[n], bursts'[n])
    <3> SUFFICES ASSUME NEW n \in 1 .. Len(bursts) PROVE Alike(bursts[n], bursts'[n])
      OBVIOUS
    <3>1. CASE n = 1
      BY <2>2, <2>4, <3>1
    <3>2. CASE n # 1
      BY <2>4, <3>2 DEF Alike
    <3> QED BY <3>1, <3>2
  <2> QED BY <1>1, <1>2, <1>3, <2>4, <2>5, BurstKept
<1>7. CASE ReturnsBurst
  <2>1. bursts # <<>> /\ BurstComplete(bursts[1]) /\ bursts' = Tail(bursts)
    BY <1>4, <1>7 DEF ReturnsBurst
  <2>2. BurstMeans /\ \A n \in 1 .. Len(bursts) : JoinOk(bursts[n], children)
    BY <1>1, BurstInvIs
  <2>3. /\ BridgeOk(bursts, children, nextMem, begun) /\ children \in PFun(Nat \ {0}, ChildRec)
        /\ nextMem \in Nat /\ begun \in Nat
    BY <2>2 DEF BurstMeans, TypeInv
  <2> DEFINE cs == Tail(bursts)
  <2>4. /\ BridgeOk(cs, children, nextMem, begun)
        /\ \A t : Member(t, bursts, children) => Member(t, cs, children)
        /\ \A n \in 1 .. Len(cs) : JoinOk(cs[n], children)
    <3> HIDE DEF cs
    <3>1. cs = Tail(bursts)
      BY DEF cs
    <3> QED BY <1>4, <2>1, <2>2, <2>3, <3>1, BridgeReturnsFirst
  <2>5. \A t : t \in Flying' \/ InResponse(t)' => Member(t, bursts', children')
    BY <1>1, <1>2, <1>3, <2>1, <2>2, <2>4 DEF BurstMeans
  <2>6. DOMAIN children' = DOMAIN host_submissions_' /\ \A id \in DOMAIN children' : host_submissions_'[id].count = 1
    BY <1>1, <2>2 DEF BurstMeans
  <2>7. BridgeOk(bursts', children', nextMem', begun') /\ \A n \in 1 .. Len(bursts') : JoinOk(bursts'[n], children')
    BY <1>1, <2>1, <2>4
  <2>8. cfg' = cfg
    BY <1>1
  <2>9. BurstInv' /\ JoinInv'
    BY <1>1, <2>5, <2>6, <2>7, <2>8, BurstNext
  <2> QED BY <1>1, <2>9
<1> QED BY <1>5, <1>6, <1>7, ReturnsFacts

\* The bridge takes the response of a child.
LEMMA BurstPops ==
  ASSUME TypeInv, TagInv, AssemblyInv, BurstInv, JoinInv, BridgePops
  PROVE  BurstInv' /\ JoinInv' /\ fatal' = FALSE
<1> DEFINE r == Head(host_responses_)
           R == host_responses_
           H == host_submissions_
           x == r.id
<1>1. /\ cfg.user = "bridge" /\ R # <<>> /\ R' = Tail(R)
      /\ UNCHANGED <<cfg, stack_ingress_queues_, controllers_, begun, nextMem>>
      /\ Popped
  BY DEF BridgePops, Bridge, PopHost, Popped
<1>2. /\ x \in DOMAIN children /\ r.parts[1].data \in Nat
      /\ \A n \in 1 .. Len(bursts) : bursts[n].serial = children[x].serial /\ bursts[n].sh.type = "R"
           => r.parts[1].data = bursts[n].want[children[x].offset]
  BY <1>1, PopKnown
<1>3. PopTag(x)
  BY <1>1, PopTagFacts
<1>4. DOMAIN H' = DOMAIN H \ {x} /\ (\A u \in Flying : u.id # x) /\ \A y \in DOMAIN H' : H'[y] = H[y]
  BY <1>3 DEF PopTag
<1>5. Flying' = Flying
  BY <1>1, QuietSpots
<1>6. \A t : InResponse(t)' => InResponse(t) /\ t.id # x
  <2> SUFFICES ASSUME NEW n \in 1 .. Len(R'), NEW k \in DOMAIN R'[n].parts
               PROVE  InResponse(R'[n].parts[k].t) /\ R'[n].parts[k].t.id # x
    BY DEF InResponse
  <2>0. R \in Seq(HostRsp)
    BY DEF TypeInv
  <2>1. n + 1 \in 1 .. Len(R) /\ 1 \in 1 .. Len(R) /\ n + 1 # 1 /\ R'[n] = R[n + 1] /\ r = R[1]
    BY <1>1, <2>0, HeadTail
  <2> DEFINE q == R[n + 1]
  <2>2. q.id # x /\ Joins(q.id, q.parts)
    BY <2>1 DEF AssemblyInv
  <2>3. k \in DOMAIN q.parts /\ R'[n].parts[k].t = q.parts[k].t
    BY <2>1
  <2>4. q.parts[k].t.id = q.id
    BY <2>2, <2>3 DEF Joins
  <2>5. InResponse(q.parts[k].t)
    BY <2>1, <2>3 DEF InResponse
  <2> HIDE DEF q
  <2> QED BY <2>2, <2>3, <2>4, <2>5
<1>7. BurstMeans /\ \A n \in 1 .. Len(bursts) : JoinOk(bursts[n], children)
  BY <1>1, BurstInvIs
<1>8. /\ BridgeOk(bursts, children, nextMem, begun) /\ children \in PFun(Nat \ {0}, ChildRec)
      /\ nextMem \in Nat /\ begun \in Nat
  BY <1>7 DEF BurstMeans, TypeInv
<1>9. /\ bursts \in Seq(BurstRec) /\ bursts' \in Seq(BurstRec) /\ Len(bursts') = Len(bursts)
      /\ \A n \in 1 .. Len(bursts) : bursts'[n] = IF bursts[n].serial = children[x].serial
                                                  THEN Joined(bursts[n], children[x].offset, r) ELSE bursts[n]
      /\ fatal' = FALSE /\ children' = Drop(children, x)
  BY <1>2, PopsFacts
<1>10. DOMAIN children' = DOMAIN children \ {x}
  BY <1>9 DEF Drop
<1>11. /\ BridgeOk(bursts', children', nextMem, begun)
       /\ \A t : Member(t, bursts, children) /\ t.id # x => Member(t, bursts', children')
       /\ \A n \in 1 .. Len(bursts') : JoinOk(bursts'[n], children')
  <2> DEFINE cs == bursts'
             dh == children'
  <2>1. /\ cs \in Seq(BurstRec) /\ Len(cs) = Len(bursts) /\ dh = Drop(children, x)
        /\ \A n \in 1 .. Len(bursts) : cs[n] = IF bursts[n].serial = children[x].serial
                                               THEN Joined(bursts[n], children[x].offset, r) ELSE bursts[n]
    BY <1>9
  <2> HIDE DEF cs, dh, r, x
  <2>2. /\ BridgeOk(cs, dh, nextMem, begun)
        /\ \A t : Member(t, bursts, children) /\ t.id # x => Member(t, cs, dh)
        /\ (/\ \A n \in 1 .. Len(bursts) : JoinOk(bursts[n], children)
            /\ \A n \in 1 .. Len(bursts) : bursts[n].serial = children[x].serial /\ bursts[n].sh.type = "R"
                                             => r.parts[1].data = bursts[n].want[children[x].offset])
           => \A n \in 1 .. Len(cs) : JoinOk(cs[n], dh)
    <3>1. /\ bursts \in Seq(BurstRec) /\ children \in PFun(Nat \ {0}, ChildRec) /\ nextMem \in Nat /\ begun \in Nat
          /\ BridgeOk(bursts, children, nextMem, begun) /\ x \in DOMAIN children /\ r.parts[1].data \in Nat
      BY <1>2, <1>8, <1>9
    <3> QED BY <2>1, <3>1, BridgeJoins
  <2>3. \A n \in 1 .. Len(cs) : JoinOk(cs[n], dh)
    BY <1>2, <1>7, <2>2
  <2> QED BY <2>2, <2>3 DEF cs, dh
<1>12. \A t : t \in Flying' \/ InResponse(t)' => Member(t, bursts', children')
  BY <1>4, <1>5, <1>6, <1>7, <1>11 DEF BurstMeans
<1>13. DOMAIN children' = DOMAIN H' /\ \A id \in DOMAIN children' : H'[id].count = 1
  BY <1>4, <1>7, <1>10 DEF BurstMeans
<1>14. cfg' = cfg /\ nextMem' = nextMem /\ begun' = begun
  BY <1>1
<1>15. BurstInv' /\ JoinInv'
  BY <1>1, <1>11, <1>12, <1>13, <1>14, BurstNext
<1> QED BY <1>9, <1>15

NewBegun == IF Admits THEN begun + 1 ELSE begun

\* A turn begins with the burst that is admitted.
LEMMA AdmitOk ==
  ASSUME TypeInv, RoomInv, WantInv, BurstInv, JoinInv, cfg.user = "bridge"
  PROVE  /\ BridgeOk(Admitted, children, nextMem, NewBegun) /\ NewBegun \in Nat
         /\ \A t : Member(t, bursts, children) => Member(t, Admitted, children)
         /\ \A n \in 1 .. Len(Admitted) : JoinOk(Admitted[n], children)
<1>1. BurstMeans /\ \A n \in 1 .. Len(bursts) : JoinOk(bursts[n], children)
  BY BurstInvIs
<1>2. /\ BridgeOk(bursts, children, nextMem, begun) /\ children \in PFun(Nat \ {0}, ChildRec)
      /\ nextMem \in Nat /\ begun \in Nat /\ bursts \in Seq(BurstRec)
  BY <1>1 DEF BurstMeans, TypeInv
<1>3. CASE ~Admits
  <2>1. Admitted = bursts
    BY <1>3, AdmittedFacts DEF WantInv
  <2> QED BY <1>1, <1>2, <1>3, <2>1 DEF NewBegun
<1>4. CASE Admits
  <2> DEFINE b == Burst(Head(request))
             cs == Append(bursts, b)
  <2>1. request # <<>> /\ Admitted = cs /\ b \in BurstRec
    BY <1>4, AdmittedFacts DEF WantInv
  <2>2. /\ b.serial = begun + 1 /\ b.sh = Head(request) /\ b.sent = (IF b.sh.bad THEN Len(b.sh.cells) ELSE 0)
        /\ b.pending = 0 /\ b.candidate = 0 /\ b.error = b.sh.bad /\ b.data = Empty /\ WantOk(b)
    BY <2>1, NewBurstFacts
  <2> HIDE DEF b
  <2>3. /\ BridgeOk(cs, children, nextMem, begun + 1)
        /\ \A t : Member(t, bursts, children) => Member(t, cs, children)
        /\ JoinOk(b, children)
    BY <1>2, <2>1, <2>2, BridgeAdmits
  <2>4. \A n \in 1 .. Len(cs) : cs[n] = b \/ (n \in 1 .. Len(bursts) /\ cs[n] = bursts[n])
    BY <1>2, <2>1
  <2>5. \A n \in 1 .. Len(cs) : JoinOk(cs[n], children)
    BY <1>1, <2>3, <2>4
  <2> HIDE DEF cs
  <2> QED BY <1>2, <1>4, <2>1, <2>3, <2>5 DEF NewBegun
<1> QED BY <1>3, <1>4

\* A memory id is fresh, also one that waits for room.
LEMMA CandidateFresh ==
  ASSUME TypeInv, NEW bs \in Seq(BurstRec), NEW bg, BridgeOk(bs, children, nextMem, bg),
         NEW n \in 1 .. Len(bs), NEW b, b = bs[n], NEW mm, mm = IF b.candidate = 0 THEN nextMem + 1 ELSE nextMem
  PROVE  /\ Candidate(b) \in Nat /\ Candidate(b) \notin DOMAIN children /\ mm \in Nat /\ nextMem <= mm
         /\ Candidate(b) < mm
<1>1. nextMem \in Nat /\ b \in BurstRec /\ b.candidate \in Nat /\ children \in PFun(Nat \ {0}, ChildRec)
  BY BurstFacts DEF TypeInv
<1>2. \A id \in DOMAIN children : id \in Nat /\ id < nextMem
  BY <1>1, PFunFacts DEF BridgeOk
<1>3. b.candidate # 0 => b.candidate < nextMem /\ b.candidate \notin DOMAIN children
  BY DEF BridgeOk, OnlyCandidate
<1>4. CASE b.candidate = 0
  <2>1. nextMem \notin DOMAIN children
    BY <1>1, <1>2
  <2> QED BY <1>1, <1>4, <2>1 DEF Candidate
<1>5. CASE b.candidate # 0
  BY <1>1, <1>3, <1>5 DEF Candidate
<1> QED BY <1>4, <1>5

\* The bridge takes a turn.
LEMMA BurstTurns ==
  ASSUME TypeInv, UserInv, RoomInv, WantInv, BurstInv, JoinInv, BridgeTurn
  PROVE  BurstInv' /\ JoinInv' /\ (fatal' = fatal \/ fatal' = FALSE)
<1> DEFINE H == host_submissions_
<1>1. /\ cfg.user = "bridge" /\ UNCHANGED <<cfg, controllers_, host_responses_>> /\ begun' = NewBegun
  BY DEF BridgeTurn, Bridge, Accept, NewBegun
<1>2. /\ BridgeOk(Admitted, children, nextMem, NewBegun) /\ NewBegun \in Nat
      /\ \A t : Member(t, bursts, children) => Member(t, Admitted, children)
      /\ \A n \in 1 .. Len(Admitted) : JoinOk(Admitted[n], children)
  BY <1>1, AdmitOk
<1>3. \A t : InResponse(t)' <=> InResponse(t)
  BY <1>1 DEF InResponse
<1>4. /\ DOMAIN children = DOMAIN H /\ \A id \in DOMAIN children : H[id].count = 1
      /\ \A t : t \in Flying \/ InResponse(t) => Member(t, bursts, children)
  BY <1>1, BurstInvIs DEF BurstMeans
<1>5. /\ Admitted \in Seq(BurstRec) /\ children \in PFun(Nat \ {0}, ChildRec) /\ nextMem \in Nat
  BY AdmittedFacts DEF TypeInv, WantInv
<1>6. CASE TurnIdle
  <2>1. /\ bursts' = Admitted /\ UNCHANGED <<queueVars, children, nextMem, fatal>>
    BY <1>6 DEF TurnIdle
  <2>2. Flying' = Flying
    BY <1>1, <2>1, QuietSpots
  <2>3. \A t : t \in Flying' \/ InResponse(t)' => Member(t, bursts', children')
    BY <1>2, <1>3, <1>4, <2>1, <2>2
  <2>4. BridgeOk(bursts', children', nextMem', begun') /\ \A n \in 1 .. Len(bursts') : JoinOk(bursts'[n], children')
    BY <1>1, <1>2, <2>1
  <2>5. DOMAIN children' = DOMAIN H' /\ \A id \in DOMAIN children' : H'[id].count = 1
    BY <1>4, <2>1
  <2>6. cfg' = cfg
    BY <1>1
  <2> QED BY <1>1, <2>1, <2>3, <2>4, <2>5, <2>6, BurstNext
<1>7. ASSUME NEW n, NEW b, NEW t, TurnSubmits(n, b, t) PROVE BurstInv' /\ JoinInv' /\ fatal' = FALSE
  <2> DEFINE mm == IF b.candidate = 0 THEN nextMem + 1 ELSE nextMem
  <2>1. /\ n \in 1 .. Len(Admitted) /\ b = Admitted[n] /\ IsUnsent(b) /\ t = Child(b)
        /\ \A m \in 1 .. (n - 1) : ~IsUnsent(Admitted[m])
        /\ b \in BurstRec /\ WantOk(b) /\ t \in Tx /\ TrySubmit(t) /\ nextMem' = mm
    BY <1>7 DEF TurnSubmits
  <2>2. /\ Candidate(b) \in Nat /\ Candidate(b) \notin DOMAIN children /\ mm \in Nat /\ nextMem <= mm
        /\ Candidate(b) < mm
    BY <1>2, <1>5, <2>1, CandidateFresh
  <2>3. /\ t.id = Candidate(b) /\ t.idx = 1 /\ t.count = 1 /\ t.type = b.sh.type
        /\ b.sh.type = "R" /\ ~b.sh.bad => t.want = b.want[b.sent + 1]
    BY <2>1, ChildFacts
  <2> HIDE DEF mm
  <2>4. ~Refused(t)
    BY <1>4, <2>2, <2>3 DEF Refused
  <2>5. /\ fatal' = FALSE
        /\ \/ Enqueue(t) /\ RecordSubmitted(t) /\ next_system_sequence_' # next_system_sequence_
           \/ UNCHANGED queueVars /\ next_system_sequence_' = next_system_sequence_
    BY <2>1, <2>4, TryFacts
  <2>6. CASE next_system_sequence_' = next_system_sequence_
    <3>1. children' = children /\ bursts' = [Admitted EXCEPT ![n] = Deferred(b)] /\ UNCHANGED queueVars
      BY <1>7, <2>5, <2>6 DEF TurnSubmits
    <3> DEFINE cs == [Admitted EXCEPT ![n] = Deferred(b)]
    <3>2. cs = [Admitted EXCEPT ![n] = Deferred(b)] /\ bursts' = cs
      BY <3>1
    <3> HIDE DEF cs
    <3>3. /\ BridgeOk(cs, children, mm, NewBegun)
          /\ \A u : Member(u, Admitted, children) => Member(u, cs, children)
          /\ \A m \in 1 .. Len(cs) : JoinOk(cs[m], children)
      BY <1>2, <1>5, <2>1, <2>2, <3>2, BridgeDefers
    <3>4. Flying' = Flying
      BY <1>1, <3>1, QuietSpots
    <3>5. \A u : u \in Flying' \/ InResponse(u)' => Member(u, bursts', children')
      BY <1>2, <1>3, <1>4, <3>1, <3>2, <3>3, <3>4
    <3>6. BridgeOk(bursts', children', nextMem', begun') /\ \A m \in 1 .. Len(bursts') : JoinOk(bursts'[m], children')
      BY <1>1, <2>1, <3>1, <3>2, <3>3
    <3>7. DOMAIN children' = DOMAIN H' /\ \A id \in DOMAIN children' : H'[id].count = 1
      BY <1>4, <3>1
    <3>8. cfg' = cfg
      BY <1>1
    <3> QED BY <1>1, <2>5, <3>5, <3>6, <3>7, <3>8, BurstNext
  <2>7. CASE next_system_sequence_' # next_system_sequence_
    <3> DEFINE c == [serial |-> b.serial, offset |-> b.sent + 1]
               cs == [Admitted EXCEPT ![n] = Advanced(b)]
               dh == Set(children, t.id, c)
    <3>1. children' = dh /\ bursts' = cs /\ Enqueue(t) /\ RecordSubmitted(t)
      BY <1>7, <2>5, <2>7 DEF TurnSubmits
    <3>2. cs = [Admitted EXCEPT ![n] = Advanced(b)] /\ dh = Set(children, t.id, c)
          /\ c.serial = b.serial /\ c.offset = b.sent + 1
      OBVIOUS
    <3> HIDE DEF cs, dh, c
    <3>3. DOMAIN dh = DOMAIN children \cup {t.id}
      BY <3>2 DEF Set
    <3>4. /\ BridgeOk(cs, dh, mm, NewBegun) /\ ~b.sh.bad
          /\ \A u : Member(u, Admitted, children) => Member(u, cs, dh)
          /\ \A u : u.count = 1 /\ u.id = t.id /\ IsChild(u, c, b) => Member(u, cs, dh)
          /\ \A m \in 1 .. Len(cs) : JoinOk(cs[m], dh)
      <4> DEFINE id == t.id
                 d == Advanced(b)
      <4>1. id \notin DOMAIN children /\ id < mm /\ dh = Set(children, id, c)
        BY <2>2, <2>3, <3>2
      <4>2. d = Advanced(b) /\ cs = [Admitted EXCEPT ![n] = d]
        BY <3>2
      <4> HIDE DEF id, d
      <4>3. /\ BridgeOk(cs, dh, mm, NewBegun) /\ ~b.sh.bad
            /\ \A u : Member(u, Admitted, children) => Member(u, cs, dh)
            /\ \A u : u.count = 1 /\ u.id = id /\ IsChild(u, c, b) => Member(u, cs, dh)
            /\ (\A m \in 1 .. Len(Admitted) : JoinOk(Admitted[m], children)) => \A m \in 1 .. Len(cs) : JoinOk(cs[m], dh)
        <5>1. /\ BridgeOk(Admitted, children, nextMem, NewBegun) /\ NewBegun \in Nat
              /\ Admitted \in Seq(BurstRec) /\ children \in PFun(Nat \ {0}, ChildRec) /\ nextMem \in Nat
              /\ n \in 1 .. Len(Admitted) /\ b = Admitted[n] /\ IsUnsent(b)
              /\ mm \in Nat /\ nextMem <= mm
          BY <1>2, <1>5, <2>1, <2>2
        <5>2. \A m \in 1 .. (n - 1) : ~IsUnsent(Admitted[m])
          BY <2>1
        <5>3. c.serial = b.serial /\ c.offset = b.sent + 1
          BY <3>2
        <5>4. GoesOn(Admitted, children, nextMem, NewBegun, n, id, mm, c, cs, dh)
          BY <4>1, <4>2, <5>1, <5>2, <5>3 DEF GoesOn
        <5> QED BY <5>1, <5>4, BridgeAdvances
      <4> QED BY <1>2, <4>3 DEF id
    <3>5. \A u \in Flying' : u \in Flying \/ u = Numbered(t)
      BY <1>1, <2>1, <3>1, FlyingEnqueue
    <3>6. Member(Numbered(t), cs, dh)
      <4>1. Numbered(t).count = 1 /\ Numbered(t).id = t.id /\ Numbered(t).type = t.type /\ Numbered(t).want = t.want
        BY <2>1, <2>3 DEF Numbered, Tx
      <4> DEFINE u == Numbered(t)
      <4> HIDE DEF u
      <4>2. IsChild(u, c, b)
        BY <2>3, <3>2, <3>4, <4>1 DEF IsChild, u
      <4> QED BY <3>4, <4>1, <4>2 DEF u
    <3>7. \A u : u \in Flying' \/ InResponse(u)' => Member(u, bursts', children')
      BY <1>2, <1>3, <1>4, <3>1, <3>4, <3>5, <3>6
    <3>8. BridgeOk(bursts', children', nextMem', begun') /\ \A m \in 1 .. Len(bursts') : JoinOk(bursts'[m], children')
      BY <1>1, <2>1, <3>1, <3>4
    <3>9. DOMAIN children' = DOMAIN H' /\ \A id \in DOMAIN children' : H'[id].count = 1
      <4> DEFINE h == NewHost(t)
      <4>1. H' = Set(H, t.id, h) /\ h.count = OldHost(t).count
        BY <2>1, <3>1, RecordFacts
      <4>2. OldHost(t).count = 1
        BY <1>4, <2>2, <2>3 DEF OldHost
      <4> HIDE DEF h
      <4>3. DOMAIN H' = DOMAIN H \cup {t.id} /\ H'[t.id] = h /\ \A id \in DOMAIN H : id # t.id => H'[id] = H[id]
        BY <4>1 DEF Set
      <4> QED BY <1>4, <3>1, <3>3, <4>1, <4>2, <4>3
    <3>10. cfg' = cfg
      BY <1>1
    <3> QED BY <1>1, <2>5, <3>7, <3>8, <3>9, <3>10, BurstNext
  <2> QED BY <2>6, <2>7
<1> QED BY <1>6, <1>7, TurnFacts DEF WantInv

\* Every step keeps what the bridge relies on, and raises no exception.
LEMMA BurstStep ==
  ASSUME TypeInv, TypeInv', AtInv, UserInv, UserInv', RoomInv, WantInv, ChainInv, PlaceInv, TagInv, AssemblyInv,
         BurstInv, JoinInv, ~fatal, Next
  PROVE  BurstInv' /\ JoinInv' /\ (cfg.user = "bridge" => ~fatal')
<1>0. /\ cfg' = cfg /\ fatal \in BOOLEAN
      /\ FrontendStep \/ TickStep \/ BridgeNext
  <2>1. Effect
    BY Effects
  <2>2. cfg' = cfg
    BY <2>1 DEF Effect, Quiet, Popped, Submitted, BatchEnqueued, DispatchTakes, ControllerAnswers, Collects
  <2> QED BY <2>2, NextCases DEF TypeInv
<1>1. CASE cfg.user # "bridge"
  <2>1. bursts' = <<>>
    BY <1>0, <1>1 DEF UserInv
  <2> QED BY <1>0, <1>1, <2>1 DEF BurstInv, JoinInv
<1>2. CASE cfg.user = "bridge"
  <2>1. ~FrontendStep
    BY <1>2 DEF FrontendStep
  <2>2. CASE TickStep
    BY <1>2, <2>2, BurstTicks
  <2>3. CASE BridgeNext
    <3>1. CASE (\E sh \in cfg.shapes : TargetSends(sh)) \/ TargetTakes
      BY <3>1, BurstTarget
    <3>2. CASE BridgeTurn
      <4>1. BurstInv' /\ JoinInv' /\ (fatal' = fatal \/ fatal' = FALSE)
        BY <3>2, BurstTurns
      <4> QED BY <4>1
    <3>3. CASE BridgePops
      BY <3>3, BurstPops
    <3>4. CASE BridgeReturns
      BY <3>4, BurstReturns
    <3> QED BY <2>3, <3>1, <3>2, <3>3, <3>4 DEF BridgeNext
  <2> QED BY <1>0, <2>1, <2>2, <2>3
<1> QED BY <1>1, <1>2

-----------------------------------------------------------------------------
(* Sequences of writes.                                                    *)

\* Only the first n writes count.
LEMMA LatestSame ==
  ASSUME NEW e, NEW f, NEW n \in Nat, NEW v, NEW x, Latest(e, n, v, x), \A j \in 1 .. n : f[j] = e[j]
  PROVE  Latest(f, n, v, x)
<1>1. CASE x = v /\ \A j \in 1 .. n : e[j] = None
  BY <1>1 DEF Latest
<1>2. ASSUME NEW j \in 1 .. n, e[j] = x, x # None, \A h \in (j + 1) .. n : e[h] = None PROVE Latest(f, n, v, x)
  <2>1. \A h \in (j + 1) .. n : f[h] = None
    BY <1>2
  <2> QED BY <1>2, <2>1 DEF Latest
<1> QED BY <1>1, <1>2 DEF Latest

\* One more element, which is not a write.
LEMMA LatestSkip ==
  ASSUME NEW e, NEW f, NEW n \in Nat, NEW v, NEW x, Latest(e, n, v, x),
         \A j \in 1 .. n : f[j] = e[j], f[n + 1] = None
  PROVE  Latest(f, n + 1, v, x)
<1>0. \A j \in 1 .. (n + 1) : j \in 1 .. n \/ j = n + 1
  OBVIOUS
<1>1. CASE x = v /\ \A j \in 1 .. n : e[j] = None
  BY <1>0, <1>1 DEF Latest
<1>2. ASSUME NEW j \in 1 .. n, e[j] = x, x # None, \A h \in (j + 1) .. n : e[h] = None PROVE Latest(f, n + 1, v, x)
  <2>1. \A h \in (j + 1) .. (n + 1) : f[h] = None
    BY <1>2
  <2>2. f[j] = x /\ j \in 1 .. (n + 1)
    BY <1>2
  <2> QED BY <1>2, <2>1, <2>2 DEF Latest
<1> QED BY <1>1, <1>2 DEF Latest

\* One more write.
LEMMA LatestWrite ==
  ASSUME NEW f, NEW n \in Nat, NEW v, f[n + 1] # None
  PROVE  Latest(f, n + 1, v, f[n + 1])
<1>1. n + 1 \in 1 .. (n + 1) /\ \A h \in ((n + 1) + 1) .. (n + 1) : f[h] = None
  OBVIOUS
<1> QED BY <1>1 DEF Latest

\* Without writes nothing changes.
LEMMA LatestNone ==
  ASSUME NEW e, NEW n \in Nat, NEW v, NEW x, \A j \in 1 .. n : e[j] = None
  PROVE  Latest(e, n, v, x) <=> x = v
BY DEF Latest

\* f is e without its element i.
Without(e, f, i, n) == \A j \in 1 .. (n - 1) : f[j] = IF j < i THEN e[j] ELSE e[j + 1]

\* An element that is not a write is taken out.
LEMMA LatestCut ==
  ASSUME NEW e, NEW f, NEW n \in Nat, NEW i \in 1 .. n, NEW v, NEW x, Latest(e, n, v, x), Without(e, f, i, n),
         e[i] = None
  PROVE  Latest(f, n - 1, v, x)
<1>1. CASE x = v /\ \A j \in 1 .. n : e[j] = None
  <2>1. \A j \in 1 .. (n - 1) : f[j] = None
    BY <1>1 DEF Without
  <2> QED BY <1>1, <2>1 DEF Latest
<1>2. ASSUME NEW j \in 1 .. n, e[j] = x, x # None, \A h \in (j + 1) .. n : e[h] = None PROVE Latest(f, n - 1, v, x)
  <2>1. CASE j < i
    <3>1. j \in 1 .. (n - 1) /\ f[j] = x
      BY <1>2, <2>1 DEF Without
    <3>2. \A h \in (j + 1) .. (n - 1) : f[h] = None
      BY <1>2, <2>1 DEF Without
    <3> QED BY <1>2, <3>1, <3>2 DEF Latest
  <2>2. CASE j > i
    <3>1. j - 1 \in 1 .. (n - 1) /\ f[j - 1] = x
      BY <1>2, <2>2 DEF Without
    <3>2. \A h \in ((j - 1) + 1) .. (n - 1) : f[h] = None
      BY <1>2, <2>2 DEF Without
    <3> QED BY <1>2, <3>1, <3>2 DEF Latest
  <2> QED BY <1>2, <2>1, <2>2
<1> QED BY <1>1, <1>2 DEF Latest

\* The first write is taken out and takes effect.
LEMMA LatestTaken ==
  ASSUME NEW e, NEW f, NEW n \in Nat, NEW i \in 1 .. n, NEW v, NEW x, Latest(e, n, v, x), Without(e, f, i, n),
         e[i] # None, \A j \in 1 .. (i - 1) : e[j] = None
  PROVE  Latest(f, n - 1, e[i], x)
<1>1. PICK j \in 1 .. n : e[j] = x /\ x # None /\ \A h \in (j + 1) .. n : e[h] = None
  BY DEF Latest
<1>2. i <= j
  BY <1>1
<1>3. CASE j = i
  <2>1. \A h \in 1 .. (n - 1) : f[h] = None
    BY <1>1, <1>3 DEF Without
  <2> QED BY <1>1, <1>3, <2>1 DEF Latest
<1>4. CASE j > i
  <2>1. j - 1 \in 1 .. (n - 1) /\ f[j - 1] = x
    BY <1>1, <1>4 DEF Without
  <2>2. \A h \in ((j - 1) + 1) .. (n - 1) : f[h] = None
    BY <1>1, <1>4 DEF Without
  <2> QED BY <1>1, <2>1, <2>2 DEF Latest
<1> QED BY <1>2, <1>3, <1>4

-----------------------------------------------------------------------------
(* One line: its queue q, the bursts bs, what the image holds of it (v)    *)
(* and what was stored last (x).                                           *)

Sees(q, bs, l, v, n, x) == \E y \in Nat : /\ Latest(QWrites(q, l), Len(q), v, y)
                                          /\ Latest(BWrites(bs, l), n - 1, y, x)

QueueReads(q, l, v) ==
    \A i \in 1 .. Len(q) : q[i].type = "R" /\ q[i].line = l => Latest(QWrites(q, l), i - 1, v, q[i].want)

Asks(b, k, l) == k \in (b.sent + 1) .. Len(b.sh.cells) /\ b.sh.type = "R" /\ b.sh.cells[k] = l

BurstReads(q, bs, l, v) ==
    \A n \in 1 .. Len(bs) : \A k : Asks(bs[n], k, l) => Sees(q, bs, l, v, n, bs[n].want[k])

LineOk(q, bs, l, v, x) ==
    /\ QueueReads(q, l, v)
    /\ Sees(q, bs, l, v, Len(bs) + 1, x)
    /\ BurstReads(q, bs, l, v)

Lined(q, s, ns) ==
    /\ \A i \in 1 .. Len(q) : cfg.route[q[i].line].stack = s /\ q[i].seq < ns /\ InClass(q[i])
    /\ \A i, j \in 1 .. Len(q) : i < j => q[i].seq < q[j].seq

ChainMeans ==
    /\ \A s \in Stacks : Lined(stack_ingress_queues_[s], s, next_system_sequence_)
    /\ \A l \in Lines : LineOk(Queue(l), bursts, l, image[Cell(l)], stored[l])

\* The invariant, line by line.
LEMMA ChainInvIs == TypeInv => (ChainInv <=> ChainMeans)
<1> SUFFICES ASSUME TypeInv PROVE ChainInv <=> ChainMeans
  OBVIOUS
<1>1. /\ \A s \in Stacks : \A i \in 1 .. Len(stack_ingress_queues_[s]) : stack_ingress_queues_[s][i].line \in Lines
      /\ \A l \in Lines : cfg.route[l].stack \in Stacks
  <2>1. cfg \in Configs /\ stack_ingress_queues_ \in [Stacks -> Seq(Tx)]
    BY DEF TypeInv
  <2>2. \A s \in Stacks : \A i \in 1 .. Len(stack_ingress_queues_[s]) : stack_ingress_queues_[s][i] \in Tx
    BY <2>1
  <2>3. \A t \in Tx : t.line \in Lines
    BY DEF Tx
  <2> QED BY <2>1, <2>2, <2>3, RouteFacts
<1>2. /\ \A n \in 1 .. Len(bursts) : \A k \in (bursts[n].sent + 1) .. Len(bursts[n].sh.cells) :
           bursts[n].sh.cells[k] \in Lines
  <2> SUFFICES ASSUME NEW n \in 1 .. Len(bursts), NEW k \in (bursts[n].sent + 1) .. Len(bursts[n].sh.cells)
               PROVE  bursts[n].sh.cells[k] \in Lines
    OBVIOUS
  <2>1. bursts[n] \in BurstRec
    BY DEF TypeInv
  <2>2. /\ bursts[n].sent \in Nat /\ Len(bursts[n].sh.cells) \in Nat
        /\ \A j \in 1 .. Len(bursts[n].sh.cells) : bursts[n].sh.cells[j] \in Lines
    BY <2>1, BurstFacts
  <2> QED BY <2>2
<1>3. ASSUME ChainInv PROVE ChainMeans
  <2>1. \A s \in Stacks : Lined(stack_ingress_queues_[s], s, next_system_sequence_)
    BY <1>3 DEF ChainInv, Lined
  <2> SUFFICES ASSUME NEW l \in Lines PROVE LineOk(Queue(l), bursts, l, image[Cell(l)], stored[l])
    BY <2>1 DEF ChainMeans
  <2>2. QueueReads(Queue(l), l, image[Cell(l)])
    BY <1>1, <1>3 DEF ChainInv, QueueReads, Queue
  <2>3. Sees(Queue(l), bursts, l, image[Cell(l)], Len(bursts) + 1, stored[l])
    BY <1>3 DEF ChainInv, Seen, Sees
  <2>4. BurstReads(Queue(l), bursts, l, image[Cell(l)])
    BY <1>3 DEF ChainInv, Seen, Sees, BurstReads, Asks
  <2> QED BY <2>2, <2>3, <2>4 DEF LineOk
<1>4. ASSUME ChainMeans PROVE ChainInv
  <2>1. ASSUME NEW s \in Stacks, NEW i \in 1 .. Len(stack_ingress_queues_[s]), stack_ingress_queues_[s][i].type = "R"
        PROVE  LET q == stack_ingress_queues_[s]
               IN  Latest(QWrites(q, q[i].line), i - 1, image[Cell(q[i].line)], q[i].want)
    <3>1. PICK q, l : q = stack_ingress_queues_[s] /\ l = q[i].line
      OBVIOUS
    <3>2. l \in Lines /\ Queue(l) = q
      BY <1>1, <1>4, <2>1, <3>1 DEF ChainMeans, Lined, Queue
    <3>3. QueueReads(q, l, image[Cell(l)])
      BY <1>4, <3>2 DEF ChainMeans, LineOk
    <3> QED BY <2>1, <3>1, <3>3 DEF QueueReads
  <2>2. \A l \in Lines : Seen(Len(bursts) + 1, l, stored[l])
    BY <1>4 DEF ChainMeans, LineOk, Seen, Sees
  <2>3. ASSUME NEW n \in 1 .. Len(bursts), NEW k \in (bursts[n].sent + 1) .. Len(bursts[n].sh.cells),
               bursts[n].sh.type = "R"
        PROVE  Seen(n, bursts[n].sh.cells[k], bursts[n].want[k])
    <3>1. PICK l : l = bursts[n].sh.cells[k]
      OBVIOUS
    <3>2. l \in Lines /\ Asks(bursts[n], k, l)
      BY <1>2, <2>3, <3>1 DEF Asks
    <3>3. Sees(Queue(l), bursts, l, image[Cell(l)], n, bursts[n].want[k])
      BY <1>4, <3>2 DEF ChainMeans, LineOk, BurstReads
    <3> QED BY <3>1, <3>3 DEF Seen, Sees
  <2>4. \A s \in Stacks : LET q == stack_ingress_queues_[s] IN
         /\ \A i \in 1 .. Len(q) : /\ cfg.route[q[i].line].stack = s /\ q[i].seq < next_system_sequence_
                                   /\ InClass(q[i])
         /\ \A i, j \in 1 .. Len(q) : i < j => q[i].seq < q[j].seq
    BY <1>4 DEF ChainMeans, Lined
  <2> QED BY <2>1, <2>2, <2>3, <2>4 DEF ChainInv
<1> QED BY <1>3, <1>4

-----------------------------------------------------------------------------
(* What steps do to one line.                                              *)

\* The write that an element of a queue is for a line.
WriteOf(t, l) == IF t.type = "W" /\ t.line = l THEN t.val ELSE None

\* What a line sees does not change when the writes of the bursts do not.
LEMMA SeesSame ==
  ASSUME NEW q, NEW bs, NEW cs, NEW l, NEW v, NEW n \in Nat \ {0}, NEW x, Sees(q, bs, l, v, n, x),
         \A j \in 1 .. (n - 1) : BWrites(cs, l)[j] = BWrites(bs, l)[j]
  PROVE  Sees(q, cs, l, v, n, x)
<1>1. PICK y \in Nat : Latest(QWrites(q, l), Len(q), v, y) /\ Latest(BWrites(bs, l), n - 1, y, x)
  BY DEF Sees
<1>2. n - 1 \in Nat
  OBVIOUS
<1>3. Latest(BWrites(cs, l), n - 1, y, x)
  BY <1>1, <1>2, LatestSame
<1> QED BY <1>1, <1>3 DEF Sees

\* A request leaves the queue: those of its line behind it see its write in
\* the image.
LEMMA LineDispatch ==
  ASSUME NEW q \in Seq(Tx), NEW i \in 1 .. Len(q), NEW bs, NEW l, NEW v, NEW x, LineOk(q, bs, l, v, x),
         \A j \in 1 .. (i - 1) : q[j].line # q[i].line,
         NEW p, p = RemoveAt(q, i), NEW w, w = IF q[i].type = "W" /\ q[i].line = l THEN q[i].val ELSE v
  PROVE  LineOk(p, bs, l, w, x)
<1> DEFINE N == Len(q)
           e == QWrites(q, l)
           f == QWrites(p, l)
<1>1. /\ N \in Nat \ {0} /\ Len(p) = N - 1 /\ \A j \in 1 .. (N - 1) : p[j] = IF j < i THEN q[j] ELSE q[j + 1]
      /\ \A j \in 1 .. N : q[j] \in Tx
  <2>1. /\ Len(RemoveAt(q, i)) = N - 1
        /\ \A j \in 1 .. (N - 1) : RemoveAt(q, i)[j] = IF j < i THEN q[j] ELSE q[j + 1]
    BY RemoveAtFacts
  <2>2. N \in Nat \ {0} /\ \A j \in 1 .. N : q[j] \in Tx
    OBVIOUS
  <2> QED BY <2>1, <2>2
<1>2. \A j \in 1 .. N : e[j] = WriteOf(q[j], l)
  BY DEF QWrites, WriteOf
<1>3. \A j \in 1 .. (N - 1) : f[j] = WriteOf(p[j], l)
  BY <1>1 DEF QWrites, WriteOf
<1> HIDE DEF N, e, f
<1>4. Len(p) = N - 1 /\ Len(q) = N /\ e = QWrites(q, l) /\ f = QWrites(p, l) /\ i \in 1 .. N
  BY <1>1 DEF N, e, f
<1>5. \A n \in 1 .. N : Without(e, f, i, n)
  BY <1>1, <1>2, <1>3, <1>4 DEF Without
<1>6. e[i] # None => w = e[i]
  BY <1>2, <1>4 DEF WriteOf
<1>7. e[i] = None => w = v
  <2>1. q[i].val \in Nat
    BY <1>1, <1>4 DEF Tx
  <2> QED BY <1>2, <1>4, <2>1 DEF WriteOf, None
<1>8. e[i] # None => \A j \in 1 .. (i - 1) : e[j] = None
  BY <1>1, <1>2, <1>4 DEF WriteOf
<1>9. ASSUME NEW n \in i .. N, NEW y, Latest(e, n, v, y) PROVE Latest(f, n - 1, w, y)
  <2>1. n \in Nat /\ i \in 1 .. n /\ Without(e, f, i, n)
    BY <1>1, <1>4, <1>5
  <2>2. CASE e[i] = None
    BY <1>7, <1>9, <2>1, <2>2, LatestCut
  <2>3. CASE e[i] # None
    BY <1>6, <1>8, <1>9, <2>1, <2>3, LatestTaken
  <2> QED BY <2>2, <2>3
<1>10. ASSUME NEW n, NEW y, Sees(q, bs, l, v, n, y) PROVE Sees(p, bs, l, w, n, y)
  <2>1. PICK z \in Nat : Latest(e, N, v, z) /\ Latest(BWrites(bs, l), n - 1, z, y)
    BY <1>4, <1>10 DEF Sees
  <2>2. Latest(f, N - 1, w, z)
    BY <1>1, <1>4, <1>9, <2>1
  <2> QED BY <1>4, <2>1, <2>2 DEF Sees
<1>11. QueueReads(p, l, w)
  <2> SUFFICES ASSUME NEW j \in 1 .. (N - 1), p[j].type = "R", p[j].line = l PROVE Latest(f, j - 1, w, p[j].want)
    BY <1>4 DEF QueueReads
  <2>1. CASE j < i
    <3>1. p[j] = q[j] /\ j \in 1 .. N /\ j - 1 \in Nat
      BY <1>1, <2>1
    <3>2. q[i].line # l /\ w = v
      BY <1>1, <1>4, <2>1, <3>1
    <3>3. Latest(e, j - 1, v, q[j].want)
      BY <1>4, <3>1 DEF LineOk, QueueReads
    <3>4. \A h \in 1 .. (j - 1) : f[h] = e[h]
      BY <1>1, <1>2, <1>3, <1>4, <2>1
    <3> QED BY <3>1, <3>2, <3>3, <3>4, LatestSame
  <2>2. CASE ~(j < i)
    <3>1. p[j] = q[j + 1] /\ j + 1 \in 1 .. N /\ j \in i .. N /\ (j + 1) - 1 = j
      BY <1>1, <1>4, <2>2
    <3>2. Latest(e, j, v, q[j + 1].want)
      BY <1>4, <3>1 DEF LineOk, QueueReads
    <3> QED BY <1>9, <3>1, <3>2
  <2> QED BY <2>1, <2>2
<1> QED BY <1>10, <1>11 DEF LineOk, BurstReads

\* A request is put into the queue of a line.
LEMMA QueueExtends ==
  ASSUME NEW q \in Seq(Tx), NEW t \in Tx, NEW l, NEW v, NEW p, p = Append(q, t), QueueReads(q, l, v),
         t.type = "R" /\ t.line = l => Latest(QWrites(q, l), Len(q), v, t.want)
  PROVE  /\ QueueReads(p, l, v)
         /\ WriteOf(t, l) = None => \A y : Latest(QWrites(q, l), Len(q), v, y) => Latest(QWrites(p, l), Len(p), v, y)
         /\ WriteOf(t, l) # None => Latest(QWrites(p, l), Len(p), v, WriteOf(t, l))
<1> DEFINE N == Len(q)
           e == QWrites(q, l)
           f == QWrites(p, l)
<1>1. N \in Nat /\ Len(p) = N + 1 /\ p[N + 1] = t /\ \A j \in 1 .. N : p[j] = q[j]
  BY Appended
<1>2. (\A j \in 1 .. N : f[j] = e[j]) /\ f[N + 1] = WriteOf(t, l)
  <2>1. \A j \in 1 .. (N + 1) : f[j] = WriteOf(p[j], l)
    BY <1>1 DEF QWrites, WriteOf
  <2>2. \A j \in 1 .. N : e[j] = WriteOf(q[j], l)
    BY DEF QWrites, WriteOf
  <2> HIDE DEF N, e, f
  <2> QED BY <1>1, <2>1, <2>2
<1> HIDE DEF N, e, f
<1>3. Len(p) = N + 1 /\ Len(q) = N /\ e = QWrites(q, l) /\ f = QWrites(p, l)
  BY <1>1 DEF N, e, f
<1>4. \A y : WriteOf(t, l) = None /\ Latest(e, N, v, y) => Latest(f, N + 1, v, y)
  BY <1>1, <1>2, LatestSkip
<1>5. WriteOf(t, l) # None => Latest(f, N + 1, v, WriteOf(t, l))
  BY <1>1, <1>2, LatestWrite
<1>6. QueueReads(p, l, v)
  <2> SUFFICES ASSUME NEW j \in 1 .. (N + 1), p[j].type = "R", p[j].line = l PROVE Latest(f, j - 1, v, p[j].want)
    BY <1>3 DEF QueueReads
  <2>1. Latest(e, j - 1, v, p[j].want)
    <3>1. CASE j = N + 1
      BY <1>1, <1>3, <3>1
    <3>2. CASE j # N + 1
      <4>1. j \in 1 .. N /\ p[j] = q[j]
        BY <1>1, <3>2
      <4> QED BY <1>3, <4>1 DEF QueueReads
    <3> QED BY <3>1, <3>2
  <2>2. j - 1 \in Nat /\ \A h \in 1 .. (j - 1) : f[h] = e[h]
    BY <1>1, <1>2
  <2> QED BY <2>1, <2>2, LatestSame
<1> QED BY <1>3, <1>4, <1>5, <1>6

\* Without bursts, a line sees what its queue ends in.
LEMMA SeesQueue ==
  ASSUME NEW q, NEW l, NEW v, NEW x
  PROVE  Sees(q, <<>>, l, v, 1, x) <=> x \in Nat /\ Latest(QWrites(q, l), Len(q), v, x)
<1>1. 1 - 1 \in Nat /\ \A j \in 1 .. (1 - 1) : BWrites(<<>>, l)[j] = None
  OBVIOUS
<1>2. \A y : Latest(BWrites(<<>>, l), 1 - 1, y, x) <=> x = y
  BY <1>1, LatestNone
<1> QED BY <1>2 DEF Sees

\* A transaction is submitted without bursts.
LEMMA LineEnqueue ==
  ASSUME NEW q \in Seq(Tx), NEW t \in Tx, NEW l, NEW v, NEW x, LineOk(q, <<>>, l, v, x),
         NEW p, p = Append(q, t), t.type = "R" /\ t.line = l => t.want = x,
         NEW z, z = IF t.type = "W" /\ t.line = l THEN t.val ELSE x
  PROVE  LineOk(p, <<>>, l, v, z)
<1>1. Len(<<>>) + 1 = 1 /\ Len(<<>>) = 0
  OBVIOUS
<1>2. x \in Nat /\ Latest(QWrites(q, l), Len(q), v, x) /\ QueueReads(q, l, v)
  BY <1>1, SeesQueue DEF LineOk
<1>3. /\ QueueReads(p, l, v)
      /\ WriteOf(t, l) = None => Latest(QWrites(p, l), Len(p), v, x)
      /\ WriteOf(t, l) # None => Latest(QWrites(p, l), Len(p), v, WriteOf(t, l))
  BY <1>2, QueueExtends
<1>4. t.val \in Nat /\ t.val # None
  BY DEF Tx, None
<1>5. z \in Nat /\ Latest(QWrites(p, l), Len(p), v, z)
  BY <1>2, <1>3, <1>4 DEF WriteOf
<1>6. Sees(p, <<>>, l, v, 1, z)
  BY <1>5, SeesQueue
<1>7. BurstReads(p, <<>>, l, v)
  BY <1>1 DEF BurstReads
<1> QED BY <1>1, <1>3, <1>6, <1>7 DEF LineOk

\* The writes of a sequence of bursts.
LEMMA BWritesFacts ==
  ASSUME NEW bs, NEW l, NEW m \in 1 .. Len(bs)
  PROVE  BWrites(bs, l)[m] = IF Pending(bs[m], l) THEN bs[m].serial ELSE None
BY DEF BWrites

\* Bursts change in what their writes and reads do not depend on.
LEMMA LineAlike ==
  ASSUME NEW q, NEW bs \in Seq(BurstRec), NEW cs, NEW l, NEW v, NEW x, LineOk(q, bs, l, v, x), Len(cs) = Len(bs),
         \A n \in 1 .. Len(bs) : /\ cs[n].sh = bs[n].sh /\ cs[n].sent = bs[n].sent /\ cs[n].serial = bs[n].serial
                                 /\ cs[n].want = bs[n].want
  PROVE  LineOk(q, cs, l, v, x)
<1>0. Len(bs) \in Nat
  OBVIOUS
<1>1. \A n \in 1 .. Len(bs) : Pending(cs[n], l) <=> Pending(bs[n], l)
  BY DEF Pending
<1>2. \A j \in 1 .. Len(bs) : BWrites(cs, l)[j] = BWrites(bs, l)[j]
  BY <1>1, BWritesFacts
<1>3. ASSUME NEW n \in 1 .. (Len(bs) + 1), NEW y, Sees(q, bs, l, v, n, y) PROVE Sees(q, cs, l, v, n, y)
  <2>1. n \in Nat \ {0} /\ \A j \in 1 .. (n - 1) : j \in 1 .. Len(bs)
    BY <1>0
  <2>2. \A j \in 1 .. (n - 1) : BWrites(cs, l)[j] = BWrites(bs, l)[j]
    BY <1>2, <2>1
  <2> QED BY <1>3, <2>1, <2>2, SeesSame
<1>4. Sees(q, cs, l, v, Len(cs) + 1, x)
  BY <1>0, <1>3 DEF LineOk
<1>5. BurstReads(q, cs, l, v)
  <2> SUFFICES ASSUME NEW n \in 1 .. Len(bs), NEW k, Asks(cs[n], k, l) PROVE Sees(q, cs, l, v, n, cs[n].want[k])
    BY DEF BurstReads
  <2>1. Asks(bs[n], k, l)
    BY DEF Asks
  <2>2. Sees(q, bs, l, v, n, bs[n].want[k])
    BY <2>1 DEF LineOk, BurstReads
  <2> QED BY <1>0, <1>3, <2>2
<1> QED BY <1>4, <1>5 DEF LineOk

\* A burst is admitted.
LEMMA LineAdmit ==
  ASSUME NEW q, NEW S, NEW bs \in Seq(S), NEW b \in S, NEW cs, cs = Append(bs, b), NEW l, NEW v, NEW x \in Nat,
         LineOk(q, bs, l, v, x), b.serial \in Nat, \A k : Asks(b, k, l) => b.want[k] = x,
         NEW z, z = IF Pending(b, l) THEN b.serial ELSE x
  PROVE  LineOk(q, cs, l, v, z)
<1> DEFINE N == Len(bs)
           e == BWrites(bs, l)
           f == BWrites(cs, l)
<1>1. N \in Nat /\ Len(cs) = N + 1 /\ cs[N + 1] = b /\ \A n \in 1 .. N : cs[n] = bs[n]
  BY Appended
<1>2. \A n \in 1 .. N : f[n] = e[n]
  <2> TAKE n \in 1 .. N
  <2>1. n \in 1 .. Len(bs) /\ n \in 1 .. Len(cs) /\ cs[n] = bs[n]
    BY <1>1
  <2> QED BY <2>1, BWritesFacts, ZenonT(40)
<1>3. f[N + 1] = IF Pending(b, l) THEN b.serial ELSE None
  <2>1. N + 1 \in 1 .. Len(cs)
    BY <1>1
  <2> QED BY <1>1, <2>1, BWritesFacts, ZenonT(40)
<1> HIDE DEF N, e, f
<1>4. Len(bs) = N /\ e = BWrites(bs, l) /\ f = BWrites(cs, l)
  BY DEF N, e, f
<1>5. ASSUME NEW n \in 1 .. (N + 1), NEW y, Sees(q, bs, l, v, n, y) PROVE Sees(q, cs, l, v, n, y)
  <2>1. n \in Nat \ {0} /\ \A j \in 1 .. (n - 1) : f[j] = e[j]
    BY <1>1, <1>2
  <2> QED BY <1>4, <1>5, <2>1, SeesSame
<1>6. Sees(q, cs, l, v, (N + 1) + 1, z)
  <2>1. PICK y \in Nat : Latest(QWrites(q, l), Len(q), v, y) /\ Latest(e, N, y, x)
    <3>1. (N + 1) - 1 = N
      BY <1>1
    <3> QED BY <1>4, <3>1 DEF LineOk, Sees
  <2>2. Latest(f, N + 1, y, z)
    <3>1. CASE Pending(b, l)
      <4>1. f[N + 1] = z /\ z # None
        BY <1>3, <3>1 DEF None
      <4> QED BY <1>1, <4>1, LatestWrite
    <3>2. CASE ~Pending(b, l)
      BY <1>1, <1>2, <1>3, <2>1, <3>2, LatestSkip
    <3> QED BY <3>1, <3>2
  <2>3. ((N + 1) + 1) - 1 = N + 1
    BY <1>1
  <2> QED BY <1>4, <2>1, <2>2, <2>3 DEF Sees
<1>7. ASSUME NEW n \in 1 .. (N + 1), NEW k, Asks(cs[n], k, l) PROVE Sees(q, cs, l, v, n, cs[n].want[k])
  <2>1. CASE n = N + 1
    <3>1. cs[n] = b /\ b.want[k] = x
      BY <1>1, <1>7, <2>1
    <3>2. Sees(q, bs, l, v, n, x)
      BY <1>4, <2>1 DEF LineOk
    <3> QED BY <1>5, <3>1, <3>2
  <2>2. CASE n # N + 1
    <3>1. n \in 1 .. N /\ cs[n] = bs[n]
      BY <1>1, <2>2
    <3>2. Sees(q, bs, l, v, n, bs[n].want[k])
      BY <1>4, <1>7, <3>1 DEF LineOk, BurstReads
    <3> QED BY <1>5, <3>1, <3>2
  <2> QED BY <2>1, <2>2
<1>8. BurstReads(q, cs, l, v)
  BY <1>1, <1>7 DEF BurstReads
<1> QED BY <1>1, <1>6, <1>8 DEF LineOk

\* The oldest burst is returned: all of it was submitted.
LEMMA LineReturn ==
  ASSUME NEW q, NEW S, NEW bs \in Seq(S), bs # <<>>, NEW l, NEW v, NEW x, LineOk(q, bs, l, v, x),
         bs[1].sent = Len(bs[1].sh.cells), Len(bs[1].sh.cells) \in Nat, NEW cs, cs = Tail(bs)
  PROVE  LineOk(q, cs, l, v, x)
<1> DEFINE N == Len(bs)
           e == BWrites(bs, l)
           f == BWrites(cs, l)
<1>1. N \in Nat \ {0} /\ Len(cs) = N - 1 /\ \A n \in 1 .. (N - 1) : cs[n] = bs[n + 1]
  BY HeadTail
<1>2. ~Pending(bs[1], l)
  BY DEF Pending
<1>3. e[1] = None
  BY <1>1, <1>2, BWritesFacts
<1>4. \A n \in 1 .. (N - 1) : f[n] = e[n + 1]
  <2> TAKE n \in 1 .. (N - 1)
  <2>1. n \in 1 .. Len(cs) /\ n + 1 \in 1 .. Len(bs) /\ cs[n] = bs[n + 1]
    BY <1>1
  <2> QED BY <2>1, BWritesFacts, ZenonT(40)
<1> HIDE DEF N, e, f
<1>5. Len(bs) = N /\ e = BWrites(bs, l) /\ f = BWrites(cs, l)
  BY DEF N, e, f
<1>6. ASSUME NEW n \in 1 .. N, NEW y, Sees(q, bs, l, v, n + 1, y) PROVE Sees(q, cs, l, v, n, y)
  <2>1. PICK z \in Nat : Latest(QWrites(q, l), Len(q), v, z) /\ Latest(e, n, z, y)
    <3>1. (n + 1) - 1 = n
      BY <1>1
    <3> QED BY <1>5, <1>6, <3>1 DEF Sees
  <2>2. n \in Nat /\ 1 \in 1 .. n /\ Without(e, f, 1, n)
    BY <1>1, <1>4 DEF Without
  <2>3. Latest(f, n - 1, z, y)
    BY <1>3, <2>1, <2>2, LatestCut
  <2> QED BY <1>5, <2>1, <2>3 DEF Sees
<1>7. Sees(q, cs, l, v, Len(cs) + 1, x)
  <2>1. Len(cs) + 1 = N /\ N \in 1 .. N
    BY <1>1
  <2> QED BY <1>5, <1>6, <2>1 DEF LineOk
<1>8. BurstReads(q, cs, l, v)
  <2> SUFFICES ASSUME NEW n \in 1 .. (N - 1), NEW k, Asks(cs[n], k, l) PROVE Sees(q, cs, l, v, n, cs[n].want[k])
    BY <1>1 DEF BurstReads
  <2>1. n + 1 \in 1 .. N /\ cs[n] = bs[n + 1] /\ n \in 1 .. N
    BY <1>1
  <2>2. Sees(q, bs, l, v, n + 1, bs[n + 1].want[k])
    BY <1>5, <2>1 DEF LineOk, BurstReads
  <2> QED BY <1>6, <2>1, <2>2
<1> QED BY <1>7, <1>8 DEF LineOk

\* The first request of burst n that is left, and what is left then.
Submits(bs, n, t, cs) ==
    /\ n \in 1 .. Len(bs) /\ IsUnsent(bs[n]) /\ \A m \in 1 .. (n - 1) : ~IsUnsent(bs[m])
    /\ Len(cs) = Len(bs) /\ \A m \in 1 .. Len(bs) : m # n => cs[m] = bs[m]
    /\ cs[n].sh = bs[n].sh /\ cs[n].sent = bs[n].sent + 1 /\ cs[n].serial = bs[n].serial /\ cs[n].want = bs[n].want
    /\ t \in Tx /\ t.type = bs[n].sh.type /\ t.line = bs[n].sh.cells[bs[n].sent + 1] /\ t.val = bs[n].serial
    /\ t.type = "R" => t.want = bs[n].want[bs[n].sent + 1]

\* What the requests of other lines leave alone.
LEMMA SubmitsOther ==
  ASSUME TypeInv, NEW bs \in Seq(BurstRec), NEW n, NEW t, NEW cs, Submits(bs, n, t, cs), NEW l
  PROVE  /\ Len(bs) \in Nat /\ \A m \in 1 .. Len(bs) : bs[m].sent \in Nat /\ Len(bs[m].sh.cells) \in Nat
         /\ t.type = "R" \/ t.line # l => \A m \in 1 .. Len(bs) : BWrites(cs, l)[m] = BWrites(bs, l)[m]
         /\ \A m \in 1 .. Len(bs) : m # n => BWrites(cs, l)[m] = BWrites(bs, l)[m]
         /\ \A m \in 1 .. (n - 1) : BWrites(bs, l)[m] = None /\ BWrites(cs, l)[m] = None
         /\ \A m \in 1 .. Len(bs) : \A k : Asks(cs[m], k, l) => Asks(bs[m], k, l) /\ cs[m].want = bs[m].want /\ m >= n
<1>1. Len(bs) \in Nat /\ \A m \in 1 .. Len(bs) : bs[m].sent \in Nat /\ Len(bs[m].sh.cells) \in Nat
  <2>1. \A m \in 1 .. Len(bs) : bs[m] \in BurstRec
    OBVIOUS
  <2>2. \A m \in 1 .. Len(bs) : bs[m].sent \in Nat /\ Len(bs[m].sh.cells) \in Nat
    BY <2>1, BurstFacts
  <2> QED BY <2>2
<1>2. n \in 1 .. Len(bs) /\ Len(cs) = Len(bs)
  BY DEF Submits
<1>3. \A m \in 1 .. Len(bs) : m # n => BWrites(cs, l)[m] = BWrites(bs, l)[m]
  BY <1>2, BWritesFacts DEF Submits
<1>4. ASSUME t.type = "R" \/ t.line # l PROVE BWrites(cs, l)[n] = BWrites(bs, l)[n]
  <2>1. Pending(cs[n], l) <=> Pending(bs[n], l)
    <3>1. CASE t.type = "R"
      BY <3>1 DEF Submits, Pending
    <3>2. CASE t.line # l
      <4>1. bs[n].sent \in Nat /\ Len(bs[n].sh.cells) \in Nat /\ bs[n].sh.cells[bs[n].sent + 1] # l
            /\ cs[n].sent = bs[n].sent + 1 /\ cs[n].sh = bs[n].sh
        BY <1>1, <1>2, <3>2 DEF Submits
      <4>2. PICK s, c : s \in Nat /\ s = bs[n].sent /\ c = bs[n].sh.cells
        BY <4>1
      <4>3. c[s + 1] # l /\ Len(c) \in Nat
        BY <4>1, <4>2
      <4>4. (\E k \in (s + 1) .. Len(c) : c[k] = l) <=> \E k \in ((s + 1) + 1) .. Len(c) : c[k] = l
        BY <4>2, <4>3
      <4>5. /\ Pending(bs[n], l) <=> bs[n].sh.type = "W" /\ \E k \in (s + 1) .. Len(c) : c[k] = l
            /\ Pending(cs[n], l) <=> bs[n].sh.type = "W" /\ \E k \in ((s + 1) + 1) .. Len(c) : c[k] = l
        BY <4>1, <4>2 DEF Pending
      <4> QED BY <4>4, <4>5
    <3> QED BY <1>4, <3>1, <3>2
  <2> QED BY <1>2, <2>1, BWritesFacts DEF Submits
<1>5. \A m \in 1 .. (n - 1) : BWrites(bs, l)[m] = None /\ BWrites(cs, l)[m] = None
  <2> TAKE m \in 1 .. (n - 1)
  <2>1. m \in 1 .. Len(bs) /\ m # n /\ ~IsUnsent(bs[m])
    BY <1>1, <1>2 DEF Submits
  <2>2. ~Pending(bs[m], l)
    BY <1>1, <2>1 DEF Pending, IsUnsent
  <2> QED BY <1>3, <2>1, <2>2, BWritesFacts
<1>6. ASSUME NEW m \in 1 .. Len(bs), NEW k, Asks(cs[m], k, l)
      PROVE  Asks(bs[m], k, l) /\ cs[m].want = bs[m].want /\ m >= n
  <2>1. CASE m = n
    <3>1. bs[n].sent \in Nat /\ Len(bs[n].sh.cells) \in Nat /\ cs[n].sent = bs[n].sent + 1 /\ cs[n].sh = bs[n].sh
          /\ cs[n].want = bs[n].want
      BY <1>1, <1>2 DEF Submits
    <3> QED BY <1>2, <1>6, <2>1, <3>1 DEF Asks
  <2>2. CASE m # n
    <3>1. cs[m] = bs[m]
      BY <2>2 DEF Submits
    <3>2. IsUnsent(bs[m])
      BY <1>1, <1>6, <3>1 DEF Asks, IsUnsent
    <3>3. m >= n
      BY <1>1, <1>2, <3>2 DEF Submits
    <3> QED BY <1>6, <3>1, <3>3
  <2> QED BY <2>1, <2>2
<1> QED BY <1>1, <1>3, <1>4, <1>5, <1>6

\* A burst's write goes into the queue of its line.
LEMMA SubmitsWrite ==
  ASSUME TypeInv, NEW q \in Seq(Tx), NEW bs \in Seq(BurstRec), NEW n, NEW t, NEW cs, Submits(bs, n, t, cs),
         NEW l, l = t.line, t.type = "W", NEW v, QueueReads(q, l, v), NEW p, p = Append(q, t),
         NEW m \in (n + 1) .. (Len(bs) + 1), NEW y, Sees(q, bs, l, v, m, y)
  PROVE  Sees(p, cs, l, v, m, y)
<1> DEFINE e == BWrites(bs, l)
           f == BWrites(cs, l)
<1>1. /\ Len(bs) \in Nat /\ n \in 1 .. Len(bs) /\ m \in Nat \ {0} /\ n \in 1 .. (m - 1)
      /\ \A j \in 1 .. (m - 1) : j \in 1 .. Len(bs)
  BY SubmitsOther DEF Submits
<1>2. /\ \A j \in 1 .. Len(bs) : j # n => f[j] = e[j]
      /\ \A j \in 1 .. (n - 1) : e[j] = None /\ f[j] = None
  BY SubmitsOther
<1>3. t.val \in Nat /\ t.val # None /\ t.val = bs[n].serial /\ t.val = cs[n].serial
  BY DEF Tx, None, Submits
<1>4. e[n] = t.val
  <2>1. bs[n].sent \in Nat /\ Len(bs[n].sh.cells) \in Nat
    BY <1>1, SubmitsOther
  <2>2. bs[n].sent + 1 \in (bs[n].sent + 1) .. Len(bs[n].sh.cells) /\ bs[n].sh.type = "W"
        /\ bs[n].sh.cells[bs[n].sent + 1] = l
    BY <2>1 DEF Submits, IsUnsent
  <2>3. Pending(bs[n], l)
    BY <2>2 DEF Pending
  <2> QED BY <1>1, <1>3, <2>3, BWritesFacts
<1>5. f[n] = t.val \/ f[n] = None
  <2>1. n \in 1 .. Len(cs)
    BY <1>1 DEF Submits
  <2> QED BY <1>3, <2>1, BWritesFacts
<1> HIDE DEF e, f
<1>6. PICK z \in Nat : Latest(QWrites(q, l), Len(q), v, z) /\ Latest(e, m - 1, z, y)
  BY DEF Sees, e
<1>7. PICK j \in 1 .. (m - 1) : e[j] = y /\ y # None /\ \A h \in (j + 1) .. (m - 1) : e[h] = None
  BY <1>1, <1>3, <1>4, <1>6 DEF Latest
<1>8. n <= j
  BY <1>1, <1>2, <1>7
<1>9. \A h \in (j + 1) .. (m - 1) : f[h] = None
  <2> TAKE h \in (j + 1) .. (m - 1)
  <2>1. h # n /\ h \in 1 .. Len(bs)
    BY <1>1, <1>8
  <2> QED BY <1>2, <1>7, <2>1
<1>10. Latest(f, m - 1, t.val, y)
  <2>1. CASE j # n
    <3>1. f[j] = y
      BY <1>1, <1>2, <1>7, <2>1
    <3> QED BY <1>7, <1>9, <3>1 DEF Latest
  <2>2. CASE j = n /\ f[n] = t.val
    BY <1>4, <1>7, <1>9, <2>2 DEF Latest
  <2>3. CASE j = n /\ f[n] = None
    <3>1. y = t.val
      BY <1>4, <1>7, <2>3
    <3>2. \A h \in 1 .. (m - 1) : f[h] = None
      BY <1>1, <1>2, <1>9, <2>3
    <3> QED BY <3>1, <3>2 DEF Latest
  <2> QED BY <1>5, <2>1, <2>2, <2>3
<1>11. Latest(QWrites(p, l), Len(p), v, t.val)
  <2>1. WriteOf(t, l) = t.val /\ t \in Tx
    BY DEF WriteOf, Submits
  <2>2. WriteOf(t, l) # None /\ ~(t.type = "R" /\ t.line = l)
    BY <1>3, <2>1
  <2>3. Latest(QWrites(p, l), Len(p), v, WriteOf(t, l))
    BY <2>1, <2>2, QueueExtends
  <2> QED BY <2>1, <2>3
<1> QED BY <1>3, <1>10, <1>11 DEF Sees, f

\* A child of a burst is submitted.
LEMMA LineSubmit ==
  ASSUME TypeInv, NEW q \in Seq(Tx), NEW bs \in Seq(BurstRec), NEW n, NEW t, NEW cs, Submits(bs, n, t, cs),
         NEW l, NEW v, NEW x, LineOk(q, bs, l, v, x), NEW p, p = Append(q, t) \/ (p = q /\ t.line # l)
  PROVE  LineOk(p, cs, l, v, x)
<1>0. t \in Tx /\ t.type \in Types /\ n \in 1 .. Len(bs) /\ Len(cs) = Len(bs)
  BY DEF Submits, Tx
<1>1. /\ Len(bs) \in Nat
      /\ t.type = "R" \/ t.line # l => \A m \in 1 .. Len(bs) : BWrites(cs, l)[m] = BWrites(bs, l)[m]
      /\ \A m \in 1 .. (n - 1) : BWrites(bs, l)[m] = None
      /\ \A m \in 1 .. Len(bs) : \A k : Asks(cs[m], k, l) => Asks(bs[m], k, l) /\ cs[m].want = bs[m].want /\ m >= n
  <2>1. Len(bs) \in Nat /\ \A m \in 1 .. (n - 1) : BWrites(bs, l)[m] = None
    BY SubmitsOther
  <2>2. t.type = "R" \/ t.line # l => \A m \in 1 .. Len(bs) : BWrites(cs, l)[m] = BWrites(bs, l)[m]
    BY SubmitsOther
  <2>3. \A m \in 1 .. Len(bs) : \A k : Asks(cs[m], k, l) => Asks(bs[m], k, l) /\ cs[m].want = bs[m].want /\ m >= n
    BY SubmitsOther
  <2> QED BY <2>1, <2>2, <2>3
<1>2. CASE t.type = "R" \/ t.line # l
  <2>1. WriteOf(t, l) = None
    BY <1>2 DEF WriteOf
  <2>2. t.type = "R" /\ t.line = l => Latest(QWrites(q, l), Len(q), v, t.want)
    <3> SUFFICES ASSUME t.type = "R", t.line = l PROVE Latest(QWrites(q, l), Len(q), v, t.want)
      OBVIOUS
    <3> DEFINE k == bs[n].sent + 1
    <3>1. bs[n].sent \in Nat /\ Len(bs[n].sh.cells) \in Nat
      BY <1>0, SubmitsOther
    <3>2. Asks(bs[n], k, l) /\ t.want = bs[n].want[k]
      BY <3>1 DEF Submits, Asks, IsUnsent
    <3> HIDE DEF k
    <3>3. Sees(q, bs, l, v, n, t.want)
      BY <1>0, <3>2 DEF LineOk, BurstReads
    <3>4. PICK y \in Nat : Latest(QWrites(q, l), Len(q), v, y) /\ Latest(BWrites(bs, l), n - 1, y, t.want)
      BY <3>3 DEF Sees
    <3>5. n - 1 \in Nat
      BY <1>0, <1>1
    <3>6. t.want = y
      BY <1>1, <3>4, <3>5, LatestNone
    <3> QED BY <3>4, <3>6
  <2>3. /\ QueueReads(p, l, v)
        /\ \A y : Latest(QWrites(q, l), Len(q), v, y) => Latest(QWrites(p, l), Len(p), v, y)
    <3>1. QueueReads(q, l, v)
      BY DEF LineOk
    <3>2. CASE p = q
      BY <3>1, <3>2
    <3>3. CASE p = Append(q, t)
      BY <1>0, <2>1, <2>2, <3>1, <3>3, QueueExtends
    <3> QED BY <3>2, <3>3
  <2>4. ASSUME NEW m \in 1 .. (Len(bs) + 1), NEW y, Sees(q, bs, l, v, m, y) PROVE Sees(p, cs, l, v, m, y)
    <3>1. Sees(p, bs, l, v, m, y)
      BY <2>3, <2>4 DEF Sees
    <3>2. m \in Nat \ {0} /\ \A j \in 1 .. (m - 1) : j \in 1 .. Len(bs)
      BY <1>1
    <3>3. \A j \in 1 .. (m - 1) : BWrites(cs, l)[j] = BWrites(bs, l)[j]
      BY <1>1, <1>2, <3>2
    <3> QED BY <3>1, <3>2, <3>3, SeesSame
  <2>5. Sees(p, cs, l, v, Len(cs) + 1, x)
    BY <1>0, <1>1, <2>4 DEF LineOk
  <2>6. BurstReads(p, cs, l, v)
    <3> SUFFICES ASSUME NEW m \in 1 .. Len(bs), NEW k, Asks(cs[m], k, l) PROVE Sees(p, cs, l, v, m, cs[m].want[k])
      BY <1>0 DEF BurstReads
    <3>1. Asks(bs[m], k, l) /\ cs[m].want = bs[m].want /\ m \in 1 .. (Len(bs) + 1)
      BY <1>1
    <3>2. Sees(q, bs, l, v, m, bs[m].want[k])
      BY <3>1 DEF LineOk, BurstReads
    <3> QED BY <2>4, <3>1, <3>2
  <2> QED BY <2>3, <2>5, <2>6 DEF LineOk
<1>3. CASE t.type = "W" /\ t.line = l
  <2>1. p = Append(q, t) /\ QueueReads(q, l, v)
    BY <1>3 DEF LineOk
  <2>2. QueueReads(p, l, v)
    BY <1>0, <1>3, <2>1, QueueExtends
  <2>3. ASSUME NEW m \in (n + 1) .. (Len(bs) + 1), NEW y, Sees(q, bs, l, v, m, y) PROVE Sees(p, cs, l, v, m, y)
    BY <1>3, <2>1, <2>3, SubmitsWrite
  <2>4. Sees(p, cs, l, v, Len(cs) + 1, x)
    <3>1. Len(bs) + 1 \in (n + 1) .. (Len(bs) + 1) /\ Sees(q, bs, l, v, Len(bs) + 1, x)
      BY <1>0, <1>1 DEF LineOk
    <3> QED BY <1>0, <2>3, <3>1
  <2>5. BurstReads(p, cs, l, v)
    <3> SUFFICES ASSUME NEW m \in 1 .. Len(bs), NEW k, Asks(cs[m], k, l) PROVE Sees(p, cs, l, v, m, cs[m].want[k])
      BY <1>0 DEF BurstReads
    <3>1. Asks(bs[m], k, l) /\ cs[m].want = bs[m].want /\ m >= n
      BY <1>1
    <3>2. m # n
      BY <1>3, <3>1 DEF Asks, Submits
    <3>3. m \in (n + 1) .. (Len(bs) + 1)
      BY <1>0, <1>1, <3>1, <3>2
    <3>4. Sees(q, bs, l, v, m, bs[m].want[k])
      BY <3>1 DEF LineOk, BurstReads
    <3> QED BY <2>3, <3>1, <3>3, <3>4
  <2> QED BY <2>2, <2>4, <2>5 DEF LineOk
<1> QED BY <1>0, <1>2, <1>3 DEF Types

-----------------------------------------------------------------------------
(* The queues of the stacks.                                               *)

\* A request is put into a queue.
LEMMA LinedPut ==
  ASSUME NEW q \in Seq(Tx), NEW s, NEW ns \in Nat, Lined(q, s, ns), NEW t \in Tx,
         cfg.route[t.line].stack = s, InClass(t), t.seq = ns
  PROVE  Lined(Append(q, t), s, ns + 1)
<1>1. PICK p : p = Append(q, t)
  OBVIOUS
<1>2. Len(q) \in Nat /\ Len(p) = Len(q) + 1 /\ p[Len(q) + 1] = t /\ \A j \in 1 .. Len(q) : p[j] = q[j] /\ q[j] \in Tx
  BY <1>1
<1>3. \A j \in 1 .. Len(q) : q[j].seq \in Nat /\ q[j].seq < ns
  BY <1>2 DEF Lined, Tx
<1>4. \A j \in 1 .. Len(p) : j \in 1 .. Len(q) \/ j = Len(q) + 1
  BY <1>2
<1>5. \A j \in 1 .. Len(p) : cfg.route[p[j].line].stack = s /\ p[j].seq < ns + 1 /\ InClass(p[j])
  BY <1>2, <1>3, <1>4 DEF Lined
<1>6. ASSUME NEW i \in 1 .. Len(p), NEW j \in 1 .. Len(p), i < j PROVE p[i].seq < p[j].seq
  <2>1. i \in 1 .. Len(q)
    BY <1>2, <1>6
  <2>2. CASE j = Len(q) + 1
    BY <1>2, <1>3, <2>1, <2>2
  <2>3. CASE j \in 1 .. Len(q)
    BY <1>2, <1>6, <2>1, <2>3 DEF Lined
  <2> QED BY <1>4, <2>2, <2>3
<1> QED BY <1>1, <1>5, <1>6 DEF Lined

\* A request is put into another one.
LEMMA LinedMore ==
  ASSUME NEW q \in Seq(Tx), NEW s, NEW ns \in Nat, Lined(q, s, ns)
  PROVE  Lined(q, s, ns + 1)
<1>1. \A j \in 1 .. Len(q) : q[j].seq \in Nat
  <2>1. \A j \in 1 .. Len(q) : q[j] \in Tx
    OBVIOUS
  <2> QED BY <2>1 DEF Tx
<1> QED BY <1>1 DEF Lined

\* A request is taken out.
LEMMA LinedCut ==
  ASSUME NEW q \in Seq(Tx), NEW s, NEW ns, Lined(q, s, ns), NEW i \in 1 .. Len(q)
  PROVE  Lined(RemoveAt(q, i), s, ns)
<1>1. PICK p : p = RemoveAt(q, i)
  OBVIOUS
<1>2. Len(q) \in Nat \ {0} /\ Len(p) = Len(q) - 1 /\ \A j \in 1 .. (Len(q) - 1) : p[j] = IF j < i THEN q[j] ELSE q[j + 1]
  BY <1>1, RemoveAtFacts, SMTT(30)
<1>3. \A j \in 1 .. Len(p) : \E h \in 1 .. Len(q) : p[j] = q[h] /\ h = IF j < i THEN j ELSE j + 1
  BY <1>2
<1>4. \A j \in 1 .. Len(p) : cfg.route[p[j].line].stack = s /\ p[j].seq < ns /\ InClass(p[j])
  BY <1>3 DEF Lined
<1>5. ASSUME NEW j \in 1 .. Len(p), NEW k \in 1 .. Len(p), j < k PROVE p[j].seq < p[k].seq
  <2>1. PICK g \in 1 .. Len(q) : p[j] = q[g] /\ g = IF j < i THEN j ELSE j + 1
    BY <1>3
  <2>2. PICK h \in 1 .. Len(q) : p[k] = q[h] /\ h = IF k < i THEN k ELSE k + 1
    BY <1>3
  <2>3. g < h
    BY <1>2, <1>5, <2>1, <2>2
  <2> QED BY <2>1, <2>2, <2>3 DEF Lined
<1> QED BY <1>1, <1>4, <1>5 DEF Lined

-----------------------------------------------------------------------------
(* The steps.                                                              *)

\* How to come to the invariant after a step.
LEMMA ChainNext ==
  ASSUME TypeInv', cfg' = cfg, \A s \in Stacks : Lined(stack_ingress_queues_'[s], s, next_system_sequence_'),
         \A l \in Lines : LineOk(stack_ingress_queues_'[cfg.route[l].stack], bursts', l, image'[Cell(l)], stored'[l])
  PROVE  ChainInv'
<1>1. (TypeInv => (ChainInv <=> ChainMeans))'
  BY ChainInvIs, PTL
<1>2. (\A s \in Stacks : Lined(stack_ingress_queues_[s], s, next_system_sequence_))'
  BY DEF Stacks, Lined, InClass
<1>3. (\A l \in Lines : LineOk(Queue(l), bursts, l, image[Cell(l)], stored[l]))'
  <2> SUFFICES ASSUME NEW l \in Lines PROVE LineOk(Queue(l), bursts, l, image[Cell(l)], stored[l])'
    OBVIOUS
  <2>1. PICK q, bs, v, x : /\ q = stack_ingress_queues_'[cfg.route[l].stack] /\ bs = bursts'
                           /\ v = image'[Cell(l)] /\ x = stored'[l]
    OBVIOUS
  <2>2. q = Queue(l)' /\ bs = bursts' /\ v = image[Cell(l)]' /\ x = stored[l]'
    BY <2>1 DEF Queue, Cell
  <2>3. LineOk(q, bs, l, v, x)
    BY <2>1
  <2>4. LineOk(Queue(l), bursts, l, image[Cell(l)], stored[l])'
    BY <2>2, <2>3
  <2> QED BY <2>4
<1> QED BY <1>1, <1>2, <1>3 DEF ChainMeans

\* What the invariant says, and what is in the queues.
LEMMA ChainFacts ==
  ASSUME TypeInv, ChainInv
  PROVE  /\ \A s \in Stacks : Lined(stack_ingress_queues_[s], s, next_system_sequence_) /\ stack_ingress_queues_[s] \in Seq(Tx)
         /\ \A l \in Lines : /\ LineOk(stack_ingress_queues_[cfg.route[l].stack], bursts, l, image[Cell(l)], stored[l])
                             /\ cfg.route[l].stack \in Stacks /\ Cell(l) \in {Cell(k) : k \in Lines} /\ stored[l] \in Nat
         /\ next_system_sequence_ \in Nat /\ cfg \in Configs /\ bursts \in Seq(BurstRec) /\ Len(bursts) \in Nat
<1>1. cfg \in Configs /\ stack_ingress_queues_ \in [Stacks -> Seq(Tx)] /\ next_system_sequence_ \in Nat
      /\ bursts \in Seq(BurstRec) /\ stored \in [Lines -> Nat]
  BY DEF TypeInv
<1>2. ChainMeans
  BY ChainInvIs
<1> QED BY <1>1, <1>2, RouteFacts DEF ChainMeans, Queue

\* Nothing moves.
LEMMA ChainKept ==
  ASSUME TypeInv, TypeInv', ChainInv, UNCHANGED <<cfg, stack_ingress_queues_, next_system_sequence_, image, stored>>,
         Len(bursts') = Len(bursts),
         \A n \in 1 .. Len(bursts) : /\ bursts'[n].sh = bursts[n].sh /\ bursts'[n].sent = bursts[n].sent
                                     /\ bursts'[n].serial = bursts[n].serial /\ bursts'[n].want = bursts[n].want
  PROVE  ChainInv'
<1>1. PICK cs : cs = bursts'
  OBVIOUS
<1>2. ASSUME NEW l \in Lines
      PROVE  LineOk(stack_ingress_queues_[cfg.route[l].stack], cs, l, image[Cell(l)], stored[l])
  <2>1. LineOk(stack_ingress_queues_[cfg.route[l].stack], bursts, l, image[Cell(l)], stored[l]) /\ bursts \in Seq(BurstRec)
    BY ChainFacts
  <2> QED BY <1>1, <2>1, LineAlike
<1>3. \A s \in Stacks : Lined(stack_ingress_queues_[s], s, next_system_sequence_)
  BY ChainFacts
<1> QED BY <1>1, <1>2, <1>3, ChainNext

\* A request is dispatched.
LEMMA ChainDispatch ==
  ASSUME TypeInv, TypeInv', ChainInv, NEW s, NEW i, NEW c, DispatchTakes(s, i, c)
  PROVE  ChainInv'
<1>1. PICK q, t : q = stack_ingress_queues_[s] /\ t = q[i]
  OBVIOUS
<1>2. /\ s \in Stacks /\ q \in Seq(Tx) /\ i \in 1 .. Len(q) /\ t \in Tx
      /\ \A j \in 1 .. (i - 1) : q[j].line # t.line
  <2>1. /\ s \in Stacks /\ stack_ingress_queues_[s] \in Seq(Tx) /\ i \in 1 .. Len(stack_ingress_queues_[s])
        /\ stack_ingress_queues_[s][i] \in Tx
    BY DispatchFacts
  <2>2. \A j \in 1 .. (i - 1) : stack_ingress_queues_[s][j].line # stack_ingress_queues_[s][i].line
    BY DispatchFacts
  <2> QED BY <1>1, <2>1, <2>2
<1>3. image' = IF t.type = "W" THEN [image EXCEPT ![Cell(t.line)] = t.val] ELSE image
  BY <1>1 DEF DispatchTakes, ControllerAccepts
<1>4. /\ stack_ingress_queues_'[s] = RemoveAt(q, i)
      /\ \A r \in Stacks \ {s} : stack_ingress_queues_'[r] = stack_ingress_queues_[r]
  BY <1>1, DispatchMoves
<1>5. UNCHANGED <<cfg, next_system_sequence_, stored, bursts>>
  BY DEF DispatchTakes
<1>6. cfg.route[t.line].stack = s /\ t.line \in Lines
  BY <1>1, <1>2, ChainFacts DEF Lined, Tx
<1>7. image \in [{Cell(l) : l \in Lines} -> Nat]
  BY DEF TypeInv
<1>8. \A r \in Stacks : Lined(stack_ingress_queues_'[r], r, next_system_sequence_)
  <2>1. Lined(stack_ingress_queues_'[s], s, next_system_sequence_)
    BY <1>1, <1>2, <1>4, ChainFacts, LinedCut
  <2> QED BY <1>4, <2>1, ChainFacts
<1>9. ASSUME NEW l \in Lines
      PROVE  LineOk(stack_ingress_queues_'[cfg.route[l].stack], bursts, l, image'[Cell(l)], stored[l])
  <2>1. /\ LineOk(stack_ingress_queues_[cfg.route[l].stack], bursts, l, image[Cell(l)], stored[l])
        /\ cfg.route[l].stack \in Stacks /\ Cell(l) \in {Cell(k) : k \in Lines} /\ cfg \in Configs
    BY ChainFacts
  <2>2. Cell(l) = Cell(t.line) <=> l = t.line
    BY <1>6, <2>1, RouteFacts
  <2>3. image'[Cell(l)] = IF t.type = "W" /\ t.line = l THEN t.val ELSE image[Cell(l)]
    <3>1. PICK x : x = Cell(l)
      OBVIOUS
    <3>2. PICK z : z = Cell(t.line)
      OBVIOUS
    <3> QED BY <1>3, <1>7, <2>1, <2>2, <3>1, <3>2
  <2>4. CASE cfg.route[l].stack # s
    <3>1. l # t.line
      BY <1>6, <2>4
    <3> QED BY <1>4, <2>1, <2>3, <2>4, <3>1
  <2>5. CASE cfg.route[l].stack = s
    <3>1. PICK p, w : p = RemoveAt(q, i) /\ w = IF t.type = "W" /\ t.line = l THEN t.val ELSE image[Cell(l)]
      OBVIOUS
    <3>2. LineOk(q, bursts, l, image[Cell(l)], stored[l])
      BY <1>1, <2>1, <2>5
    <3>3. LineOk(p, bursts, l, w, stored[l])
      BY <1>1, <1>2, <3>1, <3>2, LineDispatch
    <3> QED BY <1>4, <2>3, <2>5, <3>1, <3>3
  <2> QED BY <2>4, <2>5
<1> QED BY <1>5, <1>8, <1>9, ChainNext

\* What numbering leaves alone.
LEMMA NumberedFacts ==
  ASSUME TypeInv, NEW t \in Tx
  PROVE  /\ Numbered(t) \in Tx /\ Numbered(t).type = t.type /\ Numbered(t).line = t.line /\ Numbered(t).val = t.val
         /\ Numbered(t).want = t.want /\ Numbered(t).qos = t.qos /\ Numbered(t).seq = next_system_sequence_
         /\ InClass(t) => InClass(Numbered(t))
<1>1. next_system_sequence_ \in Nat
  BY DEF TypeInv
<1>2. /\ Numbered(t) \in Tx /\ Numbered(t).type = t.type /\ Numbered(t).line = t.line /\ Numbered(t).val = t.val
      /\ Numbered(t).want = t.want /\ Numbered(t).qos = t.qos /\ Numbered(t).seq = next_system_sequence_
  BY <1>1 DEF Numbered, Tx
<1> QED BY <1>2 DEF InClass

\* The queues after enqueue.
LEMMA EnqueueLined ==
  ASSUME TypeInv, ChainInv, NEW t \in Tx, Enqueue(t), InClass(t)
  PROVE  /\ \A s \in Stacks : Lined(stack_ingress_queues_'[s], s, next_system_sequence_')
         /\ t.line \in Lines /\ cfg.route[t.line].stack \in Stacks
         /\ stack_ingress_queues_'[cfg.route[t.line].stack] = Append(stack_ingress_queues_[cfg.route[t.line].stack], Numbered(t))
         /\ \A s \in Stacks : s # cfg.route[t.line].stack => stack_ingress_queues_'[s] = stack_ingress_queues_[s]
<1>1. PICK u, s : u = Numbered(t) /\ s = cfg.route[t.line].stack
  OBVIOUS
<1>2. /\ u \in Tx /\ s \in Stacks /\ next_system_sequence_' = next_system_sequence_ + 1
      /\ stack_ingress_queues_' = [stack_ingress_queues_ EXCEPT ![s] = Append(@, u)]
  BY <1>1, EnqueueFacts
<1>3. u.line = t.line /\ u.seq = next_system_sequence_ /\ InClass(u) /\ t.line \in Lines
  BY <1>1, NumberedFacts DEF Tx
<1>4. stack_ingress_queues_ \in [Stacks -> Seq(Tx)] /\ next_system_sequence_ \in Nat
  BY DEF TypeInv
<1>5. stack_ingress_queues_'[s] = Append(stack_ingress_queues_[s], u)
      /\ \A r \in Stacks : r # s => stack_ingress_queues_'[r] = stack_ingress_queues_[r]
  BY <1>2, <1>4
<1>6. ASSUME NEW r \in Stacks PROVE Lined(stack_ingress_queues_'[r], r, next_system_sequence_')
  <2>1. PICK q : q = stack_ingress_queues_[r]
    OBVIOUS
  <2>2. q \in Seq(Tx) /\ Lined(q, r, next_system_sequence_)
    BY <2>1, ChainFacts
  <2>3. CASE r = s
    <3>1. Lined(Append(q, u), r, next_system_sequence_ + 1)
      BY <1>1, <1>2, <1>3, <1>4, <2>2, <2>3, LinedPut
    <3> QED BY <1>2, <1>5, <2>1, <2>3, <3>1
  <2>4. CASE r # s
    <3>1. Lined(q, r, next_system_sequence_ + 1)
      BY <1>4, <2>2, LinedMore
    <3> QED BY <1>2, <1>5, <2>1, <2>4, <3>1
  <2> QED BY <2>3, <2>4
<1> QED BY <1>1, <1>2, <1>3, <1>5, <1>6

\* A frontend or a batch run submits a transaction.
LEMMA ChainEnqueue ==
  ASSUME TypeInv, TypeInv', ChainInv, bursts = <<>>, UNCHANGED <<cfg, image, bursts>>,
         NEW t \in Tx, Enqueue(t), InClass(t), t.want = stored[t.line], stored' = Stored(t)
  PROVE  ChainInv'
<1>1. PICK u, s : u = Numbered(t) /\ s = cfg.route[t.line].stack
  OBVIOUS
<1>2. /\ \A r \in Stacks : Lined(stack_ingress_queues_'[r], r, next_system_sequence_')
      /\ t.line \in Lines /\ s \in Stacks
      /\ stack_ingress_queues_'[s] = Append(stack_ingress_queues_[s], u)
      /\ \A r \in Stacks : r # s => stack_ingress_queues_'[r] = stack_ingress_queues_[r]
  BY <1>1, EnqueueLined
<1>3. u \in Tx /\ u.type = t.type /\ u.line = t.line /\ u.val = t.val /\ u.want = t.want
  BY <1>1, NumberedFacts
<1>4. stored \in [Lines -> Nat]
  BY DEF TypeInv
<1>5. ASSUME NEW l \in Lines
      PROVE  LineOk(stack_ingress_queues_'[cfg.route[l].stack], bursts, l, image[Cell(l)], stored'[l])
  <2>1. PICK q, z, v : q = stack_ingress_queues_[cfg.route[l].stack] /\ z = stored'[l] /\ v = image[Cell(l)]
    OBVIOUS
  <2>2. LineOk(q, <<>>, l, v, stored[l]) /\ q \in Seq(Tx) /\ cfg.route[l].stack \in Stacks
    BY <2>1, ChainFacts
  <2>3. z = IF u.type = "W" /\ u.line = l THEN u.val ELSE stored[l]
    BY <1>2, <1>3, <1>4, <2>1 DEF Stored
  <2>4. CASE cfg.route[l].stack = s
    <3>1. PICK p : p = Append(q, u)
      OBVIOUS
    <3>2. u.type = "R" /\ u.line = l => u.want = stored[l]
      BY <1>3
    <3>3. LineOk(p, <<>>, l, v, z)
      BY <1>3, <2>2, <2>3, <3>1, <3>2, LineEnqueue
    <3> QED BY <1>2, <2>1, <2>4, <3>1, <3>3
  <2>5. CASE cfg.route[l].stack # s
    <3>1. z = stored[l]
      BY <1>1, <1>3, <2>3, <2>5
    <3> QED BY <1>2, <2>1, <2>2, <2>5, <3>1
  <2> QED BY <2>4, <2>5
<1> QED BY <1>2, <1>5, ChainNext

\* A step of the frontend.
LEMMA ChainFrontend ==
  ASSUME TypeInv, TypeInv', UserInv, ChainInv, FrontendStep
  PROVE  ChainInv'
<1>1. bursts = <<>> /\ bursts' = bursts /\ cfg.user # "bridge"
  BY DEF UserInv, FrontendStep
<1>2. CASE UNCHANGED <<cfg, stack_ingress_queues_, next_system_sequence_, image, stored>>
  BY <1>1, <1>2, ChainKept
<1>3. ASSUME NEW tag \in DOMAIN front, NEW k \in front[tag].left, FrontendSubmits(tag, k)
      PROVE  ChainInv'
  <2>1. PICK t : t = FrontTx(tag, k)
    OBVIOUS
  <2>2. t \in Tx /\ front[tag].sh \in cfg.shapes /\ t.line \in Range(front[tag].sh.cells) /\ t.qos = front[tag].sh.qos
        /\ t.want = stored[t.line]
    BY <2>1, FrontTxFacts
  <2>3. InClass(t)
    BY <1>1, <2>2 DEF InClass
  <2>4. /\ UNCHANGED <<cfg, image>>
        /\ next_system_sequence_' # next_system_sequence_ => stored' = Stored(t)
        /\ next_system_sequence_' = next_system_sequence_ => stored' = stored
        /\ TrySubmit(t) \/ Enqueue(t)
    BY <1>3, <2>1 DEF FrontendSubmits, FrontTx
  <2>5. /\ Enqueue(t) => next_system_sequence_' # next_system_sequence_
        /\ Enqueue(t) \/ UNCHANGED queueVars
    BY <2>2, <2>4, EnqueueFacts, TryFacts
  <2>6. CASE Enqueue(t)
    BY <1>1, <2>2, <2>3, <2>4, <2>5, <2>6, ChainEnqueue
  <2>7. CASE UNCHANGED queueVars
    <3>1. stored' = stored
      BY <2>4, <2>7
    <3> QED BY <1>2, <2>4, <2>7, <3>1
  <2> QED BY <2>5, <2>6, <2>7
<1>4. CASE \E tag \in cfg.tags : \E sh \in cfg.shapes : FrontendBegins(tag, sh)
  BY <1>2, <1>4 DEF FrontendBegins
<1>5. CASE FrontendPops
  BY <1>2, <1>5 DEF FrontendPops
<1>6. CASE FrontendPopsTransaction
  BY <1>2, <1>6 DEF FrontendPopsTransaction
<1> QED BY <1>3, <1>4, <1>5, <1>6 DEF FrontendStep

\* A burst is admitted, and its writes are stored.
LEMMA ChainAdmits ==
  ASSUME TypeInv, RoomInv, WantInv, ChainInv, Accept, NEW l \in Lines, NEW q, NEW v,
         q = stack_ingress_queues_[cfg.route[l].stack], v = image[Cell(l)]
  PROVE  LineOk(q, Admitted, l, v, stored'[l])
<1>1. LineOk(q, bursts, l, v, stored[l]) /\ stored[l] \in Nat /\ bursts \in Seq(BurstRec)
  BY ChainFacts
<1>2. CASE ~Admits
  BY <1>1, <1>2 DEF Accept, Admitted
<1>3. CASE Admits
  <2>1. PICK b, cs, sh, z : b = Burst(Head(request)) /\ cs = Admitted /\ sh = Head(request) /\ z = stored'[l]
    OBVIOUS
  <2>2. request # <<>> /\ b \in BurstRec /\ cs = Append(bursts, b)
    BY <1>3, <2>1, AdmittedFacts DEF WantInv
  <2>3. /\ sh \in cfg.shapes /\ b.serial = begun + 1 /\ b.sh = sh
        /\ b.sent = (IF sh.bad THEN Len(sh.cells) ELSE 0)
        /\ sh.type = "R" /\ ~sh.bad => \A k \in 1 .. Len(sh.cells) : b.want[k] = stored[sh.cells[k]]
    BY <2>1, <2>2, NewBurstFacts
  <2>4. sh.cells \in Seq(Lines) /\ Len(sh.cells) \in Nat /\ begun \in Nat /\ sh.bad \in BOOLEAN
    BY <2>2, <2>3, BurstFacts DEF TypeInv
  <2>5. \A k : Asks(b, k, l) => b.want[k] = stored[l]
    BY <2>3, <2>4 DEF Asks
  <2>6. Pending(b, l) <=> sh.type = "W" /\ ~sh.bad /\ l \in Range(sh.cells)
    <3>1. l \in Range(sh.cells) <=> \E k \in 1 .. Len(sh.cells) : sh.cells[k] = l
      BY <2>4 DEF Range
    <3>2. CASE sh.bad
      BY <2>3, <2>4, <3>2 DEF Pending
    <3>3. CASE ~sh.bad
      <4>1. 0 + 1 = 1 /\ b.sent = 0
        BY <2>3, <3>3
      <4> QED BY <2>3, <3>1, <3>3, <4>1 DEF Pending
    <3> QED BY <3>2, <3>3
  <2>7. z = IF Pending(b, l) THEN b.serial ELSE stored[l]
    BY <1>3, <2>1, <2>3, <2>6 DEF Accept
  <2>8. b.serial \in Nat
    BY <2>3, <2>4
  <2>9. LineOk(q, cs, l, v, z)
    BY <1>1, <2>2, <2>5, <2>7, <2>8, LineAdmit
  <2> QED BY <2>1, <2>9
<1> QED BY <1>2, <1>3

\* The bridge takes a turn.
LEMMA ChainTurn ==
  ASSUME TypeInv, TypeInv', UserInv, RoomInv, WantInv, ChainInv, BurstInv, JoinInv, BridgeTurn
  PROVE  ChainInv'
<1>1. cfg.user = "bridge" /\ UNCHANGED <<cfg, image>> /\ Accept
  BY DEF BridgeTurn, Bridge
<1>2. Admitted \in Seq(BurstRec)
  BY AdmittedFacts DEF WantInv
<1>3. \A l \in Lines : LineOk(stack_ingress_queues_[cfg.route[l].stack], Admitted, l, image[Cell(l)], stored'[l])
  BY <1>1, ChainAdmits
<1>4. \A s \in Stacks : Lined(stack_ingress_queues_[s], s, next_system_sequence_) /\ stack_ingress_queues_[s] \in Seq(Tx)
  BY ChainFacts
<1>5. CASE TurnIdle
  <2>1. bursts' = Admitted /\ UNCHANGED <<stack_ingress_queues_, next_system_sequence_>>
    BY <1>5 DEF TurnIdle
  <2> QED BY <1>1, <1>3, <1>4, <2>1, ChainNext
<1>6. ASSUME NEW n, NEW b, NEW t, TurnSubmits(n, b, t) PROVE ChainInv'
  <2>1. /\ n \in 1 .. Len(Admitted) /\ b = Admitted[n] /\ IsUnsent(b) /\ t = Child(b)
        /\ \A m \in 1 .. (n - 1) : ~IsUnsent(Admitted[m])
        /\ b \in BurstRec /\ WantOk(b) /\ t \in Tx /\ TrySubmit(t)
    BY <1>6 DEF TurnSubmits
  <2>2. \/ Enqueue(t) /\ next_system_sequence_' # next_system_sequence_
        \/ UNCHANGED queueVars /\ next_system_sequence_' = next_system_sequence_
    BY <2>1, TryFacts
  <2>3. PICK bs, cs : bs = Admitted /\ cs = bursts'
    OBVIOUS
  <2>4. CASE next_system_sequence_' = next_system_sequence_
    <3>1. cs = [bs EXCEPT ![n] = Deferred(b)] /\ UNCHANGED <<stack_ingress_queues_, next_system_sequence_>>
      BY <1>6, <2>2, <2>3, <2>4 DEF TurnSubmits
    <3>2. PICK d \in BurstRec : d = Deferred(b) /\ d.sh = b.sh /\ d.sent = b.sent /\ d.serial = b.serial /\ d.want = b.want
      BY <2>1, AdvancedFacts
    <3>3. Len(cs) = Len(bs) /\ cs[n] = d /\ \A m \in 1 .. Len(bs) : m # n => cs[m] = bs[m]
      BY <1>2, <2>1, <2>3, <3>1, <3>2, Replaced
    <3>4. \A m \in 1 .. Len(bs) : /\ cs[m].sh = bs[m].sh /\ cs[m].sent = bs[m].sent /\ cs[m].serial = bs[m].serial
                                  /\ cs[m].want = bs[m].want
      BY <2>1, <2>3, <3>2, <3>3
    <3>5. ASSUME NEW l \in Lines
          PROVE  LineOk(stack_ingress_queues_[cfg.route[l].stack], cs, l, image[Cell(l)], stored'[l])
      <4>1. PICK q, v, x : q = stack_ingress_queues_[cfg.route[l].stack] /\ v = image[Cell(l)] /\ x = stored'[l]
        OBVIOUS
      <4>2. LineOk(q, bs, l, v, x) /\ bs \in Seq(BurstRec)
        BY <1>2, <1>3, <2>3, <4>1
      <4>3. LineOk(q, cs, l, v, x)
        BY <3>3, <3>4, <4>2, LineAlike
      <4> QED BY <4>1, <4>3
    <3> QED BY <1>1, <1>4, <2>3, <3>1, <3>5, ChainNext
  <2>5. CASE next_system_sequence_' # next_system_sequence_
    <3>1. cs = [bs EXCEPT ![n] = Advanced(b)] /\ Enqueue(t)
      BY <1>6, <2>2, <2>3, <2>5 DEF TurnSubmits
    <3>2. PICK d \in BurstRec : d = Advanced(b) /\ d.sh = b.sh /\ d.sent = b.sent + 1 /\ d.serial = b.serial /\ d.want = b.want
      BY <2>1, AdvancedFacts
    <3>3. Len(cs) = Len(bs) /\ cs[n] = d /\ \A m \in 1 .. Len(bs) : m # n => cs[m] = bs[m]
      BY <1>2, <2>1, <2>3, <3>1, <3>2, Replaced
    <3>4. PICK u, s : u = Numbered(t) /\ s = cfg.route[t.line].stack
      OBVIOUS
    <3>5. /\ t.type = b.sh.type /\ t.line = b.sh.cells[b.sent + 1] /\ t.val = b.serial /\ t.qos = 0
          /\ b.sh.type = "R" /\ ~b.sh.bad => t.want = b.want[b.sent + 1]
      BY <2>1, ChildFacts
    <3>6. ~b.sh.bad
      <4>1. BridgeOk(Admitted, children, nextMem, NewBegun)
        BY <1>1, AdmitOk
      <4>2. Fits(b, children, NewBegun)
        BY <2>1, <4>1 DEF BridgeOk
      <4> QED BY <2>1, <4>2 DEF Fits
    <3>7. u \in Tx /\ u.type = t.type /\ u.line = t.line /\ u.val = t.val /\ u.want = t.want
      BY <2>1, <3>4, NumberedFacts
    <3>8. InClass(t)
      BY <1>1, <3>5 DEF InClass
    <3>9. Submits(bs, n, u, cs)
      BY <2>1, <2>3, <3>2, <3>3, <3>5, <3>6, <3>7 DEF Submits
    <3>10. /\ \A r \in Stacks : Lined(stack_ingress_queues_'[r], r, next_system_sequence_')
           /\ stack_ingress_queues_'[s] = Append(stack_ingress_queues_[s], u)
           /\ \A r \in Stacks : r # s => stack_ingress_queues_'[r] = stack_ingress_queues_[r]
      BY <2>1, <3>1, <3>4, <3>8, EnqueueLined
    <3>11. ASSUME NEW l \in Lines
           PROVE  LineOk(stack_ingress_queues_'[cfg.route[l].stack], cs, l, image[Cell(l)], stored'[l])
      <4>1. PICK q, p, v, x : /\ q = stack_ingress_queues_[cfg.route[l].stack] /\ v = image[Cell(l)] /\ x = stored'[l]
                              /\ p = stack_ingress_queues_'[cfg.route[l].stack]
        OBVIOUS
      <4>2. cfg.route[l].stack \in Stacks
        BY ChainFacts
      <4>3. LineOk(q, bs, l, v, x) /\ bs \in Seq(BurstRec) /\ q \in Seq(Tx)
        BY <1>2, <1>3, <1>4, <2>3, <4>1, <4>2
      <4>4. p = Append(q, u) \/ (p = q /\ u.line # l)
        <5>1. CASE cfg.route[l].stack = s
          BY <3>10, <4>1, <5>1
        <5>2. CASE cfg.route[l].stack # s
          BY <3>4, <3>7, <3>10, <4>1, <4>2, <5>2
        <5> QED BY <5>1, <5>2
      <4>5. LineOk(p, cs, l, v, x)
        BY <3>9, <4>3, <4>4, LineSubmit
      <4> QED BY <4>1, <4>5
    <3> QED BY <1>1, <2>3, <3>10, <3>11, ChainNext
  <2> QED BY <2>4, <2>5
<1> QED BY <1>5, <1>6, TurnFacts DEF WantInv

\* The end of a turn.
LEMMA ChainReturns ==
  ASSUME TypeInv, TypeInv', ChainInv, BridgeReturns
  PROVE  ChainInv'
<1>1. UNCHANGED <<cfg, stack_ingress_queues_, next_system_sequence_, image, stored>>
  BY DEF BridgeReturns
<1>2. bursts \in Seq(BurstRec) /\ Len(bursts) \in Nat
  BY ReturnsFacts
<1>3. CASE ReturnsNothing
  BY <1>1, <1>3, ChainKept DEF ReturnsNothing
<1>4. CASE HoldsBurst
  <2>1. bursts # <<>> /\ bursts' = [bursts EXCEPT ![1] = Older(bursts[1])]
    BY <1>4 DEF HoldsBurst
  <2>2. 1 \in 1 .. Len(bursts) /\ bursts[1] \in BurstRec /\ Older(bursts[1]) \in BurstRec
    BY <2>1, ReturnsFacts
  <2>3. PICK b, d : b = bursts[1] /\ d = Older(b)
    OBVIOUS
  <2>4. d.sh = b.sh /\ d.sent = b.sent /\ d.serial = b.serial /\ d.want = b.want
    BY <2>2, <2>3 DEF Older, BurstRec
  <2>5. Len(bursts') = Len(bursts) /\ bursts'[1] = d /\ \A m \in 1 .. Len(bursts) : m # 1 => bursts'[m] = bursts[m]
    BY <1>2, <2>1, <2>2, <2>3, Replaced
  <2> QED BY <1>1, <2>3, <2>4, <2>5, ChainKept
<1>5. CASE ReturnsBurst
  <2>1. bursts # <<>> /\ BurstComplete(Head(bursts)) /\ bursts' = Tail(bursts)
    BY <1>5 DEF ReturnsBurst
  <2>2. 1 \in 1 .. Len(bursts) /\ bursts[1] \in BurstRec /\ Head(bursts) = bursts[1]
    BY <2>1, ReturnsFacts
  <2>3. bursts[1].sent = Len(bursts[1].sh.cells) /\ Len(bursts[1].sh.cells) \in Nat
    BY <2>1, <2>2, BurstFacts DEF BurstComplete
  <2>4. PICK bs, cs : bs = bursts /\ cs = Tail(bs)
    OBVIOUS
  <2>5. ASSUME NEW l \in Lines
        PROVE  LineOk(stack_ingress_queues_[cfg.route[l].stack], cs, l, image[Cell(l)], stored[l])
    <3>1. LineOk(stack_ingress_queues_[cfg.route[l].stack], bs, l, image[Cell(l)], stored[l])
      BY <2>4, ChainFacts
    <3> QED BY <1>2, <2>1, <2>3, <2>4, <3>1, LineReturn
  <2>6. \A s \in Stacks : Lined(stack_ingress_queues_[s], s, next_system_sequence_)
    BY ChainFacts
  <2> QED BY <1>1, <2>1, <2>4, <2>5, <2>6, ChainNext
<1> QED BY <1>3, <1>4, <1>5, ReturnsFacts

\* A child's response is taken.
LEMMA ChainPops ==
  ASSUME TypeInv, TypeInv', ChainInv, TagInv, AssemblyInv, BurstInv, BridgePops
  PROVE  ChainInv'
<1>1. /\ UNCHANGED <<cfg, stack_ingress_queues_, next_system_sequence_, image, stored>>
      /\ cfg.user = "bridge" /\ host_responses_ # <<>>
  BY DEF BridgePops, Bridge, PopHost
<1>2. PICK r : r = Head(host_responses_)
  OBVIOUS
<1>3. r.id \in DOMAIN children /\ r.parts[1].data \in Nat
  BY <1>1, <1>2, PopKnown
<1>4. PICK c : c = children[r.id]
  OBVIOUS
<1>5. /\ c.offset \in Nat \ {0} /\ Len(bursts') = Len(bursts)
      /\ \A n \in 1 .. Len(bursts) : /\ bursts[n] \in BurstRec
                                     /\ bursts'[n] = IF bursts[n].serial = c.serial THEN Joined(bursts[n], c.offset, r)
                                                     ELSE bursts[n]
  BY <1>2, <1>3, <1>4, PopsFacts
<1>6. ASSUME NEW n \in 1 .. Len(bursts)
      PROVE  /\ bursts'[n].sh = bursts[n].sh /\ bursts'[n].sent = bursts[n].sent
             /\ bursts'[n].serial = bursts[n].serial /\ bursts'[n].want = bursts[n].want
  <2>1. PICK b : b = bursts[n]
    OBVIOUS
  <2>2. LET d == Joined(b, c.offset, r) IN d.sh = b.sh /\ d.sent = b.sent /\ d.serial = b.serial /\ d.want = b.want
    BY <1>3, <1>5, <2>1, JoinedFields
  <2> QED BY <1>5, <2>1, <2>2
<1> QED BY <1>1, <1>5, <1>6, ChainKept

\* Every step keeps the order of the writes.
LEMMA ChainStep ==
  ASSUME TypeInv, TypeInv', AtInv, UserInv, RoomInv, WantInv, ChainInv, TagInv, AssemblyInv, BurstInv,
         JoinInv, Next
  PROVE  ChainInv'
<1>1. CASE FrontendStep
  BY <1>1, ChainFrontend
<1>2. CASE TickStep
  <2>1. ASSUME NEW s, NEW i, NEW c, DispatchTakes(s, i, c) PROVE ChainInv'
    BY <2>1, ChainDispatch
  <2>2. ASSUME UNCHANGED <<cfg, stack_ingress_queues_, next_system_sequence_, image, stored, bursts>> PROVE ChainInv'
    BY <2>2, ChainKept
  <2>3. CASE MovesOn
    BY <2>2, <2>3 DEF MovesOn
  <2>4. CASE \E c, i, status : ControllerAnswers(c, i, status)
    BY <2>2, <2>4 DEF ControllerAnswers
  <2>5. CASE \E c : Collects(c)
    BY <2>2, <2>5 DEF Collects
  <2> QED BY <1>2, <2>1, <2>3, <2>4, <2>5 DEF TickStep
<1>3. CASE BridgeNext
  <2>1. CASE (\E sh \in cfg.shapes : TargetSends(sh)) \/ TargetTakes
    <3>1. UNCHANGED <<cfg, stack_ingress_queues_, next_system_sequence_, image, stored, bursts>>
      BY <2>1 DEF TargetSends, TargetTakes
    <3> QED BY <3>1, ChainKept
  <2> QED BY <1>3, <2>1, ChainTurn, ChainPops, ChainReturns DEF BridgeNext
<1> QED BY <1>1, <1>2, <1>3, NextCases

-----------------------------------------------------------------------------
(* The invariant.                                                          *)

IInv ==
    /\ TypeInv /\ AtInv /\ UserInv /\ RoomInv
    /\ PlaceInv /\ TagInv /\ AssemblyInv
    /\ FrontInv /\ TakenInv
    /\ BurstInv /\ JoinInv
    /\ ChainInv
    /\ ~fatal

\* At the start every queue is empty.
LEMMA InitQueues ==
  ASSUME Init
  PROVE  /\ cfg \in Configs /\ response_delivery_mode_ = cfg.mode
         /\ \A s \in Stacks : stack_ingress_queues_[s] = <<>>
         /\ \A c \in Controllers : controllers_[c].waiting = <<>> /\ controllers_[c].responses = <<>>
         /\ Flying = {}
         /\ host_submissions_ = Empty /\ host_assemblies_ = Empty /\ front = Empty /\ children = Empty
         /\ host_responses_ = <<>> /\ transaction_responses_ = <<>> /\ bursts = <<>> /\ request = <<>> /\ response = <<>>
<1>1. /\ cfg \in Configs /\ response_delivery_mode_ = cfg.mode
      /\ host_submissions_ = Empty /\ host_assemblies_ = Empty /\ front = Empty /\ children = Empty
      /\ host_responses_ = <<>> /\ transaction_responses_ = <<>> /\ bursts = <<>> /\ request = <<>> /\ response = <<>>
  BY DEF Init, SysInit
<1>2. /\ \A s \in Stacks : stack_ingress_queues_[s] = <<>>
      /\ \A c \in Controllers : controllers_[c].waiting = <<>> /\ controllers_[c].responses = <<>>
  BY DEF Init, SysInit
<1>3. \A t : ~IsFlying(t)
  BY <1>2 DEF IsFlying
<1> QED BY <1>1, <1>2, <1>3 DEF Flying

\* The types at the start.
LEMMA InitTypes ==
  ASSUME Init
  PROVE  TypeInv /\ AtInv /\ UserInv /\ RoomInv /\ ~fatal
<1>1. /\ cfg \in Configs /\ cfg.user \in {"bridge", "frontend", "batch"} /\ cfg.mode \in Modes
      /\ cfg.user = "bridge" => cfg.mode = "HostOnly"
      /\ cfg.user = "batch" => cfg.mode = "Disabled"
      /\ cfg.ingress \in Nat /\ cfg.cresp \in Nat /\ cfg.hostcap \in Nat /\ cfg.txncap \in Nat
      /\ cfg.slots \in Nat /\ cfg.fifo \in Nat
  BY InitQueues, ConfigFacts
<1>2. Len(<<>>) = 0 /\ \A S : <<>> \in Seq(S)
  OBVIOUS
<1>3. stack_ingress_queues_ \in [Stacks -> Seq(Tx)] /\ image \in [{Cell(l) : l \in Lines} -> Nat]
  BY DEF Init, SysInit
<1>4. controllers_ \in [Controllers -> Ctl]
  <2>1. [waiting |-> <<>>, responses |-> <<>>] \in Ctl
    BY <1>2 DEF Ctl
  <2> QED BY <2>1 DEF Init, SysInit
<1>5. TypeInv
  <2>1. /\ host_submissions_ = Empty /\ host_assemblies_ = Empty /\ front = Empty /\ children = Empty
        /\ host_responses_ = <<>> /\ transaction_responses_ = <<>> /\ bursts = <<>> /\ request = <<>> /\ response = <<>>
        /\ response_delivery_mode_ = cfg.mode
    BY InitQueues
  <2>2. /\ host_submissions_ \in PFun(AnyId, Host) /\ host_assemblies_ \in PFun(AnyId, Parts)
        /\ front \in PFun(cfg.tags, Tagged) /\ children \in PFun(Nat \ {0}, ChildRec)
    BY <2>1, EmptyFacts
  <2>3. /\ host_responses_ \in Seq(HostRsp) /\ transaction_responses_ \in Seq(Resp)
        /\ request \in Seq(cfg.shapes) /\ response \in Seq(Reply) /\ bursts \in Seq(BurstRec)
    BY <1>2, <2>1
  <2>4. /\ fatal \in BOOLEAN /\ next_system_sequence_ \in Nat /\ stored \in [Lines -> Nat] /\ begun \in Nat
        /\ nextMem \in Nat \ {0}
    <3>1. fatal = FALSE /\ next_system_sequence_ = 0 /\ stored = [l \in Lines |-> 0] /\ begun = 0 /\ nextMem = 1
      BY DEF Init, SysInit
    <3>2. fatal \in BOOLEAN
      BY <3>1
    <3>3. next_system_sequence_ \in Nat /\ begun \in Nat /\ nextMem \in Nat \ {0}
      BY <3>1
    <3>4. stored \in [Lines -> Nat]
      BY <3>1
    <3> QED BY <3>2, <3>3, <3>4
  <2> QED BY <1>1, <1>3, <1>4, <2>1, <2>2, <2>3, <2>4 DEF TypeInv
<1>6. AtInv
  BY DEF Init, SysInit, AtInv, Idle
<1>7. UserInv
  BY <1>1 DEF Init, SysInit, UserInv
<1>8. RoomInv
  BY <1>1, <1>2, InitQueues DEF RoomInv
<1>9. ~fatal
  BY DEF Init, SysInit
<1> QED BY <1>5, <1>6, <1>7, <1>8, <1>9

\* The invariant holds at the start.
LEMMA InitInv == Init => IInv
<1> SUFFICES ASSUME Init PROVE IInv
  OBVIOUS
<1>1. TypeInv /\ AtInv /\ UserInv /\ RoomInv /\ ~fatal
  BY InitTypes
<1>2. /\ \A s \in Stacks : stack_ingress_queues_[s] = <<>>
      /\ \A c \in Controllers : controllers_[c].waiting = <<>> /\ controllers_[c].responses = <<>>
      /\ Flying = {}
      /\ host_submissions_ = Empty /\ host_assemblies_ = Empty /\ front = Empty /\ children = Empty
      /\ host_responses_ = <<>> /\ transaction_responses_ = <<>> /\ bursts = <<>>
  BY InitQueues
<1>3. DOMAIN Empty = {} /\ Len(<<>>) = 0
  BY EmptyFacts
<1>4. PlaceInv
  <2>1. \A x \in Spots : KeysAt(x) = <<>>
    <3>1. IKeys(<<>>) = <<>> /\ TKeys(<<>>) = <<>>
      BY DEF IKeys, TKeys
    <3> QED BY <1>2, <3>1 DEF Spots, KeysAt
  <2>2. NoDup(<<>>) /\ Elems(<<>>) = {}
    BY DEF NoDup, Elems
  <2>3. \A x \in Spots : Holding[x] = {}
    BY <2>1, <2>2 DEF Holding
  <2>4. DOMAIN Holding = Spots
    BY DEF Holding
  <2> QED BY <2>1, <2>2, <2>3, <2>4 DEF PlaceInv, Apart
<1>5. TagInv /\ AssemblyInv
  BY <1>2, <1>3 DEF TagInv, AssemblyInv
<1>6. FrontInv
  BY <1>2, <1>3 DEF FrontInv
<1>7. TakenInv
  <2>1. NoDup(TKeys(<<>>))
    BY DEF NoDup, TKeys
  <2> QED BY <1>2, <1>3, <2>1 DEF TakenInv
<1>8. BurstInv /\ JoinInv
  BY <1>2, <1>3 DEF BurstInv, JoinInv
<1>9. ChainInv
  <2>1. \A l \in Lines : image[Cell(l)] = 0 /\ stored[l] = 0 /\ Queue(l) = <<>>
    <3>1. \A l \in Lines : cfg.route[l].stack \in Stacks /\ Cell(l) \in {Cell(k) : k \in Lines}
      BY <1>1, RouteFacts DEF TypeInv
    <3>2. image = [c \in {Cell(l) : l \in Lines} |-> 0] /\ stored = [l \in Lines |-> 0]
      BY DEF Init, SysInit
    <3> QED BY <1>2, <3>1, <3>2 DEF Queue
  <2>2. ASSUME NEW l \in Lines PROVE LineOk(<<>>, <<>>, l, 0, 0)
    <3>1. Latest(QWrites(<<>>, l), Len(<<>>), 0, 0)
      BY <1>3 DEF Latest
    <3>2. Sees(<<>>, <<>>, l, 0, 1, 0)
      BY <3>1, SeesQueue
    <3>3. Len(<<>>) + 1 = 1
      BY <1>3
    <3> QED BY <1>3, <3>2, <3>3 DEF LineOk, QueueReads, BurstReads
  <2>3. \A s \in Stacks : Lined(stack_ingress_queues_[s], s, next_system_sequence_)
    BY <1>2, <1>3 DEF Lined
  <2>4. ChainMeans
    BY <1>2, <2>1, <2>2, <2>3 DEF ChainMeans
  <2> QED BY <1>1, <2>4, ChainInvIs
<1> QED BY <1>1, <1>4, <1>5, <1>6, <1>7, <1>8, <1>9 DEF IInv

\* Every step keeps the invariant.
LEMMA NextInv == IInv /\ Next => IInv'
<1> SUFFICES ASSUME IInv, Next PROVE IInv'
  OBVIOUS
<1> USE DEF IInv
<1>1. WantInv
  BY WantHolds
<1>2. BridgePops => LET r == Head(host_responses_) IN r.id \in DOMAIN children /\ r.parts[1].data \in Nat
  BY PopsSafely
<1>3. TypeInv'
  BY <1>1, <1>2, TypeStep
<1>4. AtInv' /\ UserInv'
  BY <1>1, AtStep, UserStep
<1>5. RoomInv'
  BY <1>1, <1>2, RoomStep
<1>6. Effect
  BY <1>1, Effects
<1>7. cfg' = cfg
  BY <1>6 DEF Effect, Quiet, Popped, Submitted, BatchEnqueued, DispatchTakes, ControllerAnswers, Collects
<1>8. PlaceInv'
  <2>1. CASE cfg.user = "batch"
    BY <1>7, <2>1 DEF PlaceInv
  <2> QED BY <1>6, <2>1, PlaceStep
<1>9. TagInv' /\ AssemblyInv'
  BY <1>3, <1>4, <1>6, TagStep, AssemblyStep
<1>10. FrontInv' /\ TakenInv' /\ (cfg.user # "bridge" => ~fatal')
  BY <1>1, <1>3, FrontStep
<1>11. BurstInv' /\ JoinInv' /\ (cfg.user = "bridge" => ~fatal')
  BY <1>1, <1>3, <1>4, BurstStep
<1>12. ChainInv'
  BY <1>1, <1>3, ChainStep
<1> QED BY <1>3, <1>4, <1>5, <1>8, <1>9, <1>10, <1>11, <1>12

\* So does a step that changes nothing.
LEMMA StutterInv == IInv /\ UNCHANGED vars => IInv'
<1> SUFFICES ASSUME IInv, UNCHANGED vars PROVE IInv'
  OBVIOUS
<1>1. cfg' = cfg /\ Holding' = Holding /\ Flying' = Flying /\ (\A id : Collected(id)' = Collected(id))
  <2>1. Flying' = Flying
    BY DEF Flying, IsFlying, Stacks, Controllers
  <2>2. Holding' = Holding
    BY DEF Holding, Spots, KeysAt, Stacks, Controllers
  <2>3. \A id : Collected(id)' = Collected(id)
    BY <2>2 DEF Collected
  <2> QED BY <2>1, <2>2, <2>3
<1>2. TypeInv'
  BY SameConfig DEF IInv, TypeInv
<1>3. AtInv' /\ UserInv' /\ RoomInv'
  BY DEF IInv, AtInv, UserInv, RoomInv, Stacks, Controllers
<1>4. PlaceInv'
  BY DEF IInv, PlaceInv, Holding, Spots, KeysAt, Stacks, Controllers
<1>5. TagInv'
  BY <1>1 DEF IInv, TagInv, Every
<1>6. AssemblyInv'
  BY <1>1 DEF IInv, AssemblyInv, Every, Joins, RetainsHost
<1>7. FrontInv' /\ TakenInv'
  BY <1>1 DEF IInv, FrontInv, TakenInv, OfFront, AllOf, RetainsHost
<1>8. BurstInv' /\ JoinInv'
  <2>1. \A b : BurstOk(b)' = BurstOk(b)
    BY DEF BurstOk, Kids
  <2>2. \A t : OfBurst(t)' = OfBurst(t)
    BY DEF OfBurst, ChildIn
  <2>3. BurstInv'
    BY <1>1, <2>1, <2>2 DEF IInv, BurstInv
  <2>4. JoinInv'
    BY DEF IInv, JoinInv
  <2> QED BY <2>3, <2>4
<1>9. ChainInv'
  BY <1>2, ChainKept DEF IInv
<1> QED BY <1>2, <1>3, <1>4, <1>5, <1>6, <1>7, <1>8, <1>9 DEF IInv

\* The invariant holds always: types and places, tags and what is joined under
\* them, the children of bursts, and the order of the writes to each line.
THEOREM MemSimInvariant == SafeSpec => []IInv
<1>1. IInv /\ [Next]_vars => IInv'
  BY NextInv, StutterInv
<1> QED BY InitInv, <1>1, PTL DEF SafeSpec

-----------------------------------------------------------------------------
(* What follows.                                                           *)

\* No exception and no overflow, and a burst waits for its children.
LEMMA NoExceptionHolds == IInv => NoException
<1> SUFFICES ASSUME IInv PROVE NoException
  OBVIOUS
<1>1. /\ at.name \in {"idle", "dispatch", "controllers", "collect", "pop"} /\ ~fatal
      /\ \A s \in Stacks : Len(stack_ingress_queues_[s]) <= cfg.ingress
      /\ \A c \in Controllers : cfg.cresp # 0 => Len(controllers_[c].responses) <= cfg.cresp
      /\ cfg.hostcap # 0 => Len(host_responses_) <= cfg.hostcap
      /\ cfg.txncap # 0 => Len(transaction_responses_) <= cfg.txncap
      /\ Len(request) <= cfg.fifo /\ Len(response) <= cfg.fifo /\ Len(bursts) <= cfg.slots
  BY DEF IInv, AtInv, RoomInv
<1>2. DOMAIN bursts = 1 .. Len(bursts)
  BY DEF IInv, TypeInv
<1>3. ASSUME NEW n \in 1 .. Len(bursts)
      PROVE  bursts[n].pending = Cardinality({id \in DOMAIN children : children[id].serial = bursts[n].serial})
  <2>1. CASE cfg.user = "bridge"
    <3>1. BurstOk(bursts[n])
      BY <2>1 DEF IInv, BurstInv
    <3> QED BY <3>1 DEF BurstOk, Kids
  <2>2. CASE cfg.user # "bridge"
    <3>1. bursts = <<>>
      BY <2>2 DEF IInv, UserInv
    <3> QED BY <3>1
  <2> QED BY <2>1, <2>2
<1> QED BY <1>1, <1>2, <1>3 DEF NoException, TypeOK

\* Tags are held.
LEMMA TagsHold == IInv => TagsHeldWhileInFlight
<1> SUFFICES ASSUME IInv, cfg.user # "batch"
             PROVE  /\ InFlight \subseteq DOMAIN host_submissions_
                    /\ DOMAIN host_assemblies_ \union {host_responses_[n].id : n \in DOMAIN host_responses_}
                         \subseteq DOMAIN host_submissions_
  BY DEF TagsHeldWhileInFlight
<1>1. /\ stack_ingress_queues_ \in [Stacks -> Seq(Tx)] /\ controllers_ \in [Controllers -> Ctl]
      /\ host_responses_ \in Seq(HostRsp)
  BY DEF IInv, TypeInv
<1>2. \A t \in Flying : t.id \in DOMAIN host_submissions_
  BY DEF IInv, TagInv
<1>3. ASSUME NEW s \in Stacks, NEW t \in Range(stack_ingress_queues_[s]) PROVE t \in Flying
  <2>1. PICK q \in Seq(Tx) : q = stack_ingress_queues_[s]
    BY <1>1
  <2>2. PICK i \in 1 .. Len(q) : t = q[i]
    BY <2>1 DEF Range
  <2>3. t \in Tx
    BY <2>2
  <2> QED BY <2>1, <2>2, <2>3 DEF Flying, IsFlying
<1>4. ASSUME NEW c \in Controllers, NEW w \in Range(controllers_[c].waiting) PROVE w.t \in Flying
  <2>1. PICK q \in Seq(Wait) : q = controllers_[c].waiting
    BY <1>1 DEF Ctl
  <2>2. PICK i \in 1 .. Len(q) : w = q[i]
    BY <2>1 DEF Range
  <2>3. w.t \in Tx
    BY <2>2 DEF Wait, WaitRec
  <2> QED BY <2>1, <2>2, <2>3 DEF Flying, IsFlying
<1>5. ASSUME NEW c \in Controllers, NEW r \in Range(controllers_[c].responses) PROVE r.t \in Flying
  <2>1. PICK q \in Seq(Resp) : q = controllers_[c].responses
    BY <1>1 DEF Ctl
  <2>2. PICK i \in 1 .. Len(q) : r = q[i]
    BY <2>1 DEF Range
  <2>3. r.t \in Tx
    BY <2>2 DEF Resp, RespRec
  <2> QED BY <2>1, <2>2, <2>3 DEF Flying, IsFlying
<1>6. InFlight \subseteq DOMAIN host_submissions_
  <2> SUFFICES ASSUME NEW id \in InFlight PROVE id \in DOMAIN host_submissions_
    OBVIOUS
  <2>1. PICK t : /\ id = t.id
                 /\ \/ \E s \in Stacks : t \in Range(stack_ingress_queues_[s])
                    \/ \E c \in Controllers : \E w \in Range(controllers_[c].waiting) : t = w.t
                    \/ \E c \in Controllers : \E r \in Range(controllers_[c].responses) : t = r.t
    BY DEF InFlight
  <2>2. t \in Flying
    BY <1>3, <1>4, <1>5, <2>1
  <2> QED BY <1>2, <2>1, <2>2
<1>7. DOMAIN host_responses_ = 1 .. Len(host_responses_)
  BY <1>1
<1>8. \A id \in DOMAIN host_assemblies_ : id \in DOMAIN host_submissions_
  BY DEF IInv, AssemblyInv
<1>9. \A n \in 1 .. Len(host_responses_) : host_responses_[n].id \in DOMAIN host_submissions_
  BY DEF IInv, AssemblyInv
<1> QED BY <1>6, <1>7, <1>8, <1>9

\* Host responses are whole.
LEMMA ResponsesWhole == IInv => HostResponsesWhole
<1> SUFFICES ASSUME IInv PROVE HostResponsesWhole
  OBVIOUS
<1> DEFINE Whole(parts, k) ==
             /\ parts[k].t.idx = k /\ parts[k].t.val = parts[1].t.val /\ DOMAIN parts = 1 .. parts[k].t.count
             /\ parts[k].t.type = "R" => parts[k].data = parts[k].t.want
<1>1. cfg \in Configs /\ host_responses_ \in Seq(HostRsp)
  BY DEF IInv, TypeInv
<1>2. DOMAIN host_responses_ = 1 .. Len(host_responses_)
  BY <1>1
<1>3. ASSUME NEW n \in 1 .. Len(host_responses_), NEW parts, parts = host_responses_[n].parts, NEW k \in DOMAIN parts
      PROVE  Whole(parts, k)
  <2>1. PICK id : id = host_responses_[n].id
    OBVIOUS
  <2>2. /\ id \in DOMAIN host_submissions_ /\ Joins(id, parts) /\ DOMAIN parts = Every(id)
    BY <1>3, <2>1 DEF IInv, AssemblyInv
  <2>3. \A j \in DOMAIN parts : parts[j].t.id = id /\ parts[j].t.idx = j /\ parts[j].t.count = host_submissions_[id].count
    BY <2>2 DEF Joins
  <2>4. DOMAIN parts = 1 .. parts[k].t.count
    BY <2>2, <2>3 DEF Every
  <2>5. parts[k] \in Resp
    <3>1. host_responses_[n] \in HostRsp
      BY <1>1
    <3>2. parts \in PFun(Nat \ {0}, Resp)
      BY <1>3, <3>1 DEF HostRsp, Parts
    <3> QED BY <3>2, PFunFacts
  <2>7. 1 \in DOMAIN parts
    <3>1. parts[k].t \in Tx
      BY <2>5 DEF Resp, RespRec
    <3>2. parts[k].t.count \in Nat \ {0}
      BY <3>1 DEF Tx
    <3> QED BY <2>4, <3>2
  <2>8. parts[k].t.val = parts[1].t.val
    <3>1. CASE cfg.user = "frontend"
      <4>1. OfFront(parts[k].t) /\ OfFront(parts[1].t)
        BY <1>3, <2>7, <3>1 DEF IInv, FrontInv
      <4> QED BY <2>3, <2>7, <4>1 DEF OfFront
    <3>2. CASE cfg.user = "bridge"
      <4>1. OfBurst(parts[k].t)
        BY <1>3, <3>2 DEF IInv, BurstInv
      <4>2. parts[k].t.count = 1
        BY <4>1 DEF OfBurst
      <4>3. k = 1
        BY <1>3, <2>4, <4>2
      <4> QED BY <4>3
    <3>3. CASE cfg.user = "batch"
      BY <3>3 DEF IInv, UserInv
    <3> QED BY <1>1, <3>1, <3>2, <3>3, ConfigFacts
  <2>9. parts[k].t.type = "R" => parts[k].data = parts[k].t.want
    BY <2>5 DEF Resp, RespRec
  <2> QED BY <2>3, <2>4, <2>8, <2>9
<1> HIDE DEF Whole
<1>4. ASSUME NEW n \in 1 .. Len(host_responses_), NEW parts, parts = host_responses_[n].parts
      PROVE  \A k \in DOMAIN parts : Whole(parts, k)
  BY <1>3, <1>4
<1>5. ASSUME NEW n \in 1 .. Len(host_responses_)
      PROVE  \A k \in DOMAIN host_responses_[n].parts : Whole(host_responses_[n].parts, k)
  BY <1>4
<1>6. ASSUME NEW n \in 1 .. Len(host_responses_)
      PROVE  LET parts == host_responses_[n].parts
             IN  /\ \A k \in DOMAIN parts : parts[k].t.idx = k /\ parts[k].t.val = parts[1].t.val
                                            /\ DOMAIN parts = 1 .. parts[k].t.count
                 /\ \A k \in DOMAIN parts : parts[k].t.type = "R" => parts[k].data = parts[k].t.want
  BY <1>5 DEF Whole
<1> QED BY <1>2, <1>6 DEF HostResponsesWhole

\* No exception that would end the program is raised, no queue, slot or buffer
\* overflows, and the pending count of a burst is exact.
THEOREM BackendNeverThrows == SafeSpec => []NoException
BY MemSimInvariant, NoExceptionHolds, PTL

\* A tag that try_submit accepted stays registered while anything of it is in
\* the system.
THEOREM TagsStayHeld == SafeSpec => []TagsHeldWhileInFlight
BY MemSimInvariant, TagsHold, PTL

\* Host responses join all parts of one host request, each read with what the
\* last write submitted before it stored.
THEOREM HostResponsesAreWhole == SafeSpec => []HostResponsesWhole
BY MemSimInvariant, ResponsesWhole, PTL

-----------------------------------------------------------------------------
(* The bridge is an ordered memory.                                        *)

OwedOf(bs) == [n \in DOMAIN bs |-> Owed(bs[n])]

\* What is owed for bursts.
LEMMA OwedFacts ==
  ASSUME NEW S, NEW bs \in Seq(S)
  PROVE  /\ Len(OwedOf(bs)) = Len(bs) /\ DOMAIN OwedOf(bs) = 1 .. Len(bs)
         /\ \A n \in 1 .. Len(bs) : OwedOf(bs)[n] = Owed(bs[n])
         /\ OwedOf(bs) \in Seq({Owed(b) : b \in S})
<1>1. DOMAIN bs = 1 .. Len(bs) /\ Len(bs) \in Nat /\ \A n \in 1 .. Len(bs) : bs[n] \in S
  OBVIOUS
<1>2. OwedOf(bs) = [n \in 1 .. Len(bs) |-> Owed(bs[n])]
  BY <1>1 DEF OwedOf
<1>3. OwedOf(bs) \in [1 .. Len(bs) -> {Owed(b) : b \in S}]
  BY <1>1, <1>2
<1> QED BY <1>1, <1>2, <1>3

\* The same is owed for bursts with the same serials, shapes and data.
LEMMA OwedSame ==
  ASSUME NEW S, NEW bs \in Seq(S), NEW cs \in Seq(S), Len(cs) = Len(bs),
         \A n \in 1 .. Len(bs) : cs[n].serial = bs[n].serial /\ cs[n].sh = bs[n].sh /\ cs[n].want = bs[n].want
  PROVE  OwedOf(cs) = OwedOf(bs)
<1>1. DOMAIN bs = 1 .. Len(bs) /\ DOMAIN cs = 1 .. Len(bs)
  OBVIOUS
<1>2. \A n \in 1 .. Len(bs) : Owed(cs[n]) = Owed(bs[n])
  BY DEF Owed
<1> QED BY <1>1, <1>2 DEF OwedOf

\* An admitted burst is owed last.
LEMMA OwedAppend ==
  ASSUME NEW S, NEW bs \in Seq(S), NEW b \in S
  PROVE  OwedOf(Append(bs, b)) = Append(OwedOf(bs), Owed(b))
<1>1. PICK cs : cs = Append(bs, b)
  OBVIOUS
<1>2. cs \in Seq(S) /\ Len(cs) = Len(bs) + 1 /\ cs[Len(bs) + 1] = b /\ Len(bs) \in Nat
      /\ \A n \in 1 .. Len(bs) : cs[n] = bs[n]
  BY <1>1
<1>3. PICK T, e, f : e = OwedOf(bs) /\ f = OwedOf(cs) /\ T = {Owed(d) : d \in S}
  OBVIOUS
<1>4. e \in Seq(T) /\ Len(e) = Len(bs) /\ \A n \in 1 .. Len(bs) : e[n] = Owed(bs[n])
  BY <1>3, OwedFacts
<1>5. f \in Seq(T) /\ Len(f) = Len(bs) + 1 /\ \A n \in 1 .. (Len(bs) + 1) : f[n] = Owed(cs[n])
  BY <1>2, <1>3, OwedFacts
<1>6. PICK o \in T : o = Owed(b)
  BY <1>3
<1>7. f = Append(e, o)
  <2>1. Append(e, o) \in Seq(T) /\ Len(Append(e, o)) = Len(bs) + 1 /\ Append(e, o)[Len(bs) + 1] = o
        /\ \A n \in 1 .. Len(bs) : Append(e, o)[n] = e[n]
    BY <1>4, <1>6, Appended
  <2>2. PICK g : g = Append(e, o)
    OBVIOUS
  <2>3. \A n \in 1 .. (Len(bs) + 1) : f[n] = g[n]
    <3> TAKE n \in 1 .. (Len(bs) + 1)
    <3>1. CASE n = Len(bs) + 1
      BY <1>2, <1>5, <1>6, <2>1, <2>2, <3>1
    <3>2. CASE n # Len(bs) + 1
      <4>1. n \in 1 .. Len(bs)
        BY <1>2, <3>2
      <4> QED BY <1>2, <1>4, <1>5, <2>1, <2>2, <4>1
    <3> QED BY <3>1, <3>2
  <2>4. g \in Seq(T) /\ Len(g) = Len(bs) + 1
    BY <2>1, <2>2
  <2> QED BY <1>5, <2>2, <2>3, <2>4
<1> QED BY <1>1, <1>3, <1>6, <1>7

\* The oldest burst is owed first.
LEMMA OwedTail ==
  ASSUME NEW S, NEW bs \in Seq(S), bs # <<>>
  PROVE  /\ OwedOf(bs) # <<>> /\ Head(OwedOf(bs)) = Owed(bs[1])
         /\ OwedOf(Tail(bs)) = Tail(OwedOf(bs))
<1>1. PICK cs : cs = Tail(bs)
  OBVIOUS
<1>2. cs \in Seq(S) /\ Len(cs) = Len(bs) - 1 /\ Len(bs) \in Nat \ {0} /\ \A n \in 1 .. (Len(bs) - 1) : cs[n] = bs[n + 1]
  BY <1>1, HeadTail
<1>3. PICK T, e, f : e = OwedOf(bs) /\ f = OwedOf(cs) /\ T = {Owed(d) : d \in S}
  OBVIOUS
<1>4. e \in Seq(T) /\ Len(e) = Len(bs) /\ \A n \in 1 .. Len(bs) : e[n] = Owed(bs[n])
  BY <1>3, OwedFacts
<1>5. f \in Seq(T) /\ Len(f) = Len(bs) - 1 /\ \A n \in 1 .. (Len(bs) - 1) : f[n] = Owed(cs[n])
  BY <1>2, <1>3, OwedFacts
<1>6. e # <<>>
  BY <1>2, <1>4
<1>7. PICK g : g = Tail(e)
  OBVIOUS
<1>8. g \in Seq(T) /\ Len(g) = Len(bs) - 1 /\ Head(e) = e[1] /\ \A n \in 1 .. (Len(bs) - 1) : g[n] = e[n + 1]
  BY <1>4, <1>6, <1>7, HeadTail
<1>9. \A n \in 1 .. (Len(bs) - 1) : f[n] = g[n]
  <2> TAKE n \in 1 .. (Len(bs) - 1)
  <2>1. n + 1 \in 1 .. Len(bs)
    BY <1>2
  <2> QED BY <1>2, <1>4, <1>5, <1>8, <2>1
<1>10. f = g
  BY <1>5, <1>8, <1>9
<1> QED BY <1>1, <1>2, <1>3, <1>4, <1>6, <1>7, <1>8, <1>10

\* A burst that is complete and without error has the data that it is owed.
LEMMA CompleteData ==
  ASSUME IInv, cfg.user = "bridge", bursts # <<>>, NEW b, b = bursts[1], BurstComplete(b)
  PROVE  /\ ~b.error => ~b.sh.bad
         /\ b.sh.type = "W" => b.want = <<>>
         /\ b.sh.type \in Types
         /\ ~b.error /\ b.sh.type = "R" => b.data = b.want
<1>1. 1 \in 1 .. Len(bursts) /\ b \in BurstRec
  BY DEF IInv, TypeInv
<1>2. BurstOk(b)
  BY <1>1 DEF IInv, BurstInv
<1>3. b.sh.type \in Types /\ b.data \in PFun(Nat \ {0}, Nat) /\ b.want \in Seq(Nat) /\ Len(b.sh.cells) \in Nat
  BY <1>1, BurstFacts DEF IInv
<1>4. ASSUME ~b.error, b.sh.type = "R" PROVE b.data = b.want
  <2>1. ~b.sh.bad /\ Len(b.want) = Len(b.sh.cells) /\ b.sent = Len(b.sh.cells) /\ b.pending = 0
        /\ b.pending = Cardinality(Kids(b.serial))
    BY <1>2, <1>4 DEF BurstOk, BurstComplete
  <2>2. Kids(b.serial) = {}
    <3>1. IsFiniteSet(KidsOf(children, b.serial))
      <4>1. BridgeOk(bursts, children, nextMem, begun)
        BY BurstInvIs DEF IInv, BurstMeans
      <4>2. children \in PFun(Nat \ {0}, ChildRec) /\ nextMem \in Nat
        BY DEF IInv, TypeInv
      <4> QED BY <4>1, <4>2, KidsFinite DEF BridgeOk
    <3>2. Kids(b.serial) = KidsOf(children, b.serial)
      BY DEF Kids, KidsOf
    <3> QED BY <2>1, <3>1, <3>2, FS_EmptySet
  <2>3. /\ \A k \in DOMAIN b.data : k \in 1 .. b.sent /\ b.data[k] = b.want[k]
        /\ \A k \in 1 .. b.sent : k \in DOMAIN b.data
             \/ \E id \in DOMAIN children : children[id].serial = b.serial /\ children[id].offset = k
    BY <1>1, <1>4, <2>1 DEF IInv, JoinInv
  <2>4. DOMAIN b.data = 1 .. b.sent
    BY <2>2, <2>3 DEF Kids
  <2>5. b.data = [k \in DOMAIN b.data |-> b.data[k]]
    BY <1>3, PFunFacts
  <2>6. b.want = [k \in 1 .. Len(b.want) |-> b.want[k]]
    BY <1>3
  <2>7. \A k \in 1 .. b.sent : b.data[k] = b.want[k]
    BY <2>3, <2>4
  <2> QED BY <2>1, <2>4, <2>5, <2>6, <2>7
<1> QED BY <1>2, <1>3, <1>4 DEF BurstOk

\* What OrderedMemory sees of a burst.
Asked(sh) == [write |-> sh.type = "W", bad |-> sh.bad, cells |-> sh.cells]

\* A step that OrderedMemory does not see.
LEMMA NotSeen ==
  ASSUME UNCHANGED <<cfg, response>>, NEW cs, cs = bursts', OwedOf(cs) = OwedOf(bursts),
         cfg.user = "bridge" => UNCHANGED <<stored, begun>>
  PROVE  UNCHANGED Ordered!vars
<1>1. (IF cfg.user = "bridge" THEN stored ELSE [l \in Lines |-> 0])' = IF cfg.user = "bridge" THEN stored ELSE [l \in Lines |-> 0]
  OBVIOUS
<1>2. (IF cfg.user = "bridge" THEN begun ELSE 0)' = IF cfg.user = "bridge" THEN begun ELSE 0
  OBVIOUS
<1>3. [n \in DOMAIN bursts |-> Owed(bursts[n])]' = [n \in DOMAIN bursts |-> Owed(bursts[n])]
  BY DEF OwedOf, Owed
<1> QED BY <1>1, <1>2, <1>3 DEF Ordered!vars

\* The answer to a burst is what is owed for it, or an error.
LEMMA AnswerOwed ==
  ASSUME IInv, cfg.user = "bridge", bursts # <<>>, BurstComplete(bursts[1])
  PROVE  \E fault \in BOOLEAN :
           Answer(bursts[1]) = IF fault THEN [Owed(bursts[1]) EXCEPT !.error = TRUE, !.data = <<>>] ELSE Owed(bursts[1])
<1>1. PICK b : b = bursts[1]
  OBVIOUS
<1>2. b \in BurstRec /\ TypeInv
  BY <1>1 DEF IInv, TypeInv
<1>3. /\ ~b.error => ~b.sh.bad
      /\ b.sh.type = "W" => b.want = <<>>
      /\ b.sh.type \in Types
      /\ ~b.error /\ b.sh.type = "R" => b.data = b.want
  BY <1>1, CompleteData
<1>4. b.error \in BOOLEAN /\ b.sh.bad \in BOOLEAN
  BY <1>2, BurstFacts
<1>5. CASE b.error
  BY <1>1, <1>4, <1>5 DEF Answer, Owed
<1>6. CASE ~b.error
  <2>1. b.sh.bad = FALSE /\ b.error = FALSE
    BY <1>3, <1>4, <1>6
  <2>2. (IF b.sh.type = "W" \/ b.error THEN <<>> ELSE b.data) = b.want
    BY <1>3, <1>6 DEF Types
  <2>3. Answer(b) = Owed(b)
    BY <2>1, <2>2 DEF Answer, Owed
  <2> QED BY <1>1, <2>3
<1> QED BY <1>5, <1>6

\* The oldest burst is returned.
LEMMA SeenReturn ==
  ASSUME IInv, BridgeReturns
  PROVE  Ordered!Return \/ UNCHANGED Ordered!vars
<1>1. UNCHANGED <<cfg, stored, begun>> /\ cfg.user = "bridge" /\ TypeInv
  BY DEF BridgeReturns, Bridge, IInv
<1>2. bursts \in Seq(BurstRec) /\ Len(bursts) \in Nat
  BY <1>1, ReturnsFacts
<1>3. CASE ReturnsNothing
  BY <1>1, <1>3, NotSeen DEF ReturnsNothing
<1>4. CASE HoldsBurst
  <2>1. bursts # <<>> /\ bursts' = [bursts EXCEPT ![1] = Older(bursts[1])] /\ UNCHANGED response
    BY <1>4 DEF HoldsBurst
  <2>2. 1 \in 1 .. Len(bursts) /\ bursts[1] \in BurstRec /\ Older(bursts[1]) \in BurstRec
    BY <1>1, <2>1, ReturnsFacts
  <2>3. PICK b, d, cs : b = bursts[1] /\ d = Older(b) /\ cs = bursts'
    OBVIOUS
  <2>4. d.sh = b.sh /\ d.serial = b.serial /\ d.want = b.want
    BY <2>2, <2>3 DEF Older, BurstRec
  <2>5. Len(cs) = Len(bursts) /\ cs[1] = d /\ (\A m \in 1 .. Len(bursts) : m # 1 => cs[m] = bursts[m]) /\ cs \in Seq(BurstRec)
    BY <1>2, <2>1, <2>2, <2>3, Replaced
  <2>6. \A n \in 1 .. Len(bursts) : cs[n].serial = bursts[n].serial /\ cs[n].sh = bursts[n].sh /\ cs[n].want = bursts[n].want
    BY <2>3, <2>4, <2>5
  <2>7. OwedOf(cs) = OwedOf(bursts)
    BY <1>2, <2>5, <2>6, OwedSame
  <2> QED BY <1>1, <2>1, <2>3, <2>7, NotSeen
<1>5. CASE ReturnsBurst
  <2>1. /\ bursts # <<>> /\ BurstComplete(bursts[1]) /\ bursts' = Tail(bursts)
        /\ response' = Append(response, Answer(bursts[1]))
    BY <1>1, <1>5, ReturnsFacts DEF ReturnsBurst
  <2>2. PICK e, f, cs : e = OwedOf(bursts) /\ f = OwedOf(cs) /\ cs = Tail(bursts)
    OBVIOUS
  <2>3. e # <<>> /\ Head(e) = Owed(bursts[1]) /\ f = Tail(e)
    BY <1>2, <2>1, <2>2, OwedTail
  <2>4. \E fault \in BOOLEAN : response' = Append(response, IF fault THEN [Head(e) EXCEPT !.error = TRUE, !.data = <<>>] ELSE Head(e))
    BY <1>1, <2>1, <2>3, AnswerOwed
  <2>5. [n \in DOMAIN bursts |-> Owed(bursts[n])] = e
    BY <2>2 DEF OwedOf
  <2>6. [n \in DOMAIN bursts |-> Owed(bursts[n])]' = Tail(e)
    BY <2>1, <2>2, <2>3 DEF OwedOf, Owed
  <2>7. (IF cfg.user = "bridge" THEN stored ELSE [l \in Lines |-> 0])' = IF cfg.user = "bridge" THEN stored ELSE [l \in Lines |-> 0]
    BY <1>1
  <2>8. (IF cfg.user = "bridge" THEN begun ELSE 0)' = IF cfg.user = "bridge" THEN begun ELSE 0
    BY <1>1
  <2>9. Ordered!Return
    BY <2>3, <2>4, <2>5, <2>6, <2>7, <2>8 DEF Ordered!Return
  <2> QED BY <2>9
<1> QED BY <1>1, <1>3, <1>4, <1>5, ReturnsFacts

\* The response of a child is joined unseen.
LEMMA SeenPops ==
  ASSUME IInv, BridgePops
  PROVE  UNCHANGED Ordered!vars
<1>1. /\ UNCHANGED <<cfg, stored, begun, response>> /\ cfg.user = "bridge" /\ host_responses_ # <<>>
      /\ TypeInv /\ TagInv /\ AssemblyInv /\ BurstInv
  BY DEF BridgePops, Bridge, PopHost, IInv
<1>2. PICK r : r = Head(host_responses_)
  OBVIOUS
<1>3. r.id \in DOMAIN children /\ r.parts[1].data \in Nat
  BY <1>1, <1>2, PopKnown
<1>4. PICK c, cs : c = children[r.id] /\ cs = bursts'
  OBVIOUS
<1>5. /\ c.offset \in Nat \ {0} /\ Len(cs) = Len(bursts) /\ cs \in Seq(BurstRec) /\ bursts \in Seq(BurstRec)
      /\ \A n \in 1 .. Len(bursts) : /\ bursts[n] \in BurstRec
                                     /\ cs[n] = IF bursts[n].serial = c.serial THEN Joined(bursts[n], c.offset, r)
                                                ELSE bursts[n]
  BY <1>1, <1>2, <1>3, <1>4, PopsFacts
<1>6. ASSUME NEW n \in 1 .. Len(bursts)
      PROVE  cs[n].serial = bursts[n].serial /\ cs[n].sh = bursts[n].sh /\ cs[n].want = bursts[n].want
  <2>1. PICK b : b = bursts[n]
    OBVIOUS
  <2>2. LET d == Joined(b, c.offset, r) IN d.sh = b.sh /\ d.serial = b.serial /\ d.want = b.want
    <3>1. TypeInv /\ b \in BurstRec /\ c.offset \in Nat \ {0} /\ r.parts[1].data \in Nat
      BY <1>1, <1>3, <1>5, <2>1
    <3> QED BY <3>1, JoinedFields
  <2> QED BY <1>5, <2>1, <2>2
<1>7. OwedOf(cs) = OwedOf(bursts)
  BY <1>5, <1>6, OwedSame
<1> QED BY <1>1, <1>4, <1>7, NotSeen

\* A turn submits a child, but owes what it has admitted.
LEMMA TurnOwes ==
  ASSUME TypeInv, RoomInv, WantInv, BridgeTurn, NEW cs, cs = bursts'
  PROVE  OwedOf(cs) = OwedOf(Admitted)
<1>1. PICK bs : bs = Admitted
  OBVIOUS
<1>2. bs \in Seq(BurstRec)
  BY <1>1, AdmittedFacts DEF WantInv
<1>3. CASE TurnIdle
  BY <1>3 DEF TurnIdle
<1>4. ASSUME NEW n, NEW b, NEW t, TurnSubmits(n, b, t) PROVE OwedOf(cs) = OwedOf(bs)
  <2>1. n \in 1 .. Len(bs) /\ b = bs[n] /\ b \in BurstRec
    BY <1>1, <1>4 DEF TurnSubmits
  <2>2. PICK d : (d = Advanced(b) \/ d = Deferred(b)) /\ cs = [bs EXCEPT ![n] = d]
    BY <1>1, <1>4 DEF TurnSubmits
  <2>3. d \in BurstRec /\ d.serial = b.serial /\ d.sh = b.sh /\ d.want = b.want
    BY <2>1, <2>2, AdvancedFacts
  <2>4. cs \in Seq(BurstRec) /\ Len(cs) = Len(bs) /\ cs[n] = d /\ \A m \in 1 .. Len(bs) : m # n => cs[m] = bs[m]
    BY <1>2, <2>1, <2>2, <2>3, Replaced
  <2>5. \A m \in 1 .. Len(bs) : cs[m].serial = bs[m].serial /\ cs[m].sh = bs[m].sh /\ cs[m].want = bs[m].want
    BY <2>1, <2>3, <2>4
  <2> QED BY <1>2, <2>4, <2>5, OwedSame
<1> QED BY <1>1, <1>3, <1>4, TurnFacts DEF WantInv

\* What is owed for an admitted burst, and what it stores, is what OrderedMemory
\* says.
LEMMA AdmitSeen ==
  ASSUME TypeInv, RoomInv, WantInv, Admits, Accept, NEW sh, sh = Head(request)
  PROVE  /\ sh \in cfg.shapes /\ bursts \in Seq(BurstRec)
         /\ begun' = begun + 1
         /\ OwedOf(Admitted) = Append(OwedOf(bursts),
                [serial |-> begun + 1, error |-> sh.bad,
                 data |-> IF sh.type = "W" \/ sh.bad THEN <<>> ELSE [k \in DOMAIN sh.cells |-> stored[sh.cells[k]]]])
         /\ stored' = IF ~(sh.type = "W") \/ sh.bad THEN stored
                      ELSE [l \in Lines |-> IF \E k \in DOMAIN sh.cells : sh.cells[k] = l THEN begun + 1 ELSE stored[l]]
<1>1. request # <<>> /\ bursts \in Seq(BurstRec)
  BY DEF Admits, TypeInv
<1>2. PICK b : b = Burst(sh)
  OBVIOUS
<1>3. /\ sh \in cfg.shapes /\ b \in BurstRec /\ b.serial = begun + 1 /\ b.sh = sh
      /\ b.want = IF sh.type = "W" \/ sh.bad THEN <<>> ELSE [k \in DOMAIN sh.cells |-> stored[sh.cells[k]]]
  BY <1>1, <1>2, NewBurstFacts
<1>4. Admitted = Append(bursts, b)
  BY <1>2 DEF Admitted
<1>5. OwedOf(Admitted) = Append(OwedOf(bursts), Owed(b))
  BY <1>1, <1>3, <1>4, OwedAppend
<1>6. Owed(b) = [serial |-> begun + 1, error |-> sh.bad,
                 data |-> IF sh.type = "W" \/ sh.bad THEN <<>> ELSE [k \in DOMAIN sh.cells |-> stored[sh.cells[k]]]]
  BY <1>3 DEF Owed
<1>7. \A l : l \in Range(sh.cells) <=> \E k \in DOMAIN sh.cells : sh.cells[k] = l
  BY DEF Range
<1>8. begun' = begun + 1
  BY DEF Accept
<1>9. stored' = IF sh.type = "W" /\ ~sh.bad THEN [l \in Lines |-> IF l \in Range(sh.cells) THEN begun + 1 ELSE stored[l]]
                ELSE stored
  BY DEF Accept
<1>10. [l \in Lines |-> IF l \in Range(sh.cells) THEN begun + 1 ELSE stored[l]]
         = [l \in Lines |-> IF \E k \in DOMAIN sh.cells : sh.cells[k] = l THEN begun + 1 ELSE stored[l]]
  BY <1>7
<1> QED BY <1>1, <1>3, <1>5, <1>6, <1>8, <1>9, <1>10

\* A turn accepts a burst, or nothing is seen of it.
LEMMA SeenTurn ==
  ASSUME IInv, BridgeTurn
  PROVE  Ordered!Next \/ UNCHANGED Ordered!vars
<1>1. /\ TypeInv /\ RoomInv /\ WantInv /\ cfg \in Configs
  BY WantHolds DEF IInv, TypeInv
<1>2. UNCHANGED <<cfg, response>> /\ cfg.user = "bridge" /\ Accept
  BY DEF BridgeTurn, Bridge
<1>3. PICK cs : cs = bursts'
  OBVIOUS
<1>4. OwedOf(cs) = OwedOf(Admitted)
  BY <1>1, <1>3, TurnOwes
<1>5. CASE ~Admits
  <2>1. Admitted = bursts /\ UNCHANGED <<stored, begun>>
    BY <1>2, <1>5 DEF Admitted, Accept
  <2> QED BY <1>2, <1>3, <1>4, <2>1, NotSeen
<1>6. CASE Admits
  <2>1. PICK sh, a : sh = Head(request) /\ a = Asked(sh)
    OBVIOUS
  <2>2. a.write = (sh.type = "W") /\ a.bad = sh.bad /\ a.cells = sh.cells
    BY <2>1 DEF Asked
  <2>3. /\ sh \in cfg.shapes /\ bursts \in Seq(BurstRec)
        /\ begun' = begun + 1
        /\ OwedOf(Admitted) = Append(OwedOf(bursts),
                [serial |-> begun + 1, error |-> sh.bad,
                 data |-> IF sh.type = "W" \/ sh.bad THEN <<>> ELSE [k \in DOMAIN sh.cells |-> stored[sh.cells[k]]]])
        /\ stored' = IF ~(sh.type = "W") \/ sh.bad THEN stored
                     ELSE [l \in Lines |-> IF \E k \in DOMAIN sh.cells : sh.cells[k] = l THEN begun + 1 ELSE stored[l]]
    BY <1>1, <1>2, <1>6, <2>1, AdmitSeen
  <2>4. a \in UNION {{Asked(s) : s \in c.shapes} : c \in Configs}
    BY <1>1, <2>1, <2>3
  <2>5. (IF cfg.user = "bridge" THEN stored ELSE [l \in Lines |-> 0]) = stored
        /\ (IF cfg.user = "bridge" THEN stored ELSE [l \in Lines |-> 0])' = stored'
    BY <1>2
  <2>6. (IF cfg.user = "bridge" THEN begun ELSE 0) = begun
        /\ (IF cfg.user = "bridge" THEN begun ELSE 0)' = begun'
    BY <1>2
  <2>7. [n \in DOMAIN bursts |-> Owed(bursts[n])] = OwedOf(bursts)
    BY DEF OwedOf
  <2>8. [n \in DOMAIN bursts |-> Owed(bursts[n])]' = OwedOf(cs)
    BY <1>3 DEF OwedOf, Owed
  <2>9. Ordered!Answer(a) = [serial |-> begun + 1, error |-> sh.bad,
            data |-> IF sh.type = "W" \/ sh.bad THEN <<>> ELSE [k \in DOMAIN sh.cells |-> stored[sh.cells[k]]]]
    BY <2>2, <2>5, <2>6 DEF Ordered!Answer
  <2>10. [n \in DOMAIN bursts |-> Owed(bursts[n])]'
           = Append([n \in DOMAIN bursts |-> Owed(bursts[n])], Ordered!Answer(a))
    BY <1>4, <2>3, <2>7, <2>8, <2>9
  <2>11. stored' = IF ~a.write \/ a.bad THEN stored
                   ELSE [l \in Lines |-> IF \E k \in DOMAIN a.cells : a.cells[k] = l THEN begun + 1 ELSE stored[l]]
    <3>1. /\ a.cells = sh.cells
          /\ ~a.write \/ a.bad <=> ~(sh.type = "W") \/ sh.bad
      BY <2>2
    <3>2. CASE ~(sh.type = "W") \/ sh.bad
      BY <2>3, <3>1, <3>2
    <3>3. CASE ~(~(sh.type = "W") \/ sh.bad)
      <4>1. stored' = [l \in Lines |-> IF \E k \in DOMAIN sh.cells : sh.cells[k] = l THEN begun + 1 ELSE stored[l]]
        BY <2>3, <3>3
      <4>2. stored' = [l \in Lines |-> IF \E k \in DOMAIN a.cells : a.cells[k] = l THEN begun + 1 ELSE stored[l]]
        BY <3>1, <4>1
      <4> QED BY <3>1, <3>3, <4>2
    <3> QED BY <3>2, <3>3
  <2>12. Ordered!Accept(a)
    BY <1>2, <2>3, <2>5, <2>6, <2>10, <2>11 DEF Ordered!Accept
  <2> QED BY <2>4, <2>12 DEF Ordered!Next, Asked
<1> QED BY <1>5, <1>6

\* A frontend is not seen, and of the bridge a burst that is accepted, an answer
\* and its being taken.
LEMMA SeenStep == IInv /\ IInv' /\ [Next]_vars => [Ordered!Next]_(Ordered!vars)
<1> SUFFICES ASSUME IInv, IInv', [Next]_vars PROVE Ordered!Next \/ UNCHANGED Ordered!vars
  OBVIOUS
<1>1. TypeInv /\ AtInv /\ UserInv /\ UserInv'
  BY DEF IInv
<1>2. ASSUME UNCHANGED <<cfg, bursts, response>>, cfg.user = "bridge" => UNCHANGED <<stored, begun>>
      PROVE  UNCHANGED Ordered!vars
  BY <1>2, NotSeen
<1>3. CASE UNCHANGED vars
  BY <1>2, <1>3
<1>4. CASE FrontendStep
  <2>1. cfg' = cfg /\ UNCHANGED <<bursts, response>> /\ cfg.user # "bridge"
    BY <1>4 DEF FrontendStep, FrontendBegins, FrontendSubmits, FrontendPops, FrontendPopsTransaction
  <2> QED BY <1>2, <2>1
<1>5. CASE TickStep
  <2>1. UNCHANGED <<cfg, bursts, response, stored, begun>>
    BY <1>5 DEF TickStep, MovesOn, DispatchTakes, ControllerAnswers, Collects
  <2> QED BY <1>2, <2>1
<1>6. CASE \E sh \in cfg.shapes : TargetSends(sh)
  BY <1>2, <1>6 DEF TargetSends
<1>7. CASE TargetTakes
  <2>1. UNCHANGED <<cfg, bursts, stored, begun>> /\ response # <<>> /\ response' = Tail(response)
    BY <1>7 DEF TargetTakes
  <2>2. [n \in DOMAIN bursts |-> Owed(bursts[n])]' = [n \in DOMAIN bursts |-> Owed(bursts[n])]
    BY <2>1 DEF Owed
  <2>3. Ordered!Take
    BY <2>1, <2>2 DEF Ordered!Take
  <2> QED BY <2>3 DEF Ordered!Next
<1>8. CASE BridgeReturns
  BY <1>8, SeenReturn DEF Ordered!Next
<1>9. CASE Next
  BY <1>1, <1>4, <1>5, <1>6, <1>7, <1>8, <1>9, NextCases, SeenTurn, SeenPops DEF BridgeNext
<1> QED BY <1>3, <1>9

\* At the start nothing is stored, owed or answered.
LEMMA SeenInit == Init => Ordered!Init
<1> SUFFICES ASSUME Init PROVE Ordered!Init
  OBVIOUS
<1>1. bursts = <<>> /\ response = <<>> /\ stored = [l \in Lines |-> 0] /\ begun = 0
  BY DEF Init, SysInit
<1>2. DOMAIN bursts = {}
  BY <1>1
<1>3. [n \in DOMAIN bursts |-> Owed(bursts[n])] = <<>>
  BY <1>2
<1> QED BY <1>1, <1>3 DEF Ordered!Init

\* The bridge on the memory system implements an ordered memory: whatever the
\* configuration and the order in which the controllers answer, bursts take
\* effect one after the other in the order in which they are admitted, and are
\* answered in that order, each once, with what its cells held then or an error.
THEOREM BridgeImplementsOrderedMemory == SafeSpec => Ordered!Spec
BY MemSimInvariant, SeenInit, SeenStep, PTL DEF SafeSpec, Ordered!Spec
=============================================================================
