--------------------------- MODULE SequenceLemmas ---------------------------
(***************************************************************************)
(* Facts about queues that the proofs of the components share: induction   *)
(* by a least counterexample, the effect of RemoveAt, and sums along a     *)
(* sequence.                                                               *)
(***************************************************************************)
EXTENDS Integers, Sequences, SequencesExt, SequenceTheorems,
        WellFoundedInduction, TLAPS

\* A natural divided by a positive one.
LEMMA DivModFacts ==
  ASSUME NEW m \in Nat \ {0}, NEW a \in Nat
  PROVE  a % m \in 0 .. (m - 1) /\ a \div m \in Nat /\ a = m * (a \div m) + (a % m)
  OBVIOUS

\* A set of naturals that is not empty has a least element.
LEMMA Least ==
  ASSUME NEW T, T \subseteq Nat, T # {}
  PROVE  \E m \in T : \A k \in T : m <= k
<1> DEFINE R == OpToRel(<, Nat)
<1>1. PICK x \in T : \A y \in T : ~ (<<y, x>> \in R)
  BY NatLessThanWellFounded, WFMin, Zenon
<1>2. \A y \in T : ~(y < x)
  <2> SUFFICES ASSUME NEW y \in T, y < x PROVE FALSE
    OBVIOUS
  <2>1. <<y, x>> \in R
    BY SMT DEF OpToRel
  <2> QED BY <2>1, <1>1, Zenon
<1> QED BY <1>2, SMT

\* Induction: a set that holds 0 and with n also n + 1 holds every natural.
LEMMA SetInduction ==
  ASSUME NEW P, 0 \in P, \A n \in Nat : n \in P => n + 1 \in P
  PROVE  \A n \in Nat : n \in P
<1> SUFFICES ASSUME Nat \ P # {} PROVE FALSE
  OBVIOUS
<1>1. PICK m \in Nat \ P : \A k \in Nat \ P : m <= k
  BY Least
<1>2. m # 0 /\ m - 1 \in Nat /\ m - 1 \in P
  BY <1>1
<1> QED BY <1>1, <1>2

\* The first index of a set of indices.
LEMMA FirstOf ==
  ASSUME NEW n \in Nat, NEW T, T \subseteq 1 .. n, T # {}
  PROVE  LET f == CHOOSE i \in T : \A j \in T : i <= j
         IN  f \in T /\ \A j \in T : f <= j
<1>1. T \subseteq Nat
  OBVIOUS
<1>2. \E i \in T : \A j \in T : i <= j
  BY <1>1, Least, Zenon
<1> QED BY <1>2, Zenon

\* The head and the tail of a queue.
LEMMA HeadTail ==
  ASSUME NEW S, NEW s \in Seq(S), s # <<>>
  PROVE  /\ Len(s) \in Nat \ {0} /\ Head(s) \in S /\ Head(s) = s[1]
         /\ Tail(s) \in Seq(S) /\ Len(Tail(s)) = Len(s) - 1
         /\ \A i \in 1 .. (Len(s) - 1) : Tail(s)[i] = s[i + 1]
OBVIOUS

\* A queue with one more element.
LEMMA Appended ==
  ASSUME NEW S, NEW s \in Seq(S), NEW x \in S
  PROVE  /\ Append(s, x) \in Seq(S) /\ Len(Append(s, x)) = Len(s) + 1 /\ Len(s) \in Nat
         /\ Append(s, x)[Len(s) + 1] = x
         /\ \A i \in 1 .. Len(s) : Append(s, x)[i] = s[i]
OBVIOUS

\* One queue of several gets an element.
LEMMA QueuePut ==
  ASSUME NEW D, NEW S, NEW f \in [D -> Seq(S)], NEW d \in D, NEW x \in S
  PROVE  /\ [f EXCEPT ![d] = Append(@, x)] \in [D -> Seq(S)]
         /\ [f EXCEPT ![d] = Append(@, x)][d] = Append(f[d], x)
         /\ \A e \in D \ {d} : [f EXCEPT ![d] = Append(@, x)][e] = f[e]
OBVIOUS

\* One queue of several loses its head.
LEMMA QueueTake ==
  ASSUME NEW D, NEW S, NEW f \in [D -> Seq(S)], NEW d \in D, f[d] # <<>>
  PROVE  /\ [f EXCEPT ![d] = Tail(@)] \in [D -> Seq(S)]
         /\ [f EXCEPT ![d] = Tail(@)][d] = Tail(f[d])
         /\ \A e \in D \ {d} : [f EXCEPT ![d] = Tail(@)][e] = f[e]
OBVIOUS

\* The elements that RemoveAt leaves keep their order.
LEMMA RemoveAtFacts ==
  ASSUME NEW S, NEW s \in Seq(S), NEW i \in 1 .. Len(s)
  PROVE  /\ RemoveAt(s, i) \in Seq(S)
         /\ Len(RemoveAt(s, i)) = Len(s) - 1
         /\ \A j \in 1 .. (Len(s) - 1) :
              RemoveAt(s, i)[j] = IF j < i THEN s[j] ELSE s[j + 1]
<1> DEFINE a == SubSeq(s, 1, i - 1)
           b == SubSeq(s, i + 1, Len(s))
<1>1. a \in Seq(S) /\ Len(a) = i - 1 /\ \A j \in 1 .. (i - 1) : a[j] = s[j]
  BY SubSeqProperties
<1>2. b \in Seq(S) /\ Len(b) = Len(s) - i /\ \A j \in 1 .. (Len(s) - i) : b[j] = s[i + j]
  BY SubSeqProperties
<1> HIDE DEF a, b
<1>3. /\ a \o b \in Seq(S) /\ Len(a \o b) = Len(s) - 1
      /\ \A j \in 1 .. (Len(s) - 1) :
           (a \o b)[j] = IF j <= Len(a) THEN a[j] ELSE b[j - Len(a)]
  <2>1. Len(a) + Len(b) = Len(s) - 1
    BY <1>1, <1>2
  <2>2. /\ a \o b \in Seq(S) /\ Len(a \o b) = Len(a) + Len(b)
        /\ \A j \in 1 .. (Len(a) + Len(b)) :
             (a \o b)[j] = IF j <= Len(a) THEN a[j] ELSE b[j - Len(a)]
    BY <1>1, <1>2, ConcatProperties, Zenon
  <2> QED BY <2>1, <2>2
<1>4. \A j \in 1 .. (Len(s) - 1) : (a \o b)[j] = IF j < i THEN s[j] ELSE s[j + 1]
  BY <1>1, <1>2, <1>3
<1> QED BY <1>3, <1>4 DEF RemoveAt, a, b

-----------------------------------------------------------------------------
(* Sums along a sequence of naturals.                                      *)

\* h is the sequence of the partial sums of w.
IsSums(h, w) ==
    /\ h \in [0 .. Len(w) -> Nat]
    /\ h[0] = 0
    /\ \A i \in 1 .. Len(w) : h[i] = h[i - 1] + w[i]
    /\ \A i \in 0 .. Len(w), j \in 0 .. Len(w) : i <= j => h[i] <= h[j]

Total(w, t) == \E h : IsSums(h, w) /\ h[Len(w)] = t

\* The empty sequence sums to 0.
LEMMA TotalEmpty == Total(<<>>, 0)
<1> DEFINE h == [i \in 0 .. 0 |-> 0]
<1>1. IsSums(h, <<>>) /\ h[Len(<<>>)] = 0
  BY DEF IsSums
<1> QED BY <1>1 DEF Total

\* Appending x adds x to the sum.
LEMMA TotalAppend ==
  ASSUME NEW w \in Seq(Nat), NEW t \in Nat, Total(w, t), NEW x \in Nat
  PROVE  Total(Append(w, x), t + x)
<1>1. PICK h : IsSums(h, w) /\ h[Len(w)] = t
  BY DEF Total
<1> DEFINE n == Len(w)
           v == Append(w, x)
           g == [i \in 0 .. (n + 1) |-> IF i = n + 1 THEN t + x ELSE h[i]]
<1>2. n \in Nat /\ Len(v) = n + 1 /\ v[n + 1] = x /\ \A i \in 1 .. n : v[i] = w[i]
  OBVIOUS
<1>3. /\ h \in [0 .. n -> Nat] /\ h[0] = 0 /\ h[n] = t
      /\ \A i \in 1 .. n : h[i] = h[i - 1] + w[i]
      /\ \A i \in 0 .. n, j \in 0 .. n : i <= j => h[i] <= h[j]
  BY <1>1 DEF IsSums
<1> HIDE DEF n, v
<1>4. /\ g \in [0 .. (n + 1) -> Nat] /\ g[0] = 0 /\ g[n + 1] = t + x
      /\ \A i \in 0 .. n : g[i] = h[i]
  BY <1>2, <1>3
<1>5. \A i \in 1 .. (n + 1) : g[i] = g[i - 1] + v[i]
  <2> TAKE i \in 1 .. (n + 1)
  <2>1. CASE i = n + 1
    BY <2>1, <1>2, <1>3, <1>4
  <2>2. CASE i # n + 1
    <3>1. i \in 1 .. n /\ i - 1 \in 0 .. n /\ i \in 0 .. n
      BY <2>2, <1>2
    <3> QED BY <3>1, <1>2, <1>3, <1>4
  <2> QED BY <2>1, <2>2
<1>6. \A i \in 0 .. (n + 1), j \in 0 .. (n + 1) : i <= j => g[i] <= g[j]
  <2> SUFFICES ASSUME NEW i \in 0 .. (n + 1), NEW j \in 0 .. (n + 1), i <= j
               PROVE  g[i] <= g[j]
    OBVIOUS
  <2>1. CASE j = n + 1 /\ i # n + 1
    <3>1. i \in 0 .. n /\ n \in 0 .. n
      BY <2>1, <1>2
    <3>2. g[i] = h[i] /\ h[i] <= h[n] /\ h[i] \in Nat
      BY <3>1, <1>2, <1>3, <1>4
    <3> QED BY <2>1, <3>2, <1>3, <1>4
  <2>2. CASE j # n + 1
    BY <2>2, <1>2, <1>3, <1>4
  <2>3. CASE i = n + 1
    BY <2>3, <1>2, <1>4
  <2> QED BY <2>1, <2>2, <2>3
<1> HIDE DEF g
<1>7. IsSums(g, v) /\ g[Len(v)] = t + x
  BY <1>2, <1>4, <1>5, <1>6 DEF IsSums
<1> QED BY <1>7 DEF Total, v

\* Taking the head off subtracts it, and the rest still sums to a natural.
LEMMA TotalTail ==
  ASSUME NEW w \in Seq(Nat), NEW t \in Nat, Total(w, t), w # <<>>
  PROVE  t - w[1] \in Nat /\ Total(Tail(w), t - w[1])
<1>1. PICK h : IsSums(h, w) /\ h[Len(w)] = t
  BY DEF Total
<1> DEFINE n == Len(w)
           v == Tail(w)
           g == [i \in 0 .. (n - 1) |-> h[i + 1] - w[1]]
<1>2. n \in Nat \ {0} /\ Len(v) = n - 1 /\ \A i \in 1 .. (n - 1) : v[i] = w[i + 1]
  OBVIOUS
<1>3. /\ h \in [0 .. n -> Nat] /\ h[0] = 0 /\ h[n] = t
      /\ \A i \in 1 .. n : h[i] = h[i - 1] + w[i]
      /\ \A i \in 0 .. n, j \in 0 .. n : i <= j => h[i] <= h[j]
  BY <1>1 DEF IsSums
<1>w. w[1] \in Nat
  BY <1>2
<1> HIDE DEF n, v
<1>4. h[1] = w[1] /\ \A i \in 1 .. n : w[1] <= h[i] /\ h[i] \in Nat
  <2>1. h[1] = w[1]
    BY <1>2, <1>3, <1>w
  <2> QED BY <2>1, <1>2, <1>3
<1>5. /\ g \in [0 .. (n - 1) -> Nat] /\ g[0] = 0 /\ g[n - 1] = t - w[1]
      /\ \A i \in 0 .. (n - 1) : g[i] = h[i + 1] - w[1]
  <2>1. \A i \in 0 .. (n - 1) : g[i] = h[i + 1] - w[1]
    OBVIOUS
  <2>2. \A i \in 0 .. (n - 1) : i + 1 \in 1 .. n /\ h[i + 1] - w[1] \in Nat
    BY <1>2, <1>4, <1>w
  <2>3. g \in [0 .. (n - 1) -> Nat]
    BY <2>2
  <2>4. 0 \in 0 .. (n - 1) /\ n - 1 \in 0 .. (n - 1) /\ (n - 1) + 1 = n /\ 0 + 1 = 1
    BY <1>2
  <2>5. g[0] = h[1] - w[1] /\ g[n - 1] = h[n] - w[1]
    BY <2>1, <2>4
  <2> QED BY <2>1, <2>3, <2>5, <1>3, <1>4, <1>w
<1>6. \A i \in 1 .. (n - 1) : g[i] = g[i - 1] + v[i]
  <2> TAKE i \in 1 .. (n - 1)
  <2>1. i + 1 \in 1 .. n /\ i \in 0 .. (n - 1) /\ i - 1 \in 0 .. (n - 1) /\ i \in 1 .. n
    BY <1>2
  <2>2. h[i + 1] = h[i] + w[i + 1] /\ v[i] = w[i + 1] /\ h[i] \in Nat /\ w[i + 1] \in Nat
    <3>1. w[i + 1] \in Nat
      BY <2>1 DEF n
    <3>2. h[i + 1] = h[(i + 1) - 1] + w[i + 1] /\ (i + 1) - 1 = i
      BY <2>1, <1>3
    <3> QED BY <3>1, <3>2, <2>1, <1>2, <1>3
  <2>3. g[i] = h[i + 1] - w[1] /\ g[i - 1] = h[i] - w[1]
    BY <2>1, <1>5, <1>2
  <2> QED BY <2>2, <2>3, <1>w
<1>7. \A i \in 0 .. (n - 1), j \in 0 .. (n - 1) : i <= j => g[i] <= g[j]
  <2> SUFFICES ASSUME NEW i \in 0 .. (n - 1), NEW j \in 0 .. (n - 1), i <= j
               PROVE  g[i] <= g[j]
    OBVIOUS
  <2>1. i + 1 \in 1 .. n /\ j + 1 \in 1 .. n /\ i + 1 \in 0 .. n /\ j + 1 \in 0 .. n
        /\ i + 1 <= j + 1
    BY <1>2
  <2>2. h[i + 1] <= h[j + 1] /\ h[i + 1] \in Nat /\ h[j + 1] \in Nat
    BY <2>1, <1>3
  <2>3. g[i] = h[i + 1] - w[1] /\ g[j] = h[j + 1] - w[1]
    BY <1>5
  <2> HIDE DEF g
  <2> QED BY <2>2, <2>3, <1>w
<1> HIDE DEF g
<1>8. IsSums(g, v) /\ g[Len(v)] = t - w[1] /\ t - w[1] \in Nat
  BY <1>2, <1>5, <1>6, <1>7 DEF IsSums
<1> QED BY <1>8 DEF Total, v

-----------------------------------------------------------------------------
(* Paths: a queue read from its head takes a to b by steps of R.           *)

IsPath(c, s, R) ==
    /\ c = [i \in 0 .. Len(s) |-> c[i]]
    /\ \A i \in 1 .. Len(s) : <<c[i - 1], s[i], c[i]>> \in R

Leads(s, R, a, b) == \E c : IsPath(c, s, R) /\ c[0] = a /\ c[Len(s)] = b

\* Reading nothing stays where it is.
LEMMA LeadsEmpty == \A R, a : Leads(<<>>, R, a, a)
<1> TAKE R, a
<1> DEFINE c == [i \in 0 .. 0 |-> a]
<1>1. IsPath(c, <<>>, R) /\ c[0] = a /\ c[Len(<<>>)] = a
  BY DEF IsPath
<1> QED BY <1>1 DEF Leads

\* Reading nothing leads nowhere else.
LEMMA LeadsNothing ==
  ASSUME NEW R, NEW a, NEW b, Leads(<<>>, R, a, b)
  PROVE  a = b
BY DEF Leads

\* A message put at the end adds a last step to the path.
LEMMA LeadsAppend ==
  ASSUME NEW S, NEW s \in Seq(S), NEW x \in S, NEW R, NEW a, NEW b, NEW d,
         Leads(s, R, a, b), <<b, x, d>> \in R
  PROVE  Leads(Append(s, x), R, a, d)
<1>1. PICK c : IsPath(c, s, R) /\ c[0] = a /\ c[Len(s)] = b
  BY DEF Leads
<1> DEFINE n == Len(s)
           v == Append(s, x)
           g == [i \in 0 .. (n + 1) |-> IF i = n + 1 THEN d ELSE c[i]]
<1>2. n \in Nat /\ Len(v) = n + 1 /\ v[n + 1] = x /\ \A i \in 1 .. n : v[i] = s[i]
  OBVIOUS
<1>3. \A i \in 1 .. n : <<c[i - 1], s[i], c[i]>> \in R
  BY <1>1 DEF IsPath
<1> HIDE DEF v
<1>4. g[0] = a /\ g[n + 1] = d /\ \A i \in 0 .. n : g[i] = c[i]
  BY <1>1, <1>2
<1>5. g = [i \in 0 .. (n + 1) |-> g[i]]
  OBVIOUS
<1> HIDE DEF g
<1>6. \A i \in 1 .. (n + 1) : <<g[i - 1], v[i], g[i]>> \in R
  <2> TAKE i \in 1 .. (n + 1)
  <2>1. CASE i = n + 1
    <3>1. g[i - 1] = b /\ v[i] = x /\ g[i] = d
      BY <2>1, <1>1, <1>2, <1>4
    <3> QED BY <3>1
  <2>2. CASE i # n + 1
    <3>1. i \in 1 .. n /\ i - 1 \in 0 .. n /\ i \in 0 .. n
      BY <2>2, <1>2
    <3>2. g[i - 1] = c[i - 1] /\ v[i] = s[i] /\ g[i] = c[i]
      BY <3>1, <1>2, <1>4
    <3> QED BY <3>1, <3>2, <1>3
  <2> QED BY <2>1, <2>2
<1>7. IsPath(g, v, R) /\ g[0] = a /\ g[Len(v)] = d
  BY <1>2, <1>4, <1>5, <1>6 DEF IsPath
<1> QED BY <1>7 DEF Leads, v

\* Taking the head off takes the first step of the path.
LEMMA LeadsTail ==
  ASSUME NEW S, NEW s \in Seq(S), s # <<>>, NEW R, NEW a, NEW b, Leads(s, R, a, b)
  PROVE  \E d : <<a, Head(s), d>> \in R /\ Leads(Tail(s), R, d, b)
<1>1. PICK c : IsPath(c, s, R) /\ c[0] = a /\ c[Len(s)] = b
  BY DEF Leads
<1> DEFINE n == Len(s)
           v == Tail(s)
           g == [i \in 0 .. (n - 1) |-> c[i + 1]]
<1>2. /\ n \in Nat \ {0} /\ Len(v) = n - 1 /\ Head(s) = s[1]
      /\ \A i \in 1 .. (n - 1) : v[i] = s[i + 1]
  OBVIOUS
<1>3. \A i \in 1 .. n : <<c[i - 1], s[i], c[i]>> \in R
  BY <1>1 DEF IsPath
<1> HIDE DEF v
<1>4. \A i \in 0 .. (n - 1) : g[i] = c[i + 1]
  OBVIOUS
<1>5. g = [i \in 0 .. (n - 1) |-> g[i]]
  OBVIOUS
<1> HIDE DEF g
<1>6. \A i \in 1 .. (n - 1) : <<g[i - 1], v[i], g[i]>> \in R
  <2> TAKE i \in 1 .. (n - 1)
  <2>1. i + 1 \in 1 .. n /\ i - 1 \in 0 .. (n - 1) /\ i \in 0 .. (n - 1)
        /\ (i + 1) - 1 = i /\ (i - 1) + 1 = i
    BY <1>2
  <2>2. <<c[(i + 1) - 1], s[i + 1], c[i + 1]>> \in R
    BY <2>1, <1>3, Zenon
  <2>3. g[i - 1] = c[(i - 1) + 1] /\ v[i] = s[i + 1] /\ g[i] = c[i + 1]
    BY <2>1, <1>2, <1>4
  <2> QED BY <2>1, <2>2, <2>3
<1>7. g[0] = c[1] /\ g[n - 1] = b
  <2>1. 0 \in 0 .. (n - 1) /\ n - 1 \in 0 .. (n - 1) /\ 0 + 1 = 1 /\ (n - 1) + 1 = n
    BY <1>2
  <2> QED BY <2>1, <1>1, <1>4
<1>8. IsPath(g, v, R) /\ g[0] = c[1] /\ g[Len(v)] = b
  BY <1>2, <1>5, <1>6, <1>7 DEF IsPath
<1>9. Leads(v, R, c[1], b)
  BY <1>8 DEF Leads
<1>10. <<a, Head(s), c[1]>> \in R
  <2>1. 1 \in 1 .. n /\ 1 - 1 = 0
    BY <1>2
  <2>2. <<c[1 - 1], s[1], c[1]>> \in R
    BY <2>1, <1>3, Zenon
  <2> QED BY <2>1, <2>2, <1>1, <1>2
<1> QED BY <1>9, <1>10 DEF v

\* A message put in front adds a first step to the path.
LEMMA LeadsCons ==
  ASSUME NEW S, NEW s \in Seq(S), NEW x \in S, NEW R, NEW a, NEW b, NEW d,
         <<a, x, b>> \in R, Leads(s, R, b, d)
  PROVE  Leads(<<x>> \o s, R, a, d)
<1>1. PICK c : IsPath(c, s, R) /\ c[0] = b /\ c[Len(s)] = d
  BY DEF Leads
<1> DEFINE n == Len(s)
           v == <<x>> \o s
           g == [i \in 0 .. (n + 1) |-> IF i = 0 THEN a ELSE c[i - 1]]
<1>2. n \in Nat /\ Len(v) = n + 1 /\ v[1] = x /\ \A i \in 2 .. (n + 1) : v[i] = s[i - 1]
  OBVIOUS
<1>3. \A i \in 1 .. n : <<c[i - 1], s[i], c[i]>> \in R
  BY <1>1 DEF IsPath
<1> HIDE DEF v
<1>4. g[0] = a /\ \A i \in 1 .. (n + 1) : g[i] = c[i - 1]
  BY <1>1, <1>2
<1>5. g = [i \in 0 .. (n + 1) |-> g[i]]
  OBVIOUS
<1> HIDE DEF g
<1>6. \A i \in 1 .. (n + 1) : <<g[i - 1], v[i], g[i]>> \in R
  <2> TAKE i \in 1 .. (n + 1)
  <2>1. CASE i = 1
    <3>1. i - 1 = 0 /\ 1 \in 1 .. (n + 1)
      BY <2>1, <1>2
    <3>2. g[i - 1] = a /\ v[i] = x /\ g[i] = b
      BY <2>1, <3>1, <1>1, <1>2, <1>4
    <3> QED BY <3>2
  <2>2. CASE i # 1
    <3>1. i - 1 \in 1 .. n /\ i - 1 \in 1 .. (n + 1) /\ i \in 2 .. (n + 1)
      BY <2>2, <1>2
    <3>2. g[i - 1] = c[(i - 1) - 1] /\ v[i] = s[i - 1] /\ g[i] = c[i - 1]
      BY <3>1, <1>2, <1>4
    <3> QED BY <3>1, <3>2, <1>3
  <2> QED BY <2>1, <2>2
<1>7. g[Len(v)] = d
  <2>1. n + 1 \in 1 .. (n + 1) /\ (n + 1) - 1 = n
    BY <1>2
  <2> QED BY <2>1, <1>1, <1>2, <1>4
<1>8. IsPath(g, v, R) /\ g[0] = a /\ g[Len(v)] = d
  BY <1>2, <1>4, <1>5, <1>6, <1>7 DEF IsPath
<1> QED BY <1>8 DEF Leads, v

\* Two queues read one after the other.
LEMMA LeadsConcat ==
  ASSUME NEW S, NEW s \in Seq(S), NEW t \in Seq(S), NEW R, NEW a, NEW b, NEW d,
         Leads(s, R, a, b), Leads(t, R, b, d)
  PROVE  Leads(s \o t, R, a, d)
<1>1. PICK c : IsPath(c, s, R) /\ c[0] = a /\ c[Len(s)] = b
  BY DEF Leads
<1>2. PICK e : IsPath(e, t, R) /\ e[0] = b /\ e[Len(t)] = d
  BY DEF Leads
<1> DEFINE n == Len(s)
           m == Len(t)
           v == s \o t
           g == [i \in 0 .. (n + m) |-> IF i <= n THEN c[i] ELSE e[i - n]]
<1>3. /\ n \in Nat /\ m \in Nat /\ Len(v) = n + m
      /\ \A i \in 1 .. n : v[i] = s[i]
      /\ \A i \in 1 .. (n + m) : i > n => v[i] = t[i - n]
  OBVIOUS
<1>4. \A i \in 1 .. n : <<c[i - 1], s[i], c[i]>> \in R
  BY <1>1 DEF IsPath
<1>5. \A i \in 1 .. m : <<e[i - 1], t[i], e[i]>> \in R
  BY <1>2 DEF IsPath
<1> HIDE DEF v
<1>6. \A i \in 0 .. (n + m) : g[i] = IF i <= n THEN c[i] ELSE e[i - n]
  OBVIOUS
<1>7. g = [i \in 0 .. (n + m) |-> g[i]]
  OBVIOUS
<1> HIDE DEF g, n, m
<1>8. g[n] = e[0]
  BY <1>1, <1>2, <1>3, <1>6 DEF n
<1>9. \A i \in 1 .. (n + m) : <<g[i - 1], v[i], g[i]>> \in R
  <2> TAKE i \in 1 .. (n + m)
  <2>1. CASE i <= n
    <3>1. i \in 1 .. n /\ i - 1 \in 0 .. (n + m) /\ i \in 0 .. (n + m) /\ i - 1 <= n
      BY <2>1, <1>3
    <3>2. g[i - 1] = c[i - 1] /\ g[i] = c[i] /\ v[i] = s[i]
      BY <3>1, <2>1, <1>3, <1>6
    <3> QED BY <3>1, <3>2, <1>4
  <2>2. CASE i > n
    <3>1. /\ i - n \in 1 .. m /\ i - 1 \in 0 .. (n + m) /\ i \in 0 .. (n + m) /\ ~(i <= n)
          /\ (i - 1) - n = (i - n) - 1
      BY <2>2, <1>3
    <3>2. g[i] = e[i - n] /\ v[i] = t[i - n]
      BY <3>1, <2>2, <1>3, <1>6
    <3>3. g[i - 1] = e[(i - n) - 1]
      <4>1. CASE i = n + 1
        <5>1. i - 1 = n /\ (i - n) - 1 = 0
          BY <4>1, <1>3
        <5> QED BY <5>1, <1>8
      <4>2. CASE i # n + 1
        <5>1. ~(i - 1 <= n)
          BY <2>2, <4>2, <1>3
        <5> QED BY <3>1, <5>1, <1>6
      <4> QED BY <4>1, <4>2
    <3> QED BY <3>1, <3>2, <3>3, <1>5
  <2> QED BY <2>1, <2>2, <1>3
<1>10. g[0] = a /\ g[Len(v)] = d
  <2>1. 0 \in 0 .. (n + m) /\ n + m \in 0 .. (n + m) /\ 0 <= n /\ (n + m) - n = m
    BY <1>3
  <2>2. g[0] = a
    BY <2>1, <1>1, <1>6
  <2>3. CASE m = 0
    <3>1. n + m = n
      BY <2>3, <1>3
    <3> QED BY <2>2, <2>3, <3>1, <1>2, <1>3, <1>8 DEF m
  <2>4. CASE m # 0
    <3>1. ~(n + m <= n)
      BY <2>4, <1>3
    <3>2. g[n + m] = e[m]
      BY <2>1, <3>1, <1>6
    <3> QED BY <2>2, <3>2, <1>2, <1>3 DEF m
  <2> QED BY <2>3, <2>4
<1>11. IsPath(g, v, R)
  BY <1>3, <1>7, <1>9 DEF IsPath
<1> QED BY <1>10, <1>11 DEF Leads, v

\* If every step is determined by where it starts, so is the end of a path.
LEMMA LeadsUnique ==
  ASSUME NEW S, NEW s \in Seq(S), NEW R, NEW a, NEW b, NEW d,
         \A p, x, q, r : <<p, x, q>> \in R /\ <<p, x, r>> \in R => q = r,
         Leads(s, R, a, b), Leads(s, R, a, d)
  PROVE  b = d
<1>1. PICK c : IsPath(c, s, R) /\ c[0] = a /\ c[Len(s)] = b
  BY DEF Leads
<1>2. PICK e : IsPath(e, s, R) /\ e[0] = a /\ e[Len(s)] = d
  BY DEF Leads
<1> DEFINE P == {i \in Nat : i <= Len(s) => c[i] = e[i]}
<1>3. Len(s) \in Nat
  OBVIOUS
<1>4. 0 \in P
  BY <1>1, <1>2
<1>5. ASSUME NEW i \in Nat, i \in P PROVE i + 1 \in P
  <2> SUFFICES ASSUME i + 1 <= Len(s) PROVE c[i + 1] = e[i + 1]
    OBVIOUS
  <2>1. c[i] = e[i] /\ i + 1 \in 1 .. Len(s) /\ (i + 1) - 1 = i
    BY <1>3, <1>5
  <2>2. <<c[i], s[i + 1], c[i + 1]>> \in R /\ <<e[i], s[i + 1], e[i + 1]>> \in R
    BY <1>1, <1>2, <2>1 DEF IsPath
  <2> QED BY <2>1, <2>2
<1> HIDE DEF P
<1>6. \A i \in Nat : i \in P
  BY <1>4, <1>5, SetInduction, Zenon
<1> QED BY <1>1, <1>2, <1>3, <1>6 DEF P

-----------------------------------------------------------------------------
(* Functions defined by recursion, and folds.                              *)

\* A recursion that goes up to n has a solution.
LEMMA Recursion ==
  ASSUME NEW T, NEW a \in T, NEW n \in Nat, NEW h \in [1 .. n -> [T -> T]]
  PROVE  \E f \in [0 .. n -> T] : f[0] = a /\ \A i \in 1 .. n : f[i] = h[i][f[i - 1]]
<1> DEFINE Solves(f, k) == f[0] = a /\ \A i \in 1 .. k : f[i] = h[i][f[i - 1]]
           P == {k \in Nat : k <= n => \E f \in [0 .. k -> T] : Solves(f, k)}
<1>1. 0 \in P
  <2>1. [i \in 0 .. 0 |-> a] \in [0 .. 0 -> T] /\ Solves([i \in 0 .. 0 |-> a], 0)
    OBVIOUS
  <2> QED BY <2>1
<1>2. ASSUME NEW k \in Nat, k \in P PROVE k + 1 \in P
  <2> SUFFICES ASSUME k + 1 <= n PROVE \E f \in [0 .. (k + 1) -> T] : Solves(f, k + 1)
    OBVIOUS
  <2>1. PICK f \in [0 .. k -> T] : Solves(f, k)
    BY <1>2
  <2> DEFINE g == [i \in 0 .. (k + 1) |-> IF i = k + 1 THEN h[k + 1][f[k]] ELSE f[i]]
  <2>2. f[k] \in T /\ k + 1 \in 1 .. n /\ h[k + 1][f[k]] \in T
    OBVIOUS
  <2>3. g \in [0 .. (k + 1) -> T] /\ g[k + 1] = h[k + 1][f[k]] /\ \A i \in 0 .. k : g[i] = f[i]
    BY <2>2
  <2> HIDE DEF g
  <2>4. g[0] = a
    BY <2>1, <2>3
  <2>5. ASSUME NEW i \in 1 .. (k + 1) PROVE g[i] = h[i][g[i - 1]]
    <3>1. CASE i = k + 1
      <4>1. i - 1 = k /\ k \in 0 .. k
        BY <3>1
      <4> QED BY <3>1, <4>1, <2>3
    <3>2. CASE i # k + 1
      <4>1. i \in 1 .. k /\ i \in 0 .. k /\ i - 1 \in 0 .. k
        BY <3>2
      <4> QED BY <4>1, <2>1, <2>3
    <3> QED BY <3>1, <3>2
  <2> QED BY <2>3, <2>4, <2>5
<1> HIDE DEF P
<1>3. n \in P
  BY <1>1, <1>2, SetInduction, Zenon
<1> QED BY <1>3 DEF P

\* The greatest index of a set of indices.
LEMMA MaxFacts ==
  ASSUME NEW n \in Nat, NEW s \in SUBSET (1 .. n), s # {}
  PROVE  Max(s) \in s /\ \A y \in s : Max(s) >= y
<1> DEFINE T == {z \in Nat : \E y \in s : z = n - y}
<1>1. T \subseteq Nat /\ T # {}
  <2>1. PICK y : y \in s
    OBVIOUS
  <2>2. n - y \in T
    BY <2>1
  <2> QED BY <2>2
<1>2. PICK m \in T : \A k \in T : m <= k
  BY <1>1, Least, Zenon
<1>3. PICK x \in s : m = n - x
  OBVIOUS
<1>4. ASSUME NEW y \in s PROVE x >= y
  <2>1. n - y \in T
    OBVIOUS
  <2> QED BY <2>1, <1>2, <1>3
<1> QED BY <1>4 DEF Max

IsIter(f, n, a, h) ==
    /\ f[{}] = a
    /\ \A s \in SUBSET (1 .. n) : s # {} => f[s] = h[Max(s)][f[s \ {Max(s)}]]

\* The recursion by which FoldLeft is defined has a solution; h[i] is what the
\* element at i does.
LEMMA FoldIter ==
  ASSUME NEW T, NEW a \in T, NEW n \in Nat, NEW h \in [1 .. n -> [T -> T]]
  PROVE  \E f \in [SUBSET (1 .. n) -> T] : IsIter(f, n, a, h)
<1> DEFINE Solves(f, k) ==
             /\ f[{}] = a
             /\ \A s \in SUBSET (1 .. k) : s # {} => f[s] = h[Max(s)][f[s \ {Max(s)}]]
           Has(k) == \E f \in [SUBSET (1 .. k) -> T] : Solves(f, k)
           P == {k \in Nat : k <= n => Has(k)}
<1>1. 0 \in P
  <2> DEFINE f == [s \in SUBSET (1 .. 0) |-> a]
  <2>1. f \in [SUBSET (1 .. 0) -> T] /\ f[{}] = a
    OBVIOUS
  <2>2. \A s \in SUBSET (1 .. 0) : s = {}
    OBVIOUS
  <2>3. Solves(f, 0)
    BY <2>1, <2>2
  <2> QED BY <2>1, <2>3
<1>2. ASSUME NEW k \in Nat, k \in P PROVE k + 1 \in P
  <2> SUFFICES ASSUME k + 1 <= n PROVE Has(k + 1)
    <3> HIDE DEF Has
    <3> QED OBVIOUS
  <2>a. Has(k)
    <3> HIDE DEF Has
    <3> QED BY <1>2
  <2>1. PICK f \in [SUBSET (1 .. k) -> T] : Solves(f, k)
    BY <2>a, Zenon
  <2> DEFINE g == [s \in SUBSET (1 .. (k + 1)) |->
                     IF k + 1 \in s THEN h[k + 1][f[s \ {k + 1}]] ELSE f[s]]
  <2>2. ASSUME NEW s \in SUBSET (1 .. (k + 1)) PROVE s \ {k + 1} \in SUBSET (1 .. k)
    OBVIOUS
  <2>3. ASSUME NEW s \in SUBSET (1 .. (k + 1)), k + 1 \notin s PROVE s \in SUBSET (1 .. k)
    BY <2>3
  <2>4. k + 1 \in 1 .. n /\ h[k + 1] \in [T -> T]
    OBVIOUS
  <2>5. g \in [SUBSET (1 .. (k + 1)) -> T]
    BY <2>2, <2>3, <2>4
  <2>6. \A s \in SUBSET (1 .. (k + 1)) :
          g[s] = IF k + 1 \in s THEN h[k + 1][f[s \ {k + 1}]] ELSE f[s]
    OBVIOUS
  <2> HIDE DEF g
  <2>7. g[{}] = a
    BY <2>1, <2>6
  <2>8. ASSUME NEW s \in SUBSET (1 .. (k + 1)), s # {}
        PROVE  g[s] = h[Max(s)][g[s \ {Max(s)}]]
    <3>1. Max(s) \in s /\ \A y \in s : Max(s) >= y
      <4>1. k + 1 \in Nat
        OBVIOUS
      <4> QED BY <4>1, <2>8, MaxFacts, Zenon
    <3>2. CASE k + 1 \in s
      <4>1. Max(s) = k + 1
        <5>1. Max(s) \in 1 .. (k + 1) /\ Max(s) >= k + 1
          BY <3>1, <3>2
        <5> QED BY <5>1
      <4>2. s \ {k + 1} \in SUBSET (1 .. (k + 1)) /\ k + 1 \notin s \ {k + 1}
        BY <2>2
      <4> QED BY <4>1, <4>2, <3>2, <2>6
    <3>3. CASE k + 1 \notin s
      <4>1. s \in SUBSET (1 .. k) /\ s \ {Max(s)} \in SUBSET (1 .. (k + 1))
            /\ k + 1 \notin s \ {Max(s)}
        BY <3>3, <2>3
      <4> QED BY <4>1, <3>3, <2>1, <2>6, <2>8
    <3> QED BY <3>2, <3>3
  <2> QED BY <2>5, <2>7, <2>8
<1> HIDE DEF P
<1>3. n \in P
  BY <1>1, <1>2, SetInduction, Zenon
<1>4. Has(n)
  <2> HIDE DEF Has
  <2> QED BY <1>3 DEF P
<1>5. PICK f \in [SUBSET (1 .. n) -> T] : Solves(f, n)
  BY <1>4, Zenon
<1>6. IsIter(f, n, a, h)
  BY <1>5, Zenon DEF IsIter
<1> QED BY <1>6

\* The initial parts of a sequence, as FoldLeft goes through them.
LEMMA IntervalParts ==
  ASSUME NEW n \in Nat, NEW i \in 1 .. n
  PROVE  /\ 1 .. i \in SUBSET (1 .. n) /\ 1 .. i # {} /\ Max(1 .. i) = i
         /\ (1 .. i) \ {i} = 1 .. (i - 1)
<1>1. 1 .. i \in SUBSET (1 .. n) /\ 1 .. i # {} /\ (1 .. i) \ {i} = 1 .. (i - 1) /\ i \in 1 .. i
  OBVIOUS
<1>2. Max(1 .. i) \in 1 .. i /\ \A y \in 1 .. i : Max(1 .. i) >= y
  BY <1>1, MaxFacts
<1> QED BY <1>1, <1>2

\* What holds at the start of a path and is kept by its steps holds along it.
LEMMA Along ==
  ASSUME NEW T, NEW n \in Nat, NEW c, c[0] \in T, \A i \in 1 .. n : c[i - 1] \in T => c[i] \in T
  PROVE  \A i \in 0 .. n : c[i] \in T
<1> DEFINE P == {i \in Nat : i <= n => c[i] \in T}
<1>1. 0 \in P
  OBVIOUS
<1>2. ASSUME NEW i \in Nat, i \in P PROVE i + 1 \in P
  <2> SUFFICES ASSUME i + 1 <= n PROVE c[i + 1] \in T
    OBVIOUS
  <2>1. c[i] \in T /\ i + 1 \in 1 .. n /\ (i + 1) - 1 = i
    BY <1>2
  <2> QED BY <2>1
<1> HIDE DEF P
<1>3. \A i \in Nat : i \in P
  BY <1>1, <1>2, SetInduction, Zenon
<1> QED BY <1>3 DEF P
=============================================================================
