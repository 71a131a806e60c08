--------------------------- MODULE UcieRetryProofs ---------------------------
(***************************************************************************)
(* Proofs about UcieRetry for every value of its constants: the link       *)
(* delivers exactly once and in order, loses nothing, never confuses an    *)
(* old frame with a new one across the wrap of the header byte, and        *)
(* implements the safety part of ReliableFifo.                             *)
(***************************************************************************)
EXTENDS UcieRetry, Integers, FiniteSetTheorems, TLAPS

-----------------------------------------------------------------------------
(* The inductive invariant.                                                *)

\* fdi_in holds the flits after the last one that got a sequence number.
ProducerInv ==
    /\ produced = next_seq + Len(fdi_in)
    /\ \A i \in 1 .. Len(fdi_in) : fdi_in[i] = next_seq + i - 1

\* received and fdi_out are the flits below expected_seq.
ConsumerInv ==
    /\ expected_seq = Len(received) + Len(fdi_out)
    /\ \A i \in 1 .. Len(received) : received[i] = i - 1
    /\ \A i \in 1 .. Len(fdi_out) : fdi_out[i] = Len(received) + i - 1

\* The retry buffer is a contiguous range that ends below next_seq, spans at
\* most Window numbers and contains everything not delivered.
BufferInv ==
    /\ Cardinality(Unacked) <= Window
    /\ expected_seq <= next_seq
    /\ \A s \in Unacked :
         /\ s < next_seq /\ next_seq <= s + Window /\ retry_buffer[s] = s
         /\ \A t \in s .. (next_seq - 1) : t \in Unacked
    /\ \A s \in expected_seq .. (next_seq - 1) : s \in Unacked

\* expected_seq once the delivery in progress is done.
RxTop == IF rx_busy THEN expected_seq + 1 ELSE expected_seq

\* A frame behind everything the receiver has taken: it carries its own flit
\* and the receiver is at most Window numbers ahead of it.
GoodFrame(f) == f.id = f.seq /\ f.seq < next_seq /\ RxTop <= f.seq + Window

Sending == tx_pc \in {"new", "replay"}

\* Frames leave the sender at most Window behind any earlier one.
FrameInv ==
    /\ \A i \in 1 .. Len(wire) : GoodFrame(wire[i])
    /\ \A i, j \in 1 .. Len(wire) : i < j => wire[i].seq < wire[j].seq + Window
    /\ Sending => /\ GoodFrame(sending)
                  /\ \A i \in 1 .. Len(wire) : wire[i].seq < sending.seq + Window

RxInv ==
    rx_busy => /\ rx_frame.seq = expected_seq /\ rx_frame.id = expected_seq
               /\ expected_seq < next_seq

\* Only delivered flits are acknowledged.
FeedbackInv ==
    \A i \in 1 .. Len(feedback) :
      ~feedback[i].is_nak => feedback[i].seq < expected_seq

Inv == /\ TypeOK /\ ProducerInv /\ ConsumerInv /\ BufferInv /\ FrameInv
       /\ RxInv /\ FeedbackInv /\ NoLostWakeup
-----------------------------------------------------------------------------
(* The header byte and the window.                                         *)

\* The remainder of a natural is a natural below the modulus.
LEMMA ModFacts ==
  ASSUME NEW m \in Nat \ {0}, NEW a \in Nat
  PROVE  a % m \in 0 .. (m - 1) /\ a \div m \in Nat /\ a = m * (a \div m) + (a % m)
  OBVIOUS

\* Numbers below the modulus are their own remainder.
LEMMA ModSmall ==
  ASSUME NEW m \in Nat \ {0}, NEW d \in 0 .. (m - 1)
  PROVE  d % m = d /\ (m + d) % m = d
  OBVIOUS

\* Two numbers less than m apart lie in the same block of m or in
\* neighbouring ones.
LEMMA Blocks ==
  ASSUME NEW m \in Nat \ {0}, NEW q \in Nat, NEW p \in Nat,
         NEW r \in 0 .. (m - 1), NEW t \in 0 .. (m - 1),
         m * p + t <= m * q + r, m * q + r < m * p + t + m
  PROVE  q = p \/ q = p + 1
  OBVIOUS
\* A number at or above e, less than a turn of the header byte away.
LEMMA DiffAhead ==
  ASSUME NEW s \in Nat, NEW e \in Nat, e <= s, s < e + SeqMod
  PROVE  Diff(s, e) = s - e
<1> DEFINE q == s \div SeqMod  p == e \div SeqMod
           r == s % SeqMod     t == e % SeqMod
<1>0. SeqMod \in Nat \ {0}
  BY ConstantAssumption
<1>1. /\ q \in Nat /\ r \in 0 .. (SeqMod - 1) /\ s = SeqMod * q + r
      /\ p \in Nat /\ t \in 0 .. (SeqMod - 1) /\ e = SeqMod * p + t
  BY <1>0, ModFacts
<1> HIDE DEF q, p, r, t
<1>2. q = p \/ q = p + 1
  BY <1>0, <1>1, Blocks
<1>3. r + SeqMod - t = s - e \/ r + SeqMod - t = SeqMod + (s - e)
  BY <1>0, <1>1, <1>2
<1>4. s - e \in 0 .. (SeqMod - 1)
  BY <1>0
<1>5. (r + SeqMod - t) % SeqMod = s - e
  BY <1>0, <1>3, <1>4, ModSmall
<1> QED  BY <1>5 DEF Diff, Seq8, r, t

\* A number below e, less than a turn away.
LEMMA DiffBehind ==
  ASSUME NEW s \in Nat, NEW e \in Nat, s < e, e < s + SeqMod
  PROVE  Diff(s, e) = SeqMod - (e - s)
<1> DEFINE q == s \div SeqMod  p == e \div SeqMod
           r == s % SeqMod     t == e % SeqMod
<1>0. SeqMod \in Nat \ {0}
  BY ConstantAssumption
<1>1. /\ q \in Nat /\ r \in 0 .. (SeqMod - 1) /\ s = SeqMod * q + r
      /\ p \in Nat /\ t \in 0 .. (SeqMod - 1) /\ e = SeqMod * p + t
  BY <1>0, ModFacts
<1> HIDE DEF q, p, r, t
<1>2. p = q \/ p = q + 1
  BY <1>0, <1>1, Blocks
<1>3. r + SeqMod - t = SeqMod - (e - s) \/ r + SeqMod - t = SeqMod + (SeqMod - (e - s))
  BY <1>0, <1>1, <1>2
<1>4. SeqMod - (e - s) \in 0 .. (SeqMod - 1)
  BY <1>0
<1>5. (r + SeqMod - t) % SeqMod = SeqMod - (e - s)
  BY <1>0, <1>3, <1>4, ModSmall
<1> QED  BY <1>5 DEF Diff, Seq8, r, t

\* Within the window, the receiver reads the header byte correctly.
LEMMA WindowLemma ==
  ASSUME NEW s \in Nat, NEW e \in Nat, e <= s + Window, s < e + Window
  PROVE  /\ Diff(s, e) = 0 <=> s = e
         /\ IsOld(Diff(s, e)) <=> s < e
<1>0. SeqMod \in Nat \ {0} /\ Window \in Nat \ {0} /\ 2 * Window <= SeqMod
  BY ConstantAssumption
<1>1. CASE e <= s
  <2>1. Diff(s, e) = s - e
    BY <1>0, <1>1, DiffAhead
  <2> QED  BY <1>0, <1>1, <2>1 DEF IsOld
<1>2. CASE s < e
  <2>1. Diff(s, e) = SeqMod - (e - s)
    BY <1>0, <1>2, DiffBehind
  <2> QED  BY <1>0, <1>2, <2>1 DEF IsOld
<1> QED  BY <1>1, <1>2
-----------------------------------------------------------------------------
(* Queues.                                                                 *)

\* The elements of a sequence after Append.
LEMMA AppendFacts ==
  ASSUME NEW S, NEW q \in Seq(S), NEW x \in S
  PROVE  /\ Append(q, x) \in Seq(S)
         /\ Len(Append(q, x)) = Len(q) + 1
         /\ \A i \in 1 .. Len(q) : Append(q, x)[i] = q[i]
         /\ Append(q, x)[Len(q) + 1] = x
  OBVIOUS

\* The elements of a sequence after Tail.
LEMMA TailFacts ==
  ASSUME NEW S, NEW q \in Seq(S), q # <<>>
  PROVE  /\ Len(q) \in Nat \ {0}
         /\ Head(q) = q[1] /\ Head(q) \in S
         /\ Tail(q) \in Seq(S)
         /\ Len(Tail(q)) = Len(q) - 1
         /\ \A i \in 1 .. (Len(q) - 1) : Tail(q)[i] = q[i + 1]
  OBVIOUS

-----------------------------------------------------------------------------
(* The invariant holds initially.                                          *)

\* The initial state: nothing sent, nothing expected but flit 0.
LEMMA InitInv == Init => Inv
<1> SUFFICES ASSUME Init PROVE Inv
  OBVIOUS
<1>1. Unacked = {} /\ IsFiniteSet(Unacked) /\ Cardinality(Unacked) = 0
  BY FS_EmptySet DEF Init, Unacked
<1>2. TypeOK
  <2>1. retry_buffer \in [Unacked -> Nat] /\ Unacked \subseteq Nat
    BY DEF Init, Unacked
  <2>2. NoFrame \in Frame
    BY DEF NoFrame, Frame
  <2>3. wake \in BOOLEAN /\ replay_active \in BOOLEAN /\ rx_busy \in BOOLEAN
    BY DEF Init
  <2>4. /\ produced \in Nat /\ next_seq \in Nat /\ replay_cursor \in Nat
        /\ replay_end \in Nat /\ errors \in 0 .. MaxErrors
        /\ expected_seq \in Nat /\ frames_since_nak \in Nat
    BY ConstantAssumption DEF Init
  <2>5. /\ fdi_in \in Seq(Nat) /\ fdi_out \in Seq(Nat) /\ received \in Seq(Nat)
        /\ wire \in Seq(Frame) /\ feedback \in Seq(FbMsg)
    BY DEF Init
  <2> QED  BY <1>1, <2>1, <2>2, <2>3, <2>4, <2>5 DEF Init, TypeOK
<1>3. BufferInv
  BY <1>1, ConstantAssumption DEF Init, BufferInv
<1>4. ProducerInv /\ ConsumerInv /\ FrameInv /\ RxInv /\ FeedbackInv /\ NoLostWakeup
  BY DEF Init, ProducerInv, ConsumerInv, FrameInv, RxInv, FeedbackInv,
         NoLostWakeup, Sending
<1> QED  BY <1>2, <1>3, <1>4 DEF Inv

-----------------------------------------------------------------------------
(* One iteration of the sender, whatever it has just put on the wire.      *)

\* A frame that may be put behind everything on the wire.
LEMMA UnackedIsFresh ==
  ASSUME Inv, NEW s \in Unacked
  PROVE  GoodFrame(BuildFlit(s, retry_buffer[s])) /\ next_seq <= s + Window
         /\ BuildFlit(s, retry_buffer[s]) \in Frame
  BY ConstantAssumption
     DEF Inv, TypeOK, BufferInv, GoodFrame, BuildFlit, RxTop, RxInv, Frame

\* A free slot keeps the buffer's span below the window.
LEMMA FreeSlot ==
  ASSUME Inv, Cardinality(Unacked) < Window, NEW s \in Unacked
  PROVE  next_seq + 1 <= s + Window
<1>1. s \in Nat /\ next_seq \in Nat /\ s < next_seq /\ IsFiniteSet(Unacked)
      /\ (s .. (next_seq - 1)) \subseteq Unacked
  BY DEF Inv, TypeOK, BufferInv
<1>2. Cardinality(s .. (next_seq - 1)) <= Cardinality(Unacked)
  BY <1>1, FS_Subset
<1>3. Cardinality(s .. (next_seq - 1)) = next_seq - s
  <2>1. s \in Int /\ next_seq - 1 \in Int /\ ~(s > next_seq - 1)
    BY <1>1
  <2>2. Cardinality(s .. (next_seq - 1)) = (next_seq - 1) - s + 1
    BY <2>1, FS_Interval
  <2> QED  BY <1>1, <2>2
<1>4. Cardinality(Unacked) \in Nat
  BY <1>1, FS_CardinalityType
<1> QED  BY <1>1, <1>2, <1>3, <1>4, ConstantAssumption

\* One iteration of the sender's loop: the next frame is an unacknowledged
\* flit, and a new flit takes the next sequence number.
LEMMA ResumeInv ==
  ASSUME Inv, NEW active \in BOOLEAN, NEW cursor \in Nat, NEW end \in Nat,
         Resume(active, cursor, end),
         UNCHANGED <<produced, consumerVars, feedback, rxVars>>,
         wire' \in Seq(Frame), errors' \in 0 .. MaxErrors,
         \A i \in 1 .. Len(wire') : GoodFrame(wire'[i]),
         \A i, j \in 1 .. Len(wire') :
            i < j => wire'[i].seq < wire'[j].seq + Window
  PROVE  Inv'
<1>0. /\ Window \in Nat \ {0} /\ next_seq \in Nat /\ expected_seq \in Nat
      /\ rx_busy \in BOOLEAN /\ Len(wire') \in Nat /\ RxTop \in Nat
      /\ \A i \in 1 .. Len(wire') : wire'[i] \in Frame
      /\ replay_cursor' = cursor /\ replay_end' = end /\ wake' = FALSE
      /\ RxTop' = RxTop /\ RxTop <= next_seq
  BY ConstantAssumption DEF Inv, TypeOK, BufferInv, RxInv, RxTop, Resume, rxVars
<1>1. CASE StartReplayFrame(active, cursor, end)
  <2>1. PICK s \in Unacked : sending' = BuildFlit(s, retry_buffer[s])
    BY <1>1 DEF StartReplayFrame
  <2>2. /\ UNCHANGED <<fdi_in, next_seq, retry_buffer>> /\ Unacked' = Unacked
        /\ tx_pc' = "replay" /\ replay_active' = TRUE
    BY <1>1 DEF StartReplayFrame, Unacked
  <2>3. /\ sending' \in Frame /\ GoodFrame(sending') /\ next_seq <= sending'.seq + Window
    BY <2>1, UnackedIsFresh DEF BuildFlit
  <2>4. TypeOK'
    BY <1>0, <2>2, <2>3 DEF Inv, TypeOK, consumerVars, rxVars
  <2>5. ProducerInv' /\ ConsumerInv' /\ RxInv' /\ FeedbackInv' /\ NoLostWakeup'
    BY <2>2 DEF Inv, ProducerInv, ConsumerInv, RxInv, FeedbackInv, NoLostWakeup,
                consumerVars, rxVars
  <2>6. BufferInv'
    BY <2>2 DEF Inv, BufferInv, rxVars
  <2>7. FrameInv'
    <3>1. /\ \A i \in 1 .. Len(wire') : GoodFrame(wire[i])'
          /\ GoodFrame(sending)'
      BY <1>0, <2>2, <2>3 DEF GoodFrame
    <3>2. \A i \in 1 .. Len(wire') : wire'[i].seq < sending'.seq + Window
      BY <1>0, <2>3 DEF GoodFrame, Frame
    <3> QED  BY <3>1, <3>2 DEF FrameInv
  <2> QED  BY <2>4, <2>5, <2>6, <2>7 DEF Inv
<1>2. CASE StartNewFrame(active, cursor, end)
  <2>1. /\ fdi_in # <<>> /\ Cardinality(Unacked) < Window
        /\ sending' = BuildFlit(next_seq, Head(fdi_in))
        /\ next_seq' = next_seq + 1 /\ fdi_in' = Tail(fdi_in)
        /\ tx_pc' = "new" /\ replay_active' = FALSE
    BY <1>2 DEF StartNewFrame, CanAccept
  <2>2. /\ Unacked' = Unacked \cup {next_seq}
        /\ \A s \in Unacked' : retry_buffer'[s] =
              IF s = next_seq THEN Head(fdi_in) ELSE retry_buffer[s]
        /\ retry_buffer' = [s \in Unacked' |-> retry_buffer'[s]]
    BY <1>2 DEF StartNewFrame, Unacked
  <2>3. /\ fdi_in \in Seq(Nat) /\ Head(fdi_in) = fdi_in[1] /\ Head(fdi_in) \in Nat
        /\ Len(fdi_in) \in Nat \ {0}
        /\ fdi_in' \in Seq(Nat) /\ Len(fdi_in') = Len(fdi_in) - 1
        /\ \A i \in 1 .. (Len(fdi_in) - 1) : fdi_in'[i] = fdi_in[i + 1]
    BY <2>1, TailFacts DEF Inv, TypeOK
  <2>4. Head(fdi_in) = next_seq
    BY <1>0, <2>3 DEF Inv, ProducerInv
  <2>5. Unacked \subseteq Nat /\ IsFiniteSet(Unacked) /\ next_seq \notin Unacked
    BY <1>0 DEF Inv, TypeOK, BufferInv
  <2>6. /\ IsFiniteSet(Unacked') /\ Unacked' \subseteq Nat
        /\ Cardinality(Unacked') = Cardinality(Unacked) + 1
        /\ Cardinality(Unacked) \in Nat
    BY <1>0, <2>2, <2>5, FS_AddElement, FS_CardinalityType
  <2>7. retry_buffer' \in [Unacked' -> Nat]
    <3>1. \A s \in Unacked : retry_buffer[s] \in Nat
      BY DEF Inv, TypeOK
    <3>2. \A s \in Unacked' : retry_buffer'[s] \in Nat
      BY <3>1, <2>2, <2>3
    <3> QED  BY <3>2, <2>2
  <2>8. sending' \in Frame /\ sending'.seq = next_seq /\ sending'.id = next_seq
    BY <1>0, <2>1, <2>4 DEF BuildFlit, Frame
  <2>9. TypeOK'
    <3>1. /\ produced' \in Nat /\ fdi_in' \in Seq(Nat) /\ fdi_out' \in Seq(Nat)
          /\ received' \in Seq(Nat) /\ feedback' \in Seq(FbMsg)
          /\ rx_busy' \in BOOLEAN /\ rx_frame' \in Frame /\ expected_seq' \in Nat
          /\ rx_state' \in {"NoRetry", "RetryInProgress"} /\ frames_since_nak' \in Nat
      BY <2>3 DEF Inv, TypeOK, consumerVars, rxVars
    <3>2. /\ tx_pc' = "new" /\ sending' \in Frame /\ wake' \in BOOLEAN
          /\ replay_active' \in BOOLEAN
          /\ replay_cursor' \in Nat /\ replay_end' \in Nat
      BY <1>0, <2>1, <2>8, Zenon
    <3>3. next_seq' \in Nat
      BY <1>0, <2>1
    <3> QED  BY <2>6, <2>7, <3>1, <3>2, <3>3 DEF TypeOK
  <2>10. ProducerInv'
    <3>1. /\ produced' = produced /\ produced = next_seq + Len(fdi_in)
          /\ \A i \in 1 .. Len(fdi_in) : fdi_in[i] = next_seq + i - 1
      BY DEF Inv, ProducerInv
    <3>2. ASSUME NEW i \in 1 .. Len(fdi_in')  PROVE fdi_in'[i] = next_seq' + i - 1
      <4>1. i \in 1 .. (Len(fdi_in) - 1) /\ i + 1 \in 1 .. Len(fdi_in)
        <5>1. Len(fdi_in) \in Nat /\ Len(fdi_in') = Len(fdi_in) - 1
          BY <2>3
        <5> QED  BY <5>1
      <4>2. fdi_in'[i] = fdi_in[i + 1] /\ fdi_in[i + 1] = next_seq + (i + 1) - 1
        BY <4>1, <2>3, <3>1
      <4> QED  BY <4>1, <4>2, <1>0, <2>1
    <3> QED  BY <1>0, <2>1, <2>3, <3>1, <3>2 DEF ProducerInv
  <2>11. BufferInv'
    <3>1. Cardinality(Unacked') <= Window
      BY <1>0, <2>1, <2>6
    <3>2. expected_seq' = expected_seq /\ expected_seq <= next_seq
      BY DEF Inv, BufferInv, rxVars
    <3>3. ASSUME NEW s \in Unacked'
          PROVE  /\ s < next_seq' /\ next_seq' <= s + Window /\ retry_buffer'[s] = s
                 /\ \A t \in s .. (next_seq' - 1) : t \in Unacked'
      <4>1. CASE s = next_seq
        BY <4>1, <1>0, <2>1, <2>2, <2>4
      <4>2. CASE s \in Unacked
        <5>1. next_seq + 1 <= s + Window
          BY <4>2, <2>1, FreeSlot
        <5>2. /\ s \in Nat /\ s < next_seq /\ retry_buffer[s] = s
              /\ \A t \in s .. (next_seq - 1) : t \in Unacked
          BY <4>2, <2>5 DEF Inv, BufferInv
        <5>3. \A t \in s .. (next_seq' - 1) : t = next_seq \/ t \in s .. (next_seq - 1)
          BY <1>0, <2>1, <5>2
        <5> QED  BY <5>1, <5>2, <5>3, <1>0, <2>1, <2>2, <2>5
      <4> QED  BY <4>1, <4>2, <2>2
    <3>4. ASSUME NEW s \in expected_seq' .. (next_seq' - 1)  PROVE s \in Unacked'
      <4>1. s = next_seq \/ s \in expected_seq .. (next_seq - 1)
        BY <1>0, <2>1, <3>2
      <4> QED  BY <4>1, <2>2 DEF Inv, BufferInv
    <3> QED  BY <1>0, <2>1, <3>1, <3>2, <3>3, <3>4 DEF BufferInv
  <2>12. FrameInv'
    <3>1. ASSUME NEW i \in 1 .. Len(wire')  PROVE GoodFrame(wire[i])'
      <4>1. wire'[i].seq \in Nat
        BY <1>0 DEF Frame
      <4>2. /\ wire'[i].id = wire'[i].seq /\ wire'[i].seq < next_seq
            /\ RxTop <= wire'[i].seq + Window
        BY DEF GoodFrame
      <4>3. wire'[i].seq < next_seq'
        BY <1>0, <2>1, <4>1, <4>2
      <4> QED
        BY <1>0, <4>2, <4>3 DEF GoodFrame
    <3>3. GoodFrame(sending)'
      BY <1>0, <2>1, <2>8 DEF GoodFrame, Frame
    <3>2. \A i \in 1 .. Len(wire') : wire'[i].seq < sending'.seq + Window
      BY <1>0, <2>8 DEF GoodFrame, Frame
    <3> QED  BY <3>1, <3>2, <3>3 DEF FrameInv
  <2>13. ConsumerInv' /\ FeedbackInv'
    BY DEF Inv, ConsumerInv, FeedbackInv, consumerVars, rxVars
  <2>14. RxInv'
    BY <1>0, <2>1 DEF Inv, RxInv, rxVars
  <2>15. NoLostWakeup'
    BY <2>1 DEF NoLostWakeup
  <2> QED  BY <2>9, <2>10, <2>11, <2>12, <2>13, <2>14, <2>15 DEF Inv
<1>3. CASE GoIdle(active, cursor, end)
  <2>1. /\ UNCHANGED <<fdi_in, next_seq, retry_buffer>> /\ Unacked' = Unacked
        /\ tx_pc' = "idle" /\ sending' = NoFrame /\ replay_active' = FALSE
        /\ ~CanAccept
    BY <1>3 DEF GoIdle, Unacked
  <2>2. TypeOK'
    BY <1>0, <2>1 DEF Inv, TypeOK, consumerVars, rxVars, Frame, NoFrame
  <2>3. ProducerInv' /\ ConsumerInv' /\ RxInv' /\ FeedbackInv' /\ BufferInv'
    BY <2>1 DEF Inv, ProducerInv, ConsumerInv, RxInv, FeedbackInv, BufferInv,
                consumerVars, rxVars
  <2>4. FrameInv'
    BY <1>0, <2>1 DEF FrameInv, GoodFrame, Sending
  <2>5. NoLostWakeup'
    BY <2>1 DEF NoLostWakeup, CanAccept
  <2> QED  BY <2>2, <2>3, <2>4, <2>5 DEF Inv
<1> QED  BY <1>1, <1>2, <1>3 DEF Resume
-----------------------------------------------------------------------------
(* The sender's steps.                                                     *)

\* A step that only moves the sender keeps the facts about the wire.
LEMMA WireUnchanged ==
  ASSUME Inv, UNCHANGED phyVars
  PROVE  /\ wire' \in Seq(Frame) /\ errors' \in 0 .. MaxErrors
         /\ \A i \in 1 .. Len(wire') : GoodFrame(wire'[i])
         /\ \A i, j \in 1 .. Len(wire') :
              i < j => wire'[i].seq < wire'[j].seq + Window
  BY DEF Inv, TypeOK, FrameInv, phyVars

\* Corruption changes what the CRC says, not what the frame was.
LEMMA TransmitInv ==
  ASSUME Inv, Sending, Transmit(sending)
  PROVE  /\ wire' \in Seq(Frame) /\ errors' \in 0 .. MaxErrors
         /\ \A i \in 1 .. Len(wire') : GoodFrame(wire'[i])
         /\ \A i, j \in 1 .. Len(wire') :
              i < j => wire'[i].seq < wire'[j].seq + Window
<1>1. PICK ok \in BOOLEAN :
        /\ ~ok => errors < MaxErrors
        /\ errors' = IF ok THEN errors ELSE errors + 1
        /\ wire' = Append(wire, [sending EXCEPT !.ok = ok])
  BY DEF Transmit
<1> DEFINE f == [sending EXCEPT !.ok = ok]
<1>2. f \in Frame /\ f.seq = sending.seq /\ f.id = sending.id
  BY DEF Inv, TypeOK, Frame
<1>3. /\ wire \in Seq(Frame) /\ errors \in 0 .. MaxErrors /\ Len(wire) \in Nat
      /\ \A i \in 1 .. Len(wire) : GoodFrame(wire[i])
      /\ \A i, j \in 1 .. Len(wire) : i < j => wire[i].seq < wire[j].seq + Window
      /\ \A i \in 1 .. Len(wire) : wire[i].seq < sending.seq + Window
      /\ GoodFrame(sending)
  BY DEF Inv, TypeOK, FrameInv
<1>4. GoodFrame(f)
  BY <1>2, <1>3 DEF GoodFrame
<1> HIDE DEF f
<1>5. /\ wire' \in Seq(Frame) /\ Len(wire') = Len(wire) + 1
      /\ \A i \in 1 .. Len(wire) : wire'[i] = wire[i]
      /\ wire'[Len(wire) + 1] = f
  BY <1>1, <1>2, <1>3, AppendFacts DEF f
<1>6. errors' \in 0 .. MaxErrors
  BY <1>1, <1>3, ConstantAssumption
<1>7. ASSUME NEW i \in 1 .. Len(wire')  PROVE GoodFrame(wire'[i])
  <2>1. i \in 1 .. Len(wire) \/ i = Len(wire) + 1
    BY <1>3, <1>5
  <2> QED  BY <2>1, <1>3, <1>4, <1>5
<1>8. ASSUME NEW i \in 1 .. Len(wire'), NEW j \in 1 .. Len(wire'), i < j
      PROVE  wire'[i].seq < wire'[j].seq + Window
  <2>1. i \in 1 .. Len(wire) /\ (j \in 1 .. Len(wire) \/ j = Len(wire) + 1)
    BY <1>3, <1>5, <1>8
  <2> QED  BY <2>1, <1>2, <1>3, <1>5, <1>8
<1> QED  BY <1>5, <1>6, <1>7, <1>8

\* The replay registers are naturals.
LEMMA ReplayTypes ==
  ASSUME Inv
  PROVE  replay_active \in BOOLEAN /\ replay_cursor \in Nat /\ replay_end \in Nat
         /\ next_seq \in Nat /\ Unacked \subseteq Nat
  BY DEF Inv, TypeOK

\* Every step of TxAdapter::sender.
LEMMA SenderInv == Inv /\ Sender => Inv'
<1> SUFFICES ASSUME Inv, Sender PROVE Inv'
  OBVIOUS
<1>1. CASE SenderTrained \/ SenderWake
  <2>1. /\ Resume(replay_active, replay_cursor, replay_end)
        /\ UNCHANGED <<produced, consumerVars, feedback, rxVars>> /\ UNCHANGED phyVars
    BY <1>1 DEF SenderTrained, SenderWake
  <2> QED  BY <2>1, WireUnchanged, ResumeInv, ReplayTypes
<1>2. CASE SenderTimeout
  <2>1. PICK first \in Unacked, last \in Unacked : Resume(TRUE, first, last)
    BY <1>2 DEF SenderTimeout
  <2>2. /\ UNCHANGED <<produced, consumerVars, feedback, rxVars>> /\ UNCHANGED phyVars
    BY <1>2 DEF SenderTimeout
  <2>3. first \in Nat /\ last \in Nat
    BY ReplayTypes
  <2> QED  BY <2>1, <2>2, <2>3, WireUnchanged, ResumeInv
<1>3. CASE SendNewDone
  <2>1. /\ Resume(replay_active, replay_cursor, replay_end)
        /\ UNCHANGED <<produced, consumerVars, feedback, rxVars>>
        /\ Transmit(sending) /\ Sending
    BY <1>3 DEF SendNewDone, Sending
  <2> QED  BY <2>1, TransmitInv, ResumeInv, ReplayTypes
<1>4. CASE SendReplayDone
  <2>1. PICK cursor \in CursorAfter(sending.seq) :
          Resume(replay_active /\ cursor <= replay_end, cursor, replay_end)
    BY <1>4 DEF SendReplayDone
  <2>2. /\ UNCHANGED <<produced, consumerVars, feedback, rxVars>>
        /\ Transmit(sending) /\ Sending
    BY <1>4 DEF SendReplayDone, Sending
  <2>3. cursor \in Nat /\ replay_end \in Nat
    BY ReplayTypes DEF CursorAfter
  <2>4. (replay_active /\ cursor <= replay_end) \in BOOLEAN
    OBVIOUS
  <2> QED  BY <2>1, <2>2, <2>3, <2>4, TransmitInv, ResumeInv
<1> QED  BY <1>1, <1>2, <1>3, <1>4 DEF Sender
-----------------------------------------------------------------------------
(* The feedback thread's steps.                                            *)

\* notify keeps wake a Boolean and wakes an idle sender.
LEMMA NotifyInv ==
  ASSUME NotifySender, tx_pc' = tx_pc
  PROVE  wake' \in BOOLEAN /\ NoLostWakeup'
  BY DEF NotifySender, NoLostWakeup

\* Taking a message off FeedbackPath keeps the facts about the rest.
LEMMA FeedbackTail ==
  ASSUME Inv, feedback # <<>>, feedback' = Tail(feedback), expected_seq' = expected_seq
  PROVE  /\ feedback' \in Seq(FbMsg) /\ FeedbackInv'
         /\ Head(feedback) \in FbMsg
         /\ ~Head(feedback).is_nak => Head(feedback).seq < expected_seq
<1>1. /\ feedback \in Seq(FbMsg)
      /\ \A i \in 1 .. Len(feedback) :
           ~feedback[i].is_nak => feedback[i].seq < expected_seq
  BY DEF Inv, TypeOK, FeedbackInv
<1>2. /\ Len(feedback) \in Nat \ {0} /\ Head(feedback) = feedback[1]
      /\ Head(feedback) \in FbMsg
      /\ feedback' \in Seq(FbMsg) /\ Len(feedback') = Len(feedback) - 1
      /\ \A i \in 1 .. (Len(feedback) - 1) : feedback'[i] = feedback[i + 1]
  BY <1>1, TailFacts
<1>3. ASSUME NEW i \in 1 .. Len(feedback'), ~feedback'[i].is_nak
      PROVE  feedback'[i].seq < expected_seq
  <2>1. i \in 1 .. (Len(feedback) - 1) /\ i + 1 \in 1 .. Len(feedback)
    <3>1. Len(feedback) \in Nat /\ Len(feedback') = Len(feedback) - 1
      BY <1>2
    <3> QED  BY <3>1
  <2> QED  BY <2>1, <1>1, <1>2, <1>3
<1>4. 1 \in 1 .. Len(feedback)
  BY <1>2
<1> QED  BY <1>1, <1>2, <1>3, <1>4 DEF FeedbackInv

\* A cumulative ACK: everything up to it was delivered.
LEMMA FeedbackAckInv == Inv /\ FeedbackAck => Inv'
<1> SUFFICES ASSUME Inv, FeedbackAck PROVE Inv'
  OBVIOUS
<1> DEFINE n == Head(feedback).seq
<1>1. /\ feedback # <<>> /\ ~Head(feedback).is_nak /\ feedback' = Tail(feedback)
      /\ NotifySender
      /\ UNCHANGED <<producerVars, consumerVars, tx_pc, sending, next_seq,
                     replayVars, phyVars, rxVars>>
  BY DEF FeedbackAck
<1>2. /\ feedback' \in Seq(FbMsg) /\ FeedbackInv'
      /\ n \in Nat /\ n < expected_seq
  BY <1>1, FeedbackTail DEF rxVars, FbMsg
<1>3. Unacked' = {t \in Unacked : t > n}
      /\ retry_buffer' = [s \in Unacked' |-> retry_buffer[s]]
  BY DEF FeedbackAck, Unacked
<1> HIDE DEF n
<1>4. /\ Unacked \subseteq Nat /\ IsFiniteSet(Unacked) /\ next_seq \in Nat
      /\ expected_seq \in Nat /\ \A s \in Unacked : retry_buffer[s] \in Nat
  BY DEF Inv, TypeOK
<1>5. /\ Unacked' \subseteq Unacked /\ IsFiniteSet(Unacked')
      /\ Cardinality(Unacked') <= Cardinality(Unacked)
      /\ Cardinality(Unacked) \in Nat /\ Cardinality(Unacked') \in Nat
  BY <1>3, <1>4, FS_Subset, FS_CardinalityType
<1>6. Unacked' \subseteq Nat /\ retry_buffer' \in [Unacked' -> Nat]
  BY <1>3, <1>4, <1>5
<1>7. TypeOK'
  <2>1. wake' \in BOOLEAN
    BY <1>1, NotifyInv
  <2> QED  BY <1>1, <1>2, <1>5, <1>6, <2>1
           DEF Inv, TypeOK, producerVars, consumerVars, replayVars, phyVars, rxVars
<1>8. BufferInv'
  <2>1. /\ Cardinality(Unacked) <= Window /\ expected_seq <= next_seq
        /\ \A s \in Unacked :
             /\ s < next_seq /\ next_seq <= s + Window /\ retry_buffer[s] = s
             /\ \A t \in s .. (next_seq - 1) : t \in Unacked
        /\ \A s \in expected_seq .. (next_seq - 1) : s \in Unacked
    BY DEF Inv, BufferInv
  <2>2. next_seq' = next_seq /\ expected_seq' = expected_seq
    BY <1>1 DEF rxVars
  <2>3. Cardinality(Unacked') <= Window
    BY <1>5, <2>1, ConstantAssumption
  <2>4. ASSUME NEW s \in Unacked'
        PROVE  /\ s < next_seq /\ next_seq <= s + Window /\ retry_buffer'[s] = s
               /\ \A t \in s .. (next_seq - 1) : t \in Unacked'
    BY <1>2, <1>3, <1>4, <2>1
  <2>5. \A s \in expected_seq .. (next_seq - 1) : s \in Unacked'
    BY <1>2, <1>3, <1>4, <2>1
  <2> QED  BY <2>1, <2>2, <2>3, <2>4, <2>5 DEF BufferInv
<1>9. ProducerInv' /\ ConsumerInv' /\ RxInv'
  BY <1>1 DEF Inv, ProducerInv, ConsumerInv, RxInv, producerVars, consumerVars, rxVars
<1>10. FrameInv'
  BY <1>1 DEF Inv, FrameInv, GoodFrame, RxTop, Sending, phyVars, rxVars
<1> QED  BY <1>1, <1>2, <1>7, <1>8, <1>9, <1>10, NotifyInv DEF Inv

\* A NAK moves the replay registers within the retry buffer.
LEMMA FeedbackNakInv == Inv /\ FeedbackNak => Inv'
<1> SUFFICES ASSUME Inv, FeedbackNak PROVE Inv'
  OBVIOUS
<1>1. /\ feedback # <<>> /\ feedback' = Tail(feedback) /\ NotifySender
      /\ UNCHANGED <<producerVars, consumerVars, tx_pc, sending, next_seq,
                     retry_buffer, phyVars, rxVars>>
  BY DEF FeedbackNak
<1>2. feedback' \in Seq(FbMsg) /\ FeedbackInv'
  BY <1>1, FeedbackTail DEF rxVars
<1>3. replay_active' \in BOOLEAN /\ replay_cursor' \in Nat /\ replay_end' \in Nat
  <2>1. CASE UNCHANGED replayVars
    BY <2>1, ReplayTypes DEF replayVars
  <2>2. CASE \E s, last \in Unacked : /\ replay_active' = TRUE
                                      /\ replay_cursor' = s
                                      /\ replay_end' = last
    <3>1. PICK s \in Unacked, last \in Unacked :
            replay_active' = TRUE /\ replay_cursor' = s /\ replay_end' = last
      BY <2>2
    <3> QED  BY <3>1, ReplayTypes
  <2> QED  BY <2>1, <2>2 DEF FeedbackNak
<1>4. Unacked' = Unacked
  BY <1>1 DEF Unacked
<1>5. TypeOK'
  <2>1. wake' \in BOOLEAN
    BY <1>1, NotifyInv
  <2> QED  BY <1>1, <1>2, <1>3, <1>4, <2>1
           DEF Inv, TypeOK, producerVars, consumerVars, phyVars, rxVars
<1>6. ProducerInv' /\ ConsumerInv' /\ RxInv' /\ BufferInv'
  BY <1>1, <1>4 DEF Inv, ProducerInv, ConsumerInv, RxInv, BufferInv, producerVars,
                    consumerVars, rxVars
<1>7. FrameInv'
  BY <1>1 DEF Inv, FrameInv, GoodFrame, RxTop, Sending, phyVars, rxVars
<1> QED  BY <1>1, <1>2, <1>5, <1>6, <1>7, NotifyInv DEF Inv
-----------------------------------------------------------------------------
(* The receiver's steps.                                                   *)

\* Every frame on the wire is in the window around the receiver.
LEMMA WireInWindow ==
  ASSUME Inv, NEW i \in 1 .. Len(wire)
  PROVE  /\ wire[i] \in Frame
         /\ wire[i].seq \in Nat /\ expected_seq \in Nat /\ next_seq \in Nat
         /\ expected_seq <= wire[i].seq + Window
         /\ wire[i].seq < expected_seq + Window
         /\ wire[i].seq < next_seq /\ wire[i].id = wire[i].seq
<1>1. /\ wire[i] \in Frame /\ expected_seq \in Nat /\ next_seq \in Nat
      /\ rx_busy \in BOOLEAN /\ Window \in Nat \ {0}
  BY ConstantAssumption DEF Inv, TypeOK
<1>2. /\ wire[i].seq \in Nat /\ wire[i].id = wire[i].seq /\ wire[i].seq < next_seq
      /\ expected_seq <= wire[i].seq + Window
  BY <1>1 DEF Inv, FrameInv, GoodFrame, RxTop, Frame
<1>3. expected_seq < next_seq => next_seq <= expected_seq + Window
  BY <1>1 DEF Inv, BufferInv
<1>4. expected_seq <= next_seq
  BY DEF Inv, BufferInv
<1> QED  BY <1>1, <1>2, <1>3, <1>4

\* The frame RxAdapter reads next.
LEMMA HeadFacts ==
  ASSUME Inv, wire # <<>>
  PROVE  /\ wire \in Seq(Frame) /\ Len(wire) \in Nat \ {0} /\ 1 \in 1 .. Len(wire)
         /\ Head(wire) = wire[1]
         /\ Tail(wire) \in Seq(Frame) /\ Len(Tail(wire)) = Len(wire) - 1
         /\ \A i \in 1 .. (Len(wire) - 1) : Tail(wire)[i] = wire[i + 1]
<1>1. wire \in Seq(Frame)
  BY DEF Inv, TypeOK
<1> QED  BY <1>1, TailFacts

\* Taking a frame off the wire keeps the rest behind the receiver.
LEMMA TailFrames ==
  ASSUME Inv, wire # <<>>, wire' = Tail(wire), UNCHANGED <<tx_pc, sending, next_seq>>,
         RxTop' = RxTop \/ RxTop' = Head(wire).seq + 1
  PROVE  wire' \in Seq(Frame) /\ FrameInv'
<1>1. /\ wire' \in Seq(Frame) /\ Len(wire') = Len(wire) - 1 /\ Len(wire) \in Nat \ {0}
      /\ \A i \in 1 .. Len(wire') : wire'[i] = wire[i + 1]
      /\ 1 \in 1 .. Len(wire) /\ Head(wire) = wire[1]
  BY HeadFacts
<1>2. /\ \A i \in 1 .. Len(wire) : GoodFrame(wire[i]) /\ wire[i] \in Frame
      /\ \A i, j \in 1 .. Len(wire) : i < j => wire[i].seq < wire[j].seq + Window
      /\ Sending => GoodFrame(sending)
      /\ Sending => \A i \in 1 .. Len(wire) : wire[i].seq < sending.seq + Window
      /\ wire \in Seq(Frame) /\ sending \in Frame
  BY DEF Inv, TypeOK, FrameInv
<1>3. \A i \in 1 .. Len(wire') : i + 1 \in 1 .. Len(wire)
  <2>1. Len(wire) \in Nat /\ Len(wire') = Len(wire) - 1
    BY <1>1
  <2> QED  BY <2>1
<1>4. Window \in Nat /\ next_seq \in Nat
  BY ConstantAssumption DEF Inv, TypeOK
<1>5. ASSUME NEW i \in 1 .. Len(wire')  PROVE GoodFrame(wire[i])'
  <2>1. /\ i + 1 \in 1 .. Len(wire) /\ 1 < i + 1 /\ wire'[i] = wire[i + 1]
    BY <1>1, <1>3
  <2>2. GoodFrame(wire[i + 1]) /\ wire[1].seq < wire[i + 1].seq + Window
        /\ wire[1].seq \in Nat /\ wire[i + 1].seq \in Nat
    BY <1>1, <1>2, <2>1 DEF Frame
  <2> QED  BY <1>1, <1>4, <2>1, <2>2 DEF GoodFrame
<1>6. ASSUME NEW i \in 1 .. Len(wire'), NEW j \in 1 .. Len(wire'), i < j
      PROVE  wire'[i].seq < wire'[j].seq + Window
  <2>1. i + 1 < j + 1
    BY <1>6
  <2> QED  BY <2>1, <1>1, <1>2, <1>3
<1>7. ASSUME Sending'
      PROVE  /\ GoodFrame(sending)'
             /\ \A i \in 1 .. Len(wire') : wire'[i].seq < sending'.seq + Window
  <2>1. Sending
    BY <1>7 DEF Sending
  <2>2. wire[1].seq \in Nat /\ sending.seq \in Nat /\ wire[1].seq < sending.seq + Window
    BY <1>1, <1>2, <2>1 DEF Frame
  <2>3. GoodFrame(sending)'
    BY <1>1, <1>2, <1>4, <2>1, <2>2 DEF GoodFrame
  <2> QED  BY <1>1, <1>2, <1>3, <2>1, <2>3
<1> QED  BY <1>1, <1>5, <1>6, <1>7 DEF FrameInv

\* Appending an ACK or NAK for what is already decided keeps the facts
\* about FeedbackPath.
LEMMA FeedbackAppend ==
  ASSUME Inv, NEW m \in FbMsg, feedback' = Append(feedback, m),
         expected_seq' \in Nat, expected_seq <= expected_seq',
         ~m.is_nak => m.seq < expected_seq'
  PROVE  feedback' \in Seq(FbMsg) /\ FeedbackInv'
<1>0. feedback \in Seq(FbMsg) /\ expected_seq \in Nat
  BY DEF Inv, TypeOK
<1>1. /\ feedback \in Seq(FbMsg) /\ Len(feedback) \in Nat /\ expected_seq \in Nat
      /\ \A i \in 1 .. Len(feedback) :
           ~feedback[i].is_nak => feedback[i].seq < expected_seq
  <2>1. Len(feedback) \in Nat
    BY <1>0
  <2>2. FeedbackInv
    BY DEF Inv
  <2> QED  BY <1>0, <2>1, <2>2 DEF FeedbackInv
<1>2. /\ feedback' \in Seq(FbMsg) /\ Len(feedback') = Len(feedback) + 1
      /\ \A i \in 1 .. Len(feedback) : feedback'[i] = feedback[i]
      /\ feedback'[Len(feedback) + 1] = m
  BY <1>1, AppendFacts
<1>3. ASSUME NEW i \in 1 .. Len(feedback'), ~feedback'[i].is_nak
      PROVE  feedback'[i].seq < expected_seq'
  <2>1. i \in 1 .. Len(feedback) \/ i = Len(feedback) + 1
    BY <1>1, <1>2
  <2>2. CASE i = Len(feedback) + 1
    BY <2>2, <1>2, <1>3
  <2>3. CASE i \in 1 .. Len(feedback)
    <3>1. feedback'[i] = feedback[i] /\ feedback[i] \in FbMsg
      BY <2>3, <1>1, <1>2
    <3>2. ~feedback[i].is_nak
      BY <3>1, <1>3
    <3>3. feedback[i].seq < expected_seq
      BY <3>2, <2>3, <1>1
    <3>4. feedback[i].seq \in Nat
      BY <3>1 DEF FbMsg
    <3> QED  BY <3>1, <3>3, <3>4, <1>1
  <2> QED  BY <2>1, <2>2, <2>3
<1> QED  BY <1>2, <1>3 DEF FeedbackInv
\* The receiver only delivers the flit it expects.
LEMMA RxExpectedInv == Inv /\ RxExpected => Inv'
<1> SUFFICES ASSUME Inv, RxExpected PROVE Inv'
  OBVIOUS
<1>1. /\ wire # <<>> /\ ~rx_busy /\ wire' = Tail(wire)
      /\ Diff(Head(wire).seq, expected_seq) = 0
      /\ rx_state' = "NoRetry" /\ frames_since_nak' = 0 /\ rx_busy' = TRUE
      /\ rx_frame' = Head(wire)
      /\ UNCHANGED <<producerVars, consumerVars, txVars, errors, feedback, expected_seq>>
  BY DEF RxExpected, Arriving, HeadDiff
<1>2. /\ 1 \in 1 .. Len(wire) /\ Head(wire) = wire[1]
  BY <1>1, HeadFacts
<1>3. /\ wire[1] \in Frame /\ wire[1].seq \in Nat /\ expected_seq \in Nat
      /\ expected_seq <= wire[1].seq + Window /\ wire[1].seq < expected_seq + Window
      /\ wire[1].seq < next_seq /\ wire[1].id = wire[1].seq
  BY <1>2, WireInWindow
<1>4. wire[1].seq = expected_seq
  BY <1>1, <1>2, <1>3, WindowLemma
<1>5. /\ tx_pc' = tx_pc /\ sending' = sending /\ next_seq' = next_seq
      /\ wake' = wake /\ retry_buffer' = retry_buffer /\ Unacked' = Unacked
      /\ UNCHANGED replayVars
  BY <1>1 DEF txVars, Unacked
<1>6. RxTop' = Head(wire).seq + 1
  BY <1>1, <1>2, <1>4 DEF RxTop
<1>7. wire' \in Seq(Frame) /\ FrameInv'
  BY <1>1, <1>5, <1>6, TailFrames
<1>8. TypeOK'
  BY <1>1, <1>2, <1>3, <1>5, <1>7
     DEF Inv, TypeOK, producerVars, consumerVars, replayVars
<1>9. RxInv'
  BY <1>1, <1>2, <1>3, <1>4, <1>5 DEF RxInv
<1>10. ProducerInv' /\ ConsumerInv' /\ BufferInv' /\ FeedbackInv'
  BY <1>1, <1>5 DEF Inv, ProducerInv, ConsumerInv, BufferInv, FeedbackInv,
                    producerVars, consumerVars
<1>11. NoLostWakeup'
  BY <1>1, <1>5 DEF Inv, NoLostWakeup, CanAccept, producerVars, replayVars
<1> QED  BY <1>7, <1>8, <1>9, <1>10, <1>11 DEF Inv

\* Delivery advances expected_seq_ and the history together.
LEMMA RxDeliverInv == Inv /\ RxDeliver => Inv'
<1> SUFFICES ASSUME Inv, RxDeliver PROVE Inv'
  OBVIOUS
<1>1. /\ rx_busy /\ fdi_out' = Append(fdi_out, rx_frame.id)
      /\ feedback' = Append(feedback, Ack(expected_seq))
      /\ expected_seq' = expected_seq + 1 /\ rx_busy' = FALSE /\ rx_frame' = NoFrame
      /\ UNCHANGED <<producerVars, received, txVars, phyVars, rx_state, frames_since_nak>>
  BY DEF RxDeliver
<1>2. /\ rx_frame.id = expected_seq /\ expected_seq < next_seq
      /\ expected_seq \in Nat /\ next_seq \in Nat
  BY <1>1 DEF Inv, RxInv, TypeOK
<1>3. /\ tx_pc' = tx_pc /\ sending' = sending /\ next_seq' = next_seq
      /\ wake' = wake /\ retry_buffer' = retry_buffer /\ Unacked' = Unacked
      /\ UNCHANGED replayVars /\ fdi_in' = fdi_in /\ produced' = produced
      /\ wire' = wire /\ errors' = errors
  BY <1>1 DEF txVars, Unacked, producerVars, phyVars
<1>4. Ack(expected_seq) \in FbMsg /\ Ack(expected_seq).seq = expected_seq
  BY <1>2 DEF Ack, FbMsg
<1>5. feedback' \in Seq(FbMsg) /\ FeedbackInv'
  <2>1. expected_seq' \in Nat /\ expected_seq <= expected_seq'
        /\ Ack(expected_seq).seq < expected_seq'
    BY <1>1, <1>2, <1>4
  <2> QED  BY <1>1, <1>4, <2>1, FeedbackAppend
<1>6. /\ fdi_out \in Seq(Nat) /\ received \in Seq(Nat)
      /\ Len(fdi_out) \in Nat /\ Len(received) \in Nat
      /\ expected_seq = Len(received) + Len(fdi_out)
      /\ \A i \in 1 .. Len(received) : received[i] = i - 1
      /\ \A i \in 1 .. Len(fdi_out) : fdi_out[i] = Len(received) + i - 1
  BY DEF Inv, TypeOK, ConsumerInv
<1>7. /\ fdi_out' \in Seq(Nat) /\ Len(fdi_out') = Len(fdi_out) + 1
      /\ \A i \in 1 .. Len(fdi_out) : fdi_out'[i] = fdi_out[i]
      /\ fdi_out'[Len(fdi_out) + 1] = expected_seq
  BY <1>1, <1>2, <1>6, AppendFacts
<1>8. ConsumerInv'
  <2>1. ASSUME NEW i \in 1 .. Len(fdi_out')  PROVE fdi_out'[i] = Len(received) + i - 1
    <3>1. i \in 1 .. Len(fdi_out) \/ i = Len(fdi_out) + 1
      BY <1>6, <1>7
    <3>2. CASE i \in 1 .. Len(fdi_out)
      BY <3>2, <1>6, <1>7
    <3>3. CASE i = Len(fdi_out) + 1
      <4>1. fdi_out'[i] = Len(received) + Len(fdi_out)
        BY <3>3, <1>6, <1>7
      <4>2. Len(fdi_out) \in Nat /\ Len(received) \in Nat
        BY <1>6
      <4> QED  BY <3>3, <4>1, <4>2
    <3> QED  BY <3>1, <3>2, <3>3
  <2> QED  BY <2>1, <1>1, <1>6, <1>7 DEF ConsumerInv
<1>9. TypeOK'
  <2>1. NoFrame \in Frame /\ expected_seq' \in Nat
    BY <1>1, <1>2 DEF NoFrame, Frame
  <2> QED  BY <1>1, <1>3, <1>5, <1>7, <2>1 DEF Inv, TypeOK, replayVars
<1>10. RxTop' = RxTop
  BY <1>1 DEF RxTop
<1>11. FrameInv'
  BY <1>3, <1>10 DEF Inv, FrameInv, GoodFrame, Sending
<1>12. BufferInv'
  BY <1>1, <1>2, <1>3 DEF Inv, BufferInv
<1>13. ProducerInv' /\ RxInv' /\ NoLostWakeup'
  BY <1>1, <1>3 DEF Inv, ProducerInv, RxInv, NoLostWakeup, CanAccept, replayVars
<1> QED  BY <1>5, <1>8, <1>9, <1>11, <1>12, <1>13 DEF Inv

\* What RxDuplicate and RxBad have in common.
LEMMA RxDropInv ==
  ASSUME Inv, wire # <<>>, wire' = Tail(wire),
         UNCHANGED <<producerVars, consumerVars, txVars, errors, rx_busy, rx_frame,
                     expected_seq>>,
         feedback' \in Seq(FbMsg), FeedbackInv',
         rx_state' \in {"NoRetry", "RetryInProgress"}, frames_since_nak' \in Nat
  PROVE  Inv'
<1>1. /\ tx_pc' = tx_pc /\ sending' = sending /\ next_seq' = next_seq
      /\ wake' = wake /\ retry_buffer' = retry_buffer /\ Unacked' = Unacked
      /\ UNCHANGED replayVars /\ fdi_in' = fdi_in /\ produced' = produced
      /\ RxTop' = RxTop
  BY DEF txVars, Unacked, producerVars, RxTop
<1>2. wire' \in Seq(Frame) /\ FrameInv'
  BY <1>1, TailFrames
<1>3. TypeOK'
  BY <1>1, <1>2 DEF Inv, TypeOK, consumerVars, replayVars
<1>4. ProducerInv' /\ ConsumerInv' /\ BufferInv' /\ RxInv' /\ NoLostWakeup'
  BY <1>1 DEF Inv, ProducerInv, ConsumerInv, BufferInv, RxInv, NoLostWakeup,
              CanAccept, consumerVars, replayVars
<1> QED  BY <1>2, <1>3, <1>4 DEF Inv

\* A duplicate changes nothing but the feedback.
LEMMA RxDuplicateInv == Inv /\ RxDuplicate => Inv'
<1> SUFFICES ASSUME Inv, RxDuplicate PROVE Inv'
  OBVIOUS
<1>1. /\ wire # <<>> /\ wire' = Tail(wire)
      /\ feedback' = IF expected_seq > 0 THEN Append(feedback, Ack(expected_seq - 1))
                                         ELSE feedback
      /\ UNCHANGED <<producerVars, consumerVars, txVars, errors, rxVars>>
  BY DEF RxDuplicate, Arriving
<1>2. /\ UNCHANGED <<rx_busy, rx_frame, expected_seq>>
      /\ rx_state' = rx_state /\ frames_since_nak' = frames_since_nak
  BY <1>1 DEF rxVars
<1>3. /\ expected_seq \in Nat /\ rx_state \in {"NoRetry", "RetryInProgress"}
      /\ frames_since_nak \in Nat
  BY DEF Inv, TypeOK
<1>4. feedback' \in Seq(FbMsg) /\ FeedbackInv'
  <2>1. CASE expected_seq > 0
    <3>1. /\ Ack(expected_seq - 1) \in FbMsg
          /\ Ack(expected_seq - 1).seq < expected_seq'
          /\ expected_seq' \in Nat /\ expected_seq <= expected_seq'
      BY <2>1, <1>2, <1>3 DEF Ack, FbMsg
    <3> QED  BY <3>1, <2>1, <1>1, FeedbackAppend
  <2>2. CASE ~(expected_seq > 0)
    BY <2>2, <1>1, <1>2 DEF Inv, TypeOK, FeedbackInv
  <2> QED  BY <2>1, <2>2
<1> QED  BY <1>1, <1>2, <1>3, <1>4, RxDropInv

\* A bad frame changes nothing but the feedback and the NAK counter.
LEMMA RxBadInv == Inv /\ RxBad => Inv'
<1> SUFFICES ASSUME Inv, RxBad PROVE Inv'
  OBVIOUS
<1>1. /\ wire # <<>> /\ wire' = Tail(wire) /\ rx_state' = "RetryInProgress"
      /\ \/ /\ feedback' = Append(feedback, Nak(expected_seq))
            /\ frames_since_nak' = 0
         \/ /\ feedback' = feedback
            /\ frames_since_nak' = frames_since_nak + 1
      /\ UNCHANGED <<producerVars, consumerVars, txVars, errors, rx_busy, rx_frame,
                     expected_seq>>
  BY DEF RxBad, Arriving
<1>2. expected_seq \in Nat /\ frames_since_nak \in Nat /\ expected_seq' = expected_seq
  BY <1>1 DEF Inv, TypeOK
<1>3. /\ Nak(expected_seq) \in FbMsg /\ Nak(expected_seq).is_nak
  BY <1>2 DEF Nak, FbMsg
<1>4. feedback' \in Seq(FbMsg) /\ FeedbackInv'
  <2>1. CASE feedback' = Append(feedback, Nak(expected_seq))
    BY <2>1, <1>2, <1>3, FeedbackAppend
  <2>2. CASE feedback' = feedback
    BY <2>2, <1>2 DEF Inv, TypeOK, FeedbackInv
  <2> QED  BY <2>1, <2>2, <1>1
<1>5. frames_since_nak' \in Nat
  BY <1>1, <1>2
<1> QED  BY <1>1, <1>4, <1>5, RxDropInv

-----------------------------------------------------------------------------
(* The users' steps.                                                       *)

\* A new flit carries the next transaction_id.
LEMMA ProduceInv == Inv /\ Produce => Inv'
<1> SUFFICES ASSUME Inv, Produce PROVE Inv'
  OBVIOUS
<1>1. /\ fdi_in' = Append(fdi_in, produced) /\ produced' = produced + 1 /\ NotifySender
      /\ UNCHANGED <<consumerVars, tx_pc, sending, next_seq, retry_buffer,
                     replayVars, phyVars, feedback, rxVars>>
  BY DEF Produce
<1>2. /\ fdi_in \in Seq(Nat) /\ produced \in Nat /\ Len(fdi_in) \in Nat
      /\ next_seq \in Nat /\ produced = next_seq + Len(fdi_in)
      /\ \A i \in 1 .. Len(fdi_in) : fdi_in[i] = next_seq + i - 1
  BY DEF Inv, TypeOK, ProducerInv
<1>3. /\ fdi_in' \in Seq(Nat) /\ Len(fdi_in') = Len(fdi_in) + 1
      /\ \A i \in 1 .. Len(fdi_in) : fdi_in'[i] = fdi_in[i]
      /\ fdi_in'[Len(fdi_in) + 1] = produced
  BY <1>1, <1>2, AppendFacts
<1>4. ProducerInv'
  <2>1. ASSUME NEW i \in 1 .. Len(fdi_in')  PROVE fdi_in'[i] = next_seq + i - 1
    <3>1. i \in 1 .. Len(fdi_in) \/ i = Len(fdi_in) + 1
      BY <1>2, <1>3
    <3> QED  BY <3>1, <1>2, <1>3
  <2> QED  BY <2>1, <1>1, <1>2, <1>3 DEF ProducerInv
<1>5. Unacked' = Unacked /\ wake' \in BOOLEAN /\ produced' \in Nat
  BY <1>1, <1>2, NotifyInv DEF Unacked
<1>6. TypeOK'
  BY <1>1, <1>3, <1>5 DEF Inv, TypeOK, consumerVars, replayVars, phyVars, rxVars
<1>7. ConsumerInv' /\ BufferInv' /\ RxInv' /\ FeedbackInv'
  BY <1>1, <1>5 DEF Inv, ConsumerInv, BufferInv, RxInv, FeedbackInv, consumerVars, rxVars
<1>8. FrameInv'
  BY <1>1 DEF Inv, FrameInv, GoodFrame, RxTop, Sending, phyVars, rxVars
<1> QED  BY <1>1, <1>4, <1>6, <1>7, <1>8, NotifyInv DEF Inv

\* The consumer moves the head of fdi_out to the history.
LEMMA ConsumeInv == Inv /\ Consume => Inv'
<1> SUFFICES ASSUME Inv, Consume PROVE Inv'
  OBVIOUS
<1>1. /\ fdi_out # <<>> /\ received' = Append(received, Head(fdi_out))
      /\ fdi_out' = Tail(fdi_out)
      /\ UNCHANGED <<producerVars, txVars, phyVars, feedback, rxVars>>
  BY DEF Consume
<1>2. /\ fdi_out \in Seq(Nat) /\ received \in Seq(Nat)
      /\ Len(received) \in Nat /\ expected_seq = Len(received) + Len(fdi_out)
      /\ \A i \in 1 .. Len(received) : received[i] = i - 1
      /\ \A i \in 1 .. Len(fdi_out) : fdi_out[i] = Len(received) + i - 1
  BY DEF Inv, TypeOK, ConsumerInv
<1>3. /\ Len(fdi_out) \in Nat \ {0} /\ Head(fdi_out) = fdi_out[1]
      /\ Head(fdi_out) \in Nat
      /\ fdi_out' \in Seq(Nat) /\ Len(fdi_out') = Len(fdi_out) - 1
      /\ \A i \in 1 .. (Len(fdi_out) - 1) : fdi_out'[i] = fdi_out[i + 1]
  BY <1>1, <1>2, TailFacts
<1>4. Head(fdi_out) = Len(received)
  BY <1>2, <1>3
<1>5. /\ received' \in Seq(Nat) /\ Len(received') = Len(received) + 1
      /\ \A i \in 1 .. Len(received) : received'[i] = received[i]
      /\ received'[Len(received) + 1] = Len(received)
  BY <1>1, <1>2, <1>3, <1>4, AppendFacts
<1>6. ConsumerInv'
  <2>1. ASSUME NEW i \in 1 .. Len(received')  PROVE received'[i] = i - 1
    <3>1. i \in 1 .. Len(received) \/ i = Len(received) + 1
      BY <1>2, <1>5
    <3> QED  BY <3>1, <1>2, <1>5
  <2>2. ASSUME NEW i \in 1 .. Len(fdi_out')  PROVE fdi_out'[i] = Len(received') + i - 1
    <3>1. Len(fdi_out) \in Nat /\ Len(fdi_out') = Len(fdi_out) - 1
      BY <1>3
    <3>2. i \in 1 .. (Len(fdi_out) - 1) /\ i + 1 \in 1 .. Len(fdi_out)
      BY <3>1
    <3> QED  BY <3>2, <1>2, <1>3, <1>5
  <2>3. expected_seq' = expected_seq
    BY <1>1 DEF rxVars
  <2> QED  BY <2>1, <2>2, <2>3, <1>2, <1>3, <1>5 DEF ConsumerInv
<1>7. Unacked' = Unacked
  BY <1>1 DEF txVars, Unacked
<1>8. TypeOK'
  BY <1>1, <1>3, <1>5, <1>7
     DEF Inv, TypeOK, producerVars, txVars, replayVars, phyVars, rxVars
<1>9. ProducerInv' /\ BufferInv' /\ RxInv' /\ FeedbackInv' /\ NoLostWakeup'
  BY <1>1, <1>7 DEF Inv, ProducerInv, BufferInv, RxInv, FeedbackInv, NoLostWakeup,
                    CanAccept, producerVars, txVars, replayVars, rxVars
<1>10. FrameInv'
  BY <1>1 DEF Inv, FrameInv, GoodFrame, RxTop, Sending, txVars, phyVars, rxVars
<1> QED  BY <1>6, <1>8, <1>9, <1>10 DEF Inv
-----------------------------------------------------------------------------
(* The theorems.                                                           *)

\* The inductive invariant: every step of either adapter, of the PHY, of the
\* feedback path or of a user preserves it.
THEOREM InvHolds == SafeSpec => []Inv
<1>1. Init => Inv
  BY InitInv
<1>2. Inv /\ [Next]_vars => Inv'
  <2> SUFFICES ASSUME Inv, [Next]_vars PROVE Inv'
    OBVIOUS
  <2>1. CASE Sender
    BY <2>1, SenderInv
  <2>2. CASE Feedback
    BY <2>2, FeedbackAckInv, FeedbackNakInv DEF Feedback
  <2>3. CASE Rx
    BY <2>3, RxExpectedInv, RxDeliverInv, RxDuplicateInv, RxBadInv DEF Rx
  <2>4. CASE Produce
    BY <2>4, ProduceInv
  <2>5. CASE Consume
    BY <2>5, ConsumeInv
  <2>6. CASE UNCHANGED vars
    <3>1. /\ UNCHANGED <<producerVars, consumerVars, txVars, phyVars, feedback, rxVars>>
          /\ Unacked' = Unacked /\ UNCHANGED replayVars
      BY <2>6 DEF vars, txVars, Unacked
    <3>2. TypeOK'
      BY <3>1 DEF Inv, TypeOK, producerVars, consumerVars, txVars, replayVars,
                  phyVars, rxVars
    <3>3. ProducerInv' /\ ConsumerInv' /\ BufferInv' /\ RxInv' /\ FeedbackInv'
          /\ NoLostWakeup'
      BY <3>1 DEF Inv, ProducerInv, ConsumerInv, BufferInv, RxInv, FeedbackInv,
                  NoLostWakeup, CanAccept, producerVars, consumerVars, txVars,
                  replayVars, rxVars
    <3>4. FrameInv'
      BY <3>1 DEF Inv, FrameInv, GoodFrame, RxTop, Sending, txVars, phyVars, rxVars
    <3> QED  BY <3>2, <3>3, <3>4 DEF Inv
  <2> QED  BY <2>1, <2>2, <2>3, <2>4, <2>5, <2>6 DEF Next
<1> QED  BY <1>1, <1>2, PTL DEF SafeSpec

\* Type correctness of the two adapters and the channel between them.
THEOREM TypeCorrect == SafeSpec => []TypeOK
<1>1. Inv => TypeOK
  BY DEF Inv
<1> QED  BY <1>1, InvHolds, PTL

\* RxAdapter writes to fdi_out the producer's flits, each once and in order,
\* for every window up to half the sequence space and any number of errors.
THEOREM ExactlyOnce == SafeSpec => []ExactlyOnceInOrder
<1>1. Inv => ExactlyOnceInOrder
  <2> SUFFICES ASSUME Inv PROVE ExactlyOnceInOrder
    OBVIOUS
  <2>1. /\ fdi_out \in Seq(Nat) /\ received \in Seq(Nat)
        /\ Len(fdi_out) \in Nat /\ Len(received) \in Nat
        /\ expected_seq = Len(received) + Len(fdi_out)
        /\ \A i \in 1 .. Len(received) : received[i] = i - 1
        /\ \A i \in 1 .. Len(fdi_out) : fdi_out[i] = Len(received) + i - 1
    BY DEF Inv, TypeOK, ConsumerInv
  <2>2. Len(Delivered) = expected_seq
    BY <2>1 DEF Delivered
  <2>3. ASSUME NEW i \in 1 .. Len(Delivered)  PROVE Delivered[i] = i - 1
    <3>1. CASE i \in 1 .. Len(received)
      BY <3>1, <2>1 DEF Delivered
    <3>2. CASE i \notin 1 .. Len(received)
      <4>1. i \in Nat /\ Len(received) < i /\ i <= Len(received) + Len(fdi_out)
        BY <3>2, <2>1, <2>2
      <4>2. i - Len(received) \in 1 .. Len(fdi_out)
        BY <4>1, <2>1
      <4>3. Delivered[i] = fdi_out[i - Len(received)]
        BY <4>1, <2>1 DEF Delivered
      <4> QED  BY <4>1, <4>2, <4>3, <2>1
    <3> QED  BY <3>1, <3>2
  <2> QED  BY <2>2, <2>3 DEF ExactlyOnceInOrder
<1> QED  BY <1>1, InvHolds, PTL

\* Cumulative ACKs never release a flit that is not delivered, and the
\* retry buffer never exceeds retry_buffer_size.
THEOREM NothingIsLost == SafeSpec => []NothingLost
<1>1. Inv => NothingLost
  BY DEF Inv, BufferInv, NothingLost
<1> QED  BY <1>1, InvHolds, PTL

\* The header byte never misleads RxAdapter, across any number of wraps.
THEOREM HeaderUnambiguous == SafeSpec => []WindowUnambiguous
<1>1. Inv => WindowUnambiguous
  <2> SUFFICES ASSUME Inv, NEW i \in 1 .. Len(wire)
               PROVE  /\ Diff(wire[i].seq, expected_seq) = 0
                            <=> wire[i].seq = expected_seq
                      /\ IsOld(Diff(wire[i].seq, expected_seq))
                            <=> wire[i].seq < expected_seq
    BY DEF WindowUnambiguous
  <2> QED  BY WireInWindow, WindowLemma
<1> QED  BY <1>1, InvHolds, PTL

\* No event meant for the idle sender is missed.
THEOREM WakeupsAreKept == SafeSpec => []NoLostWakeup
<1>1. Inv => NoLostWakeup
  BY DEF Inv
<1> QED  BY <1>1, InvHolds, PTL
-----------------------------------------------------------------------------
(* The direction implements a reliable FIFO.                               *)

\* The flits handed in, as the refinement mapping sees them.
Sent(n) == [i \in 1 .. n |-> i - 1]

\* The sequence of flits handed in, as the abstract link sees it.
LEMMA SentFacts ==
  ASSUME NEW n \in Nat
  PROVE  /\ Sent(n) \in Seq(Nat) /\ Len(Sent(n)) = n
         /\ \A i \in 1 .. n : Sent(n)[i] = i - 1
         /\ Sent(n + 1) = Append(Sent(n), n)
<1>1. /\ Sent(n) \in Seq(Nat) /\ Len(Sent(n)) = n
      /\ \A i \in 1 .. n : Sent(n)[i] = i - 1
  BY DEF Sent
<1>2. Sent(n + 1) = Append(Sent(n), n)
  BY DEF Sent
<1> QED  BY <1>1, <1>2

\* Whatever the adapters, the PHY and the feedback path do, the two FDI
\* ports behave as ReliableFifo: a producer step is Put, a consumer step is
\* Get, and every other step changes nothing that is visible there.
THEOREM Refinement == SafeSpec => ImplementsFifo
<1>1. Init => Link!Init
  <2> SUFFICES ASSUME Init PROVE Link!Init
    OBVIOUS
  <2>1. Sent(produced) = <<>>
    BY DEF Init, Sent
  <2> QED  BY <2>1 DEF Init, Link!Init, Sent
<1>2. Inv /\ [Next]_vars => [Link!Next]_Link!fifoVars
  <2> SUFFICES ASSUME Inv, [Next]_vars PROVE [Link!Next]_Link!fifoVars
    OBVIOUS
  <2>0. produced \in Nat /\ MaxFlits \in Nat
    BY ConstantAssumption DEF Inv, TypeOK
  <2>1. CASE Produce
    <3>1. produced < MaxFlits /\ produced' = produced + 1 /\ received' = received
      BY <2>1 DEF Produce, consumerVars
    <3>2. Sent(produced') = Append(Sent(produced), produced)
      BY <3>1, <2>0, SentFacts
    <3>3. produced \in 0 .. (MaxFlits - 1)
      BY <3>1, <2>0
    <3>4. Link!Put
      BY <3>1, <3>2, <3>3 DEF Link!Put, Sent
    <3> QED  BY <3>4 DEF Link!Next
  <2>2. CASE Consume
    <3>1. /\ fdi_out # <<>> /\ received' = Append(received, Head(fdi_out))
          /\ produced' = produced
      BY <2>2 DEF Consume, producerVars
    <3>2. /\ fdi_out \in Seq(Nat) /\ received \in Seq(Nat) /\ Len(received) \in Nat
          /\ expected_seq = Len(received) + Len(fdi_out)
          /\ \A i \in 1 .. Len(fdi_out) : fdi_out[i] = Len(received) + i - 1
          /\ expected_seq <= next_seq /\ produced = next_seq + Len(fdi_in)
          /\ fdi_in \in Seq(Nat) /\ next_seq \in Nat /\ expected_seq \in Nat
      BY DEF Inv, TypeOK, ConsumerInv, BufferInv, ProducerInv
    <3>3. Len(fdi_out) \in Nat \ {0} /\ Head(fdi_out) = fdi_out[1]
      BY <3>1, <3>2, TailFacts
    <3>4. Head(fdi_out) = Len(received)
      <4>1. 1 \in 1 .. Len(fdi_out)
        BY <3>3
      <4>2. fdi_out[1] = Len(received) + 1 - 1
        BY <4>1, <3>2
      <4> QED  BY <4>2, <3>2, <3>3
    <3>5. Len(received) < produced
      <4>1. Len(fdi_in) \in Nat
        BY <3>2
      <4> QED  BY <4>1, <3>2, <3>3
    <3>6. /\ Len(Sent(produced)) = produced
          /\ Sent(produced)[Len(received) + 1] = Len(received)
      <4>1. Len(received) + 1 \in 1 .. produced
        BY <3>2, <3>5, <2>0
      <4>2. /\ Len(Sent(produced)) = produced
            /\ Sent(produced)[Len(received) + 1] = (Len(received) + 1) - 1
        BY <4>1, <2>0, SentFacts
      <4> QED  BY <4>2, <3>2
    <3>7. /\ Len(received) < Len(Sent(produced))
          /\ received' = Append(received, Sent(produced)[Len(received) + 1])
          /\ Sent(produced') = Sent(produced)
      BY <3>1, <3>4, <3>5, <3>6
    <3>8. Link!Get
      BY <3>7 DEF Link!Get, Sent
    <3> QED  BY <3>8 DEF Link!Next
  <2>3. CASE produced' = produced /\ received' = received
    BY <2>3 DEF Link!fifoVars
  <2>4. CASE Sender
    BY <2>3, <2>4 DEF Sender, SenderTrained, SenderWake, SenderTimeout, SendNewDone,
                      SendReplayDone, consumerVars
  <2>5. CASE Feedback \/ Rx
    BY <2>3, <2>5 DEF Feedback, FeedbackAck, FeedbackNak, Rx, RxExpected, RxDeliver,
                      RxDuplicate, RxBad, producerVars, consumerVars
  <2>6. CASE UNCHANGED vars
    BY <2>3, <2>6 DEF vars, producerVars, consumerVars
  <2> QED  BY <2>1, <2>2, <2>4, <2>5, <2>6 DEF Next
<1> QED  BY <1>1, <1>2, InvHolds, PTL DEF SafeSpec, ImplementsFifo, Link!SafeSpec
=============================================================================
