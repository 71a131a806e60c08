------------------------------ MODULE UcieRetry ------------------------------
(***************************************************************************)
(* One direction of the UCIe link: TxAdapter (threads sender and           *)
(* feedback), PhyChannel, RxAdapter and FeedbackPath of ucie_link.h,       *)
(* between the producer that fills fdi_in and the consumer that empties    *)
(* fdi_out.  UcieLink holds two such directions that share no state.       *)
(*                                                                         *)
(* SystemC threads are cooperative: a thread runs from one wait to the     *)
(* next without being interleaved, and so does an action here.  The waits  *)
(* are the serialisation delay of send_one, the idle wait of sender, the   *)
(* blocking reads, and the blocking write of fdi_out.                      *)
(*                                                                         *)
(* The link never looks into a payload, so a flit is its transaction_id,   *)
(* and the producer numbers flits 0, 1, 2, ...  Time is abstracted: an     *)
(* idle wait may expire whenever there is something to replay, which       *)
(* includes the expiry caused by a consumer that stalls for longer than    *)
(* replay_timeout_ui_.                                                     *)
(***************************************************************************)
EXTENDS Naturals, Sequences, FiniteSets

CONSTANTS
    SeqMod,       \* size of the sequence number space of the header (256)
    Window,       \* cfg.retry_buffer_size
    NakRepeat,    \* cfg.nak_repeat_frames
    FdiDepth,     \* cfg.fdi_queue_size, depth of fdi_in and of fdi_out
    MaxFlits,     \* bound: flits the producer hands in
    MaxErrors,    \* bound: frames the PHY corrupts
    MaxWire,      \* bound: frames in PhyChannel (pending_ is unbounded)
    MaxFeedback   \* bound: messages in FeedbackPath (pending_ is unbounded)

\* require_valid_config: 1 <= retry_buffer_size <= 127 = SeqMod / 2 - 1.
\* The weaker 2 * Window <= SeqMod is all that the proofs need.
ASSUME ConstantAssumption ==
    /\ SeqMod \in Nat \ {0} /\ Window \in Nat \ {0}
    /\ 2 * Window <= SeqMod
    /\ NakRepeat \in Nat \ {0} /\ FdiDepth \in Nat \ {0}
    /\ MaxFlits \in Nat /\ MaxErrors \in Nat
    /\ MaxWire \in Nat \ {0} /\ MaxFeedback \in Nat \ {0}

VARIABLES
    \* producer and consumer
    produced,          \* flits handed in so far; the next transaction_id
    fdi_in,            \* transaction_ids waiting for the sender
    fdi_out,           \* transaction_ids waiting for the consumer
    received,          \* history: what the consumer has read
    \* TxAdapter
    tx_pc,             \* where the sender waits: train, idle, new or replay
    sending,           \* the frame send_one is serialising
    wake,              \* an event is pending for the idle sender
    next_seq,
    retry_buffer,      \* std::map from sequence number to flit
    replay_active, replay_cursor, replay_end,
    \* PhyChannel and FeedbackPath
    wire,              \* frames on their way to RxAdapter
    errors,            \* frames corrupted so far
    feedback,          \* ACKs and NAKs on their way back
    \* RxAdapter
    rx_busy,           \* run() is blocked in fdi_out->write
    rx_frame,          \* the frame it is about to deliver
    expected_seq, rx_state, frames_since_nak

producerVars == <<produced, fdi_in>>
consumerVars == <<fdi_out, received>>
replayVars   == <<replay_active, replay_cursor, replay_end>>
txVars       == <<tx_pc, sending, wake, next_seq, retry_buffer, replayVars>>
phyVars      == <<wire, errors>>
rxVars       == <<rx_busy, rx_frame, expected_seq, rx_state, frames_since_nak>>
vars == <<producerVars, consumerVars, txVars, phyVars, feedback, rxVars>>

-----------------------------------------------------------------------------
(* Frames and feedback messages.                                           *)

\* seq stands for the header byte, which holds seq % SeqMod; the receiver
\* looks at Seq8 only.  ok is what the CRC check will say.
Frame == [seq : Nat, id : Nat, ok : BOOLEAN]

NoFrame == [seq |-> 0, id |-> 0, ok |-> TRUE]

FbMsg == [is_nak : BOOLEAN, seq : Nat]

Ack(s) == [is_nak |-> FALSE, seq |-> s]
Nak(s) == [is_nak |-> TRUE, seq |-> s]

BuildFlit(seq, id) == [seq |-> seq, id |-> id, ok |-> TRUE]

Seq8(n) == n % SeqMod

\* diff of RxAdapter::run, an unsigned difference of header bytes.
Diff(seq, expected) == (Seq8(seq) + SeqMod - Seq8(expected)) % SeqMod

\* diff > 127.
IsOld(diff) == 2 * diff >= SeqMod

-----------------------------------------------------------------------------
Init ==
    /\ produced = 0 /\ fdi_in = <<>> /\ fdi_out = <<>> /\ received = <<>>
    /\ tx_pc = "train" /\ sending = NoFrame /\ wake = FALSE
    /\ next_seq = 0 /\ retry_buffer = [s \in {} |-> 0]
    /\ replay_active = FALSE /\ replay_cursor = 0 /\ replay_end = 0
    /\ wire = <<>> /\ errors = 0 /\ feedback = <<>>
    /\ rx_busy = FALSE /\ rx_frame = NoFrame
    /\ expected_seq = 0 /\ rx_state = "NoRetry" /\ frames_since_nak = 0

-----------------------------------------------------------------------------
(* The std::map of unacknowledged flits.                                   *)

Unacked == DOMAIN retry_buffer

\* lower_bound(key) of the buffer, when it is not end().
IsLowerBound(key, s) ==
    /\ s \in Unacked /\ s >= key
    /\ \A t \in Unacked : t >= key => s <= t

IsFirst(s) == IsLowerBound(0, s)

IsLast(s) == s \in Unacked /\ \A t \in Unacked : t <= s

-----------------------------------------------------------------------------
(* TxAdapter::sender.  Resume is one iteration of its loop, from the top   *)
(* to the next wait, entered with the given replay state.                  *)

\* it = lower_bound(replay_cursor_); send_one(it->first, it->second, true)
\* up to the serialisation wait.
StartReplayFrame(active, cursor, end) ==
    /\ active
    /\ \E s \in Unacked :
         /\ IsLowerBound(cursor, s) /\ s <= end
         /\ sending' = BuildFlit(s, retry_buffer[s])
    /\ tx_pc' = "replay"
    /\ replay_active' = TRUE
    /\ UNCHANGED <<fdi_in, next_seq, retry_buffer>>

\* lower_bound(replay_cursor_) is end() or beyond replay_end_.
ReplayOver(active, cursor, end) ==
    active => ~ \E s \in Unacked : cursor <= s /\ s <= end

\* Variant: the free-slot check is off by one.
CanAcceptOneMore == fdi_in # <<>> /\ Cardinality(Unacked) <= Window

CanAccept == fdi_in # <<>> /\ Cardinality(Unacked) < Window

\* A new flit gets the next sequence number and enters the retry buffer.
StartNewFrame(active, cursor, end) ==
    /\ ReplayOver(active, cursor, end)
    /\ CanAccept
    /\ sending' = BuildFlit(next_seq, Head(fdi_in))
    /\ retry_buffer' = [s \in Unacked \cup {next_seq} |->
                          IF s = next_seq THEN Head(fdi_in) ELSE retry_buffer[s]]
    /\ next_seq' = next_seq + 1
    /\ fdi_in' = Tail(fdi_in)
    /\ tx_pc' = "new"
    /\ replay_active' = FALSE

\* Nothing to send: wait for an event or for the replay timeout.
GoIdle(active, cursor, end) ==
    /\ ReplayOver(active, cursor, end)
    /\ ~CanAccept
    /\ tx_pc' = "idle"
    /\ sending' = NoFrame
    /\ replay_active' = FALSE
    /\ UNCHANGED <<fdi_in, next_seq, retry_buffer>>

Resume(active, cursor, end) ==
    /\ \/ StartReplayFrame(active, cursor, end)
       \/ StartNewFrame(active, cursor, end)
       \/ GoIdle(active, cursor, end)
    /\ replay_cursor' = cursor
    /\ replay_end' = end
    /\ wake' = FALSE

\* The initial wait for train_ui is over.
SenderTrained ==
    /\ tx_pc = "train"
    /\ Resume(replay_active, replay_cursor, replay_end)
    /\ UNCHANGED <<produced, consumerVars, phyVars, feedback, rxVars>>

\* The idle wait ends with wake_ev_ or data_written_event, and the time
\* since last_progress_ is below the replay timeout.
SenderWake ==
    /\ tx_pc = "idle"
    /\ wake
    /\ Resume(replay_active, replay_cursor, replay_end)
    /\ UNCHANGED <<produced, consumerVars, phyVars, feedback, rxVars>>

\* Variant: the timeout is only looked at when an event ends the wait.
SenderTimeoutOnEvent ==
    /\ tx_pc = "idle"
    /\ ~replay_active
    /\ wake
    /\ \E first, last \in Unacked :
         /\ IsFirst(first) /\ IsLast(last)
         /\ Resume(TRUE, first, last)
    /\ UNCHANGED <<produced, consumerVars, phyVars, feedback, rxVars>>

\* The idle wait ends and nothing was sent or fed back for the replay
\* timeout: replay the whole unacknowledged window.
SenderTimeout ==
    /\ tx_pc = "idle"
    /\ ~replay_active
    /\ \E first, last \in Unacked :
         /\ IsFirst(first) /\ IsLast(last)
         /\ Resume(TRUE, first, last)
    /\ UNCHANGED <<produced, consumerVars, phyVars, feedback, rxVars>>

\* BehavioralPhy::transmit, called by PhyChannel::ingress as soon as
\* phy_out->write hands it the frame: noise, skew or injected errors may
\* corrupt the bytes.  Every corruption is taken to fail the CRC.
Transmit(frame) ==
    \E ok \in BOOLEAN :
      /\ ~ok => errors < MaxErrors
      /\ errors' = IF ok THEN errors ELSE errors + 1
      /\ wire' = Append(wire, [frame EXCEPT !.ok = ok])

\* replay_cursor_ = it->first + 1.  An ACK handled during the wait of
\* send_one may have erased the entry `it` points to: the key read through
\* it is then whatever the freed node holds.
CursorAfter(seq) ==
    IF seq \in Unacked THEN {seq + 1} ELSE 0 .. next_seq

\* send_one of a new flit returns from its wait.
SendNewDone ==
    /\ tx_pc = "new"
    /\ Len(wire) < MaxWire
    /\ Transmit(sending)
    /\ Resume(replay_active, replay_cursor, replay_end)
    /\ UNCHANGED <<produced, consumerVars, feedback, rxVars>>

\* send_one of a replayed flit returns from its wait.
SendReplayDone ==
    /\ tx_pc = "replay"
    /\ Len(wire) < MaxWire
    /\ Transmit(sending)
    /\ \E cursor \in CursorAfter(sending.seq) :
         Resume(replay_active /\ cursor <= replay_end, cursor, replay_end)
    /\ UNCHANGED <<produced, consumerVars, feedback, rxVars>>

-----------------------------------------------------------------------------
(* TxAdapter::feedback: one message, to the next blocking read.            *)

\* Variant: the sender is not notified.
NotifyNobody == wake' = wake

NotifySender == wake' = (wake \/ tx_pc = "idle")

\* Variant: an ACK also releases the flit after the one it names.
FeedbackAckOneMore ==
    /\ feedback # <<>> /\ ~Head(feedback).is_nak
    /\ feedback' = Tail(feedback)
    /\ retry_buffer' = [s \in {t \in Unacked : t > Head(feedback).seq + 1} |->
                          retry_buffer[s]]
    /\ NotifySender
    /\ UNCHANGED <<producerVars, consumerVars, tx_pc, sending, next_seq,
                   replayVars, phyVars, rxVars>>

\* Variant: an ACK keeps the flit it names.
FeedbackAckOneLess ==
    /\ feedback # <<>> /\ ~Head(feedback).is_nak
    /\ feedback' = Tail(feedback)
    /\ retry_buffer' = [s \in {t \in Unacked : t >= Head(feedback).seq} |->
                          retry_buffer[s]]
    /\ NotifySender
    /\ UNCHANGED <<producerVars, consumerVars, tx_pc, sending, next_seq,
                   replayVars, phyVars, rxVars>>

\* A cumulative ACK releases every entry up to its sequence number.
FeedbackAck ==
    /\ feedback # <<>> /\ ~Head(feedback).is_nak
    /\ feedback' = Tail(feedback)
    /\ retry_buffer' = [s \in {t \in Unacked : t > Head(feedback).seq} |->
                          retry_buffer[s]]
    /\ NotifySender
    /\ UNCHANGED <<producerVars, consumerVars, tx_pc, sending, next_seq,
                   replayVars, phyVars, rxVars>>

\* A NAK rewinds the replay to its sequence number, or is stale.
FeedbackNak ==
    /\ feedback # <<>> /\ Head(feedback).is_nak
    /\ feedback' = Tail(feedback)
    /\ \/ \E s, last \in Unacked :
            /\ IsLowerBound(Head(feedback).seq, s) /\ IsLast(last)
            /\ replay_active' = TRUE
            /\ replay_cursor' = s
            /\ replay_end' = last
       \/ /\ \A s \in Unacked : s < Head(feedback).seq
          /\ UNCHANGED replayVars
    /\ NotifySender
    /\ UNCHANGED <<producerVars, consumerVars, tx_pc, sending, next_seq,
                   retry_buffer, phyVars, rxVars>>

-----------------------------------------------------------------------------
(* RxAdapter::run: one frame, to the blocking write or to the next read.   *)

\* FeedbackPath is a delay line that keeps the order: ingress takes every
\* message at once, egress hands them on one by one.
FeedbackPathReady == Len(feedback) < MaxFeedback

Arriving == wire # <<>> /\ ~rx_busy /\ FeedbackPathReady

HeadDiff == Diff(Head(wire).seq, expected_seq)

\* The expected frame: unpack it and block in fdi_out->write.
RxExpected ==
    /\ Arriving
    /\ Head(wire).ok /\ HeadDiff = 0
    /\ wire' = Tail(wire)
    /\ rx_state' = "NoRetry"
    /\ frames_since_nak' = 0
    /\ rx_busy' = TRUE
    /\ rx_frame' = Head(wire)
    /\ UNCHANGED <<producerVars, consumerVars, txVars, errors, feedback,
                   expected_seq>>

\* The write goes through; acknowledge and expect the next flit.
RxDeliver ==
    /\ rx_busy
    /\ Len(fdi_out) < FdiDepth
    /\ fdi_out' = Append(fdi_out, rx_frame.id)
    /\ feedback' = Append(feedback, Ack(expected_seq))
    /\ expected_seq' = expected_seq + 1
    /\ rx_busy' = FALSE
    /\ rx_frame' = NoFrame
    /\ UNCHANGED <<producerVars, received, txVars, phyVars, rx_state,
                   frames_since_nak>>

\* An old frame is dropped and the latest ACK repeated.
RxDuplicate ==
    /\ Arriving
    /\ Head(wire).ok /\ HeadDiff # 0 /\ IsOld(HeadDiff)
    /\ wire' = Tail(wire)
    /\ feedback' = IF expected_seq > 0
                     THEN Append(feedback, Ack(expected_seq - 1))
                     ELSE feedback
    /\ UNCHANGED <<producerVars, consumerVars, txVars, errors, rxVars>>

\* A corrupted frame, or one that arrives too early: NAK at once, then
\* again after every NakRepeat such frames until recovery.
RxBad ==
    /\ Arriving
    /\ Head(wire).ok => HeadDiff # 0 /\ ~IsOld(HeadDiff)
    /\ wire' = Tail(wire)
    /\ IF rx_state = "NoRetry" \/ frames_since_nak + 1 >= NakRepeat
         THEN /\ feedback' = Append(feedback, Nak(expected_seq))
              /\ frames_since_nak' = 0
         ELSE /\ frames_since_nak' = frames_since_nak + 1
              /\ UNCHANGED feedback
    /\ rx_state' = "RetryInProgress"
    /\ UNCHANGED <<producerVars, consumerVars, txVars, errors, rx_busy,
                   rx_frame, expected_seq>>

-----------------------------------------------------------------------------
(* The users of the two FDI ports.                                         *)

Produce ==
    /\ produced < MaxFlits
    /\ Len(fdi_in) < FdiDepth
    /\ fdi_in' = Append(fdi_in, produced)
    /\ produced' = produced + 1
    /\ NotifySender
    /\ UNCHANGED <<consumerVars, tx_pc, sending, next_seq, retry_buffer,
                   replayVars, phyVars, feedback, rxVars>>

Consume ==
    /\ fdi_out # <<>>
    /\ received' = Append(received, Head(fdi_out))
    /\ fdi_out' = Tail(fdi_out)
    /\ UNCHANGED <<producerVars, txVars, phyVars, feedback, rxVars>>

-----------------------------------------------------------------------------
Sender == SenderTrained \/ SenderWake \/ SenderTimeout \/ SendNewDone
            \/ SendReplayDone
Feedback == FeedbackAck \/ FeedbackNak
Rx == RxExpected \/ RxDeliver \/ RxDuplicate \/ RxBad

Next == Sender \/ Feedback \/ Rx \/ Produce \/ Consume

SafeSpec == Init /\ [][Next]_vars

\* Every thread that can run eventually runs: the SystemC kernel never
\* starves a runnable thread and every timed wait ends.  The consumer keeps
\* reading.  Nothing is assumed of the producer, nor of when a wait expires
\* relative to the other threads.
Fairness ==
    /\ WF_vars(SenderTrained) /\ WF_vars(SenderWake) /\ WF_vars(SenderTimeout)
    /\ WF_vars(SendNewDone) /\ WF_vars(SendReplayDone)
    /\ WF_vars(Feedback) /\ WF_vars(Rx) /\ WF_vars(Consume)

Spec == SafeSpec /\ Fairness
-----------------------------------------------------------------------------
(* Properties.                                                             *)

TypeOK ==
    /\ produced \in Nat /\ fdi_in \in Seq(Nat) /\ fdi_out \in Seq(Nat)
    /\ received \in Seq(Nat)
    /\ tx_pc \in {"train", "idle", "new", "replay"} /\ sending \in Frame
    /\ wake \in BOOLEAN /\ next_seq \in Nat
    /\ Unacked \subseteq Nat /\ IsFiniteSet(Unacked)
    /\ retry_buffer \in [Unacked -> Nat]
    /\ replay_active \in BOOLEAN /\ replay_cursor \in Nat /\ replay_end \in Nat
    /\ wire \in Seq(Frame) /\ errors \in 0 .. MaxErrors
    /\ feedback \in Seq(FbMsg)
    /\ rx_busy \in BOOLEAN /\ rx_frame \in Frame /\ expected_seq \in Nat
    /\ rx_state \in {"NoRetry", "RetryInProgress"} /\ frames_since_nak \in Nat

\* What has left the link, read by the consumer or not.
Delivered == received \o fdi_out

\* Exactly once, in order: the flits RxAdapter wrote to fdi_out are the
\* first expected_seq flits of the producer, whatever was corrupted,
\* replayed, dropped as a duplicate or replayed through a stale iterator.
ExactlyOnceInOrder ==
    /\ Len(Delivered) = expected_seq
    /\ \A i \in 1 .. Len(Delivered) : Delivered[i] = i - 1

\* A flit the sender took from fdi_in stays in the retry buffer until it is
\* delivered: cumulative ACKs never release what the receiver still needs,
\* and the buffer never outgrows its configured size.
NothingLost ==
    /\ Cardinality(Unacked) <= Window
    /\ \A s \in expected_seq .. (next_seq - 1) :
         s \in Unacked /\ retry_buffer[s] = s

\* Of every frame on the wire, however old, the header byte tells the
\* receiver the truth: diff = 0 exactly for the expected flit and diff in the
\* upper half exactly for flits already delivered.
WindowUnambiguous ==
    \A i \in 1 .. Len(wire) :
      LET diff == Diff(wire[i].seq, expected_seq)
      IN  /\ diff = 0 <=> wire[i].seq = expected_seq
          /\ IsOld(diff) <=> wire[i].seq < expected_seq

\* A sender asleep with no event pending has nothing to do but to wait for
\* the replay timeout: no NAK, no freed buffer slot and no new flit was
\* missed because its notification came while the sender was elsewhere.
NoLostWakeup ==
    tx_pc = "idle" /\ ~wake => ~CanAccept /\ ~replay_active

\* The link settles: once the producer has stopped and the PHY errors are
\* over, every flit is acknowledged and retransmission ends.
Settles == <>[](Unacked = {} /\ fdi_in = <<>> /\ wire = <<>> /\ feedback = <<>>)

\* The abstract link this direction implements.
Link == INSTANCE ReliableFifo
          WITH Flit <- 0 .. (MaxFlits - 1),
               sent <- [i \in 1 .. produced |-> i - 1],
               got  <- received

\* The direction is a reliable FIFO: no loss, no duplicate, no reordering ...
ImplementsFifo == Link!SafeSpec

\* ... and every flit handed in is eventually handed out.
ImplementsLiveFifo == Link!Spec
=============================================================================
