---------------------------- MODULE ReliableFifo ----------------------------
(***************************************************************************)
(* What one direction of a UCIe link promises at its two FDI ports: the    *)
(* flits handed in on one side come out on the other side, each exactly    *)
(* once and in the order they were handed in.  Delay, noise, sequence      *)
(* numbers and retransmission are invisible here.                          *)
(***************************************************************************)
EXTENDS Naturals, Sequences

CONSTANT Flit       \* the flits a producer may hand in

VARIABLES sent,     \* every flit handed in so far, in order
          got       \* every flit handed out so far, in order

fifoVars == <<sent, got>>

Init == sent = <<>> /\ got = <<>>

Put == /\ \E f \in Flit : sent' = Append(sent, f)
       /\ UNCHANGED got

Get == /\ Len(got) < Len(sent)
       /\ got' = Append(got, sent[Len(got) + 1])
       /\ UNCHANGED sent

Next == Put \/ Get

SafeSpec == Init /\ [][Next]_fifoVars

\* A reliable link does not keep a flit forever.
Spec == SafeSpec /\ WF_fifoVars(Get)
=============================================================================
