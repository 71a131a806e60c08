----------------------------- MODULE OrderedMemory -----------------------------
(***************************************************************************)
(* What the memory behind the AoU target promises: bursts take effect one  *)
(* after the other in the order in which they are accepted, and are        *)
(* answered in that order, each once.  A burst that is refused, or that    *)
(* meets a fault, is answered with an error in its turn.                   *)
(***************************************************************************)
EXTENDS Integers, Sequences

CONSTANTS
    Cells,          \* addresses
    Bursts          \* what may be asked: write, the cells in order, bad

VARIABLES
    memory,         \* the value of each cell
    owed,           \* the answers to bursts accepted and not yet answered
    answers,        \* answers not yet taken
    stamp           \* number of the last burst accepted

vars == <<memory, owed, answers, stamp>>

Init == memory = [c \in Cells |-> 0] /\ owed = <<>> /\ answers = <<>> /\ stamp = 0

\* The answer owed to a burst: a read returns what its cells hold now.
Answer(b) == [serial |-> stamp + 1, error |-> b.bad,
              data |-> IF b.write \/ b.bad THEN <<>> ELSE [k \in DOMAIN b.cells |-> memory[b.cells[k]]]]

Accept(b) ==
    /\ stamp' = stamp + 1
    /\ owed' = Append(owed, Answer(b))
    /\ memory' = IF ~b.write \/ b.bad THEN memory
                 ELSE [c \in Cells |-> IF \E k \in DOMAIN b.cells : b.cells[k] = c THEN stamp + 1 ELSE memory[c]]
    /\ UNCHANGED answers

Return ==
    /\ owed # <<>>
    /\ \E fault \in BOOLEAN :
           answers' = Append(answers, IF fault THEN [Head(owed) EXCEPT !.error = TRUE, !.data = <<>>]
                                               ELSE Head(owed))
    /\ owed' = Tail(owed)
    /\ UNCHANGED <<memory, stamp>>

Take == /\ answers # <<>> /\ answers' = Tail(answers)
        /\ UNCHANGED <<memory, owed, stamp>>

Next == (\E b \in Bursts : Accept(b)) \/ Return \/ Take

Spec == Init /\ [][Next]_vars

\* Every burst accepted is answered.
LiveSpec == Spec /\ WF_vars(Return) /\ WF_vars(Take)
=============================================================================
