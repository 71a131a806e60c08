--------------------------- MODULE MCMemController ---------------------------
(***************************************************************************)
(* Lines of two bytes.  Lines A and C are in row 0 of bank 0, B in row 1,  *)
(* and D is in bank 1.                                                     *)
(* Three requests are enough for a write, a second write merged with it    *)
(* and a read of both, or for requests of both rows of a bank and one that *)
(* waits.                                                                  *)
(***************************************************************************)
EXTENDS MemController

Read(a, b, r)     == [type |-> "R", addr |-> a, len |-> 2, mask |-> {}, bank |-> b, row |-> r]
Write(a, m, b, r) == [type |-> "W", addr |-> a, len |-> 2, mask |-> m, bank |-> b, row |-> r]

LineA   == {Read(0, 0, 0), Write(0, {0, 1}, 0, 0)}
MaskedA == {Write(0, {0}, 0, 0), Write(0, {1}, 0, 0)}
LineB   == {Read(2, 0, 1), Write(2, {2, 3}, 0, 1)}
LineC   == {Read(4, 0, 0), Write(4, {4, 5}, 0, 0)}
ReadD   == {Read(4, 1, 0)}

MCBytes == 0 .. 5

Base == [dram |-> "HBM", phy |-> "Direct", sched |-> "FRFCFS", policy |-> "OpenPage",
         cap |-> 1, reads |-> 2, writes |-> 2, priority |-> 2, high |-> 1, low |-> 1,
         responses |-> 1, fifo |-> 1, boot |-> "Ready", refresh |-> "off",
         postpone |-> 0, pullin |-> 0, credit |-> 0, rfm |-> 0, rfm_all |-> FALSE,
         low_power |-> "Off", shapes |-> LineA \union MaskedA \union LineB, requests |-> 3,
         commands |-> {}, submits |-> 0, deadlines |-> 0]

Rows  == [Base EXCEPT !.shapes = LineA \union LineB]
Banks2 == [Rows EXCEPT !.shapes = @ \union ReadD]

Postponing == [Rows EXCEPT !.sched = "FCFS", !.refresh = "AB", !.postpone = 1, !.pullin = 1,
                           !.deadlines = 3]
Split      == [Banks2 EXCEPT !.dram = "LPDDR", !.refresh = "DB", !.rfm = 1, !.deadlines = 1]
LowPower   == [Banks2 EXCEPT !.refresh = "PB", !.rfm = 1, !.rfm_all = TRUE, !.low_power = "PowerDown",
                           !.postpone = 1, !.deadlines = 3, !.requests = 2]
Commanded  == [Rows EXCEPT !.low_power = "PowerDown", !.commands = {"MRW", "PDE", "SREFEN"},
                           !.submits = 1]
Booting    == [Rows EXCEPT !.phy = "Behavioral", !.boot = "Reset", !.refresh = "AB", !.deadlines = 1]
Trained    == [Base EXCEPT !.dram = "LPDDR", !.phy = "Behavioral", !.boot = "Reset",
                           !.commands = {"DVFS", "WCKTRAIN"}, !.submits = 2,
                           !.shapes = LineA, !.requests = 2]
Capped     == [Rows EXCEPT !.policy = "ClosedCap", !.refresh = "PB", !.deadlines = 1]

MCSafetyConfigs == {Base, Postponing, Split, LowPower, Commanded, Booting, Trained, Capped}

\* Masked writes through the PHY with data FIFOs.
MCForwardConfigs == {[Base EXCEPT !.phy = "Behavioral"]}

\* Two lines of one row, closed by every data command or by the second.
OneRow == [Base EXCEPT !.shapes = LineA \union LineC]
MCClosedPageConfigs == {[OneRow EXCEPT !.policy = p] : p \in {"ClosedPage", "ClosedCap"}}
=============================================================================
