----------------------------- MODULE MCAxiMaster -----------------------------
(***************************************************************************)
(* Two planes and two or three requests for each master.                   *)
(***************************************************************************)
EXTENDS AxiMaster

MCIds == 1 .. 3

Ask(write, segs) == [write |-> write, segs |-> segs, bad |-> {}, valid |-> TRUE, native |-> 0, id |-> 1, qos |-> 0]

Base == [planes |-> 2, requests |-> 1, data |-> 1, routes |-> 1, depth |-> 1, events |-> 2, unpack |-> 1,
         flit |-> 2, rxdepth |-> 1, credits |-> {0}, master |-> "vortex", stalls |-> FALSE, lead |-> 1,
         slots |-> 2, maxId |-> 2, cursors |-> 2, due |-> {0}, resets |-> 0,
         work |-> <<Ask(TRUE, <<2, 1>>), Ask(FALSE, <<2>>)>>]

\* IDs used again; an error in the first of two bursts; a request refused.
Vortex == {Base,
           [Base EXCEPT !.stalls = TRUE, !.routes = 2, !.data = 2, !.work = <<Ask(TRUE, <<1, 1>>), Ask(TRUE, <<2>>)>>],
           [Base EXCEPT !.slots = 1, !.stalls = TRUE, !.work = <<Ask(TRUE, <<1>>), Ask(FALSE, <<2>>), Ask(TRUE, <<1>>)>>],
           [Base EXCEPT !.rxdepth = 2, !.due = {0, 1}, !.work =
                <<[Ask(FALSE, <<2, 1>>) EXCEPT !.bad = {<<1, 1>>}], Ask(FALSE, <<1>>),
                  [Ask(TRUE, <<1>>) EXCEPT !.valid = FALSE]>>]}

\* Two requests of one native ID go to different planes.
Coral == {[Base EXCEPT !.master = "coral", !.maxId = 3, !.slots = 3, !.rxdepth = 2, !.work =
               <<Ask(FALSE, <<1>>), Ask(FALSE, <<1>>), [Ask(TRUE, <<2>>) EXCEPT !.bad = {<<1, 2>>}]>>],
          [Base EXCEPT !.master = "coral", !.stalls = TRUE, !.work = <<Ask(TRUE, <<2>>), Ask(TRUE, <<2>>)>>]}

\* One ID on two planes; a reset.
Others == {[Base EXCEPT !.master = "free", !.unpack = 2, !.depth = 2, !.flit = 3, !.credits = {0, 2}, !.work =
              <<Ask(FALSE, <<2>>), [Ask(FALSE, <<1>>) EXCEPT !.qos = 1]>>],
         [Base EXCEPT !.master = "free", !.resets = 1, !.routes = 2, !.requests = 2, !.work =
              <<Ask(TRUE, <<2>>), [Ask(TRUE, <<1>>) EXCEPT !.qos = 1], Ask(TRUE, <<1>>)>>]}

MCConfigs == Vortex \union Coral \union Others
=============================================================================
