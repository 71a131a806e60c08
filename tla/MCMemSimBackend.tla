--------------------------- MODULE MCMemSimBackend ---------------------------
(***************************************************************************)
(* Three lines; 1 and 3 share a channel.  A burst of lines 1 and 2 has its *)
(* children in two channels, and another burst overlaps it.                *)
(***************************************************************************)
EXTENDS MemSimBackend, ChannelMap

MCLines == 1 .. 3

Shape(type, cells) == [type |-> type, cells |-> cells, qos |-> 0, bad |-> FALSE]

Geometry == [org |-> [f \in Fields |-> IF f \in {"channel", "row"} THEN 2 ELSE 1], mapping |-> "RoBaRaCoCh",
             efficiency |-> FALSE, mapper |-> "decoded", stacks |-> 1, stripe |-> 1, blocked |-> FALSE, chunk |-> 1]
Routes(g) == [l \in MCLines |-> Route(g, l)]

TwoChannels == Routes(Geometry)
TwoStacks   == Routes([Geometry EXCEPT !.org["channel"] = 1, !.stacks = 2])

Base == [user |-> "bridge", mode |-> "HostOnly", stacks |-> 1, channels |-> 2, route |-> TwoChannels,
         ingress |-> 1, width |-> 1, qos |-> "Fifo", depth |-> 1, cresp |-> 1, hostcap |-> 1, txncap |-> 0,
         slots |-> 2, hold |-> 1, fifo |-> 1, tags |-> {}, requests |-> 3, faults |-> FALSE,
         shapes |-> {Shape("W", <<1, 2>>), Shape("R", <<2, 3>>), Shape("R", <<1, 2>>)}]

\* Out of the window, and a fault in the memory.
Faulty == [Base EXCEPT !.faults = TRUE, !.hold = 0, !.requests = 2,
               !.shapes = {Shape("W", <<1, 2>>), Shape("R", <<1, 2>>), [Shape("R", <<3>>) EXCEPT !.bad = TRUE]}]

Frontend2 == [Base EXCEPT !.user = "frontend", !.stacks = 2, !.channels = 1, !.route = TwoStacks,
                          !.txncap = 1, !.tags = {"a", "b"}, !.requests = 2,
                          !.shapes = {Shape("W", <<1, 2>>), Shape("R", <<2, 1>>)}]

\* Two tags at a time, and one tag used again.
Frontends == {[Frontend2 EXCEPT !.mode = "Disabled"]}
    \union {[Frontend2 EXCEPT !.mode = m, !.tags = {"a"}, !.ingress = 2, !.width = 2] : m \in {"TransactionOnly", "Both"}}

\* Requests of line 3 have a higher class.
Strict == [Base EXCEPT !.user = "frontend", !.qos = "StrictPriority", !.ingress = 2, !.tags = {"a", "b"},
               !.requests = 2,
               !.shapes = {Shape("W", <<1>>), Shape("R", <<1>>), [Shape("W", <<3>>) EXCEPT !.qos = 1]}]

Batch == [Base EXCEPT !.user = "batch", !.mode = "Disabled", !.tags = {"a"}, !.requests = 2]

MCConfigs == {Base, Faulty, Strict, Batch} \union Frontends
=============================================================================
