--------------------------- MODULE MCMemoryImage ---------------------------
(***************************************************************************)
(* Three lines of two bytes: two in one row, the third in another row of   *)
(* the bank or in another bank; a chunk for every line or for every two.   *)
(***************************************************************************)
EXTENDS MemoryImage, ChannelMap

MCLines == 0 .. 2

Small    == [f \in Fields |-> IF f = "column" THEN 2 ELSE 1]
Geometry == [org |-> [Small EXCEPT !["row"] = 2], mapping |-> "Default", efficiency |-> FALSE, mapper |-> "decoded",
             stacks |-> 1, stripe |-> 1, blocked |-> FALSE, chunk |-> 1]
Places(g) == [l \in MCLines |-> Place(g, l)]

OneBank     == Places(Geometry)
TwoBanks    == Places([Geometry EXCEPT !.org = [Small EXCEPT !["bank"] = 2], !.chunk = 2])
TwoChannels == [Geometry EXCEPT !.org = [Small EXCEPT !["channel"] = 2], !.mapper = "xor"]

Whole == <<TRUE, TRUE>>
Base == [kind |-> "chunk", place |-> OneBank, cache |-> 1, ecc |-> FALSE, period |-> 0, correct |-> TRUE,
         online |-> FALSE, reload |-> FALSE, masks |-> {Whole, <<FALSE, TRUE>>}, writes |-> 2, crashes |-> 1]

\* The three kinds; reload; the online interface; errors injected in whole
\* lines, corrected and not.
MCConfigs ==
    {Base, [Base EXCEPT !.place = TwoBanks, !.cache = 2],
     [Base EXCEPT !.kind = "mmap", !.place = TwoBanks],
     [Base EXCEPT !.reload = TRUE, !.crashes = 0],
     [Base EXCEPT !.kind = "sparse", !.place = Places([TwoChannels EXCEPT !.mapping = "RoBaRaCoCh"]),
                  !.online = TRUE, !.masks = {<<FALSE, TRUE>>, <<FALSE, FALSE>>}],
     [Base EXCEPT !.ecc = TRUE, !.period = 2, !.masks = {Whole}, !.writes = 3, !.crashes = 0],
     [Base EXCEPT !.ecc = TRUE, !.period = 1, !.correct = FALSE, !.kind = "sparse", !.masks = {Whole}, !.crashes = 0]}

\* The mapping and the channel mapper of configs/hbm.cfg.
MCShipped == {[Base EXCEPT !.kind = "sparse", !.place = Places(TwoChannels)]}
=============================================================================
