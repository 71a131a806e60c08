----------------------------- MODULE ChannelMap -----------------------------
(***************************************************************************)
(* MemorySystem::enqueue: where a request is sent and where its data lies. *)
(* g has the organization, the mapping, the channel mapper and the stacks. *)
(* round_robin, which sends a request to the next channel whatever its     *)
(* address, is left out.                                                   *)
(***************************************************************************)
EXTENDS AddressMap, Bitwise

Stack(g, a) == StackDecode(g.stacks, g.stripe, Transactions(g.org), g.blocked, a)

\* AddressMapper::decode of the stack-local address.
Coordinates(g, a) == Decode(g.org, g.mapping, g.efficiency, Stack(g, a).local)

XorChannel(line, channels) == ((line ^^ (line \div 64)) ^^ (line \div 4096)) % channels

target_channel(g, a) ==
    IF g.mapper = "xor" THEN XorChannel(Stack(g, a).local, g.org["channel"]) ELSE Coordinates(g, a)["channel"]

\* storage_decoded of localize_request: the channel is replaced, nothing else.
storage_decoded(g, a) == [Coordinates(g, a) EXCEPT !["channel"] = target_channel(g, a)]

\* bank_key_from_decoded, as a number.
bank_key(g, d) ==
    LET o == g.org
    IN  ((((d["channel"] * o["pseudo_channel"] + d["pseudo_channel"]) * o["sid"] + d["sid"]) * o["rank"] + d["rank"])
            * o["bank_group"] + d["bank_group"]) * o["bank"] + d["bank"]

\* The banks that a PREAB closes together.
rank_key(g, d) == bank_key(g, d) \div (g.org["bank_group"] * g.org["bank"])

\* What MemoryImage knows of a line: its coordinates, and the chunk of the
\* back end, which goes by address.
Place(g, a) ==
    LET d == storage_decoded(g, a)
    IN  [bank |-> bank_key(g, d), rank |-> rank_key(g, d), row |-> d["row"], column |-> d["column"],
         chunk |-> Stack(g, a).local \div g.chunk]

\* What MemorySystem knows of a line: where its request goes.
Route(g, a) == [stack |-> Stack(g, a).stack + 1, local |-> Stack(g, a).local, channel |-> target_channel(g, a) + 1]
=============================================================================
