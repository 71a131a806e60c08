----------------------------- MODULE AddressMap -----------------------------
(***************************************************************************)
(* addr_map.cpp: where an address lies.  StackAddressMapper chooses the    *)
(* stack and the address in it, AddressMapper takes the transaction number *)
(* apart into the coordinates of the DRAM, digit by digit from the lowest. *)
(*                                                                         *)
(* Addresses are counted in transactions, the unit AddressMapper divides   *)
(* by: the stripes of interleaved stacks are whole lines (system.cpp:252). *)
(* Addresses beyond the capacity, which the code refuses, are left out.    *)
(***************************************************************************)
EXTENDS Integers, Sequences

\* The fields of Organization that have a coordinate.
Fields == {"column", "bank", "bank_group", "pseudo_channel", "sid", "rank", "channel", "row"}

Kinds == {"Default", "RoBaRaCoCh", "ChRaBaRoCo", "RoCoRaBaCh"}

\* The fields in the order in which decode takes them; take_bank_composite
\* takes bank, bank group, pseudo channel and SID.
Order(kind) ==
    CASE kind = "Default"    -> <<"column", "bank", "bank_group", "pseudo_channel", "sid", "rank", "channel", "row">>
      [] kind = "RoBaRaCoCh" -> <<"channel", "column", "rank", "bank", "bank_group", "pseudo_channel", "sid", "row">>
      [] kind = "ChRaBaRoCo" -> <<"column", "row", "bank", "bank_group", "pseudo_channel", "sid", "rank", "channel">>
      [] kind = "RoCoRaBaCh" -> <<"channel", "bank", "bank_group", "pseudo_channel", "sid", "rank", "column", "row">>

\* The organization in the order of a mapping: the radix of each digit.
Radix(org, kind) == [i \in 1 .. 8 |-> org[Order(kind)[i]]]

\* take_mod leaves the quotient for the next digit; line before each digit.
Quotients(n, line) ==
    LET q2 == line \div n[1]
        q3 == q2 \div n[2]
        q4 == q3 \div n[3]
        q5 == q4 \div n[4]
        q6 == q5 \div n[5]
        q7 == q6 \div n[6]
        q8 == q7 \div n[7]
    IN  <<line, q2, q3, q4, q5, q6, q7, q8>>

Digits(n, line) == [i \in 1 .. 8 |-> Quotients(n, line)[i] % n[i]]

\* AddressMapper::decode.  The efficiency modes of LPDDR have no secondary
\* sub-channel.
Decode(org, kind, efficiency, line) ==
    LET digits == Digits(Radix(org, kind), line)
        place(f) == CHOOSE i \in 1 .. 8 : Order(kind)[i] = f
    IN  [f \in Fields |-> IF efficiency /\ f = "pseudo_channel" THEN 0 ELSE digits[place(f)]]

\* total_addressable_transactions
Transactions(org) ==
    org["channel"] * org["pseudo_channel"] * org["sid"] * org["rank"] * org["bank_group"] * org["bank"]
        * org["row"] * org["column"]

\* StackAddressMapper: count stacks of a capacity, in blocks or in stripes.
StackDecode(count, stripe, capacity, blocked, a) ==
    IF count = 1 THEN [stack |-> 0, local |-> a]
    ELSE IF blocked THEN [stack |-> a \div capacity, local |-> a % capacity]
    ELSE [stack |-> (a \div stripe) % count, local |-> ((a \div stripe) \div count) * stripe + (a % stripe)]

StackEncode(count, stripe, capacity, blocked, p) ==
    IF count = 1 THEN p.local
    ELSE IF blocked THEN p.stack * capacity + p.local
    ELSE ((p.local \div stripe) * count + p.stack) * stripe + (p.local % stripe)
=============================================================================
