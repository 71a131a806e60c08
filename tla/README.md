# TLA+ verification of StorageStacked

StorageStacked carries AXI reads and writes of accelerators over a modelled chiplet
link to an online memory simulator:

```
AXI master -> Axi2Flit -> UcieAouAdapter -> UcieLink -> AouTarget -> MemSimBackend -> mem_sim
(Vortex,   <-  (5 channel threads,          (retry,     (storage      (bursts into    (MemorySystem,
 CoralNPU)     packer, unpacker, credits)    PHY)        side)         transactions)   Controller,
                                                                                       MemoryImage)
```

The front half runs as cooperative SystemC threads: a thread is never interrupted
between two `wait` calls, so an action of the models is one stretch of code from a
wait to the next. mem_sim is sequential, but many requests are under way in it at
once. What makes the system hard is what happens *across* waits and between
requests: acknowledgements that arrive while a frame is being serialised, `ready`
signals that are a clock old, messages cut at flit boundaries, credits that are in
four places at once, write data that overtakes its request, reads served from
writes that have not reached the memory, rows closed under a request that opened
them, files of a process that is killed.

Contents: [inventory](#inventory), [modules](#modules), [runs](#runs),
[proofs](#proofs), [findings](#findings), [not modelled](#not-modelled),
[plan](#plan).

## Inventory

| Component | Source | State | Operations | Interacts with | What makes it correct |
|---|---|---|---|---|---|
| UCIe retry link | `components/ucie-model/src/ucie_link.h` | sequence counters, retry buffer, replay registers, NAK counter, PHY and feedback queues | send new, replay, ACK, NAK, idle wait with timeout, receive good/old/bad frame | FDI FIFOs on both sides | exactly once, in order, nothing lost, eventually delivered, 8-bit sequence numbers never misread |
| UCIe PHY and frame format | `ucie_phy.h`, `ucie_common.h` | noise, jitter, CDR, CRC tables | transmit a frame, check it | retry link | corruption is detected |
| Link status | `ucie_link.h` `status_thread` | Training, Active, Degraded, Failed | training ends, supervisor fails the link | adapter | no traffic outside Active/Degraded |
| Credit manager | `components/axi2flit/systemc/include/credit_manager.h` | available, pending and capacity matrices, round-robin plane | consume, free, grant in a header, grant in a message | packer, unpacker, target | granules conserved, buffers never overrun, credit comes back to every plane |
| Flit packer | `src/flit_packer.cpp` | staging slots, flit under construction, cut message, output register, two timers | pack, cut, resume, flush, dedicated grant | AXI threads, credits, adapter | messages whole and in order, partial flits and lone credit get out |
| Flit unpacker, stream decoder | `src/flit_unpacker.cpp`, `include/aou_stream_decoder.h` | holding register, carried message | parse, route | adapter, AXI threads, credits | every flit of the packer is accepted; no message routed twice |
| AXI channels, order guard | `src/axi2flit.cpp`, `include/rp_order_guard.h` | registered ready/valid, routing queue of writes, ID to plane bindings | AW, W, AR, B, R handshakes, bind, retire, reset | packer, unpacker, AXI master | W follows its AW's plane; answers of one ID in order, or reported |
| UCIe/AoU adapter | `storage_axi/link/ucie_aou_adapter.h` | published ready, held flit | hand over a flit on an edge | packer, link, unpacker | published ready is a reservation; a held flit is not lost |
| AXI masters | `vortex_StorageStacked/integration/axi_master.cc`, `coralnpu_StorageStacked/integration/axi_master.cc` | segments, IDs in use, cursors of the sending threads, native order | admit, split, send, receive, complete, retire | accelerator, AXI channels | a response reaches its own request, errors are kept, native order, everything completes |
| AoU target | `storage_axi/link/aou_target.h` | request slots, write data, tickets, replies, cut response, outstanding count | receive, collect, assemble, submit, transmit | link, memory back end | data joins its own write, slots released once, responses in order, no deadlock through credits |
| Memory back end | `storage_axi/memsim_backend.cc`, `mem_sim/integration/online.cpp` | bursts, children, candidate | accept, submit child, complete child, return | target, mem_sim | an ordered memory, whatever order the children complete in |
| Address mapping | `mem_sim/src/core/addr_map.cpp`, `system.cpp` `localize_request`, `target_channel` | - | stack and channel of an address, coordinates, place of its data | system, image | no two addresses in one place |
| Memory system | `components/mem_sim/src/core/system.cpp` | stack ingress, assemblies, two response queues, tags in flight | try_submit, dispatch, collect, join, pop | back end, frontends, controllers | responses whole, tags never shared, no response held back |
| Controller, DRAM, PHY | `controller/*.cpp`, `dram/{state,semantics,mem_phy}.cpp` | read, write, priority and active queues, buffered writes, write mode, bank states, refresh debt, PHY FIFOs | enqueue, tick: complete, refresh, choose, issue; pop | system, image | reads see what was accepted before them, an opened bank is kept, refresh in time, always drains |
| DRAM timing, trace validator | `controller/{timing,executor,scheduler}.cpp`, `dram/{spec,profiles,state}.cpp`, `validation/validator.cpp` | clock, earliest times per bank, rank and channel, activation windows, WCK window, pending ACT2 | command ready, issue, update of the distances; independent replay of the trace | controller, PHY | every command keeps every distance, everything is served |
| Memory image, storage | `core/data.cpp`, `core/memory_backend.cpp` | row buffers, lines with ECC, cached chunks, files, counters | activate, precharge, read, write, checkpoint, reload, open, close | controller, file system | reads return the last write for every back end, files sound when killed |
| gem5 client, drivers, CLI, DFI trace | `storage_axi/aou_backend.cc`, `mem_sim/src/{cli,config,frontend,stats,validation}` | event queues, files | - | - | test and integration code |

Vendored SystemC and gem5, the Vortex and CoralNPU processors, `delivery/`, `tools/`
and the scripts are third-party or tooling and are left out. The hazards of the
components, each at its line and with the properties aimed at it, are listed in
`PROJECT.json`.

## Modules

Each definition names the code it stands for in `PROJECT.json` ("map"). A
definition introduced by the comment "Variant:" is a plausible bug; replacing the
definition below it by the variant makes the property listed for it under
"mutants" fail. Variants are not part of any specification.

The modules stack: each is checked on its own, against an environment that does
whatever the neighbouring module promises.

| Module | Stands for | Relies on |
|---|---|---|
| `ReliableFifo` | abstract: what the link promises | |
| `UcieRetry` | one direction of `UcieLink` | refines `ReliableFifo` |
| `CreditLoop` | both ends of one direction of the credits | |
| `FlitStream` | packer, adapter (transmit), decoder | a reliable FIFO; credits that come back |
| `AxiBridge` | channel threads, order guard, unpacker, adapter (receive) | target and link answer every request |
| `AxiMaster` | both AXI masters, composed with `AxiBridge` | |
| `AouTarget` | the target | a memory that answers each ID in order |
| `OrderedMemory` | abstract: what the memory back end promises | |
| `MemorySystem` | mem_sim's system | controllers as `MemController` checks them |
| `MemSimBackend` | the back end, composed with `MemorySystem` | refines `OrderedMemory`, hence what `AouTarget` assumes |
| `DramCommands`, `MemController` | a channel controller with DRAM state and PHY | an image that returns what was written |
| `DramTables`, `DramTiming` | the controller with its clock: tables, readiness, scheduler | |
| `TraceValidator` | the validator, fed with what `DramTiming` issues | |
| `AddressMap`, `ChannelMap` | where an address lies | |
| `MemoryImage` | the image with its back ends | places from `ChannelMap` |

### `ReliableFifo` and `UcieRetry`

`ReliableFifo` is what a user of the link may rely on: flits come out once and in
order (`SafeSpec`), and come out at all (`Spec`). `UcieRetry` is one direction of
`UcieLink`: `TxAdapter::sender` (`Resume` and its parts, one loop iteration up to
the next wait; `tx_pc` says at which wait the thread stands), `TxAdapter::feedback`
(`FeedbackAck`, `FeedbackNak`), `PhyChannel` (`wire`), `FeedbackPath` (`feedback`)
and `RxAdapter::run` (`RxExpected`, `RxDeliver`, `RxDuplicate`, `RxBad`).

* The link does not look into payloads, so a flit is its `transaction_id`.
* Time is abstracted: the idle wait may time out whenever there is something to
  replay. This includes a timeout while the ACK is under way, which happens when
  the consumer stalls for longer than the timeout.
* Corruption is chosen when a frame enters the wire; the CRC is taken to detect
  every corruption. The two FIFO stages of the PHY and its `pending_` queue are one
  queue. `tx_state_` and the statistics, which nothing reads, are left out.
* `ucie_link.h:109` dereferences an iterator taken before the serialisation wait.
  An ACK handled in between may have erased the node (`ucie_link.h:162-164`). The
  value read is then undefined, and the model lets the replay cursor be any number
  up to `next_seq`. Safety and liveness hold for every choice.

### `CreditLoop`

One direction of the credit loop: the sender's `tx_available_`, the receiver's
`rx_pending_return_`, and granules in flight in messages and grants. The codes
1, 4, 8, ... 128, the two-bit field of WRESP, the saturation of both counters and
the rotation of header grants over planes are as in `credit_manager.h`. Which
stored message is freed first is left open, which allows more than the code does.

### `FlitStream`

The request direction: `FlitPacker::packing_thread` (`PackerEdge`), the transmit
half of `UcieAouAdapter::transfer` (`AdapterEdge`), and `AouStreamDecoder::parse`
in `AouTarget::receive` (`TargetReceive`). Packer and adapter are on one clock and
a signal written on an edge is seen on the next, so `Edge` is both threads reading
the old state. `PackCycle` is the packing loop as a function; a granule is a pair
of message and offset, and the decoder reads only what the wire shows: where a
message starts, and its size from its first granule.

* `fill_staging_slots` precedes every selection, so a staging slot and the FIFO
  behind it are one queue whose head is in the slot.
* Messages have one size per kind (the code has two for write data); the packer
  and the decoder treat sizes alike.
* The link with its FIFOs is one reliable FIFO, as `UcieRetry` shows it to be; the
  supervisor's `fail()` may happen at any time.
* Credit amounts are units: a flit carries some or all of what is pending.

### `AxiBridge` and `AxiMaster`

`AxiBridge` is the AXI side of the bridge. `BridgeEdge` is one clock edge: the
AW, W, AR, R and B threads, the receive half of the adapter and the unpacker each
read the signals of the previous edge. `RpOrderGuard` is `Guards`. The reset
empties what `reset_queues_and_order` empties and nothing else. `AxiMaster` puts a
master in front of it: Vortex (one request is split into segments, each a burst;
IDs from a counter that skips those in use), CoralNPU (one burst per native
request, retired in native order) or a free master that chooses IDs and planes
itself. A behaviour ends when the work is done.

* Packer, link and target are one step each (`PackerTakes`, `Sends`, `Answers`):
  they pass on messages of a plane in order and answer in any order across planes,
  with or without an error, which is what the other modules show of them.
* Beats are numbered, not filled; byte lanes are left out.

### `AouTarget`

All of `AouTarget::run`. `stage` is its program counter: `receive`, `collect`,
`assemble`, `submit`, `transmit` happen in this order on every edge, and the
surroundings (bridge, link, memory) act while the thread waits. A failed
`require`, which is fatal in the code, leads to stage `fatal`. The memory obeys
the contract of `simple_mem_if.h` (same direction, plane and ID in order), which
is weaker than what `MemSimBackend` does. Write data may overtake its request: the
packer sends it ahead when only WREQ credit is short. Credits are counted in
messages, and a header returns everything owed to one plane, chosen freely.

### `OrderedMemory`, `MemorySystem` and `MemSimBackend`

`OrderedMemory` is a memory that takes whole bursts one at a time: a burst reads or
writes all its cells when it is admitted, and answers leave in order of admission.
`MemSimBackend` is `MemSimBackend::run` on the online interface, which splits a
burst into children of one DRAM transaction, submits them one by one, joins what
comes back and returns it in order. `MemorySystem` is `tick`: dispatch from the
ingress of each stack to its controllers, the controllers, and the collection of
responses, which stops while a queue that the response must go to is full. `at` is
the program counter. Beside the back end, two other users of the system are
modelled: a frontend with tags (`try_submit`, `pop_response`,
`pop_transaction_response`, in all delivery modes) and a batch run.

* A controller is what it promises: accepted transactions are answered once, in any
  order, and reads return what was accepted before. `memctl_safety` checks that
  promise on the code of the controller; the finding on forwarded reads below is where the
  controller breaks it, and there `ImplementsOrderedMemory` would not hold either.
* Written data is the number of the request it comes from.

### `DramCommands` and `MemController`

One `Controller` with its DRAM state and PHY. `TickBegins` completes what is
pending and ages the refresh counters, the `Issue...` actions are `choose` and
`issue` on one command bus each, `TickEnds` ends the cycle; `phase` says where in
`tick` the controller is, and hosts act when it is idle. `DramCommands` has the
commands, when `check_command_state` allows them and what `CommandExecutor::issue`
does to the banks.

* Timing distances are nondeterministic: a command whose state allows it may be
  ready or not, except that a pending deadline (`nAADMax`) has to be met by the
  priority the code gives it. So any timing table is covered, including ones no
  real part has.
* Bytes of buffered writes carry the order in which they were accepted, as in
  `BufferedWriteState::byte_sequence`. A value is the number of its write.
* A refresh deadline may pass in any tick, also in one that returns early while the exit
  from low power lasts; `RefreshManager::tick` then counts several at once. Therefore the
  refresh debt is bounded by the postpone limit and the number of such deadlines
  (`RefreshDebtBounded`), not by the limit alone.
* Two banks, or one, in a rank. Bank groups, stack IDs and pseudo channels only
  change timing.

### `DramTables`, `DramTiming` and `TraceValidator`

`MemController` lets any delay pass; `DramTiming` is the same controller with the
clock, and deterministic: what is ready is computed from the distances. `DramTables`
has the timing entries that `build_hbm...` and `build_lpddr...` give the three
families, each an entry of level, preceding commands, following commands, distance
and window. `DramTiming` keeps, as the code does, the earliest cycle of each command
at each node of the hierarchy, the history of activations for tFAW, the
read-to-write and SID constraints, the window in which WCK runs, and the deadline of
ACT2. `phase` says where in `tick` the controller is; `TickAdvances`, `Choose` on each
command bus and the end of the tick are the actions. Whatever is issued goes, with its
cycle, to `TraceValidator`, which is `validate_command_trace`: it keeps states and last
issue times of its own and knows nothing of the controller's.

* Requests may arrive and refreshes may fall due on any tick; distances are scaled down
  so that they still order as in the profiles, and each of ten configurations uses another part of
  the tables (HBM with per-bank and all-bank refresh, two SIDs, four activates in a
  window, host commands; LPDDR6 with split activates under both schedulers and with
  host commands; LPDDR5).
* An exception of `tick` (a missed ACT2) has no successor state: with deadlock checking
  on, the run shows that there is none.
* Every command of the code except WCKSYNC is issued in some configuration. The WCK
  mode AlwaysOn and RFM by activation counts are left out (the latter is in
  `MemController`).

### `AddressMap` and `ChannelMap`

`AddressMap` is `addr_map.cpp`: the four mixed-radix mappings of a transaction number to
coordinates and the two of a system address to a stack. `ChannelMap` is what
`MemorySystem::enqueue` makes of them: the channel, decoded or hashed, and the
coordinates of the data, with that channel put in. Runs of the memory system and of the
image take the routes and places of their lines from it. Addresses are counted in
transactions.

### `MemoryImage`

`MemoryImage` and the three back ends. An operation changes memory at once and
leaves in `be.plan` what it writes to files, in program order; `Step` does the next
of these writes, and `Crash` may come before any of them. For the mapped back end
every store is such a write (the pages outlive the process); for the chunk back end
only eviction and flush write lines, while presence bits are mapped. Power loss,
where pages are lost in any order, is not modelled: the guide says that it is not
provided for (`项目指南.md:334`).

* An access of several lines is one access for each line, as in the code's loop.
* A row buffer knows its columns by number, and each column the address it was last
  used for, to which it is written back: two addresses with the same coordinates would
  share a column.
* SECDED is abstracted to the word it was computed over; only single bits are
  flipped, as `maybe_inject_ecc_error` does.

## Runs

| Run | Configuration | Checks | Distinct states |
|---|---|---|---|
| `ucie_retry` | `UcieRetry` | nothing lost, header byte unambiguous, no lost wake-up, implements live `ReliableFifo`, all replays settle | 290 412 |
| `credit_loop` | `CreditLoop` | conservation, no overrun, credit for a message again and again | 77 521 |
| `flit_stream` | `FlitStream` | messages intact, nothing throws, grants conserved, everything arrives unless the link fails | 90 856 |
| `aou_target` | `AouTarget` | nothing throws, data joins its own write, slots exact, answers in order, everything answered | 765 342 |
| `memctl_safety` | `MemControllerSafety` | reads see the latest accepted write, the image converges, one response each, an active request owns its bank, no missed deadline, refresh debt bounded | 1 005 988 |
| `memctl_forward` | `MemControllerForward` | expected violation, see [findings](#findings) | - |
| `memctl_closed_page` | `MemControllerClosedPage` | expected violation, see [findings](#findings) | - |
| `memsim_backend` | `MemSimBackend` | no exception, tags not shared, host responses whole, implements `OrderedMemory`, frontends drain | 85 594 |
| `axi_master` | `AxiMaster` | no assertion fails, order kept or reported, data follows its address, responses belong, errors kept, native order, everything completes | 17 906 |
| `memory_image` | `MemoryImage` | reads return the last write, files sound, counters exact and accepted after a kill | 1 554 266 |
| `memory_image_channels` | `MemoryImageChannels` | expected violation, see [findings](#findings) | - |
| `dram_timing` | `DramTiming` | the independent validator accepts every command the controller issues, every request is served, no deadline is missed | 307 704 |

All pass except the expected violations.

Bounds, and why they are enough to meet the interesting cases:

* Retry link: `SeqMod` 4 and `Window` 2 with 6 flits wrap the sequence space while
  old frames are on the wire; 2 errors can hit a frame and its replay; a wire of 3
  frames holds frames of two replays. `MaxWire` and `MaxFeedback` bound queues that
  are unbounded in the code.
* Credits: a capacity of 16 granules needs several grants with a remainder; 0 is
  the edge case, and the planes are unequal.
* Flits: 4 granules with messages of 1 and 3 and grants of 2 put starts at every
  granule and cut messages; the output register meets a stalled link because the
  link has room for 2 flits.
* Target: read data of 2 granules behind a write response of 1 in flits of 2 is
  cut; two writes of 2 and 1 beats let data run ahead of its request; 3 requests
  for 2 outstanding slots fill the table.
* Controller: eight configurations (both schedulers, both PHYs, split activates,
  all-bank, per-bank and double-bank refresh with postponement, RFM, power down and
  self refresh, host commands, capped rows) with three requests on two rows and two
  bytes to a line: a write, one merged with it and a read of both; or two rows of a
  bank and a request that waits. With double-bank refresh and with power down a third
  line is in the other bank. In the last of these, two refresh deadlines may pass while
  the exit from power down blocks the controller.
* System: seven configurations of two channels or two stacks, queues of one entry,
  and two or three bursts that overlap.
* AXI: nine configurations of two planes, FIFOs of one or two entries, two or three
  requests, IDs that are used again, errors, a reset.
* Timing: ten configurations with two or three requests on two to five banks. Since they
  arrive on any tick, and up to three refreshes fall due on any tick, two commands meet
  at every distance from the smallest the code allows; five banks fill the window of four
  activations.
* Image: seven configurations; three lines of two bytes, two in one row, a cache of
  one or two chunks, two writes (three where errors are injected), one crash.

Fairness. The threads and `tick` get weak fairness: the SystemC kernel runs a
thread whose event or timeout has come, and every user of mem_sim keeps calling
`step`. The link is given finitely many errors (`MaxErrors`), since under endless
noise nothing arrives. In `FlitStream` the target's credits keep coming, which
`CreditLoop` establishes. In `AouTarget` the surroundings act only where the thread
waits, so their fairness is strong; it is stated for all of them together, which is
weaker than fairness for each. `DramTiming` needs only that `tick` keeps being called:
the clock then brings every distance to its end, and that requests are served is a
property of the scheduler. In `MemSimBackend` and `AxiMaster` the consumers take responses in the end.
`CHECK_DEADLOCK FALSE` appears where bounded input is used up and the system
rightly rests.

## Proofs

`UcieRetryProofs`, `CreditLoopProofs`, `FlitStreamProofs`, `AouTargetProofs`,
`MemSimBackendProofs` with `MemSimOrderProofs`, and `MemoryImageProofs` are checked by
TLAPS, for every value of the constants that satisfies the ASSUME of the module (what
`MemoryImageProofs` says of `AddressMap`, for every organization with positive
dimensions). `SequenceLemmas`
has the facts about queues that the proofs share: what appending, taking the head and
removing at a position do to length, members, and to running sums over a sequence; that a
chain of related states leads along a sequence (`Leads`); and that a function which
satisfies a recursion, or the results of a fold, exist (`Recursion`, `FoldIter`).

**Retry link.** Assumptions: `2 * Window <= SeqMod` and positive sizes. The code's
limit of 127 for 256 numbers satisfies it with a margin of one. The invariants do
not hold inductively by themselves, since whether a header byte is read correctly
depends on which frames can still be on the wire. `Inv` therefore adds:

* the retry buffer is a contiguous range that ends below `next_seq`, is no longer
  than `Window`, and contains everything not delivered;
* every frame on the wire carries the flit of its number, and lies at most `Window`
  below anything sent before it, so all frames lie within half a turn around the
  expected number;
* ACKs in flight only name delivered flits.

`WindowLemma` turns this into "the byte comparison decides as the full numbers
would". There is one lemma per action. From `InvHolds` follow `TypeCorrect`,
`ExactlyOnce`, `NothingIsLost`, `HeaderUnambiguous`, `WakeupsAreKept` and
`Refinement`, that the two FDI ports behave as `ReliableFifo`. The proofs include
the arbitrary replay cursor described above.

**Credit loop.** `Inv` is type correctness with `Conservation`: available +
carried + held + pending + in grants equals the published capacity, for each plane
and kind. It is inductive because no partial sum can exceed the capacity, so
neither counter ever saturates. `CreditsConserved`, `NeverOverrun` and `TypeCorrect`
follow, for any number of planes and any capacity up to 4095.

**Flit stream.** `StreamInvariant`: `StreamInv` holds in every state, for every number of
planes, any number of messages, every size of a message up to a flit
(`StreamAssumption`), every depth of the transmit FIFO and every timeout. What is
granted, queued, cut and carried is described by one cursor (`Pos`): the message that is
unfinished, and the number of messages finished of each kind and plane. Then

* every flit on its way moves the cursor (`CellStep`, `FlitStep`), and the flits one after
  another lead from the position of the decoder, which holds exactly what the cursor
  says is unfinished in its `carry`, to that of the packer;
* the packer's flit under construction leads from there to its spill and queues, and a
  message is cut only at the end of a full flit (`PackerOk`);
* the decoder, on a flit that starts at its position, finds exactly the messages that
  end in the flit, and keeps the rest (`ScanGood`, `ParseGood`); so `receive` stores what
  was sent, whole, once and in order;
* the grants on the way are those that the position has passed (`CreditInOrder`).

`Scan`, `PackCycle` and the folds are recursive functions. The proofs first show that a
function that satisfies the recursion exists (`ScanDef`, `Recursion`, `FoldIter`), so that the
CHOOSE of its definition has one, and then argue by induction over a set of naturals.
`MessagesStayIntact`, `NothingThrows` and `CreditConserved` follow.

**Address map.** `DecodeInjective`: under each of the four mappings two transactions
within the capacity never have the same coordinates. Each `take_mod` is undone by its
digit and its quotient (`DivModUnique`), the product of the radices not yet used bounds
the quotient (`DivBound`), so that nothing is left after the last digit; and since
every mapping takes the same radices in another order (`OrderIsPermutation`), their
product is the capacity. `StackRoundTrip`: encoding what was decoded returns the address,
for both stack mappings. There is no state and no induction: the eight digits are
unrolled.

**Target.** `TargetInvariant`: `TargetInv` holds in every state, for every number of
planes, every capacity, every number of slots and every list of transactions the ASSUME
of `AouTarget` allows. None of the four invariants of the run holds inductively; each
asks for the layer below it, in this order (the last two are added on top of `TargetInv`):

* `TypeInv`, `PlaceInv`, `RoomInv`: the types; everything stored is kept with its plane and
  direction; a flit is only begun where `link_tx` has room for it.
* `CreditInv`: the conservation of `CreditLoop` again, in the places of this model: for each
  plane and kind the free credits of the bridge, the messages on the link, the grants on
  the link, what the target stores and its pending returns add up to the published
  capacity. So a message that arrives has room for it.
* `TicketInv`: there is a bijection between `tickets_` and the requests in the memory that
  gives each ticket a request it fits and keeps the order of the requests of one kind, id
  and plane. A response is taken out of the middle of the tickets, and the bijection is
  closed under that (`AnsweringRemove`), so that a response always finds its ticket.
* `CountInv`: `outstanding` is the number of tickets and replies not yet sent. This is
  `OutstandingExact`.
* `DecodeInv`: the flits on the link form a chain from what the bridge's decoder carries
  over to `spill_`: each begins with the rest of the message the one before it cut.
* `DataInv`: a cursor over the writes of a plane leads through `data_` and the link to the
  next beat the bridge sends, and the stored writes hold exactly the beats before it
  (`Filled`), although a beat may arrive before, with or long after its request.
* `MemInv`: a write given to the memory has all its own beats. With `DataInv` this is
  `WritesHaveTheirData`; together the layers exclude every path to `SC_REPORT_FATAL`,
  which is `NoFatal`.

* `WaitInv`: the requests wait in four queues, the replies, the memory, the stores and the
  link; along them, two requests of one plane, direction and id are in the order they were
  sent (`InOrder`). Every step hands a request from the head of one queue to the end of the
  next (`HandOver`), puts one in or takes one out, and the memory overtakes only between
  groups (`MovedAhead`).
* `LogInv`: the log of the bridge, continued by the flits on the link, the flit being packed
  and the response that is cut, is a log in order, in which every request sent is done, or
  waits, or is the head of the replies of which the next beat is due (`LogFor`). The bridge
  fills its log with a fold over the fragments of a flit, which is a path along them
  (`LoggedAll`), through logs that are all in order. This is `AnswersInOrder`.

There is one lemma per layer (`CreditStep`, `TicketStep`, ...), with a step for each action,
and general lemmas about what moving one element does. Sums and chains along a queue are
stated by the existence of a sequence of partial results (`Total`, `Leads`), which a step
extends or shortens, so that no recursion is needed.

**Memory system and bridge.** `MemSimInvariant`: `IInv` holds in every state, for any
number of stacks, channels, lines, slots and tags, any capacity and width, any workload,
and each of the three users. The assumptions (`ConfigAssumption`) are what
`ss_mem_create`, `main` and the address mappers establish: a bridge asks for host
responses, a batch run for none, different lines of one stack have different addresses in
it (`StackRoundTrip`), and where
`StrictPriority` may reorder, requests that share a line are of one class (without that,
overtaking is intended and a read may see an older write). The parts of `IInv`:

* `TypeInv`, `AtInv`, `UserInv`, `RoomInv`: types, where `tick()` stands, what each user
  uses, and that no queue is longer than its limit. In the types a controller's entry
  for a read already carries the data the read was to return; that it does when it is
  accepted is what `ChainInv` is for.
* `PlaceInv`: a transaction, known by tag and index, is in one ingress queue, one
  controller's queue or one response queue, and there once.
* `TagInv`: the tag of everything on its way is registered with the right count, and
  `completed` is the number of transactions accepted and no longer on their way.
* `AssemblyInv`: the assembly of a tag holds exactly the transactions collected of it,
  and becomes a response when these are all; no tag has an assembly and a response, or
  two responses. So no transaction is aggregated twice, and a tag is free only when
  nothing of it is left.
* `FrontInv`, `TakenInv`: what carries a tag belongs to the host request that holds the
  tag now, and what a request has left to submit is what its tag has not accepted.
* `BurstInv`, `JoinInv`: memory ids are never reused, every child belongs to one burst,
  `pending` is the number of its children, the candidate of a refused child is unused, and
  each submitted part of a read is joined with its data or on its way.
* `ChainInv`: for each line, begin with the image, apply the writes in the ingress queue
  of its stack in order, then those of the bursts not yet submitted: the result is what
  was stored last, and cut off before a read it is what that read is to return. Dispatch
  takes a request out of the middle of the queue, but never past one of the same line
  (`DispatchFacts`), so the chain of each line only moves along (`LineDispatch`,
  `LineSubmit`, `LineAdmit`, `LineReturn`). `Latest` says where a chain ends without
  recursion: the last element that is a write, or the start if there is none.

`BackendNeverThrows`, `TagsStayHeld` and `HostResponsesAreWhole` follow from `IInv`.
`BridgeImplementsOrderedMemory` is the refinement, with the mapping of
`ImplementsOrderedMemory`: admitting a burst is `Accept`, returning the oldest one is
`Return`, with a fault if a child failed (`AnswerOwed`: a complete burst without error holds
what was owed when it was admitted), and everything else, submitting, dispatching,
answering and joining, is a stuttering step.

**Memory image.** `ImageInvariant`: `ImageInv` holds in every state, for any finite set of
lines, any placement of them in banks, rows, columns and chunks, any cache with room for a
chunk, any masks and any number of writes and crashes, for the three back ends.
`ReadsReturnLastWrite` is not inductive: whether a read is right after an eviction or a
write-back depends on what lies underneath, and whether files are sound depends on the
writes still in the plan. `ImageInv` says that the state is `Good`:

* `EndOK`, `RowsOK`: a cached chunk has all its lines and, when clean, is as in the files;
  `lru` lists the cached chunks; the columns of an open row belong to it, and none of them
  is a line that the online interface has not initialised (its first write goes past the
  rows).
* `LineRight`: the column that holds a line is right, and so is the line of the back end
  unless the row is dirty. `Right` is said of the block after `check_ecc_shadow`, and an
  error that is reported counts as right.
* `Trail`: from the files as they are, the writes of the plan lead one by one to the files
  as they will be, and every file state on the way is in a given set: `SoundFiles`, which
  show only what may be shown, and `SaneFiles`, whose header is accepted. A crash keeps
  the current state of such a trail. For this the order of `write_chunk`, data before the
  map of what is initialised, is what matters.
* `CacheSound`, `RowsSound`: what is initialised below is initialised above, since a write
  only adds to it.
* `CountOK`: the counters are the numbers of lines present and written, as long as no
  process was killed.
* `SavingClean`: until the last write of a flush is done nothing becomes dirty, so that
  then the files show what a plain memory holds (`SavedSound`).

There is one lemma per operation of the back end (`Keeps`, `Safe`: it shows the same lines
and its trail goes on), one per operation on rows, and one per action of `Next`. Loops over
chunks, columns and lines are folds over a sequence of all of them, for which `FoldIter` gives
the intermediate states. From `ImageInv` follow

* `ReadsStayRight`: `ReadsReturnLastWrite` where `Covered` holds. It asks that no two lines
  share a column (`Separate`, which `DecodeInjective` gives for the decoded channel and
  which the hashed one breaks, see [findings](#findings)), and with ECC that writes are of
  whole lines, with no reload and no crash: a partial write and `load_binary` compute the
  code word anew over the bytes as they are, an injected error included, and a process
  killed between the write of the data and that of its code word leaves two that do not
  belong together. All configurations of `memory_image` are covered; the one
  of `memory_image_channels` is not separate.
* `FilesStaySound`: `FilesSound`, where no two lines share a column.
* `CountersStayExact`: `CountersExact`, with no condition. Wherever a run is killed whose
  files no killed run had before, the next run is not refused. After a kill the counters are
  too small, and what the next run saves may be refused, with more lines written than
  allocated or with a count below zero, which is unsigned: the guide promises nothing for
  such files (`项目指南.md:334`).

Only model-checked: all liveness (fairness and ENABLED are beyond the prover), also that
every burst is answered (the fairness of `OrderedMemory.LiveSpec`) and `FrontendDrains`; and
so far the invariants of `MemController`, `AxiMaster` and `DramTiming`.

## Findings

**The hashed channel mapper puts two addresses in one place** (`memory_image_channels`).
`docs/cfg指南.md:256` offers `channel_mapper` as a choice of its own, and `项目指南.md:255`
says that a read gets the bytes that belong to it. `localize_request` replaces the decoded
channel by the hash of the address and keeps the other coordinates
(`system.cpp:428-437`); two addresses that differ in the channel digit only and hash
alike are then one column of one row, and a read of the one returns what was written to
the other. `configs/hbm.cfg:55-56` ships this combination with the default mapping, and
the compiled `MemorySystem` shows it. With the decoded channel the property holds
(`memory_image`), because coordinates are injective (`DecodeInjective`).

**A forwarded read may miss a write** (`memctl_forward`). `项目指南.md:256` says that
forwarding and merging keep the order of accesses to an address. With the behavioural
PHY a write that has been issued is no longer buffered and not yet in the image; a
read that is forwarded from a later *masked* write is laid over the image and misses
it (`controller.cpp:945`). The compiled controller does the same. With the direct PHY,
or without masks, the property holds (`memctl_safety`).

**The closed page policy closes a row under the request that opened it**
(`memctl_closed_page`). The comment at `controller.cpp:1647-1648` says that a request
in the active queue keeps its bank. Under this policy every read and write closes the row
(`semantics.cpp:91-101`), and `would_close_active` looks at precharge, refresh and RFM
only. On the compiled HBM controller a read and a write to one row then never
finish; on LPDDR the controller throws "LPDDR ACT2 missed nAADMax deadline".

**So does the capped policy** (the same run has both policies; TLC reports the closed page,
whose trace is shorter, and with the capped policy alone it finds ACT, WR, WRA as below).
The comment at `row_policy.cpp:34-35`
says that it injects a precharge only when no active request holds the bank, and
`should_schedule_precharge` asks for that; `should_auto_precharge`, by which
`try_upgrade_row_policy_command` (`controller.cpp:1964-1986`) turns the command that reaches
the cap into RDA or WRA, does not. A read opens a row, writes to it are ready first, and
the one at the cap closes it under the read. On the compiled controller, with a cap of 1,
HBM hangs after ACT, WR, WRA; LPDDR6 throws, with the shipped cap of 4 too when eight
writes are queued. `memctl_safety` has the capped policy with one line to a row.

Sequences met while modelling that the configurations of the runs leave out, each
seen on the compiled code: with the open page policy a host's MRW or PDE while a row
is open never becomes legal and blocks the priority queue (`controller.cpp:1293-1295`);
an explicit PDE with requests queued behind it under the behavioural PHY, and PDE
with `low_power_mode=SelfRefresh`, are never left; with `write_low_watermark=0`,
which `docs/cfg指南.md:251` and `controller.cpp:115-119` allow, `set_write_mode`
(`controller.cpp:1273`) never leaves the write mode, and a read that arrives after an idle
tick is never served; the LPDDR efficiency modes force pseudo channel 0
(`addr_map.cpp:117`) while the capacity counts both, so two addresses share a place; the
round-robin channel mapper sends a read to another channel than the write it should see,
whose row buffer is still dirty; a shorter unmasked write merged into a longer one
replaces the whole of it. Found by reading only: a NAK that arrives while a
replayed frame is serialised rewinds `replay_cursor_`, which `sender()` then overwrites
(`ucie_link.h:109`), so that the retransmission which
`ucie-model/docs/MODELING_AND_VERIFICATION.md:325-332` describes waits for the next NAK or
the timeout (delivery is not affected, as `ucie_retry` and the proofs show); `PREab` is
held back by `next_row` only, since the tables have no distance from ACT, RD or WR to it,
and may close rows earlier than nRAS, nRTP or nWR allow; RASERR during a split activation
pushes `next_row` past nAADMax, after which ACT2 misses its deadline; for a WCKSYNC in an
open WCK window the executor keeps the later end and the validator the new one
(`validator.cpp:744`); writes that overlap with different
start addresses may be issued in either order; the strict and round-robin arbitration
of the stack ingress may reorder requests to one address by design; `collect_responses`
starts at controller 0 each time; a masked write to a line with an injected error
recomputes the code over the bad byte (`data.cpp:1824`), after which it cannot be
corrected; `clear()` resets the data file before the map of initialised bytes.

## Not modelled

* Signal-level behaviour of the PHYs (noise, jitter, skew, CDR, training values), CRC
  and SECDED arithmetic, bit layouts of messages and flits: floating point or
  stateless conversions covered by round-trip tests. The models assume that corruption
  is detected.
* The figures of the DRAM profiles and their conversion from time to cycles
  (`profiles.cpp`, `jedec.cpp`): numbers. `DramTiming` has the rules that use them, with
  other numbers; whether the figures are those of the standard is not a question for a
  model. WCK in mode AlwaysOn and WCKSYNC sent by a host are left out.
* The round-robin channel mapper, which gives an address no fixed channel (see
  [findings](#findings)). `stack_model.cpp`, temperature, power and floor-plan reports of
  `data.cpp`: arithmetic on statistics.
* The DFI checker: it recomputes, from the same tables, what the generator of the DFI
  trace built.
* The command line (`cli/main.cpp`, the largest file), configuration documents, traffic
  generators, statistics, formats of traces and reports: text in, text out, with no state
  shared with the running system. These, the tables of figures, the test benches and the
  kernels under `coralnpu_StorageStacked/coralnpu/sw` (LiteRT, third-party) are the greater
  part of the repository's implementation lines. The map covers about one line in six;
  what it leaves out has no behaviour a model checker would find anything in.
* The processors of Vortex and CoralNPU and their kernels, gem5 and SystemC:
  third-party; `AouBackend`'s event scheduling is modelled only as the order it gives to
  requests. The AXI monitor only writes traces.
* Hot reset of the target: it rejects it (`aou_target.h:255`). The reset of the bridge is
  modelled.
* The unbounded deques of `PhyChannel` and `FeedbackPath` (`ucie_link.h:253`): a receiver
  blocked by its consumer lets replays pile up, which costs memory and nothing else.

## Plan

1. Proofs: conservation of requests in the controller's queues; that the gates of `DramTiming` dominate those of `TraceValidator`.
2. `FlitStream` and `AouTarget` composed through the credit loop, to check the absence
   of deadlock over both directions in one model.
3. `MemController` and `MemoryImage` composed, to carry `ReadsSeeLatestWrite` down to
   the files.
4. Message encoding as functions of fields, checked by round trip.
