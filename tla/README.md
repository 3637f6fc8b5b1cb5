# TLA+ models of the graphite-atac coherence and transport core

This directory holds TLA+ specifications of the simulator's core, together with
the TLC configurations that check them. The modules cover the
`pr_l1_pr_l2_dram_directory_mosi` memory subsystem: a MOSI directory protocol
with private L1 and L2 caches per tile and a DRAM directory at the home tile.
Two further modules model the inter-tile transport (`network/network.cc`)
the ATAC user messaging that runs over it (`tile/core/core.cc`,
`atac/filtered_ingestor.cc`), and the virtual channels of the user API
(`user/*.cc`, `atac/message_buffer.cc`) on top of that.

## The system and its parts

| Part | Source | State | Operations |
|---|---|---|---|
| DRAM directory controller | `dram_directory_cntlr.cc` | a DirectoryEntry per line (MOSI state, owner, sharer list); the directory cache (a set of ways per index); a request queue per address (`_dram_directory_req_queue_list`); the cached-data list; DRAM | `handleMsgFromL2Cache`, EX/SH/NULLIFY processing, entry allocation and replacement, INV/FLUSH/WB reply handlers, `restartShmemReq`, `processNextReqFromL2Cache` |
| L2 cache controller | `l2_cache_cntlr.cc` | the L2 lines (state, data, the L1 holding a copy); `_outstanding_shmem_msg` | requests from L1, EX/SH/UPGRADE replies, INV/FLUSH/WB/INV_FLUSH_COMBINED requests, evictions |
| L1 cache controller | `l1_cache_cntlr.h` (header only) | the L1 data lines | hit test, fill, state change, invalidation |
| Memory manager | `memory_manager.h` (header only) | | `sendMsg` over the network; the app/sim thread handoff (`wakeUpAppThread` / `waitForAppThread`) |
| Network transport | `network/network.cc` | `_netQueue` per tile, callbacks | `netSend`, `netBroadcast`, `netPullFromTransport`, `forwardPacket`, blocking and non-blocking `netRecv` |
| ATAC user messaging | `tile/core/core.cc`, `atac/*` | `s_rambda_buffer_count`, `s_block_send` | `coreSendW`, `coreRecvW`, the filtered ingestor |
| User API and virtual channels | `user/*.cc`, `atac/message_buffer.cc` | `Chip::next_vc_id`, the name-to-id map, each `VirtualChannel`, the `MessageBuffer` queues of every core | `CAPI_*`, channel create/register/send/receive, `filter_incoming_messages`, `dequeue_filtered_message` |

### How the parts interact

An application thread accesses memory through its L1 cache. On a miss, the L2
controller records the outstanding request and sends `SH_REQ` or `EX_REQ` to
the line's home. The application thread then blocks. At the home, the
directory queues requests per address and processes the front one:

- It answers at once: `SH_REP` or `EX_REP` with data, or `UPGRADE_REP`
  without data.
- Or it sends `INV_REQ`, `FLUSH_REQ`, `WB_REQ` or `INV_FLUSH_COMBINED_REQ` to
  the holders and waits.

Each reply (`INV_REP`, `FLUSH_REP`, `WB_REP`) updates the entry and may restart
the waiting request. Data arriving in a reply is kept in the cached-data list
until a reply to the requester consumes it. An L2 eviction sends `FLUSH_REP`
(dirty line) or `INV_REP` (clean line) unasked. These notices race with
requests and with the directory's own invalidations, and the directory must
accept them in any state.

When the directory cache set is full, an entry with no queued request is
displaced. A `NULLIFY_REQ` for it invalidates every copy, writes buffered data
to DRAM and then drops the entry.

All protocol messages between a tile and the home go through `sendMsg`.
`_switch_networks` picks the network from the (sender component, receiver
component) pair, and each network delivers in order, so messages are FIFO per
pair and direction.

### What is hard here

- Eviction notices crossing requests and invalidations.
- A reply from a sharer other than the one waited for.
- Duplicate data for one request.
- Replacement while copies are live.
- The limited sharer list, where a second reader has the first one flushed.
- The handoff that makes the access and the reply one step.
- Everything that must eventually happen: every request answered, every
  nullify completed.

## Modules

### `DramDirectoryCntlr.tla`

The directory controller. Its handlers run to completion on the home tile's
simulation thread, so each is a pure operator from a directory record `D` to
its successor. The record has these fields:

- `dstate`, `owner`, `sharers`: the DirectoryEntry.
- `entry`: `slot`, `displaced` or `absent` in the directory cache.
- `reqq`: the request queue.
- `sharerId`: the sharer id of the front `ShmemReq`.
- `cached`: the cached-data list.
- `dram`.
- `out`: the messages sent.
- `fault`: `LOG_ASSERT_ERROR`, `assert` and `LOG_PRINT_ERROR` become `Fail`,
  which records the first fault.

The recursive chain `processNextReqFromL2Cache → processEx/ShReq →
processDirectoryEntryAllocationReq → processNullifyReq →
processNextReqFromL2Cache` is a group of `RECURSIVE` operators. A handler
therefore includes everything it triggers in the same call, as the code does.
Operator names follow the code: `ProcessExReq`, `ProcessShReq`,
`ProcessNullifyReq`, `AllocateEntry`, `ProcessInvRep`, `ProcessFlushRep`,
`ProcessWbRep`, `RestartShmemReq`, `HandleMsgFromL2Cache`.

`PROJECT.json` ("map") gives the lines each definition translates.

### `PrL1PrL2DramDirectoryMOSI.tla`

The composition: tiles with L1 and L2 caches, one home directory (an
`INSTANCE` of `DramDirectoryCntlr`), and channels `toDir[t]` and `toL2[t]`.
Its actions are:

- `CoreAccess(t, a, op)`: the application thread. It models
  `processShmemRequestFromL1Cache` and `handleMsgFromL1Cache`. A write hits in
  L1, or the L2 fills L1, or a request goes to the home.
- `DirectoryStep(t)`: the home handles the head of `toDir[t]`.
- `L2Step(t)`, one action per L2 handler:
  - `ReceiveFill`: `processEx/ShRep` with `insertCacheLineInHierarchy`,
    including the L2 eviction and its notice.
  - `ReceiveUpgradeRep`.
  - `ReceiveInvReq`.
  - `ReceiveFlushReq`.
  - `ReceiveWbReq`.

  `INV_FLUSH_COMBINED_REQ` is handled as `FLUSH_REQ` by the single receiver
  and as `INV_REQ` by the others (`HandledAs`).

Data values are write versions: a write stores `latest[a] + 1`, and `latest`
is a ghost variable that records the last write. The access of a request
completes in the same step as its reply (`CompleteAccess`). The code has the
simulation thread wake the application thread and wait for it before handling
another message.

`MCPrL1PrL2DramDirectoryMOSI.tla` is the module TLC runs.

### `SerialMemory.tla` and the refinement

`SerialMemory` states what the memory subsystem promises the application
threads. Every line behaves as one register. An access either takes effect
at once (`Access`, a hit) or is issued (`Issue`) and later takes effect in
one step (`Complete`). A write stores the next version, a read returns the
current one, and `view[t][a]` is the version thread `t` last read or
wrote at `a`. Weak fairness of `Complete` makes every pending access
finish.

`PrL1PrL2DramDirectoryMOSI` instantiates it as `Memory`, with this
mapping:

- `memory` is `latest`, the ghost record of the last write.
- `pending` is `outstanding`, the `_outstanding_shmem_msg` of each L2.
- `view` is `data`, the values the caches of a tile hold. Only accesses
  change them: a fill installs the reply's data in the step that completes
  the access, and a write stores the new version.

`MemorySpec == Memory!Spec` is checked as a property. A hit is an
`Access`. A miss sends `SH_REQ` or `EX_REQ` (`Issue`), and the reply that
completes it is a `Complete`. Every other step of the directory and the L2
controllers leaves the mapped state alone, so it is a stutter. So the
refinement checks, on every path the data takes (`WB_REP`, `FLUSH_REP`, the
cached-data list, DRAM), that a read returns the last write and a write
produces exactly one new version. It also checks that every request
completes.

A read that hits in L1 is left out of `CoreAccess`, because it changes no
state. Under the mapping it is an abstract read that changes nothing, and
`CopiesHoldLatest` already says the copy it reads is current.

### `Network.tla`

The network engine of one tile, for every tile. Its state:

- `link[f][t]`: the transport from `f` to `t`, a FIFO sequence.
- `netQueue[t]`: `_netQueue`.
- `waitSet`: the tiles whose user thread sleeps on `_netQueueCond`.
- `clock[t]`: the core's cycle count.
- `nextId`: a ghost packet id.

How the code maps to the module:

- **Routing.** `NetworkModelMagic`, the only network model in the
  repository, routes every packet in one hop to its receiver after a fixed
  latency. It has no broadcast capability, so `NetSendLinks` sends a
  broadcast as one unicast per tile with the receiver rewritten, as
  `netSend` does.
- **`Pull(t)`.** One iteration of `netPullFromTransport`. A packet whose
  type has a callback is consumed by the callback. Any other packet is
  pushed onto `_netQueue`, and the broadcast of the condition wakes the
  sleeper.
- **Matching.** `Matches`, `NetRecvPick` and `NetRecvNonBlockPick` are the
  scans of `netRecv` and `netRecvNonBlock`. `netRecv` takes the first match
  in queue order. `netRecvNonBlock` takes the smallest time, and the first
  among equal times, because it replaces its pick only on `>`.
  `NetRecvMatch`, `NetRecvNonBlockMatch` and `TypeNonBlockMatch` are the
  `NetMatch` that the wrapper overloads build. `NetRecvIterator` is the
  helper class both scans iterate with: the listed senders (types), or
  every tile (type) when the list is empty.

### `CoreMessaging.tla`

It extends `Network` with the user thread of every tile:

- **`CoreSendW`** (`Core::coreSendW`). A broadcast raises
  `s_rambda_buffer_count[i][sender]` for every `i`. It raises
  `s_block_send[i]` where a count reaches `LAMBDA_QUEUE_LENGTH - 4`, and it
  is refused while `s_block_send[sender]` is set.
- **`CoreRecvW`** (`Core::coreRecvW`) decrements the counter first. A
  receive from one sender then runs the blocking `netRecv`; each pass of its
  loop is one `NetRecv` step, which takes a match or joins `waitSet`. A
  receive from `CAPI_ENDPOINT_ANY` runs `receive_filtered`; each
  `netRecvTypeNonBlock` call is one `ReceiveFiltered` step. That step:
  - discards a packet the filter (`PassesFilter`) rejects;
  - when nothing matches, models the copy of `*_netQueue.end()`. The
    length and time that copy holds are undefined, so `coreRecvW`'s size
    assertion either fires or passes and returns the sentinel payload
    (`Garbage`), after a `RecvInstruction` of any length.
- **`SetFilter`** is `CAPI_set_filter`.
- **`MemorySendMsg`** is the memory manager's protocol traffic, which is
  consumed by callbacks.
- **`Tick`** advances the core clock.

`MCCoreMessaging.tla` is the module TLC runs.

### `AtacCounters.tla`

`CoreMessaging` updates `s_rambda_buffer_count` and `s_block_send` in one
step per call. The code runs them on every tile's user thread with no
lock. `AtacCounters` models that: each `++` of `coreSendW`'s loop is
`IncLoad`, `IncStore` and `IncTest` (the threshold test reads the counter
again), and the `--` of `coreRecvW` is `DecLoad`, `DecStore` and
`DecTest`. `RecvEnd` is the `netRecv` that follows, which returns once the
broadcast has been sent. Packets are left out, because `coreRecvW`
decrements before it receives.

The loop runs over the tiles rather than all `MAX_CORES` entries. The
entries of cores that do not exist are touched by no other thread.

A program receives broadcasts in one of two ways, and the constant
`ReceivePaths` says which. `coreRecvW` is the path above.
`FilterIncomingMessages` is the virtual channels' receive:
`filter_incoming_messages` takes a queued broadcast of a sender and files
it. Neither it nor `dequeue_filtered_message` touches the counters.

### `VirtualChannels.tla`

It extends `CoreMessaging` with the virtual channels of `user/` and the
`MessageBuffer` of every core. Its state:

- `nextVcId` and `registry`: `Chip::next_vc_id` and the map from channel
  key to id (`active_virtual_channels`). `CHAR_HACK` is defined, so the key
  is the first character of the name (`NameKey`). Two names with one
  initial would share an entry; the configurations use names of distinct
  initials.
- `regTmp[t]`: the id `register_virtual_channel` has loaded from
  `next_vc_id` and not yet stored back.
- `vc[t]`: the channel the tile's user thread holds (id and
  `owner_tile_id`), or `NoVc`.
- `buffer[t][id]`: `message_queues[id]` of the tile's `MessageBuffer`.
- `poll[t]`: how far `filter_incoming_messages` has gone through the
  senders (`Wavelengths`), and `DequeueStep` once it is done.
- `got[t]`: a ghost holding the message the last dequeue returned.

Its actions:

- **`CreateBegin` / `CreateRead` / `CreateEnd`** are
  `VirtualChannel::create` with `register_virtual_channel`. Nothing is
  locked, so the table-full test (`chip.cc:20`), the load of
  `next_vc_id` and the store of `next_vc_id + 1` with the table entry
  (`chip.cc:21-26`) are three steps, and other threads run in between.
  Two threads can both pass the test at `MAX_VIRTUAL_CHANNELS - 1`; the
  second then loads `MAX_VIRTUAL_CHANNELS` and takes that id, past
  `message_queues`. When the test fails, the channel is made inactive
  with id -1.
- **`CreateFromRegistered`** looks the name up with `find_vc_id`.
- **`SendMessage`** is `send_message` through `CAPI_message_send_w_ex`:
  a broadcast from `owner_tile_id` carrying the channel id.
- **`ReceiveMessage`, `FilterPoll`, `DequeueFilteredMessage`** are
  `receive_message`. `filter_incoming_messages` makes one
  `receive_filtered_from` call per sender. Each call is one
  `netRecvNonBlock`: a packet that passes the filter is filed with
  `enqueue_message` under its channel id, and a rejected one is dropped
  and the same sender polled again. The last step pops the head of the
  channel's queue.

The default constructor `VirtualChannel()`, which both `create` and
`createFromRegistered` use, never writes `owner_tile_id`. That read is
undefined, so the owner is chosen at creation from the tiles and an id
no tile has (`OwnerValues`). The same holds for `message_queues[-1]`
(a crash or an empty queue) and for the not-found copy of
`*_netQueue.end()` (any clock value the core can reach).

`MCVirtualChannels.tla` is the module TLC runs.

## Properties

| Property | Kind | What it says |
|---|---|---|
| `TypeOK` | invariant | every variable in its domain |
| `NoFatalError` | invariant | no assertion or error print of the directory or of an L2 fires, whatever the interleaving |
| `SingleWriter` | invariant | a MODIFIED holder is the only holder; at most one M/O holder |
| `DirectoryTracksCopies` | invariant | every valid copy is a sharer of a live entry, and a dirty holder is its owner |
| `CopiesHoldLatest` | invariant | every valid copy holds the last write |
| `LatestRecoverable` | invariant | the last write is in DRAM, a dirty copy, the cached-data list or a message in flight |
| `FillFindsLineInvalid` | invariant | an EX/SH reply always finds its line invalid at the receiver |
| `RepliesComeFromSharers` | invariant | every reply or eviction notice in flight comes from a sharer of a live entry |
| `L1Inclusion` | invariant | L1 state is INVALID or equal to the L2 state |
| `MemorySpec` | refinement | the MOSI subsystem implements `SerialMemory`: atomic accesses, reads return the last write, every outstanding L2 request is answered |
| `NullifyCompletes` | liveness | every displaced entry is eventually nullified |
| `TypeOK` (CoreMessaging) | invariant | every variable in its domain |
| `InOrderPerPair` | action | a user thread never takes a packet while an earlier one of the same sender and type is still on its way |
| `RecvCompletes` | liveness | a thread blocked in `netRecv` returns once its packet has been sent |
| `CountMatchesTraffic` | invariant (violated) | between updates, `s_rambda_buffer_count[r][s]` is the broadcasts of `s` less those `r` has received |
| `ReceiveReturnsSentPacket` | invariant (violated) | every completed receive returns a packet sent to the tile |
| `BlockSendMatchesContention` | invariant (violated) | `s_block_send[s]` is set exactly while a receiver's lambda buffer for `s` is at the threshold |
| `VcTypeOK` | invariant | every variable of `VirtualChannels` in its domain; `next_vc_id` and every id handed out stay below `MAX_VIRTUAL_CHANNELS - 1` plus the number of tiles, the overshoot the unlocked test and increment allow |
| `VcInOrderOnce` | action | a message `receive_message` returns was broadcast on that channel earlier than every message of the same sender and channel still pending: no reordering and no duplicate through polls, filter and buffer |
| `ChannelIdsUnique` | invariant (violated) | two registered keys (name initials) never share a channel id |
| `QueueIndexInRange` | invariant (violated) | neither `enqueue_message`'s assertion nor `message_queues[-1]` is ever reached |
| `SendAvailable` | invariant (violated) | a tile that holds a channel and is not blocked can always `send_message` |

Every property has a mutant in `PROJECT.json`. A mutant is a plausible bug
that TLC must catch under the run's configuration, for example:

- a write-back dropped;
- an upgrade answered with data;
- a sharer not recorded;
- a `NULLIFY_REQ` never restarted;
- a sharer asked for a write-back instead of a flush when the sharer list is
  full.

## Runs

| Run | Cfg | Bounds | Checks |
|---|---|---|---|
| `mosi_core` | `MOSICore.cfg` | 3 tiles, 2 addresses, 1-line L1/L2 sets, 2 directory ways, full-map sharers, 1 write | the nine invariants and `MemorySpec` |
| `mosi_replacement` | `MOSIReplacement.cfg` | 2 tiles, 3 addresses, 2 directory ways, 2-line sets, one hardware sharer pointer, 2 writes | `NoFatalError`, `LatestRecoverable`, `NullifyCompletes`, `MemorySpec` |
| `net_order` | `NetCore.cfg` | 2 tiles (symmetric), 2 packets, clocks 0..1, no filter | `TypeOK`, `InOrderPerPair` |
| `net_filter` | `NetFilter.cfg` | 2 tiles, 1 packet of signature 0 or 1, filter `AND 1 1` | `RecvCompletes` |
| `net_recv_any_empty` | `NetRecvAny.cfg` | 2 tiles, 1 packet | `ReceiveReturnsSentPacket`, expected to be violated |
| `atac_block_send` | `AtacFlowControl.cfg` | 2 tiles, 2 packets, lambda queue 6 | `BlockSendMatchesContention`, expected to be violated |
| `vc_order` | `VcOrder.cfg` | 2 tiles, one name, first id 10, room for 1 channel, 2 messages of signature 0 or 1, filter `AND 1 1` | `VcTypeOK`, `VcInOrderOnce` |
| `vc_register_race` | `VcRegisterRace.cfg` | 2 tiles, two names, room for 2 channels | `ChannelIdsUnique`, expected to be violated |
| `vc_inactive_send` | `VcInactiveSend.cfg` | 2 tiles, room for 1 channel, 1 message | `QueueIndexInRange`, expected to be violated |
| `vc_owner` | `VcOwner.cfg` | 2 tiles, room for 2 channels, 1 message | `SendAvailable`, expected to be violated |
| `atac_counter_race` | `AtacCounterRace.cfg` | 2 tiles, 3 calls, `coreRecvW` only | `CountMatchesTraffic`, expected to be violated |
| `atac_vc_counters` | `AtacVcCounters.cfg` | 2 tiles, 2 calls, virtual-channel receive only | `CountMatchesTraffic`, expected to be violated |

The passing runs all pass, and between them every action fires. The
network and virtual-channel runs do not check deadlock: a user program may wait for a message
that no tile sends, and the simulator then hangs. The code allows this.

Why the network bounds are enough:

- **Two packets** are enough for one sender's packets to be queued
  together, which is the case `InOrderPerPair` is about.
- **Clocks 0..1** let two senders stamp their packets out of pull order,
  so `netRecvNonBlock`'s earliest-time pick takes packets out of queue
  order; `InOrderPerPair` checks it never does so within one sender.
- **Latency 0** keeps times bounded. With a positive latency, each receive
  would move the receiver's clock past the sender's, without limit. The
  latency is one constant for every packet, so it never reorders two
  packets of one sender. It can only shift packets of different senders
  against each other, and clock skew already does that.
- **One packet for `RecvCompletes`** (in `net_filter`). It is enough for
  a receiver to go to sleep before its packet is pulled, which is the case
  the wake-up must handle. Adding the property to the two-packet ordering
  run without symmetry took three minutes.
- **Three calls for the counters** (`atac_counter_race`). Two calls can
  already race, and three let the race happen at the second broadcast,
  after the counters have moved.
- **Three packets, or filters in the ordering run,** took the state space
  past ten million states without adding a case.

Why the virtual-channel bounds are enough:

- **First id 10, limit 11** is the code's `FIRST_VC_ID` against a smaller
  `MAX_VIRTUAL_CHANNELS`. One create succeeds and the next one finds the
  table full, so the inactive channel and its id -1 are reached in the
  passing run too.
- **Two messages of two signatures** let one sender's messages queue
  together while the filter keeps one and drops the other.
- **Clock 0, and no `Tick`.** The clock orders only packets of different
  senders. `filter_incoming_messages` polls each sender separately and
  files by channel, so that order reaches no property. With clocks 0..1
  the run took 18.8M states and over six minutes.

Why the MOSI bounds are enough:

- **One-line cache sets** make every fill to the other address evict. This
  produces the eviction notices that race with requests.
- **Three tiles** give a requester, an owner and a third sharer, so
  `INV_FLUSH_COMBINED_REQ` goes to several tiles and replies from
  non-awaited sharers happen.
- **One write** already tells a stale copy (0) from the fresh one (1). Two
  writes in the replacement run let ownership move twice.
- **Three addresses over two ways** make every third line displace an entry
  that may be held in M, O or S.
- **One hardware sharer pointer** in the replacement run makes every
  second reader of a line flush the first one (`LIMITED_NO_BROADCAST`).
  The full-map directory is checked in `mosi_core`. One run covers
  displacement and the full sharer list together, in 210k states and about
  35 seconds.

A larger core configuration checked offline gave the same result: 3 tiles,
2 addresses, 2 writes, 4.7M states.

## Fairness

The simulation thread of every tile handles each message that reaches it. The
model states this as weak fairness on removing the head of each channel:
`WF_toDir(DirDequeue(t))` and `WF_toL2(L2Dequeue(t))`.

- A step of `Next` that removes that head is exactly `DirectoryStep(t)` (or
  `L2Step(t)`).
- Those steps are enabled exactly when the channel is non-empty and no fault
  has occurred.

So this is weak fairness of the handlers, stated in a form TLC checks cheaply.

For the network, a tile's simulation thread keeps pulling while its
transport holds packets. A user thread that is not asleep on the condition
runs. The model states this as weak fairness of `PullStep`, `NetRecv` and
`ReceiveFiltered`, each while no fatal error has stopped the simulator.

`MemorySpec` asks for weak fairness of every `Complete(t)`. The fairness
above is enough to give it: the reply that completes a request is a
message the simulation threads must handle.

Application threads are not forced to issue accesses. When everything has
drained, the system may stop (`Idle`), so no fairness is assumed for
`CoreAccess`.

## Not modelled, and why

- **A filter with an invalid operation.** `passes_filter` calls
  `exit(-200)` for an operation outside `FilterOperations`. `set_filter`
  is only given valid operations by the programs, so `FilterSettings`
  holds valid operations only and `PassesFilter` has no such branch.

- **Statistics, cycle counts, utilization counters and summaries.** They are
  output only.
- **The L1 instruction cache, `READ_EX` and locked accesses.** The L1 `.cc` is
  not in the repository. The data path the protocol sees is modelled.
- **Broadcast mode of the directory entry.** It is a sharer-list encoding that
  changes the messages' fan-out but not their effect. The limited
  no-broadcast variant is modelled, with `MaxHwSharers`.
- **Several home tiles.** Each address has one home, and homes do not
  interact, so one directory suffices.
- **Allocation failure with fewer ways than requesting tiles.** It is
  reachable, and the spec treats it as resource exhaustion; the runs use as
  many ways as tiles.
- **The out-of-bounds decrement for `CAPI_ENDPOINT_ANY`** (`core.cc:158`).
  The write lands far outside the table, and what it hits is outside the
  program's state.
- **A user program that receives from a tile that never sends to it.** It
  sleeps in `netRecv` for ever. That is the program's error, not the
  simulator's, so no property asks for its absence. `RecvCompletes` checks
  the simulator's side: a receive whose packet has been sent returns.
- **Virtual-channel subscriptions and members**
  (`subscribe_to_virtual_channel`, `add_member`, `remove_member`). They
  write sets that nothing but `list_members` reads, and the use of
  `subscribed_to_channel` in the ingestor is commented out.
- **`CAPI_Initialize` and the comm-id map.** `getTileFromCommId` lives in
  `config`, which is not in the repository. The model identifies comm ids
  with tiles.
- **Cycle-count conversion between network and core frequencies.** The
  conversion is not in the repository, and the magic model runs at 1.0.
- **Power models, PIN instrumentation, test drivers,
  and the MSI and shared-L2 variants.** They are outside the spec's core.

## Findings

- **`atac_block_send`** (`core.cc:137`). `coreSendW` raises
  `s_block_send[i]` for every receiver `i` of a congested broadcast. It
  tests the sender's flag before broadcasting, and `coreRecvW` lowers the
  sender's flag. After two broadcasts by `t1` (lambda queue 6),
  `s_block_send[t2]` is set, so `t2`'s broadcasts are refused although
  `t2` never sent anything.
- **`net_recv_any_empty`** (`core.cc:176`, `network.cc:566`). A CAPI
  receive from `CAPI_ENDPOINT_ANY` uses the non-blocking
  `receive_filtered`, which returns at once when `_netQueue` holds no
  matching packet: none has been sent yet (the case the trace shows), or
  it has been sent and not yet pulled from the transport. `netRecvNonBlock`
  then copies `*_netQueue.end()`. `coreRecvW`
  never tests `packet.found`, so it either fails its size assertion on a
  garbage length or returns the sentinel as a message. The spec says
  callers must treat not-found as an ordinary outcome.

- **`vc_register_race`** (`chip.cc:21`). `register_virtual_channel`
  reads and increments `next_vc_id` without a lock; its TODO asks for
  one. Two tiles creating channels of different names both get id 10, so
  the two channels share one `MessageBuffer` queue.
- **`vc_inactive_send`** (`message_buffer.cc:16`). When the table is
  full, `create` returns a channel with id -1 and marks it inactive, but
  `send_message` never checks `get_active_status`. The broadcast carries
  id -1, and every receiver's `filter_incoming_messages` fails
  `assert(vc_id >= 0)`. The sender's own `receive_message` reads
  `message_queues[-1]`.
- **`vc_owner`** (`virtual_channel.cc:98`). `VirtualChannel()` never
  writes `owner_tile_id`, and `send_message` sends from it. The send
  fails with `CAPI_SenderNotInitialized`, or it is refused by another
  tile's `s_block_send` and counted against that tile. The comment at line
  101 says false means only an uninitialized core or a size mismatch.

- **`atac_counter_race`** (`core.cc:134`, `core.cc:158`). Receiver 1
  loads its counter for sender 0 (0). Sender 0's broadcast stores 1, and
  receiver 1 stores -1, so the increment is lost for good. A lost
  increment lets a sender go past `LAMBDA_QUEUE_LENGTH - 4` without
  `s_block_send` being raised; a lost decrement leaves it blocked.

- **`atac_vc_counters`** (`core.cc:82`, `core.cc:97`). `send_message`
  broadcasts with `coreSendW`, which raises `s_rambda_buffer_count` for
  every receiver. The virtual-channel receive (`filter_incoming_messages`,
  then `dequeue_filtered_message`) never lowers it: only `coreRecvW`
  does. After one tile's broadcast has been received by the other (the
  trace has tile 0 send and tile 1 receive), the counter
  still counts it. The counters only grow, so after
  `LAMBDA_QUEUE_LENGTH - 4` channel broadcasts `s_block_send` refuses
  broadcasts for good, though every message has been received. No race is
  involved: in this configuration no receive writes a counter.

## Plan

Later work, in order:

1. **Larger MOSI instances for the refinement**: two writes with three
   tiles, which took 4.7M states for the invariants alone.

The liveness of the virtual-channel receive path is not on the list.
`receive_message` does not block. The test programs call it a fixed number
of times (`receive_from_all` in `atac_test.cc`), whether or not a message
has come. The code therefore gives no fairness under which a broadcast
message must eventually be returned.
