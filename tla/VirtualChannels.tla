-------------------------- MODULE VirtualChannels --------------------------
(***************************************************************************)
(* Virtual channels over the user network (user/virtual_channel.cc,       *)
(* user/chip.cc, user/capi.cc, tile/core/core.cc, atac/message_buffer.cc): *)
(* the messaging layer the ATAC applications use.  Chip keeps a global    *)
(* table from channel name to id; VirtualChannel::create registers a name *)
(* and createFromRegistered looks one up.  send_message broadcasts a      *)
(* Message carrying the channel id with coreSendW; receive_message runs   *)
(* filter_incoming_messages, which polls every wavelength (sender) once   *)
(* with receive_filtered_from and files each packet that passes the       *)
(* tile's filter in the MessageBuffer queue of the packet's channel id,   *)
(* and then pops the front of its own channel's queue.                    *)
(*                                                                         *)
(* The transport, _netQueue and the ATAC counters are those of             *)
(* CoreMessaging; this module composes them with the channel layer.       *)
(***************************************************************************)
EXTENDS CoreMessaging

CONSTANTS Names,              \* channel names
          NameKey,            \* NameKey[n]: the table's key for n, its first character
          FirstVcId,          \* the initial value of Chip::next_vc_id
          MaxVirtualChannels, \* MAX_VIRTUAL_CHANNELS
          Wavelengths,        \* the senders filter_incoming_messages polls, in order
          User1,              \* USER_1, the type of CARBON_NET_USER_1
          InvalidTile,        \* INVALID_TILE_ID from getTileFromCommId
          NoVc,               \* a NULL VirtualChannel*
          NoReg               \* no register_virtual_channel in progress

ASSUME FirstVcId \in Nat /\ MaxVirtualChannels \in Nat
ASSUME Wavelengths \in Seq(Tiles) /\ User1 \in UserTypes
ASSUME InvalidTile \notin Tiles
ASSUME Names \subseteq DOMAIN NameKey

VARIABLES nextVcId, \* Chip::next_vc_id
          registry, \* Chip::active_virtual_channels, key -> id
          regTmp,   \* regTmp[t]: key, whether next_vc_id is loaded, and the value loaded
          vc,       \* vc[t]: the tile's VirtualChannel [id, owner], or NoVc
          buffer,   \* buffer[t][id]: message_queues[id] of the core's MessageBuffer
          poll,     \* poll[t]: 0 idle, i polling Wavelengths[i], then the dequeue
          got       \* ghost: {m} for the message the last receive returned, or {}

vcVars == <<nextVcId, registry, regTmp, vc, buffer, poll, got>>
allVars == <<vars, vcVars>>

\* The indices of message_queues.
QueueIds == 0..(MaxVirtualChannels - 1)

\* VirtualChannel() never writes owner_tile_id: what the field holds is
\* whatever the heap held, which getTileFromCommId maps to a tile or to
\* INVALID_TILE_ID.
OwnerValues == Tiles \cup {InvalidTile}

\* The step of receive_message that pops the channel's queue.
DequeueStep == Len(Wavelengths) + 1

VcInit ==
  /\ Init
  /\ nextVcId = FirstVcId
  /\ registry = [n \in {} |-> 0]
  /\ regTmp = [t \in Tiles |-> NoReg]
  /\ vc = [t \in Tiles |-> NoVc]
  /\ buffer = [t \in Tiles |-> [i \in QueueIds |-> <<>>]]
  /\ poll = [t \in Tiles |-> 0]
  /\ got = [t \in Tiles |-> {}]

\* CHAR_HACK is defined: the table is a map<char, int>, and
\* register_virtual_channel and find_vc_id key it by name_arg.c_str()[0].
Key(n) == NameKey[n]

\* The user thread of tile t is between channel calls.
Idle(t) == poll[t] = 0 /\ regTmp[t] = NoReg

-----------------------------------------------------------------------------
(* Channel creation.                                                       *)

\* VirtualChannel::create up to the table-full test of
\* Chip::register_virtual_channel (line 20).  With the table full it
\* returns -1 and the channel is created inactive with that id; otherwise
\* the thread has passed the test and has not yet loaded next_vc_id.
CreateBegin(t, n) ==
  /\ Idle(t)
  /\ vc[t] = NoVc
  /\ IF nextVcId < MaxVirtualChannels
     THEN /\ regTmp' = [regTmp EXCEPT ![t] = [key |-> Key(n), read |-> FALSE, id |-> 0]]
          /\ UNCHANGED vc
     ELSE /\ \E o \in OwnerValues : vc' = [vc EXCEPT ![t] = [id |-> -1, owner |-> o]]
          /\ UNCHANGED regTmp
  /\ UNCHANGED <<vars, nextVcId, registry, buffer, poll, got>>

\* new_vc_id = ++next_vc_id: the pre-increment takes the incremented value.
CreateReadPreIncrement(t) ==
  /\ regTmp[t] # NoReg
  /\ ~regTmp[t].read
  /\ regTmp' = [regTmp EXCEPT ![t].read = TRUE, ![t].id = nextVcId + 1]
  /\ UNCHANGED <<vars, nextVcId, registry, vc, buffer, poll, got>>

\* The load of next_vc_id++ (line 21), a separate step from the test:
\* other threads may have stored a larger value since.
CreateRead(t) ==
  /\ regTmp[t] # NoReg
  /\ ~regTmp[t].read
  /\ regTmp' = [regTmp EXCEPT ![t].read = TRUE, ![t].id = nextVcId]
  /\ UNCHANGED <<vars, nextVcId, registry, vc, buffer, poll, got>>

\* The rest of register_virtual_channel, without a lock: the store of
\* the loaded value + 1 and the table entry (lines 21-26); create keeps
\* the id and makes the channel active.
CreateEnd(t) ==
  /\ regTmp[t] # NoReg
  /\ regTmp[t].read
  /\ nextVcId' = regTmp[t].id + 1
  /\ registry' = (regTmp[t].key :> regTmp[t].id) @@ registry
  /\ \E o \in OwnerValues : vc' = [vc EXCEPT ![t] = [id |-> regTmp[t].id, owner |-> o]]
  /\ regTmp' = [regTmp EXCEPT ![t] = NoReg]
  /\ UNCHANGED <<vars, buffer, poll, got>>

\* Chip::find_vc_id: -1 for a name not in the table, or mapped to 0.
FindVcId(n) ==
  IF Key(n) \in DOMAIN registry /\ registry[Key(n)] # 0
  THEN registry[Key(n)] ELSE -1

\* VirtualChannel::createFromRegistered: NULL, which changes nothing, when
\* find_vc_id gives -1.
CreateFromRegistered(t, n) ==
  /\ Idle(t)
  /\ vc[t] = NoVc
  /\ FindVcId(n) # -1
  /\ \E o \in OwnerValues : vc' = [vc EXCEPT ![t] = [id |-> FindVcId(n), owner |-> o]]
  /\ UNCHANGED <<vars, nextVcId, registry, regTmp, buffer, poll, got>>

-----------------------------------------------------------------------------
(* Sending.                                                                *)

\* CAPI_message_send_w_ex(sender, CAPI_ENDPOINT_ALL, ...) on tile t's
\* core: a sender comm id that getTileFromCommId maps to INVALID_TILE_ID
\* returns CAPI_SenderNotInitialized; otherwise coreSendW broadcasts with
\* that sender index, whose s_block_send may refuse it with -1.  Both
\* failures change nothing.  The packets leave tile t's network.
CapiMessageSendWEx(t, s, sig, id) ==
  /\ s \in Tiles
  /\ ~block[s]
  /\ RaiseCounters(s)
  /\ NetSend(t, Broadcast, User1, sig, id)

\* VirtualChannel::send_message: a Message with the channel id, sent from
\* owner_tile_id to CAPI_ENDPOINT_ALL on CARBON_NET_USER_1.
SendMessage(t, sig) ==
  /\ Idle(t)
  /\ vc[t] # NoVc
  /\ nextId <= MaxSends
  /\ CapiMessageSendWEx(t, vc[t].owner, sig, vc[t].id)
  /\ UNCHANGED <<netQueue, waitSet, clock, filter, pc, want, result, fault,
                 vcVars>>

-----------------------------------------------------------------------------
(* Receiving.                                                              *)

\* CAPI_filter_incoming_messages: the tile argument is replaced by the
\* current tile, whose core starts filter_incoming_messages at the first
\* wavelength.
CapiFilterIncomingMessages(t) == poll' = [poll EXCEPT ![t] = 1]

\* VirtualChannel::receive_message, up to the filtering of its tile: the
\* owner_tile_id it passes is not used.
ReceiveMessage(t) ==
  /\ Idle(t)
  /\ vc[t] # NoVc
  /\ CapiFilterIncomingMessages(t)
  /\ UNCHANGED <<vars, nextVcId, registry, regTmp, vc, buffer, got>>

\* MessageBuffer::enqueue_message: the packet goes to the queue of its
\* Message's vc_id, after assert(0 <= vc_id < MAX_VIRTUAL_CHANNELS).
EnqueueMessage(t, p) ==
  IF p.vc \in QueueIds
  THEN /\ buffer' = [buffer EXCEPT ![t][p.vc] = Append(@, p)]
       /\ UNCHANGED fault
  ELSE /\ fault' = "enqueue_message: vc_id out of range"
       /\ UNCHANGED buffer

\* Core::filter_incoming_messages after receive_filtered_from(i) found a
\* packet: it is filed in the MessageBuffer and the loop moves to the
\* next wavelength.
FileMessage(t, p) ==
  /\ EnqueueMessage(t, p)
  /\ poll' = [poll EXCEPT ![t] = @ + 1]

\* One netRecvNonBlock(src, USER_1) call of receive_filtered_from for the
\* wavelength filter_incoming_messages is at.  A packet that passes the
\* filter ends the loop and is filed; one that fails is discarded and the
\* same sender is polled again.  When nothing matches, the copy of
\* *_netQueue.end() may queue a RecvInstruction of any length, found is
\* false, and filter_incoming_messages moves to the next wavelength.
FilterPoll(t) ==
  /\ poll[t] \in 1..Len(Wavelengths)
  /\ LET m  == NetRecvNonBlockMatch(Wavelengths[poll[t]], User1)
         ss == m.senders
         ts == m.types
     IN  IF MatchIndices(netQueue[t], t, ss, ts) # {}
         THEN LET i == NetRecvNonBlockPick(netQueue[t], t, ss, ts)
              IN  /\ TakeFromQueue(t, i)
                  /\ IF PassesFilter(filter[t], netQueue[t][i])
                     THEN FileMessage(t, netQueue[t][i])
                     ELSE UNCHANGED <<buffer, poll, fault>>
         ELSE /\ \E c \in clock[t]..MaxClock : clock' = [clock EXCEPT ![t] = c]
              /\ poll' = [poll EXCEPT ![t] = @ + 1]
              /\ UNCHANGED <<netQueue, buffer, fault>>
  /\ UNCHANGED <<link, waitSet, nextId, count, block, filter, pc, want, result,
                 nextVcId, registry, regTmp, vc, got>>

\* dequeue_filtered_message that reads the front without the pop().
DequeueFilteredMessageNoPop(t) ==
  /\ poll[t] = DequeueStep
  /\ vc[t].id \in QueueIds
  /\ got' = [got EXCEPT ![t] = IF buffer[t][vc[t].id] = <<>> THEN {}
                               ELSE {Head(buffer[t][vc[t].id])}]
  /\ poll' = [poll EXCEPT ![t] = 0]
  /\ UNCHANGED <<vars, nextVcId, registry, regTmp, vc, buffer>>

\* MessageBuffer::dequeue_filtered_message on a queue of the array: the
\* front and the queue after pop(), or NetPacket(), whose data is NULL.
BufferDequeue(q) ==
  IF q = <<>> THEN [queue |-> q, msg |-> {}]
  ELSE [queue |-> Tail(q), msg |-> {Head(q)}]

\* Core::dequeue_filtered_message, through CAPI_dequeue_filtered_message
\* on the current tile: the channel's queue is popped, and receive_message
\* returns whether a message came out.  An inactive channel
\* (id -1) indexes message_queues[-1], outside the object: the process
\* crashes or reads an empty queue.
DequeueFilteredMessage(t) ==
  /\ poll[t] = DequeueStep
  /\ LET id == vc[t].id
     IN  \/ /\ id \in QueueIds
            /\ buffer' = [buffer EXCEPT ![t][id] = BufferDequeue(@).queue]
            /\ got' = [got EXCEPT ![t] = BufferDequeue(buffer[t][id]).msg]
            /\ UNCHANGED fault
         \/ /\ id \notin QueueIds
            /\ \/ fault' = "dequeue_filtered_message: message_queues[-1]"
               \/ UNCHANGED fault
            /\ got' = [got EXCEPT ![t] = {}]
            /\ UNCHANGED buffer
  /\ poll' = [poll EXCEPT ![t] = 0]
  /\ UNCHANGED <<vars, nextVcId, registry, regTmp, vc>>

-----------------------------------------------------------------------------
\* The atac_test program's calls: channel creation and lookup, broadcasts,
\* CAPI_set_filter and receives, with the simulation thread of every tile
\* pulling from the transport.  After an assertion nothing runs.  The
\* instructions a tile runs between calls are left out: they move its
\* cycle count, which orders the packets of different senders only.
VcNext ==
  \/ \E t \in Tiles : Running /\ PullStep(t) /\ UNCHANGED vcVars
  \/ \E t \in Tiles, f \in FilterSettings :
       Running /\ Idle(t) /\ SetFilter(t, f) /\ UNCHANGED vcVars
  \/ \E t \in Tiles, n \in Names : Running /\ CreateBegin(t, n)
  \/ \E t \in Tiles : Running /\ CreateRead(t)
  \/ \E t \in Tiles : Running /\ CreateEnd(t)
  \/ \E t \in Tiles, n \in Names : Running /\ CreateFromRegistered(t, n)
  \/ \E t \in Tiles, sig \in Sigs : Running /\ SendMessage(t, sig)
  \/ \E t \in Tiles : Running /\ ReceiveMessage(t)
  \/ \E t \in Tiles : Running /\ FilterPoll(t)
  \/ \E t \in Tiles : Running /\ DequeueFilteredMessage(t)

VcSpec == VcInit /\ [][VcNext]_allVars

-----------------------------------------------------------------------------
(* Properties.                                                             *)

\* Every tile may pass the table-full test with next_vc_id at
\* MAX_VIRTUAL_CHANNELS - 1 before any of them stores, and each load then
\* sees at most one more store: next_vc_id never exceeds this bound.
IdBound == MaxVirtualChannels - 1 + Cardinality(Tiles)

\* The ids register_virtual_channel can hand out.
IssuedIds == FirstVcId..(IdBound - 1)

\* Every variable of the channel layer in its domain.  next_vc_id, the
\* table and the channels hold ids in FirstVcId..IdBound - 1: the unlocked
\* test and increment may go past MAX_VIRTUAL_CHANNELS - 1, by one for
\* each tile that passed the test before the others stored, never more.
VcTypeOK ==
  /\ TypeOK
  /\ nextVcId \in FirstVcId..IdBound
  /\ DOMAIN registry \subseteq {Key(n) : n \in Names}
  /\ \A n \in DOMAIN registry : registry[n] \in IssuedIds
  /\ \A t \in Tiles :
       /\ regTmp[t] \in {NoReg} \cup [key : {Key(n) : n \in Names},
                                       read : BOOLEAN, id : {0} \cup IssuedIds]
       /\ vc[t] \in {NoVc} \cup [id : IssuedIds \cup {-1}, owner : OwnerValues]
       /\ \A i \in QueueIds : buffer[t][i] \in Seq(Packet)
       /\ poll[t] \in 0..DequeueStep
       /\ got[t] \subseteq Packet /\ Cardinality(got[t]) <= 1

\* The messages on their way to tile t: in the transport, in _netQueue or
\* filed in its MessageBuffer.
VcPending(t) == Pending(t) \cup UNION {Range(buffer[t][i]) : i \in QueueIds}

\* Messages of one sender on one channel reach the receiver's
\* receive_message in the order they were broadcast, and each at most
\* once: when receive_message returns a message, neither it nor a later-
\* returned earlier message of that sender and channel is still on its way
\* to the tile, though filter_incoming_messages polls each sender once per
\* call, takes the earliest packet by time, and files it by channel.
VcInOrderOnce ==
  [][\A t \in Tiles :
       poll[t] = DequeueStep =>
         \A m \in got'[t] :
           \A q \in VcPending(t)' :
             (q.sender = m.sender /\ q.vc = m.vc) => m.id < q.id]_allVars

\* Chip::register_virtual_channel gives every key it registers its own
\* id: two names of different first characters never map to the same
\* channel.
ChannelIdsUnique ==
  \A n, m \in DOMAIN registry : n # m => registry[n] # registry[m]

\* MessageBuffer indexes message_queues only inside the array: the
\* assertion of enqueue_message holds for every message a tile files, and
\* dequeue_filtered_message never reads message_queues[-1].
QueueIndexInRange ==
  fault \notin {"enqueue_message: vc_id out of range",
                "dequeue_filtered_message: message_queues[-1]"}

\* The send_message comment: it returns false only when the core is not
\* initialized or the sizes differ.  A tile with a channel whose own
\* broadcasts are not refused by s_block_send can broadcast on it.
SendAvailable ==
  \A t \in Tiles :
    (Running /\ Idle(t) /\ vc[t] # NoVc /\ ~block[t] /\ nextId <= MaxSends)
      => ENABLED (\E sig \in Sigs : SendMessage(t, sig))

============================================================================
