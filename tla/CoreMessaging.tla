--------------------------- MODULE CoreMessaging ---------------------------
(***************************************************************************)
(* User messaging over the network (tile/core/core.cc, atac/              *)
(* filtered_ingestor.cc, user/capi.cc): the user thread of every tile     *)
(* sends with coreSendW and receives with coreRecvW.  A receive from one  *)
(* sender is the blocking netRecv; a receive from CAPI_ENDPOINT_ANY is     *)
(* receive_filtered, a loop of netRecvTypeNonBlock calls that discards the *)
(* packets the tile's filter rejects.  A broadcast raises the ATAC         *)
(* lambda-buffer counters s_rambda_buffer_count[receiver][sender], a      *)
(* receive lowers one, and s_block_send refuses broadcasts under contention.*)
(*                                                                         *)
(* The memory manager's packets (sendMsg) travel on the same network and  *)
(* are consumed by the callback registered for their type.                *)
(***************************************************************************)
EXTENDS Network, Bitwise

CONSTANTS EndpointAny,    \* CAPI_ENDPOINT_ANY
          UserTypes,      \* USER_1, USER_2: the types getPktTypeFromUserNetType gives
          Sigs,           \* message signatures
          FilterSettings, \* filter records [op, mask, sig] that CAPI_set_filter sets
          LambdaQueueLength, \* atac/design/lambda_queue_length
          MaxSends,       \* bound on the packets sent
          Garbage,        \* the payload a receive returns that no tile sent
          NoFault

ASSUME UserTypes \subseteq Types /\ UserTypes \cap CallbackTypes = {}
ASSUME EndpointAny \notin Tiles

VARIABLES count,    \* s_rambda_buffer_count[receiver][sender]
          block,    \* s_block_send[tile]
          filter,   \* the filter of each tile's FilteredIngestor
          pc,       \* the user thread: "idle", "recv" (netRecv), "filter" (receive_filtered)
          want,     \* [sender, type] of the receive in progress
          result,   \* ghost: the last receive returned a packet sent, or Garbage
          fault     \* the first LOG_ASSERT_ERROR that fired

vars == <<netVars, count, block, filter, pc, want, result, fault>>

\* The want of an idle user thread: no receive in progress.
NoWant == [sender |-> EndpointAny, type |-> CHOOSE ty \in UserTypes : TRUE]

Init ==
  /\ NetInit
  /\ count = [r \in Tiles |-> [s \in Tiles |-> 0]]
  /\ block = [t \in Tiles |-> FALSE]
  /\ filter = [t \in Tiles |-> [op |-> "ALL", mask |-> 0, sig |-> 0]]
  /\ pc = [t \in Tiles |-> "idle"]
  /\ want = [t \in Tiles |-> NoWant]
  /\ result = [t \in Tiles |-> "none"]
  /\ fault = NoFault

-----------------------------------------------------------------------------
\* FilteredIngestor::passes_filter: ALL and NONE short-circuit; otherwise
\* the masked signature combined with the match signature, read as a bool.
PassesFilter(f, p) ==
  CASE f.op = "ALL"  -> TRUE
    [] f.op = "NONE" -> FALSE
    [] f.op = "AND"  -> ((p.sig & f.mask) & f.sig) # 0
    [] f.op = "OR"   -> ((p.sig & f.mask) | f.sig) # 0
    [] f.op = "XOR"  -> ((p.sig & f.mask) ^^ f.sig) # 0

\* Removing entry i of tile t's queue, as the user thread takes it.
TakeFromQueue(t, i) ==
  /\ netQueue' = [netQueue EXCEPT ![t] = RemoveAt(@, i)]
  /\ AdvanceClock(t, netQueue[t][i])

\* The user thread returns from coreRecvW.
Return(t, r) ==
  /\ result' = [result EXCEPT ![t] = r]
  /\ pc' = [pc EXCEPT ![t] = "idle"]
  /\ want' = [want EXCEPT ![t] = NoWant]

\* The coreSendW broadcast: every receiver's counter for the sender goes up,
\* and s_block_send is raised for each receiver at the threshold.
RaiseCounters(t) ==
  /\ count' = [r \in Tiles |-> [count[r] EXCEPT ![t] = @ + 1]]
  /\ block' = [r \in Tiles |->
                 block[r] \/ count'[r][t] >= LambdaQueueLength - 4]

\* The coreRecvW decrement: the sender's flag is lowered when the
\* counter drops just below the threshold.
LowerCounter(t, s) ==
  /\ count' = [count EXCEPT ![t][s] = @ - 1]
  /\ block' = IF count'[t][s] = LambdaQueueLength - 4 - 1
              THEN [block EXCEPT ![s] = FALSE] ELSE block

\* receive_filtered after a found packet: it breaks out of the loop when
\* the packet passes the filter, and discards it and loops otherwise.
FilteredFound(t, p) ==
  IF PassesFilter(filter[t], p)
  THEN Return(t, "packet")
  ELSE UNCHANGED <<result, pc, want>>

-----------------------------------------------------------------------------
\* Core::coreSendW to one tile, or to CAPI_ENDPOINT_ALL.  A broadcast
\* refused under contention returns -1 and changes nothing.
CoreSendW(t, r, ty, sig) ==
  /\ pc[t] = "idle"
  /\ nextId <= MaxSends
  /\ \/ /\ r \in Tiles
        /\ NetSend(t, r, ty, sig, 0)
        /\ UNCHANGED <<count, block>>
     \/ /\ r = Broadcast
        /\ ~block[t]
        /\ RaiseCounters(t)
        /\ NetSend(t, Broadcast, ty, sig, 0)
  /\ UNCHANGED <<netQueue, waitSet, clock, filter, pc, want, result, fault>>

\* MemoryManager::sendMsg: a protocol packet, for a callback at the receiver.
MemorySendMsg(t, r, ty) ==
  /\ nextId <= MaxSends
  /\ NetSend(t, r, ty, 0, 0)
  /\ UNCHANGED <<netQueue, waitSet, clock, count, block, filter, pc, want,
                 result, fault>>

\* CAPI_set_filter on the calling tile.
SetFilter(t, f) ==
  /\ pc[t] = "idle"
  /\ filter' = [filter EXCEPT ![t] = f]
  /\ UNCHANGED <<netVars, count, block, pc, want, result, fault>>

\* Core::coreRecvW up to the receive: the counter is decremented first.
\* With CAPI_ENDPOINT_ANY the index is outside the table; what that write
\* hits is not modelled.
CoreRecvW(t, s, ty) ==
  /\ pc[t] = "idle"
  /\ IF s \in Tiles THEN LowerCounter(t, s) ELSE UNCHANGED <<count, block>>
  /\ pc' = [pc EXCEPT ![t] = IF s \in Tiles THEN "recv" ELSE "filter"]
  /\ want' = [want EXCEPT ![t] = [sender |-> s, type |-> ty]]
  /\ UNCHANGED <<netVars, filter, result, fault>>

\* Network::netRecv, one pass of its loop under _netQueueLock: take the
\* first match, or wait on _netQueueCond.
NetRecv(t) ==
  /\ pc[t] = "recv"
  /\ t \notin waitSet
  /\ LET m  == NetRecvMatch(want[t].sender, want[t].type)
         ss == m.senders
         ts == m.types
     IN  IF MatchIndices(netQueue[t], t, ss, ts) # {}
         THEN LET i == NetRecvPick(netQueue[t], t, ss, ts)
              IN  /\ TakeFromQueue(t, i)
                  /\ Return(t, "packet")
                  /\ UNCHANGED waitSet
         ELSE /\ waitSet' = waitSet \cup {t}
              /\ UNCHANGED <<netQueue, clock, result, pc, want>>
  /\ UNCHANGED <<link, nextId, count, block, filter, fault>>

\* One netRecvTypeNonBlock call of receive_filtered.  A found packet that
\* fails the filter is discarded and the loop goes on.  When nothing
\* matches, the packet is copied from *_netQueue.end(): its length and
\* time are whatever that memory holds, so coreRecvW's size assertion
\* fires, or passes and returns the sentinel payload, after queueing a
\* RecvInstruction of any length.
ReceiveFiltered(t) ==
  /\ pc[t] = "filter"
  /\ LET m  == TypeNonBlockMatch(want[t].type)
         ss == m.senders
         ts == m.types
     IN  IF MatchIndices(netQueue[t], t, ss, ts) # {}
         THEN LET i == NetRecvNonBlockPick(netQueue[t], t, ss, ts)
                  p == netQueue[t][i]
              IN  /\ TakeFromQueue(t, i)
                  /\ FilteredFound(t, p)
                  /\ UNCHANGED fault
         ELSE /\ \E c \in clock[t]..MaxClock : clock' = [clock EXCEPT ![t] = c]
              /\ \/ /\ fault' = "user thread requested packet of a different size"
                    /\ UNCHANGED <<result, pc, want>>
                 \/ /\ Return(t, Garbage)
                    /\ UNCHANGED fault
              /\ UNCHANGED <<netQueue>>
  /\ UNCHANGED <<link, waitSet, nextId, count, block, filter>>

\* The core executes instructions.
Tick(t) ==
  /\ pc[t] = "idle"
  /\ clock[t] < MaxClock
  /\ clock' = [clock EXCEPT ![t] = @ + 1]
  /\ UNCHANGED <<link, netQueue, waitSet, nextId, count, block, filter, pc,
                 want, result, fault>>

Running == fault = NoFault

\* netPullFromTransport on tile t, run by the tile's simulation thread.
PullStep(t) ==
  /\ Pull(t)
  /\ UNCHANGED <<count, block, filter, pc, want, result, fault>>

\* After a LOG_ASSERT_ERROR the simulator has exited: nothing runs.
Next ==
  \/ \E t \in Tiles : Running /\ PullStep(t)
  \/ \E t \in Tiles, r \in Tiles \cup {Broadcast}, ty \in UserTypes, sig \in Sigs :
       Running /\ CoreSendW(t, r, ty, sig)
  \/ \E t, r \in Tiles, ty \in CallbackTypes : Running /\ MemorySendMsg(t, r, ty)
  \/ \E t \in Tiles, f \in FilterSettings : Running /\ SetFilter(t, f)
  \/ \E t \in Tiles, s \in Tiles \cup {EndpointAny}, ty \in UserTypes :
       Running /\ CoreRecvW(t, s, ty)
  \/ \E t \in Tiles : Running /\ NetRecv(t)
  \/ \E t \in Tiles : Running /\ ReceiveFiltered(t)
  \/ \E t \in Tiles : Running /\ Tick(t)

\* Every tile's simulation thread pulls while the transport holds packets
\* for it, and a user thread that is not asleep on _netQueueCond runs.
Fairness ==
  \A t \in Tiles : /\ WF_vars(Running /\ PullStep(t))
                  /\ WF_vars(Running /\ NetRecv(t))
                  /\ WF_vars(Running /\ ReceiveFiltered(t))

Spec == Init /\ [][Next]_vars /\ Fairness

-----------------------------------------------------------------------------
(* Properties.                                                             *)

TypeOK ==
  /\ \A f, t \in Tiles : link[f][t] \in Seq(Packet)
  /\ \A t \in Tiles : netQueue[t] \in Seq(Packet)
  /\ waitSet \subseteq Tiles
  /\ clock \in [Tiles -> 0..(MaxClock + Latency)]
  /\ nextId \in 1..(MaxSends + 1)
  /\ count \in [Tiles -> [Tiles -> Int]]
  /\ block \in [Tiles -> BOOLEAN]
  /\ filter \in [Tiles -> FilterSettings \cup {[op |-> "ALL", mask |-> 0, sig |-> 0]}]
  /\ pc \in [Tiles -> {"idle", "recv", "filter"}]
  /\ result \in [Tiles -> {"none", "packet", Garbage}]

\* The packets on their way to tile r: in the transport or in _netQueue.
Pending(r) == UNION {Range(link[f][r]) : f \in Tiles} \cup Range(netQueue[r])

\* Per-pair order: a user thread never takes a packet of one sender and
\* type off its queue while an earlier one of the same sender and type is
\* still on its way, whichever receive (netRecv's first match or
\* netRecvNonBlock's earliest time) takes it and however the pull loop
\* interleaves the packets of different senders.
InOrderPerPair ==
  [][\A t \in Tiles :
       \A p \in Range(netQueue[t]) \ Range(netQueue'[t]) :
         \A q \in Pending(t)' :
           (q.sender = p.sender /\ q.type = p.type) => p.id < q.id]_vars

\* A user thread in netRecv whose packet has been sent to it returns with
\* it: the pull that enqueues the packet wakes the thread sleeping on
\* _netQueueCond.
RecvCompletes ==
  \A t \in Tiles :
    (pc[t] = "recv" /\ \E p \in Pending(t) : Matches(p, t, {want[t].sender}, {want[t].type}))
      ~> (pc[t] = "idle" \/ fault # NoFault)

\* Every receive a user thread completes returns a packet some tile sent
\* to it; the specification makes "not found" an ordinary outcome the
\* caller must handle, and a CAPI receive returns a message.
ReceiveReturnsSentPacket ==
  fault = NoFault /\ \A t \in Tiles : result[t] # Garbage

\* s_block_send[s] refuses s's broadcasts exactly while one of the lambda
\* buffers that s's broadcasts fill, s_rambda_buffer_count[r][s], is at
\* the threshold LAMBDA_QUEUE_LENGTH - 4.
BlockSendMatchesContention ==
  \A s \in Tiles :
    block[s] <=> \E r \in Tiles : count[r][s] >= LambdaQueueLength - 4

============================================================================
