------------------------------ MODULE Network ------------------------------
(***************************************************************************)
(* The per-tile network engine of network/network.cc: the physical        *)
(* transport between tiles, the inbound queue _netQueue of every tile, the *)
(* condition variable _netQueueCond that blocking receivers sleep on, and *)
(* the packet matching of the blocking and non-blocking receives.          *)
(*                                                                         *)
(* The transport delivers in order on each link (from tile, to tile).    *)
(* The one network model of the repository, NetworkModelMagic, routes a   *)
(* packet in a single hop to its receiver with a fixed latency, and has no *)
(* broadcast capability, so netSend sends a broadcast as one unicast per   *)
(* tile.  A packet's time is the sender's cycle count plus that latency.   *)
(***************************************************************************)
EXTENDS Integers, Sequences, SequencesExt, FiniteSets

CONSTANTS Tiles,          \* tile ids
          Types,          \* packet types
          CallbackTypes,  \* types with a callback registered (registerCallback)
          Broadcast,      \* NetPacket::BROADCAST receiver
          Latency,        \* atac/design/delay_optical_network
          MaxClock        \* bound on a tile's cycle count

ASSUME CallbackTypes \subseteq Types /\ Broadcast \notin Tiles
ASSUME Latency \in Nat

VARIABLES link,      \* link[f][t]: packets in the transport from f to t
          netQueue,  \* netQueue[t]: _netQueue of tile t
          waitSet,   \* tiles whose user thread sleeps on _netQueueCond
          clock,     \* clock[t]: the core's cycle count
          nextId     \* ghost: the id the next packet sent gets

netVars == <<link, netQueue, waitSet, clock, nextId>>

Packet == [id : Nat, sender : Tiles, receiver : Tiles \cup {Broadcast},
           type : Types, time : 0..(MaxClock + Latency), sig : Nat, vc : Int]

NetInit ==
  /\ link = [f \in Tiles |-> [t \in Tiles |-> <<>>]]
  /\ netQueue = [t \in Tiles |-> <<>>]
  /\ waitSet = {}
  /\ clock = [t \in Tiles |-> 0]
  /\ nextId = 1

-----------------------------------------------------------------------------
(* Sending.                                                                *)

\* forwardPacket with NetworkModelMagic::routePacket: one hop, to the
\* receiver, at time + latency.
ForwardPacket(l, p) ==
  [l EXCEPT ![p.sender][p.receiver] = Append(@, [p EXCEPT !.time = @ + Latency])]

\* netSend: the model has no broadcast capability, so a broadcast is sent
\* as one unicast per tile, the receiver rewritten to that tile.
NetSendLinks(l, p) ==
  IF p.receiver = Broadcast
  THEN FoldSet(LAMBDA i, acc : ForwardPacket(acc, [p EXCEPT !.receiver = i]),
               l, Tiles)
  ELSE ForwardPacket(l, p)

\* The netSend(dest, type, buf, len) wrapper: the packet's time is the
\* sender's cycle count.  Of the payload, the model keeps the signature
\* and the virtual channel id of the Message it holds (0 for other data).
NetSend(t, dest, ty, sig, vc) ==
  /\ link' = NetSendLinks(link, [id |-> nextId, sender |-> t, receiver |-> dest,
                                 type |-> ty, time |-> clock[t], sig |-> sig,
                                 vc |-> vc])
  /\ nextId' = nextId + 1

-----------------------------------------------------------------------------
(* netPullFromTransport, one packet per step: the loop pulls until the     *)
(* transport is empty, and every iteration takes the lock on its own.  The *)
(* magic model's only hop is RECEIVE_TILE: every packet pulled is ready.   *)

\* A pull that enqueues without broadcasting _netQueueCond.
PullNoWake(t) ==
  \E f \in Tiles :
    /\ link[f][t] # <<>>
    /\ link' = [link EXCEPT ![f][t] = Tail(@)]
    /\ IF Head(link[f][t]).type \in CallbackTypes
       THEN UNCHANGED netQueue
       ELSE netQueue' = [netQueue EXCEPT ![t] = Append(@, Head(link[f][t]))]
    /\ UNCHANGED <<waitSet, clock, nextId>>

Pull(t) ==
  \E f \in Tiles :
    /\ link[f][t] # <<>>
    /\ LET p  == Head(link[f][t])
           l1 == [link EXCEPT ![f][t] = Tail(@)]
       IN  \/ /\ p.type \in CallbackTypes    \* the callback consumes it
              /\ link' = l1
              /\ UNCHANGED <<netQueue, waitSet>>
           \/ /\ p.type \notin CallbackTypes \* enqueue and broadcast the cond
              /\ link' = l1
              /\ netQueue' = [netQueue EXCEPT ![t] = Append(@, p)]
              /\ waitSet' = waitSet \ {t}
    /\ UNCHANGED <<clock, nextId>>

-----------------------------------------------------------------------------
(* Matching, shared by netRecv and netRecvNonBlock.                        *)

\* A queued packet p matches at tile t the senders ss and the types ts
\* (an empty match list is every sender, or every type).
Matches(p, t, ss, ts) ==
  /\ p.receiver \in {t, Broadcast}
  /\ p.sender \in ss
  /\ p.type \in ts

MatchIndices(q, t, ss, ts) == {i \in DOMAIN q : Matches(q[i], t, ss, ts)}

\* NetRecvIterator over a NetMatch's list of senders (or of types): the
\* listed ones, or, for an empty list, every one of the _numMod tiles (of
\* the NUM_PACKET_TYPES types).
NetRecvIterator(list, all) == IF list = {} THEN all ELSE list

\* The NetMatch the wrappers build, as the senders and the types it
\* accepts.  netRecv(src, recv, type) lists one sender and one type.
NetRecvMatch(src, ty) ==
  [senders |-> NetRecvIterator({src}, Tiles), types |-> NetRecvIterator({ty}, Types)]

\* netRecvNonBlock(src, type): the same match, for the non-blocking scan.
NetRecvNonBlockMatch(src, ty) == NetRecvMatch(src, ty)

\* netRecvTypeNonBlock(type) lists no sender: every sender matches.
TypeNonBlockMatch(ty) ==
  [senders |-> NetRecvIterator({}, Tiles), types |-> NetRecvIterator({ty}, Types)]

\* netRecv whose scan goes on after a match, keeping the last one.
NetRecvPickLast(q, t, ss, ts) == Max(MatchIndices(q, t, ss, ts))

\* netRecv: the first matching entry in queue order.
NetRecvPick(q, t, ss, ts) == Min(MatchIndices(q, t, ss, ts))

\* netRecvNonBlock: the entry with the smallest time; among equal times
\* the first, since the scan replaces its pick only on itr->time > i->time.
NetRecvNonBlockPick(q, t, ss, ts) ==
  LET M == MatchIndices(q, t, ss, ts)
  IN  CHOOSE i \in M : \A j \in M : q[i].time < q[j].time
                                    \/ (q[i].time = q[j].time /\ i <= j)

\* A RecvInstruction that moves the core one cycle past the packet.
AdvanceClockPastPacket(t, p) ==
  clock' = [clock EXCEPT ![t] = IF p.time >= @ THEN p.time + 1 ELSE @]

\* The RecvInstruction queued when the packet is later than the core.
AdvanceClock(t, p) ==
  clock' = [clock EXCEPT ![t] = IF p.time > @ THEN p.time ELSE @]

============================================================================
