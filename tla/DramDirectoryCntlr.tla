------------------------- MODULE DramDirectoryCntlr -------------------------
(***************************************************************************)
(* The home-tile directory controller of the PR_L1_PR_L2_DRAM_DIRECTORY_   *)
(* MOSI memory subsystem (dram_directory_cntlr.cc).                        *)
(*                                                                         *)
(* A handler of the controller runs to completion inside the simulation   *)
(* thread of the home tile: it mutates the directory, the per-address     *)
(* request queues and the cached-data list, sends messages, and may chain *)
(* into processNextReqFromL2Cache, which starts the next queued request   *)
(* on the current directory state.  The controller is therefore written   *)
(* as pure operators that map a directory record D to its successor:      *)
(*                                                                         *)
(*   D.dstate, D.owner, D.sharers   the DirectoryEntry of each address     *)
(*   D.entry     "slot" (in a way of the directory cache), "displaced"    *)
(*               (replaced, NULLIFY_REQ in progress) or "absent"           *)
(*   D.reqq      _dram_directory_req_queue_list, one FIFO per address      *)
(*   D.sharerId  the sharer tile id of the front ShmemReq of an address    *)
(*   D.cached    _cached_data_list                                        *)
(*   D.dram      the backing store (DramCntlr)                             *)
(*   D.out       the messages sent, one FIFO channel per destination tile *)
(*   D.fault     "none", or the LOG_ASSERT_ERROR / LOG_PRINT_ERROR hit     *)
(*                                                                         *)
(* Data values are versions; timing, statistics and counters are omitted. *)
(***************************************************************************)
EXTENDS Naturals, Sequences, FiniteSets

CONSTANTS
  Tiles,         \* tile ids
  Addresses,     \* cache-line addresses, all homed at this directory
  Values,        \* data values a line can hold
  NoTile,        \* INVALID_TILE_ID
  NoData,        \* no entry in _cached_data_list
  DirSlots,      \* ways of the directory cache set the addresses map to
  MaxHwSharers   \* sharers an entry can track (LIMITED_NO_BROADCAST)

ASSUME NoTile \notin Tiles /\ NoData \notin Values
ASSUME DirSlots \in Nat \ {0} /\ MaxHwSharers \in 1..Cardinality(Tiles)

DStates == {"UNCACHED", "SHARED", "OWNED", "MODIFIED"}

(* A ShmemMsg, the payload of a packet between an L2 cache and the        *)
(* directory.  The sender is the channel the message travels on.          *)
Msg(type, a, requester, single, replyExp, data) ==
  [type |-> type, addr |-> a, requester |-> requester, single |-> single,
   replyExp |-> replyExp, data |-> data]

Fail(D, why) == IF D.fault = "none" THEN [D EXCEPT !.fault = why] ELSE D

Front(D, a) == Head(D.reqq[a])

\* MemoryManager::sendMsg
SendTo(D, t, m) == [D EXCEPT !.out[t] = Append(@, m)]

\* sendShmemMsg in unicast mode: one message to every tile of the sharer list
SendToSharers(D, a, m) ==
  [D EXCEPT !.out = [t \in Tiles |-> IF t \in D.sharers[a]
                                      THEN Append(D.out[t], m)
                                      ELSE D.out[t]]]

\* DirectoryEntry::getOneSharer, a deterministic choice
OneSharer(S) == IF S = {} THEN NoTile ELSE CHOOSE t \in S : TRUE

\* DirectoryEntry::addSharer succeeds unless the hardware sharer list is full
CanAddSharer(D, a, t) ==
  t \in D.sharers[a] \/ Cardinality(D.sharers[a]) < MaxHwSharers

RemoveSharer(D, a, t) == [D EXCEPT !.sharers[a] = @ \ {t}]

\* DataList::insert: a second copy of the line must equal the first, and
\* the list never holds more lines than there are tiles
CacheData(D, a, v) ==
  LET D1 == [D EXCEPT !.cached[a] = v]
  IN  IF D.cached[a] # NoData /\ D.cached[a] # v
      THEN Fail(D, "cached data differs from received data")
      ELSE IF Cardinality({b \in Addresses : D1.cached[b] # NoData}) > Cardinality(Tiles)
      THEN Fail(D1, "cached data list larger than the number of tiles")
      ELSE D1

\* DataList::erase, which asserts that the address is in the list
EraseData(D, a) ==
  IF D.cached[a] = NoData
  THEN Fail(D, "unable to erase address from the cached data list")
  ELSE [D EXCEPT !.cached[a] = NoData]

\* sendDataToDram: the line is written to DRAM
SendDataToDram(D, a, v) == [D EXCEPT !.dram[a] = v]

\* mutant: the reply always carries the DRAM copy of the line
RetrieveDataFromDram(D, type, r, a) ==
  [SendTo(D, r, Msg(type, a, r, NoTile, FALSE, D.dram[a])) EXCEPT !.cached[a] = NoData]

\* retrieveDataAndSendToL2Cache: buffered data first, else DRAM
RetrieveDataAndSend(D, type, r, a) ==
  IF D.cached[a] # NoData
  THEN EraseData(SendTo(D, r, Msg(type, a, r, NoTile, FALSE, D.cached[a])), a)
  ELSE SendTo(D, r, Msg(type, a, r, NoTile, FALSE, D.dram[a]))

\* a fresh DirectoryEntry for a in a way of the directory cache
Install(D, a) ==
  [D EXCEPT !.entry[a] = "slot", !.dstate[a] = "UNCACHED",
            !.owner[a] = NoTile, !.sharers[a] = {}]

\* mutant: an entry with a queued request may be replaced too
ReplacementCandidatesAll(D) == {b \in Addresses : D.entry[b] = "slot"}

\* the entries of the set that processDirectoryEntryAllocationReq may
\* replace: those with no queued request
ReplacementCandidates(D) ==
  {b \in Addresses : D.entry[b] = "slot" /\ D.reqq[b] = << >>}

\* the entry chosen by processDirectoryEntryAllocationReq: fewest sharers
\* among the entries with no queued request
Victim(D, cands) ==
  CHOOSE b \in cands : \A c \in cands :
    Cardinality(D.sharers[b]) <= Cardinality(D.sharers[c])

\* mutant: the sharer is flushed but not recorded as the one to wait for
ShReqMakeRoomNoSharerId(D, a, one, r) ==
  SendTo(D, one, Msg("FLUSH_REQ", a, r, NoTile, FALSE, NoData))

\* mutant: the sharer is asked for a write-back and keeps its copy
ShReqMakeRoomByWb(D, a, one, r) ==
  [SendTo(D, one, Msg("WB_REQ", a, r, NoTile, FALSE, NoData))
     EXCEPT !.sharerId[a] = one]

\* processShReqFromL2Cache when addSharer fails: flush one sharer to make
\* room for the requester, and wait for its reply
ShReqMakeRoom(D, a, one, r) ==
  [SendTo(D, one, Msg("FLUSH_REQ", a, r, NoTile, FALSE, NoData))
     EXCEPT !.sharerId[a] = one]

RECURSIVE ProcessNextReq(_, _), ProcessExReq(_, _), ProcessShReq(_, _),
          ProcessNullifyReq(_, _), AllocateEntry(_, _), StartReq(_, _)

\* mutant: the buffered line is dropped instead of written to DRAM
NullifyUncachedDropData(D, a) ==
  ProcessNextReq([D EXCEPT !.cached[a] = NoData, !.entry[a] = "absent"], a)

\* mutant: the entry is invalidated but the NULLIFY_REQ never retired
NullifyUncachedNoNext(D, a) ==
  LET D1 == IF D.cached[a] # NoData
            THEN [D EXCEPT !.dram[a] = D.cached[a], !.cached[a] = NoData]
            ELSE D
  IN  [D1 EXCEPT !.entry[a] = "absent"]

\* processNullifyReq on an UNCACHED entry: write back buffered data, drop
\* the entry and go on with the next request
NullifyUncached(D, a) ==
  LET D1 == IF D.cached[a] # NoData
            THEN EraseData(SendDataToDram(D, a, D.cached[a]), a)
            ELSE D
  IN  ProcessNextReq([D1 EXCEPT !.entry[a] = "absent"], a)

\* mutant: the upgrade is answered with a data reply
ExUpgradeWithData(D, a, r) ==
  ProcessNextReq(RetrieveDataAndSend([D EXCEPT !.dstate[a] = "MODIFIED"],
                                     "EX_REP", r, a), a)

\* processExReqFromL2Cache when the requester is the only holder: the
\* line becomes MODIFIED and an UPGRADE_REP (without data) is sent
ExUpgrade(D, a, r) ==
  ProcessNextReq(SendTo([D EXCEPT !.dstate[a] = "MODIFIED"], r,
                        Msg("UPGRADE_REP", a, r, NoTile, FALSE, NoData)), a)

\* mutant: the requester is served without being added as a sharer
ShReqServeNoSharer(D, a, r) ==
  ProcessNextReq(RetrieveDataAndSend(D, "SH_REP", r, a), a)

\* processShReqFromL2Cache serving the requester: add it as a sharer and
\* send the buffered or DRAM copy in an SH_REP
ShReqServe(D, a, r) ==
  ProcessNextReq(RetrieveDataAndSend([D EXCEPT !.sharers[a] = @ \cup {r}],
                                     "SH_REP", r, a), a)

(* processDirectoryEntryAllocationReq, reached when getDirectoryEntry     *)
(* finds no entry: a free way is used directly, otherwise the victim is   *)
(* displaced and a NULLIFY_REQ for it is queued and processed at once.    *)
AllocateEntry(D, a) ==
  LET slots == {b \in Addresses : D.entry[b] = "slot"}
      cands == ReplacementCandidates(D)
  IN  IF Cardinality(slots) < DirSlots THEN Install(D, a)
      ELSE IF cands = {}
      THEN Fail(D, "no replacement candidate without a pending request")
      ELSE LET v == Victim(D, cands)
               nullify == [type |-> "NULLIFY_REQ",
                           requester |-> Front(D, a).requester]
               D1 == [Install(D, a) EXCEPT !.entry[v] = "displaced",
                                           !.reqq[v] = Append(@, nullify)]
           IN  IF Len(D1.reqq[v]) # 1
               THEN Fail(D1, "NULLIFY_REQ queued behind another request")
               ELSE ProcessNullifyReq(D1, v)

(* processNullifyReq: force the displaced entry to UNCACHED, then write   *)
(* back buffered data, drop the entry and go on with the next request.    *)
ProcessNullifyReq(D, a) ==
  LET r == Front(D, a).requester
      s == D.dstate[a]
  IN  CASE s = "MODIFIED" ->
             SendTo(D, D.owner[a], Msg("FLUSH_REQ", a, r, NoTile, FALSE, NoData))
        [] s = "OWNED" ->
             IF D.owner[a] = NoTile THEN Fail(D, "OWNED without owner")
             ELSE SendToSharers(D, a, Msg("INV_FLUSH_COMBINED_REQ", a, r,
                                          D.owner[a], FALSE, NoData))
        [] s = "SHARED" ->
             IF D.owner[a] # NoTile THEN Fail(D, "SHARED with an owner")
             ELSE SendToSharers(D, a, Msg("INV_REQ", a, r, NoTile, FALSE, NoData))
        [] s = "UNCACHED" -> NullifyUncached(D, a)

(* processExReqFromL2Cache *)
ProcessExReq(D0, a) ==
  LET D == IF D0.entry[a] = "absent" THEN AllocateEntry(D0, a) ELSE D0
      r == Front(D, a).requester
      s == D.dstate[a]
  IN  IF D.fault # "none" THEN D
      ELSE CASE s = "MODIFIED" ->
                  SendTo(D, D.owner[a], Msg("FLUSH_REQ", a, r, NoTile, FALSE, NoData))
             [] s = "OWNED" ->
                  IF D.owner[a] = r /\ Cardinality(D.sharers[a]) = 1
                  THEN ExUpgrade(D, a, r)
                  ELSE SendToSharers(D, a, Msg("INV_FLUSH_COMBINED_REQ", a, r,
                                               D.owner[a], FALSE, NoData))
             [] s = "SHARED" ->
                  IF D.sharers[a] = {} THEN Fail(D, "SHARED with no sharers")
                  ELSE IF D.sharers[a] = {r}
                  THEN ExUpgrade([D EXCEPT !.owner[a] = r], a, r)
                  ELSE SendToSharers(D, a, Msg("INV_FLUSH_COMBINED_REQ", a, r,
                                               OneSharer(D.sharers[a]), FALSE, NoData))
             [] s = "UNCACHED" ->
                  IF D.sharers[a] # {} \/ ~CanAddSharer(D, a, r)
                  THEN Fail(D, "UNCACHED entry cannot take the requester")
                  ELSE ProcessNextReq(RetrieveDataAndSend(
                         [D EXCEPT !.sharers[a] = {r}, !.owner[a] = r,
                                   !.dstate[a] = "MODIFIED"], "EX_REP", r, a), a)

(* processShReqFromL2Cache *)
ProcessShReq(D0, a) ==
  LET D == IF D0.entry[a] = "absent" THEN AllocateEntry(D0, a) ELSE D0
      r == Front(D, a).requester
      s == D.dstate[a]
      one == OneSharer(D.sharers[a])
  IN  IF D.fault # "none" THEN D
      ELSE CASE s = "MODIFIED" ->
                  [SendTo(D, D.owner[a], Msg("WB_REQ", a, r, NoTile, FALSE, NoData))
                     EXCEPT !.sharerId[a] = D.owner[a]]
             [] s \in {"OWNED", "SHARED"} ->
                  IF D.sharers[a] = {} THEN Fail(D, "OWNED/SHARED with no sharers")
                  ELSE IF ~CanAddSharer(D, a, r)
                  THEN ShReqMakeRoom(D, a, one, r)
                  ELSE IF D.cached[a] = NoData
                  THEN \* the sharer added is removed again: fetch from `one'
                       [SendTo(D, one, Msg("WB_REQ", a, r, NoTile, FALSE, NoData))
                          EXCEPT !.sharers[a] = (@ \cup {r}) \ {r},
                                 !.sharerId[a] = one]
                  ELSE ShReqServe(D, a, r)
             [] s = "UNCACHED" ->
                  IF ~CanAddSharer(D, a, r)
                  THEN Fail(D, "UNCACHED entry cannot take the requester")
                  ELSE ShReqServe([D EXCEPT !.dstate[a] = "SHARED"], a, r)

\* mutant: the front request is retired but the next one is not started
ProcessNextReqNoStart(D, a) ==
  IF D.reqq[a] = << >> THEN Fail(D, "completion with an empty queue")
  ELSE [D EXCEPT !.reqq[a] = Tail(@)]

(* processNextReqFromL2Cache: retire the front request; start the next    *)
(* one, if any, on the current state of the entry.                        *)
ProcessNextReq(D, a) ==
  IF D.reqq[a] = << >> THEN Fail(D, "completion with an empty queue")
  ELSE LET D1 == [D EXCEPT !.reqq[a] = Tail(@)]
       IN  IF D1.cached[a] # NoData THEN Fail(D1, "data cached after completion")
           ELSE IF D1.reqq[a] = << >> THEN D1
           ELSE StartReq(D1, a)

StartReq(D, a) ==
  CASE Front(D, a).type = "EX_REQ" -> ProcessExReq(D, a)
    [] Front(D, a).type = "SH_REQ" -> ProcessShReq(D, a)
    [] OTHER -> Fail(D, "unrecognized queued request")


\* mutant: a NULLIFY_REQ waiting for replies is never restarted
RestartShmemReqNoNullify(D, sender, a) ==
  LET req == Front(D, a)
  IN  CASE req.type = "EX_REQ" ->
             IF D.dstate[a] = "UNCACHED" THEN ProcessExReq(D, a) ELSE D
        [] req.type = "SH_REQ" ->
             IF D.sharerId[a] = NoTile THEN Fail(D, "SH_REQ restarted without a sharer")
             ELSE IF sender = D.sharerId[a]
             THEN ProcessShReq([D EXCEPT !.sharerId[a] = NoTile], a)
             ELSE D
        [] req.type = "NULLIFY_REQ" -> D

(* restartShmemReq: a reply from `sender' may let the front request of a  *)
(* go on, on the state the reply left the entry in.                       *)
RestartShmemReq(D, sender, a) ==
  LET req == Front(D, a)
      s   == D.dstate[a]
  IN  CASE req.type = "EX_REQ" ->
             IF s = "UNCACHED" THEN ProcessExReq(D, a) ELSE D
        [] req.type = "SH_REQ" ->
             IF D.sharerId[a] = NoTile THEN Fail(D, "SH_REQ restarted without a sharer")
             ELSE IF sender = D.sharerId[a]
             THEN ProcessShReq([D EXCEPT !.sharerId[a] = NoTile], a)
             ELSE D
        [] req.type = "NULLIFY_REQ" ->
             IF s = "UNCACHED" THEN ProcessNullifyReq(D, a) ELSE D

RestartIfQueued(D, sender, a) ==
  IF D.fault # "none" \/ D.reqq[a] = << >> THEN D
  ELSE RestartShmemReq(D, sender, a)

(* processInvRepFromL2Cache *)
ProcessInvRep(D, sender, m) ==
  LET a == m.addr
      s == D.dstate[a]
      D1 == CASE s = "OWNED" ->
                   IF sender = D.owner[a] \/ D.sharers[a] = {}
                   THEN Fail(D, "INV_REP from the owner of an OWNED line")
                   ELSE IF D.sharers[a] = {sender}
                   THEN Fail(RemoveSharer(D, a, sender), "OWNED line left with no sharers")
                   ELSE RemoveSharer(D, a, sender)
              [] s = "SHARED" ->
                   IF D.owner[a] # NoTile \/ D.sharers[a] = {}
                   THEN Fail(D, "INV_REP for an inconsistent SHARED line")
                   ELSE IF D.sharers[a] \subseteq {sender}
                   THEN [RemoveSharer(D, a, sender) EXCEPT !.dstate[a] = "UNCACHED"]
                   ELSE RemoveSharer(D, a, sender)
              [] OTHER -> Fail(D, "INV_REP for a MODIFIED or UNCACHED line")
  IN  IF D.entry[a] = "absent" THEN Fail(D, "INV_REP for an address with no entry")
      ELSE RestartIfQueued(D1, sender, a)

\* mutant: the line is handed on without being written back
ShReqWriteBackNone(D, a, s, v) == D

\* processFlushRepFromL2Cache: a SH_REQ that began on an M or O line whose
\* entry is now S or U also writes the flushed data back to DRAM
ShReqWriteBack(D, a, s, v) ==
  IF Front(D, a).type = "SH_REQ" /\ s \in {"MODIFIED", "OWNED"}
     /\ D.dstate[a] \in {"SHARED", "UNCACHED"}
  THEN SendDataToDram(D, a, v) ELSE D

(* processFlushRepFromL2Cache *)
ProcessFlushRep(D, sender, m) ==
  LET a == m.addr
      s == D.dstate[a]
      D1 == CASE s = "MODIFIED" ->
                   IF sender # D.owner[a] \/ m.replyExp
                   THEN Fail(D, "FLUSH_REP for a MODIFIED line from a non-owner")
                   ELSE [RemoveSharer(D, a, sender) EXCEPT !.owner[a] = NoTile,
                                                           !.dstate[a] = "UNCACHED"]
              [] s = "OWNED" ->
                   IF D.owner[a] = NoTile \/ D.sharers[a] = {}
                   THEN Fail(D, "FLUSH_REP for an inconsistent OWNED line")
                   ELSE IF sender = D.owner[a]
                   THEN [RemoveSharer(D, a, sender) EXCEPT
                           !.owner[a] = NoTile,
                           !.dstate[a] = IF D.sharers[a] \subseteq {sender}
                                         THEN "UNCACHED" ELSE "SHARED"]
                   ELSE RemoveSharer(D, a, sender)
              [] s = "SHARED" ->
                   IF D.owner[a] # NoTile \/ D.sharers[a] = {}
                   THEN Fail(D, "FLUSH_REP for an inconsistent SHARED line")
                   ELSE IF D.sharers[a] \subseteq {sender}
                   THEN [RemoveSharer(D, a, sender) EXCEPT !.dstate[a] = "UNCACHED"]
                   ELSE RemoveSharer(D, a, sender)
              [] OTHER -> Fail(D, "FLUSH_REP for an UNCACHED line")
  IN  IF D.entry[a] = "absent" THEN Fail(D, "FLUSH_REP for an address with no entry")
      ELSE IF D1.fault # "none" THEN D1
      ELSE IF D1.reqq[a] # << >>
      THEN RestartIfQueued(ShReqWriteBack(CacheData(D1, a, m.data), a, s, m.data),
                           sender, a)
      ELSE SendDataToDram(D1, a, m.data)   \* an eviction

(* processWbRepFromL2Cache *)
ProcessWbRep(D, sender, m) ==
  LET a == m.addr
      s == D.dstate[a]
      D1 == CASE s = "MODIFIED" ->
                   IF sender # D.owner[a] \/ D.reqq[a] = << >>
                   THEN Fail(D, "WB_REP for a MODIFIED line from a non-owner")
                   ELSE [D EXCEPT !.dstate[a] = "OWNED"]
              [] s = "OWNED" ->
                   IF sender \notin D.sharers[a]
                   THEN Fail(D, "WB_REP from a non-sharer") ELSE D
              [] s = "SHARED" ->
                   IF D.owner[a] # NoTile \/ sender \notin D.sharers[a]
                   THEN Fail(D, "WB_REP from a non-sharer") ELSE D
              [] OTHER -> Fail(D, "WB_REP for an UNCACHED line")
  IN  IF D.entry[a] = "absent" THEN Fail(D, "WB_REP for an address with no entry")
      ELSE IF m.replyExp THEN Fail(D, "WB_REP with a reply expected")
      ELSE IF D1.fault # "none" THEN D1
      ELSE IF D1.reqq[a] = << >> THEN Fail(D1, "WB_REP with no requester")
      ELSE RestartIfQueued(CacheData(D1, a, m.data), sender, a)

\* mutant: every message, replies included, is appended to the queue
HandleMsgEnqueueAll(D, sender, m) ==
  LET a == m.addr
      D1 == [D EXCEPT !.reqq[a] = Append(@, [type |-> m.type, requester |-> m.requester])]
  IN  CASE m.type \in {"EX_REQ", "SH_REQ"} ->
             IF Len(D1.reqq[a]) > 1 THEN D1
             ELSE IF D1.cached[a] # NoData THEN Fail(D1, "data cached for an idle address")
             ELSE StartReq(D1, a)
        [] m.type = "INV_REP"   -> ProcessInvRep(D1, sender, m)
        [] m.type = "FLUSH_REP" -> ProcessFlushRep(D1, sender, m)
        [] m.type = "WB_REP"    -> ProcessWbRep(D1, sender, m)

(* handleMsgFromL2Cache: requests are queued per address and the one at  *)
(* the front is processed; replies go to their handlers.                  *)
HandleMsgFromL2Cache(D, sender, m) ==
  LET a == m.addr
      D1 == [D EXCEPT !.reqq[a] = Append(@, [type |-> m.type, requester |-> m.requester])]
  IN  CASE m.type \in {"EX_REQ", "SH_REQ"} ->
             IF Len(D1.reqq[a]) > 1 THEN D1
             ELSE IF D1.cached[a] # NoData THEN Fail(D1, "data cached for an idle address")
             ELSE StartReq(D1, a)
        [] m.type = "INV_REP"   -> ProcessInvRep(D, sender, m)
        [] m.type = "FLUSH_REP" -> ProcessFlushRep(D, sender, m)
        [] m.type = "WB_REP"    -> ProcessWbRep(D, sender, m)

=============================================================================
