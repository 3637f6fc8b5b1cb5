-------------------- MODULE PrL1PrL2DramDirectoryMOSI --------------------
(***************************************************************************)
(* The PR_L1_PR_L2_DRAM_DIRECTORY_MOSI memory subsystem: every tile has a *)
(* private L1 (data) cache and a private L2 cache driven by its           *)
(* L2CacheCntlr (l2_cache_cntlr.cc); one home tile runs the directory     *)
(* controller of module DramDirectoryCntlr for all the addresses.         *)
(*                                                                         *)
(* Messages travel on one FIFO channel per (tile, home) pair and          *)
(* direction: toDir[t] from the L2 of t to the directory, toL2[t] back.   *)
(* A step of the directory or of an L2 controller handles the message at  *)
(* the head of one channel completely.  A step of the application thread  *)
(* of a tile is one memory access: it hits in L1, fills L1 from L2, or    *)
(* sends a request to the home and blocks until the reply is installed;   *)
(* the access is then performed in the same step as the reply, because    *)
(* the simulation thread waits for the application thread                 *)
(* (wakeUpAppThread / waitForAppThread) before it handles anything else.  *)
(*                                                                         *)
(* Data values are write versions: latest[a] is the value of the last     *)
(* write to a, and a write stores latest[a] + 1.                          *)
(***************************************************************************)
EXTENDS Naturals, Sequences, FiniteSets

CONSTANTS
  Tiles, Addresses,
  NoTile, NoData,
  NoAddr,        \* INVALID_ADDRESS: no outstanding request, no victim
  DirSlots, MaxHwSharers,
  L2Lines,       \* lines of the L2 cache set the addresses map to
  L1Lines,       \* lines of the L1 cache set the addresses map to
  MaxWrites      \* bound on the writes the application threads issue

ASSUME NoAddr \notin Addresses
ASSUME L2Lines \in Nat \ {0} /\ L1Lines \in Nat \ {0} /\ MaxWrites \in Nat

Values == 0..MaxWrites

VARIABLES
  dstate, owner, sharers, entry, reqq, sharerId, cached, dram, fault,
  toDir, toL2,
  l2,            \* l2[t][a]: CacheState of a in the L2 cache of t
  l1,            \* l1[t][a]: CacheState of a in the L1 cache of t
  data,          \* data[t][a]: the value of a held by the caches of t
  outstanding,   \* _outstanding_shmem_msg of the L2 controller of t
  latest,        \* the value of the last write to each address
  writes         \* writes issued so far

dirVars  == <<dstate, owner, sharers, entry, reqq, sharerId, cached, dram>>
tileVars == <<l2, l1, data, outstanding, latest, writes>>
vars     == <<dirVars, fault, toDir, toL2, tileVars>>

Dir == INSTANCE DramDirectoryCntlr WITH Values <- 0..MaxWrites

CStates == {"INVALID", "SHARED", "OWNED", "MODIFIED"}
Ops     == {"READ", "WRITE"}
NoReq   == [addr |-> NoAddr, op |-> "NONE"]

-----------------------------------------------------------------------------
(* The directory *)

DirRec == [dstate |-> dstate, owner |-> owner, sharers |-> sharers,
           entry |-> entry, reqq |-> reqq, sharerId |-> sharerId,
           cached |-> cached, dram |-> dram, out |-> toL2, fault |-> fault]

(* The simulation thread of the home tile handles the next message of t. *)
DirectoryStep(t) ==
  /\ fault = "none"
  /\ toDir[t] # << >>
  /\ \E D \in {Dir!HandleMsgFromL2Cache(DirRec, t, Head(toDir[t]))} :
         /\ dstate' = D.dstate /\ owner' = D.owner /\ sharers' = D.sharers
         /\ entry' = D.entry /\ reqq' = D.reqq /\ sharerId' = D.sharerId
         /\ cached' = D.cached /\ dram' = D.dram
         /\ toL2' = D.out /\ fault' = D.fault
  /\ toDir' = [toDir EXCEPT ![t] = Tail(@)]
  /\ UNCHANGED tileVars

-----------------------------------------------------------------------------
(* The L1 and L2 caches of a tile *)

Readable(cs) == cs \in {"SHARED", "OWNED", "MODIFIED"}
Writable(cs) == cs = "MODIFIED"

\* operationPermissibleinL2Cache, and the same test of the L1 controller
Permits(cs, op) == IF op = "READ" THEN Readable(cs) ELSE Writable(cs)

ValidL2(t) == {b \in Addresses : l2[t][b] # "INVALID"}
ValidL1(t) == {b \in Addresses : l1[t][b] # "INVALID"}

\* Cache::insertCacheLine evicts a valid line of a full set; the
\* replacement policy is left open
L2Victims(t, a) ==
  IF Cardinality(ValidL2(t) \ {a}) < L2Lines THEN {NoAddr} ELSE ValidL2(t) \ {a}

L1Victims(t, a, gone) ==
  LET lines == ValidL1(t) \ {a, gone}
  IN  IF Cardinality(lines) < L1Lines THEN {NoAddr} ELSE lines

\* mutant: an evicted line is reported clean whatever its state
EvictMsgNoData(t, b) == Dir!Msg("INV_REP", b, t, NoTile, FALSE, NoData)

\* the message insertCacheLine sends to the home of an evicted line
EvictMsg(t, b) ==
  IF l2[t][b] \in {"MODIFIED", "OWNED"}
  THEN Dir!Msg("FLUSH_REP", b, t, NoTile, FALSE, data[t][b])
  ELSE Dir!Msg("INV_REP", b, t, NoTile, FALSE, NoData)

\* the L2 set of t after inserting a in state cs and evicting v2
L2Filled(t, a, cs, v2) ==
  [b \in Addresses |-> IF b = a THEN cs ELSE IF b = v2 THEN "INVALID" ELSE l2[t][b]]

\* the L1 set of t after inserting a in state cs: the line evicted from
\* L2 was invalidated in L1 (invalidateCacheLineInL1), v1 is evicted
L1Filled(t, a, cs, v2, v1) ==
  [b \in Addresses |-> IF b = a THEN cs
                       ELSE IF b \in {v2, v1} THEN "INVALID" ELSE l1[t][b]]

SendToHome(t, m) == toDir' = [toDir EXCEPT ![t] = Append(@, m)]

PopL2(t) == toL2' = [toL2 EXCEPT ![t] = Tail(@)]

L2Fault(t, why) ==
  /\ fault' = why
  /\ PopL2(t)
  /\ UNCHANGED <<dirVars, toDir, tileVars>>

(* The application thread performs the access of a request whose reply   *)
(* has just been installed, and the request is no longer outstanding.    *)
CompleteAccess(t, a, v) ==
  LET w == outstanding[t].op = "WRITE"
  IN  /\ data' = [data EXCEPT ![t][a] = IF w THEN latest[a] + 1 ELSE v]
      /\ latest' = IF w THEN [latest EXCEPT ![a] = @ + 1] ELSE latest
      /\ outstanding' = [outstanding EXCEPT ![t] = NoReq]
      /\ UNCHANGED writes


(* A memory access of the application thread of t (L1CacheCntlr and      *)
(* processShmemRequestFromL1Cache, then handleMsgFromL1Cache on a miss). *)
(* A read that hits in L1 changes nothing and is left out.               *)
CoreAccess(t, a, op) ==
  /\ fault = "none"
  /\ outstanding[t] = NoReq
  /\ op = "WRITE" => writes < MaxWrites
  /\ ~(op = "READ" /\ Permits(l1[t][a], op))
  /\ writes' = IF op = "WRITE" THEN writes + 1 ELSE writes
  /\ CASE Permits(l1[t][a], op) ->
            /\ data' = [data EXCEPT ![t][a] = latest[a] + 1]
            /\ latest' = [latest EXCEPT ![a] = @ + 1]
            /\ UNCHANGED <<l1, toDir, outstanding>>
       [] Permits(l2[t][a], op) ->
            \E v1 \in L1Victims(t, a, NoAddr) :
              /\ l1' = [l1 EXCEPT ![t] = L1Filled(t, a, l2[t][a], NoAddr, v1)]
              /\ IF op = "WRITE"
                 THEN /\ data' = [data EXCEPT ![t][a] = latest[a] + 1]
                      /\ latest' = [latest EXCEPT ![a] = @ + 1]
                 ELSE UNCHANGED <<data, latest>>
              /\ UNCHANGED <<toDir, outstanding>>
       [] OTHER ->
            /\ outstanding' = [outstanding EXCEPT ![t] = [addr |-> a, op |-> op]]
            /\ SendToHome(t, Dir!Msg(IF op = "READ" THEN "SH_REQ" ELSE "EX_REQ",
                                     a, t, NoTile, FALSE, NoData))
            /\ UNCHANGED <<l1, data, latest>>
  /\ UNCHANGED <<dirVars, fault, toL2, l2>>

\* the request type an L2 controller handles a message as
\* (processInvFlushCombinedReqFromDramDirectory)
HandledAs(t, m) ==
  IF m.type = "INV_FLUSH_COMBINED_REQ"
  THEN IF m.single = t THEN "FLUSH_REQ" ELSE "INV_REQ"
  ELSE m.type

(* processExRep/processShRepFromDramDirectory: insertCacheLineInHierarchy *)
(* then the end of handleMsgFromDramDirectory.                           *)
ReceiveFill(t) ==
  /\ fault = "none"
  /\ toL2[t] # << >>
  /\ LET m  == Head(toL2[t])
         a  == m.addr
         cs == IF m.type = "EX_REP" THEN "MODIFIED" ELSE "SHARED"
     IN  /\ m.type \in {"EX_REP", "SH_REP"}
         /\ IF outstanding[t].addr # a
            THEN L2Fault(t, "reply for an address not outstanding")
            ELSE \E v2 \in L2Victims(t, a) : \E v1 \in L1Victims(t, a, v2) :
                   /\ l2' = [l2 EXCEPT ![t] = L2Filled(t, a, cs, v2)]
                   /\ l1' = [l1 EXCEPT ![t] = L1Filled(t, a, cs, v2, v1)]
                   /\ IF v2 = NoAddr THEN UNCHANGED toDir
                      ELSE SendToHome(t, EvictMsg(t, v2))
                   /\ PopL2(t)
                   /\ CompleteAccess(t, a, m.data)
                   /\ UNCHANGED <<dirVars, fault>>

(* processUpgradeRepFromDramDirectory *)
ReceiveUpgradeRep(t) ==
  /\ fault = "none"
  /\ toL2[t] # << >>
  /\ LET m == Head(toL2[t])
         a == m.addr
     IN  /\ m.type = "UPGRADE_REP"
         /\ IF l2[t][a] \notin {"SHARED", "OWNED"}
            THEN L2Fault(t, "UPGRADE_REP for a line not SHARED or OWNED")
            ELSE IF outstanding[t].addr # a
            THEN L2Fault(t, "reply for an address not outstanding")
            ELSE \E v1 \in IF l1[t][a] = "INVALID" THEN L1Victims(t, a, NoAddr)
                                                   ELSE {NoAddr} :
                   /\ l2' = [l2 EXCEPT ![t][a] = "MODIFIED"]
                   /\ l1' = [l1 EXCEPT ![t] = L1Filled(t, a, "MODIFIED", NoAddr, v1)]
                   /\ PopL2(t)
                   /\ CompleteAccess(t, a, data[t][a])
                   /\ UNCHANGED <<dirVars, fault, toDir>>

\* mutant: the L1 copy is left alone when the L2 line is invalidated
InvalidateL2Only(t, a) ==
  /\ l2' = [l2 EXCEPT ![t][a] = "INVALID"]
  /\ UNCHANGED l1

\* invalidateCacheLineInL1: the L1 copy, if any, is dropped
InvalidateCacheLineInL1(t, a) == l1' = [l1 EXCEPT ![t][a] = "INVALID"]

\* setCacheLineStateInL1: an L1 copy, if any, takes the new state
SetCacheLineStateInL1(t, a, cs) ==
  l1' = [l1 EXCEPT ![t][a] = IF @ = "INVALID" THEN @ ELSE cs]

\* invalidateCacheLineInL1 then invalidateCacheLine
Invalidate(t, a) ==
  /\ l2' = [l2 EXCEPT ![t][a] = "INVALID"]
  /\ InvalidateCacheLineInL1(t, a)

\* mutant: an INV_REQ is always answered
InvReplyAlways(cs, m) == TRUE

\* processInvReqFromDramDirectory answers a SHARED line, and an invalid
\* one only when a reply is expected
InvReplyNeeded(cs, m) == cs = "SHARED" \/ m.replyExp

(* processInvReqFromDramDirectory *)
ReceiveInvReq(t) ==
  /\ fault = "none"
  /\ toL2[t] # << >>
  /\ LET m == Head(toL2[t])
         a == m.addr
     IN  /\ HandledAs(t, m) = "INV_REQ"
         /\ IF l2[t][a] # "INVALID" /\ l2[t][a] # "SHARED"
            THEN L2Fault(t, "INV_REQ for a line not SHARED")
            ELSE /\ Invalidate(t, a)
                 /\ IF InvReplyNeeded(l2[t][a], m)
                    THEN SendToHome(t, Dir!Msg("INV_REP", a, m.requester, NoTile,
                                               m.replyExp, NoData))
                    ELSE UNCHANGED toDir
                 /\ PopL2(t)
                 /\ UNCHANGED <<dirVars, fault, data, outstanding, latest, writes>>

(* processFlushReqFromDramDirectory *)
ReceiveFlushReq(t) ==
  /\ fault = "none"
  /\ toL2[t] # << >>
  /\ LET m == Head(toL2[t])
         a == m.addr
     IN  /\ HandledAs(t, m) = "FLUSH_REQ"
         /\ Invalidate(t, a)
         /\ CASE l2[t][a] # "INVALID" ->
                   SendToHome(t, Dir!Msg("FLUSH_REP", a, m.requester, NoTile,
                                         m.replyExp, data[t][a]))
              [] m.replyExp ->
                   SendToHome(t, Dir!Msg("INV_REP", a, m.requester, NoTile, TRUE, NoData))
              [] OTHER -> UNCHANGED toDir
         /\ PopL2(t)
         /\ UNCHANGED <<dirVars, fault, data, outstanding, latest, writes>>

\* mutant: a written-back MODIFIED line stays MODIFIED
WbReqStateKeep(cs) == cs

\* processWbReqFromDramDirectory: MODIFIED -> OWNED, OWNED and SHARED stay
WbReqState(cs) == IF cs = "MODIFIED" THEN "OWNED" ELSE cs

(* processWbReqFromDramDirectory: M becomes O, O and S stay; an invalid  *)
(* line gets no reply.                                                   *)
ReceiveWbReq(t) ==
  /\ fault = "none"
  /\ toL2[t] # << >>
  /\ LET m   == Head(toL2[t])
         a   == m.addr
         new == WbReqState(l2[t][a])
     IN  /\ m.type = "WB_REQ"
         /\ IF m.replyExp THEN L2Fault(t, "WB_REQ with a reply expected")
            ELSE /\ l2' = [l2 EXCEPT ![t][a] = new]
                 /\ SetCacheLineStateInL1(t, a, new)
                 /\ IF l2[t][a] # "INVALID"
                    THEN SendToHome(t, Dir!Msg("WB_REP", a, m.requester, NoTile,
                                               FALSE, data[t][a]))
                    ELSE UNCHANGED toDir
                 /\ PopL2(t)
                 /\ UNCHANGED <<dirVars, fault, data, outstanding, latest, writes>>

L2Step(t) ==
  \/ ReceiveFill(t)
  \/ ReceiveUpgradeRep(t)
  \/ ReceiveInvReq(t)
  \/ ReceiveFlushReq(t)
  \/ ReceiveWbReq(t)

-----------------------------------------------------------------------------

Init ==
  /\ dstate = [a \in Addresses |-> "UNCACHED"]
  /\ owner = [a \in Addresses |-> NoTile]
  /\ sharers = [a \in Addresses |-> {}]
  /\ entry = [a \in Addresses |-> "absent"]
  /\ reqq = [a \in Addresses |-> << >>]
  /\ sharerId = [a \in Addresses |-> NoTile]
  /\ cached = [a \in Addresses |-> NoData]
  /\ dram = [a \in Addresses |-> 0]
  /\ fault = "none"
  /\ toDir = [t \in Tiles |-> << >>]
  /\ toL2 = [t \in Tiles |-> << >>]
  /\ l2 = [t \in Tiles |-> [a \in Addresses |-> "INVALID"]]
  /\ l1 = [t \in Tiles |-> [a \in Addresses |-> "INVALID"]]
  /\ data = [t \in Tiles |-> [a \in Addresses |-> 0]]
  /\ outstanding = [t \in Tiles |-> NoReq]
  /\ latest = [a \in Addresses |-> 0]
  /\ writes = 0

\* every channel drained and no request outstanding: the application
\* threads may stop issuing accesses here
Quiescent ==
  /\ fault = "none"
  /\ \A t \in Tiles : toDir[t] = << >> /\ toL2[t] = << >> /\ outstanding[t] = NoReq

Idle == Quiescent /\ UNCHANGED vars

Next ==
  \/ \E t \in Tiles, a \in Addresses, op \in Ops : CoreAccess(t, a, op)
  \/ \E t \in Tiles : DirectoryStep(t)
  \/ \E t \in Tiles : L2Step(t)
  \/ Idle

\* The simulation threads handle every message that arrives; accesses of
\* the application threads are not forced.  A step of Next that removes
\* the head of toDir[t] (toL2[t]) is a DirectoryStep(t) (an L2Step(t)),
\* and both are enabled exactly when their channel is not empty, so weak
\* fairness is stated on the dequeue alone, which TLC checks cheaply.
DirDequeue(t) ==
  /\ fault = "none" /\ toDir[t] # << >>
  /\ toDir' = [toDir EXCEPT ![t] = Tail(@)]

L2Dequeue(t) ==
  /\ fault = "none" /\ toL2[t] # << >>
  /\ toL2' = [toL2 EXCEPT ![t] = Tail(@)]

Fairness ==
  \A t \in Tiles : WF_toDir(DirDequeue(t)) /\ WF_toL2(L2Dequeue(t))

Spec == Init /\ [][Next]_vars /\ Fairness


-----------------------------------------------------------------------------
(* Properties *)

MsgsIn(q) == {q[i] : i \in 1..Len(q)}

TypeOK ==
  /\ dstate \in [Addresses -> Dir!DStates]
  /\ owner \in [Addresses -> Tiles \cup {NoTile}]
  /\ sharers \in [Addresses -> SUBSET Tiles]
  /\ entry \in [Addresses -> {"slot", "displaced", "absent"}]
  /\ \A a \in Addresses : \A i \in 1..Len(reqq[a]) :
       reqq[a][i].type \in {"EX_REQ", "SH_REQ", "NULLIFY_REQ"} /\ reqq[a][i].requester \in Tiles
  /\ sharerId \in [Addresses -> Tiles \cup {NoTile}]
  /\ cached \in [Addresses -> Values \cup {NoData}]
  /\ dram \in [Addresses -> Values]
  /\ l2 \in [Tiles -> [Addresses -> CStates]]
  /\ l1 \in [Tiles -> [Addresses -> CStates]]
  /\ data \in [Tiles -> [Addresses -> Values]]
  /\ outstanding \in [Tiles -> {NoReq} \cup [addr : Addresses, op : Ops]]
  /\ latest \in [Addresses -> Values] /\ writes \in 0..MaxWrites

(* No LOG_ASSERT_ERROR, assert or LOG_PRINT_ERROR of the directory or of *)
(* an L2 controller fires: every message arrives in a state its handler  *)
(* accepts, whatever the interleaving of requests, replies and evictions. *)
NoFatalError == fault = "none"

(* Single writer: a tile whose L2 holds a line MODIFIED is its only       *)
(* holder, and at most one tile holds a line OWNED or MODIFIED.           *)
SingleWriter ==
  \A a \in Addresses, t, u \in Tiles :
    t # u /\ l2[t][a] \in {"MODIFIED", "OWNED"} =>
      /\ l2[u][a] \notin {"MODIFIED", "OWNED"}
      /\ (l2[t][a] = "MODIFIED" => l2[u][a] = "INVALID")

(* The directory entry over-approximates the caches: a tile holding a     *)
(* line is listed as a sharer of a live entry, and a dirty holder is the  *)
(* owner; otherwise a later request would not invalidate that copy.      *)
DirectoryTracksCopies ==
  \A t \in Tiles, a \in Addresses :
    l2[t][a] # "INVALID" =>
      /\ entry[a] # "absent" /\ t \in sharers[a]
      /\ (l2[t][a] \in {"MODIFIED", "OWNED"} => owner[a] = t)

(* Every valid copy of a line holds the value of the last write to it:   *)
(* data forwarded through WB_REP, FLUSH_REP, the cached-data list and    *)
(* DRAM is never stale when it is installed.                             *)
CopiesHoldLatest ==
  \A t \in Tiles, a \in Addresses : l2[t][a] # "INVALID" => data[t][a] = latest[a]

(* The last write to a line is never lost: it is in DRAM, in a dirty L2  *)
(* copy, in the cached-data list, or in a message carrying data.         *)
LatestRecoverable ==
  \A a \in Addresses :
    \/ dram[a] = latest[a]
    \/ cached[a] = latest[a]
    \/ \E t \in Tiles : l2[t][a] \in {"MODIFIED", "OWNED"}
    \/ \E t \in Tiles : \E m \in MsgsIn(toDir[t]) \cup MsgsIn(toL2[t]) :
         m.addr = a /\ m.data = latest[a]

(* An EX_REP or SH_REP always finds the line absent from the L2 of its   *)
(* receiver, so insertCacheLine never installs a second copy of a tag.   *)
FillFindsLineInvalid ==
  \A t \in Tiles : \A m \in MsgsIn(toL2[t]) :
    m.type \in {"EX_REP", "SH_REP"} => l2[t][m.addr] = "INVALID"

(* A reply or eviction notice in flight from t about a comes from a      *)
(* sharer of the entry, so the removeSharer it causes never drops a      *)
(* sharer added after it was sent.                                       *)
RepliesComeFromSharers ==
  \A t \in Tiles : \A m \in MsgsIn(toDir[t]) :
    m.type \in {"INV_REP", "FLUSH_REP", "WB_REP"} =>
      entry[m.addr] # "absent" /\ t \in sharers[m.addr]

(* The L1 copy of a line is never more permissive than the L2 copy: every *)
(* change of the L2 state is mirrored in L1 (setCacheLineStateInL1).     *)
L1Inclusion ==
  \A t \in Tiles, a \in Addresses : l1[t][a] \in {"INVALID", l2[t][a]}

(* The memory subsystem implements SerialMemory: every access takes      *)
(* effect in one step (a hit, or the installation of the reply that      *)
(* completes the request), a write stores the next version, a read       *)
(* (SH_REP or EX_REP data, or a fill of L1 from L2) returns the version  *)
(* of the last write, however the data travelled through WB_REP,         *)
(* FLUSH_REP, the cached-data list and DRAM, and every request issued is *)
(* eventually answered.  The mapping: the memory is the ghost record of  *)
(* the last write, the pending access is _outstanding_shmem_msg, and     *)
(* what a thread has seen of a line is the data its caches hold for it.  *)
Memory == INSTANCE SerialMemory WITH memory <- latest, pending <- outstanding,
                                     view <- data

MemorySpec == Memory!Spec

(* A directory entry displaced by processDirectoryEntryAllocationReq is  *)
(* eventually nullified: its NULLIFY_REQ completes (the entry is dropped, *)
(* and possibly allocated again in the same step for a queued request).  *)
NullifyCompletes ==
  \A a \in Addresses : entry[a] = "displaced" ~> entry[a] # "displaced"

=============================================================================
