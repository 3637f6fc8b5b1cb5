---------------------------- MODULE AtacCounters ----------------------------
(***************************************************************************)
(* The ATAC flow-control counters of tile/core/core.cc at the grain the   *)
(* machine runs them: Core::s_rambda_buffer_count and Core::s_block_send  *)
(* are static arrays shared by the user threads of all tiles, and neither *)
(* coreSendW nor coreRecvW takes a lock around them.  Each ++ or -- is a  *)
(* load and a store, and the threshold test after it reads the counter    *)
(* again; other threads run between any two of these steps.               *)
(*                                                                         *)
(* CoreMessaging performs each update in one step; this module splits     *)
(* those steps into the machine's reads and writes.  The packets are left *)
(* out: coreRecvW decrements before it receives, so the counters never    *)
(* depend on what the network holds.  A receive only waits in netRecv     *)
(* until the broadcast it takes has been sent.  The loop of coreSendW     *)
(* runs over MAX_CORES entries; the entries of cores that do not exist    *)
(* are touched by no other thread, so the loop is over the N tiles.       *)
(*                                                                         *)
(* A program receives broadcasts either with coreRecvW or, on virtual      *)
(* channels, with filter_incoming_messages; ReceivePaths says which of     *)
(* the two it uses.                                                        *)
(***************************************************************************)
EXTENDS Naturals

CONSTANTS N,                 \* tiles; their user threads are 0 .. N-1
          LambdaQueueLength, \* atac/design/lambda_queue_length
          MaxOps,            \* bound on the broadcasts and receives started
          ReceivePaths       \* the receive calls the program makes

ASSUME N \in Nat \ {0} /\ MaxOps \in Nat
ASSUME ReceivePaths \subseteq {"coreRecvW", "filter"}

Cores == 0..(N - 1)

VARIABLES count,   \* s_rambda_buffer_count[receiver][sender]
          block,   \* s_block_send[core]
          pc,      \* the step each user thread is at
          idx,     \* the loop index i of coreSendW
          peer,    \* the sender coreRecvW was called for
          tmp,     \* the value a thread has loaded and not yet stored
          sent,    \* ghost: sent[s], broadcasts of s past the counter loop
          taken,   \* ghost: taken[r][s], receives from s that r has called
          ops      \* ghost: calls started, for the bound

vars == <<count, block, pc, idx, peer, tmp, sent, taken, ops>>

Init ==
  /\ count = [r \in Cores |-> [s \in Cores |-> 0]]
  /\ block = [c \in Cores |-> FALSE]
  /\ pc = [c \in Cores |-> "idle"]
  /\ idx = [c \in Cores |-> 0]
  /\ peer = [c \in Cores |-> 0]
  /\ tmp = [c \in Cores |-> 0]
  /\ sent = [s \in Cores |-> 0]
  /\ taken = [r \in Cores |-> [s \in Cores |-> 0]]
  /\ ops = 0

Goto(c, step) == pc' = [pc EXCEPT ![c] = step]

-----------------------------------------------------------------------------
(* coreSendW(sender, CAPI_ENDPOINT_ALL): refused while s_block_send[sender] *)
(* is set; otherwise, for every i, s_rambda_buffer_count[i][sender]++ and  *)
(* s_block_send[i] raised at the threshold, then netBroadcast.             *)

BroadcastBegin(s) ==
  /\ pc[s] = "idle"
  /\ ops < MaxOps
  /\ ~block[s]
  /\ ops' = ops + 1
  /\ idx' = [idx EXCEPT ![s] = 0]
  /\ Goto(s, "inc_load")
  /\ UNCHANGED <<count, block, peer, tmp, sent, taken>>

IncLoad(s) ==
  /\ pc[s] = "inc_load"
  /\ tmp' = [tmp EXCEPT ![s] = count[idx[s]][s]]
  /\ Goto(s, "inc_store")
  /\ UNCHANGED <<count, block, idx, peer, sent, taken, ops>>

IncStore(s) ==
  /\ pc[s] = "inc_store"
  /\ count' = [count EXCEPT ![idx[s]][s] = tmp[s] + 1]
  /\ Goto(s, "inc_test")
  /\ UNCHANGED <<block, idx, peer, tmp, sent, taken, ops>>

\* The test reads the counter again; after the last i the broadcast is sent.
IncTest(s) ==
  /\ pc[s] = "inc_test"
  /\ IF count[idx[s]][s] >= LambdaQueueLength - 4
     THEN block' = [block EXCEPT ![idx[s]] = TRUE]
     ELSE UNCHANGED block
  /\ IF idx[s] + 1 < N
     THEN /\ idx' = [idx EXCEPT ![s] = @ + 1]
          /\ Goto(s, "inc_load")
          /\ UNCHANGED sent
     ELSE /\ sent' = [sent EXCEPT ![s] = @ + 1]
          /\ Goto(s, "idle")
          /\ UNCHANGED idx
  /\ UNCHANGED <<count, peer, tmp, taken, ops>>

-----------------------------------------------------------------------------
(* coreRecvW(sender, receiver): s_rambda_buffer_count[receiver][sender]--, *)
(* s_block_send[sender] lowered just below the threshold, then netRecv.    *)

RecvBegin(r, s) ==
  /\ "coreRecvW" \in ReceivePaths
  /\ pc[r] = "idle"
  /\ ops < MaxOps
  /\ ops' = ops + 1
  /\ peer' = [peer EXCEPT ![r] = s]
  /\ taken' = [taken EXCEPT ![r][s] = @ + 1]
  /\ Goto(r, "dec_load")
  /\ UNCHANGED <<count, block, idx, tmp, sent>>

DecLoad(r) ==
  /\ pc[r] = "dec_load"
  /\ tmp' = [tmp EXCEPT ![r] = count[r][peer[r]]]
  /\ Goto(r, "dec_store")
  /\ UNCHANGED <<count, block, idx, peer, sent, taken, ops>>

DecStore(r) ==
  /\ pc[r] = "dec_store"
  /\ count' = [count EXCEPT ![r][peer[r]] = tmp[r] - 1]
  /\ Goto(r, "dec_test")
  /\ UNCHANGED <<block, idx, peer, tmp, sent, taken, ops>>

DecTest(r) ==
  /\ pc[r] = "dec_test"
  /\ IF count[r][peer[r]] = LambdaQueueLength - 4 - 1
     THEN block' = [block EXCEPT ![peer[r]] = FALSE]
     ELSE UNCHANGED block
  /\ Goto(r, "recv")
  /\ UNCHANGED <<count, idx, peer, tmp, sent, taken, ops>>

\* netRecv returns once the broadcast it takes has been sent.
RecvEnd(r) ==
  /\ pc[r] = "recv"
  /\ taken[r][peer[r]] <= sent[peer[r]]
  /\ Goto(r, "idle")
  /\ UNCHANGED <<count, block, idx, peer, tmp, sent, taken, ops>>

-----------------------------------------------------------------------------
(* filter_incoming_messages, the receive of VirtualChannel::receive_message: *)
(* receive_filtered_from takes a broadcast of wavelength s when one is     *)
(* queued and files it in the MessageBuffer; neither it nor the dequeue    *)
(* touches s_rambda_buffer_count or s_block_send.                          *)
FilterIncomingMessages(r, s) ==
  /\ "filter" \in ReceivePaths
  /\ pc[r] = "idle"
  /\ ops < MaxOps
  /\ taken[r][s] < sent[s]
  /\ ops' = ops + 1
  /\ taken' = [taken EXCEPT ![r][s] = @ + 1]
  /\ UNCHANGED <<count, block, pc, idx, peer, tmp, sent>>

Next ==
  \/ \E s \in Cores : BroadcastBegin(s) \/ IncLoad(s) \/ IncStore(s) \/ IncTest(s)
  \/ \E r, s \in Cores : RecvBegin(r, s) \/ FilterIncomingMessages(r, s)
  \/ \E r \in Cores : DecLoad(r) \/ DecStore(r) \/ DecTest(r) \/ RecvEnd(r)

Spec == Init /\ [][Next]_vars

-----------------------------------------------------------------------------
(* Properties *)

\* Between updates of entry [r][s], neither thread r nor thread s is inside one.
Settled(r, s) == pc[r] \in {"idle", "recv"} /\ pc[s] = "idle"

(* The lambda-buffer counter measures the traffic it is meant to: once    *)
(* no update of it is in progress, s_rambda_buffer_count[r][s] is the     *)
(* broadcasts s has made less those of them r has received.              *)
(* The unlocked ++ of coreSendW and -- of coreRecvW can lose an update,   *)
(* and the counter then stays wrong for good, with s_block_send raised    *)
(* or lowered at the wrong time.  The receive of the virtual channels     *)
(* never lowers the counter at all.                                       *)
CountMatchesTraffic ==
  \A r, s \in Cores :
    Settled(r, s) => count[r][s] = sent[s] - taken[r][s]

=============================================================================
