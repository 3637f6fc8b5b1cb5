---------------------------- MODULE SerialMemory ----------------------------
(***************************************************************************)
(* What the memory subsystem promises the application threads: one memory *)
(* whose every line behaves as a single register.  An access either takes *)
(* effect at once (a cache hit) or is issued, stays pending, and later    *)
(* takes effect in one indivisible step; a thread has at most one access  *)
(* pending.  A write stores a new version (the old one plus one), and a   *)
(* read returns the version the last write to that line stored.  Every    *)
(* pending access eventually takes effect.                                *)
(*                                                                         *)
(* view[t][a] is the version the last access of thread t to line a read  *)
(* or wrote: what the thread has seen of the line.                        *)
(***************************************************************************)
EXTENDS Naturals

CONSTANTS Tiles, Addresses,
          NoReq      \* no access pending

VARIABLES memory,    \* memory[a]: the version line a holds
          pending,   \* pending[t]: the access thread t waits on, or NoReq
          view       \* view[t][a]: the version t last read or wrote at a

memVars == <<memory, pending, view>>

Ops == {"READ", "WRITE"}

Init ==
  /\ memory = [a \in Addresses |-> 0]
  /\ pending = [t \in Tiles |-> NoReq]
  /\ view = [t \in Tiles |-> [a \in Addresses |-> 0]]

\* The effect of op on line a, as seen by thread t.
Perform(t, a, op) ==
  IF op = "WRITE"
  THEN /\ memory' = [memory EXCEPT ![a] = @ + 1]
       /\ view' = [view EXCEPT ![t][a] = memory[a] + 1]
  ELSE /\ view' = [view EXCEPT ![t][a] = memory[a]]
       /\ UNCHANGED memory

\* An access that takes effect at once.
Access(t, a, op) ==
  /\ pending[t] = NoReq
  /\ Perform(t, a, op)
  /\ UNCHANGED pending

\* An access that has to wait.
Issue(t, a, op) ==
  /\ pending[t] = NoReq
  /\ pending' = [pending EXCEPT ![t] = [addr |-> a, op |-> op]]
  /\ UNCHANGED <<memory, view>>

\* The pending access of t takes effect.
Complete(t) ==
  /\ pending[t] # NoReq
  /\ Perform(t, pending[t].addr, pending[t].op)
  /\ pending' = [pending EXCEPT ![t] = NoReq]

Next ==
  \/ \E t \in Tiles, a \in Addresses, op \in Ops : Access(t, a, op) \/ Issue(t, a, op)
  \/ \E t \in Tiles : Complete(t)

Spec == Init /\ [][Next]_memVars /\ \A t \in Tiles : WF_memVars(Complete(t))

=============================================================================
