----------------------------- MODULE TicketFifo -----------------------------
(***************************************************************************)
(* What bl_mpmc_b promises to its users, whatever the threads do: a FIFO   *)
(* of memory chunks (src/include/bl/nonblock/mpmc_b.h).  Chunks are        *)
(* numbered by the ticket they were reserved under.  A producer reserves   *)
(* the next chunk, or claims it and waits until it is free, writes it and  *)
(* commits it; a consumer takes the oldest chunk, which must be committed, *)
(* reads it and releases it.  A chunk is reserved only when the one        *)
(* SlotCount tickets before it, which has the same memory, is not in use.  *)
(* An operation fails only with a reason that is true at that moment.      *)
(* Reading a chunk gives what was written under its ticket: the ticket     *)
(* stands for that payload.                                                *)
(***************************************************************************)
EXTENDS Integers

CONSTANTS Producers,  \* threads that produce
          Consumers,  \* threads that consume
          SlotCount   \* chunks in the buffer

VARIABLES next,     \* the number of chunks reserved or claimed so far
          out,      \* the number of chunks handed to consumers so far
          ready,    \* tickets committed and not handed to a consumer yet
          claimed,  \* each producer's ticket that waits for its chunk
          writing,  \* each producer's chunk, until it commits
          reading,  \* each consumer's chunk, until it releases it
          got,      \* what each consumer has read from its chunk
          blocked,  \* no more chunks are reserved
          answer    \* each producer's and consumer's last error

fifo == <<next, out, ready, claimed, writing, reading, got, blocked, answer>>

None    == -1     \* no ticket
Threads == Producers \cup Consumers

(* The chunk of ticket k, if there is one, has not been released.          *)
InUse(k) == k >= 0 /\ (k >= out \/ \E c \in Consumers : reading[c] = k)

FifoInit ==
  /\ next = 0 /\ out = 0 /\ ready = {} /\ blocked = FALSE
  /\ claimed = [p \in Producers |-> None]
  /\ writing = [p \in Producers |-> None]
  /\ reading = [c \in Consumers |-> None]
  /\ got     = [c \in Consumers |-> None]
  /\ answer  = [t \in Threads |-> "none"]

Reserve(p) ==
  /\ ~blocked /\ writing[p] = None /\ claimed[p] = None
  /\ ~InUse(next - SlotCount)
  /\ writing' = [writing EXCEPT ![p] = next]
  /\ next'    = next + 1
  /\ UNCHANGED <<out, ready, claimed, reading, got, blocked, answer>>

Claim(p) ==
  /\ ~blocked /\ writing[p] = None /\ claimed[p] = None
  /\ claimed' = [claimed EXCEPT ![p] = next]
  /\ next'    = next + 1
  /\ UNCHANGED <<out, ready, writing, reading, got, blocked, answer>>

(* The chunk a producer claimed has become free.                           *)
Enter(p) ==
  /\ claimed[p] # None /\ ~InUse(claimed[p] - SlotCount)
  /\ writing' = [writing EXCEPT ![p] = claimed[p]]
  /\ claimed' = [claimed EXCEPT ![p] = None]
  /\ UNCHANGED <<next, out, ready, reading, got, blocked, answer>>

Commit(p) ==
  /\ writing[p] # None
  /\ ready'   = ready \cup {writing[p]}
  /\ writing' = [writing EXCEPT ![p] = None]
  /\ answer'  = [answer EXCEPT ![p] = "ok"]
  /\ UNCHANGED <<next, out, claimed, reading, got, blocked>>

Take(c) ==
  /\ reading[c] = None /\ out \in ready
  /\ reading' = [reading EXCEPT ![c] = out]
  /\ ready'   = ready \ {out}
  /\ out'     = out + 1
  /\ UNCHANGED <<next, claimed, writing, got, blocked, answer>>

Read(c) ==
  /\ reading[c] # None /\ got[c] = None
  /\ got' = [got EXCEPT ![c] = reading[c]]
  /\ UNCHANGED <<next, out, ready, claimed, writing, reading, blocked, answer>>

Release(c) ==
  /\ got[c] # None
  /\ reading' = [reading EXCEPT ![c] = None]
  /\ got'     = [got EXCEPT ![c] = None]
  /\ answer'  = [answer EXCEPT ![c] = "ok"]
  /\ UNCHANGED <<next, out, ready, claimed, writing, blocked>>

Block ==
  /\ blocked' = TRUE
  /\ UNCHANGED <<next, out, ready, claimed, writing, reading, got, answer>>

(* The reasons an operation may fail with, each true when it is given.     *)
(* "preconditions" is the caller's own condition on the signal.            *)
TrueReason(t) ==
  {"none", "preconditions"}
    \cup (IF t \in Producers /\ InUse(next - SlotCount)
            THEN {"would_overflow"} ELSE {})
    \cup (IF t \in Producers /\ blocked THEN {"locked"} ELSE {})
    \cup (IF t \in Consumers /\ out \notin ready THEN {"empty"} ELSE {})

(* A thread between operations begins one, or is told why it failed.       *)
Answer(t) ==
  /\ IF t \in Producers THEN writing[t] = None ELSE reading[t] = None
  /\ \E why \in TrueReason(t) : answer' = [answer EXCEPT ![t] = why]
  /\ UNCHANGED <<next, out, ready, claimed, writing, reading, got, blocked>>

FifoNext ==
  \/ \E p \in Producers : Reserve(p) \/ Claim(p) \/ Enter(p) \/ Commit(p)
  \/ \E c \in Consumers : Take(c) \/ Read(c) \/ Release(c)
  \/ \E t \in Threads : Answer(t)
  \/ Block

FifoSpec == FifoInit /\ [][FifoNext]_fifo
=============================================================================
