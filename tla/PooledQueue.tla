---------------------------- MODULE PooledQueue ----------------------------
(***************************************************************************)
(* The use mpmc_bpm.h names for its allocator: a linked list queue whose   *)
(* nodes it allocates.  Producers alloc chunks, fill them and produce them *)
(* as nodes of a bl_mpsc_i; its consumer deallocs each node it is given.   *)
(* The other use of bl_mpmc_bpm, as a queue, goes on without the list.     *)
(***************************************************************************)
EXTENDS MpmcBpm, Sequences

CONSTANTS
  Puller,        \* the consumer of the list, which deallocs the nodes
  Stable, Null,  \* stable_node and nullptr
  Tags,          \* values of a tag
  MaxBatch       \* bound: chunks a producer allocs before it produces them

VARIABLES
  tagged, tail, head, next, place, old, word, front, got, order,
  hold           \* the chunks each producer has filled and not produced

(* A node is at the address of its chunk's first slot.                     *)
List == INSTANCE MpscI WITH Pushers <- Producers, Nodes <- Slots

ASSUME PullerAssumption ==
  Puller \in Consumers /\ MaxBatch \in Nat /\ List!ListAssumption

listVars == <<tagged, tail, head, next, place, old, word, front, got, order>>
allVars  == <<vars, listVars, hold>>

PoolInit ==
  /\ Init /\ List!Init
  /\ use = "queue" => ~tagged
  /\ hold = [p \in Producers |-> <<>>]

(* With tagged pointers producers give their nodes a tag.                  *)
NodeTags == IF tagged THEN Tags \ {0} ELSE {0}

(* Inside an operation of the list.                                        *)
InList(t) == place[t] \in {"load", "link", "second", "tail", "renew", "push",
                           "again"}

Queues ==
  /\ use = "queue"
  /\ \/ \E t \in Producers \cup Consumers : Loop(t)
     \/ \E p \in Producers : Produce(p)
     \/ \E c \in Consumers : Consume(c) \/ Free(c)
     \/ \E s \in Signallers : Signal(s)
  /\ UNCHANGED <<listVars, hold>>

(* alloc, and the caller fills the chunk.                                  *)
Allocates(p) ==
  /\ use = "allocator"
  /\ ~InList(p) /\ Len(hold[p]) < MaxBatch
  /\ Loop(p) \/ Produce(p)
  /\ hold' = IF pc[p] = "got" THEN [hold EXCEPT ![p] = Append(@, own[p])]
             ELSE hold
  /\ UNCHANGED listVars

(* The chunks are produced as a batch of nodes.                            *)
Posts(p) ==
  /\ pc[p] = "idle" /\ hold[p] # <<>>
  /\ \E g \in NodeTags :
       List!ProduceMany(p, [i \in DOMAIN hold[p] |-> Slot(hold[p][i].tk)], g)
  /\ hold' = [hold EXCEPT ![p] = <<>>]
  /\ UNCHANGED vars

(* dealloc of the node that consume gave: its memory is the pool's again.  *)
Deallocates ==
  /\ \E ch \in live : Slot(ch.tk) = got /\ Dealloc(Puller, ch)
  /\ List!Release
  /\ UNCHANGED hold

PoolNext ==
  \/ Queues
  \/ \E p \in Producers : Allocates(p) \/ Posts(p)
  \/ \E p \in Producers : List!Pushes(p) /\ UNCHANGED <<vars, hold>>
  \/ /\ use = "allocator" /\ pc[Puller] = "idle"
     /\ List!Pulls
     /\ UNCHANGED <<vars, hold>>
  \/ Deallocates
  \/ use = "allocator" /\ Free(Puller) /\ UNCHANGED <<listVars, hold>>

PoolSpec == PoolInit /\ [][PoolNext]_allVars

---------------------------------------------------------------------------
(* Properties, with those of MpmcBpm.                                      *)

(* Every variable of the pool, the list and their users has its type, and  *)
(* the chunks producers hold are in use.                                   *)
PoolTypeOK ==
  /\ TypeOK /\ List!TypeOK
  /\ \A p \in Producers : Len(hold[p]) <= MaxBatch
  /\ \A p \in Producers : \A i \in DOMAIN hold[p] : hold[p][i] \in InUse

(* Nodes whose memory the allocator gives out again and again come out of  *)
(* the list once each, in the order they were produced, with their tags.   *)
NodesInOrder == List!InOrder

(* No producer writes into a node's memory after its release, when the     *)
(* allocator may have given it to another; and every node in the list is   *)
(* the chunk of a reservation not released.                                *)
NoLateWrite ==
  /\ List!NoLateWrite
  /\ \A n \in List!Queued : \E ch \in live : Slot(ch.tk) = n

(* What the list tells its callers is true.                                *)
ListAnswersAreTrue == List!AnswersAreTrue
=============================================================================
