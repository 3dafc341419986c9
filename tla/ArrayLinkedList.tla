-------------------------- MODULE ArrayLinkedList --------------------------
(***************************************************************************)
(* bl_alnls_u16 (src/src/bl/base/generated/alnls/): a singly linked list   *)
(* whose links are the indexes of an array.  A node is free if its link is *)
(* its own index.  The user acquires a node, inserts it, drops it and      *)
(* releases it.                                                            *)
(***************************************************************************)
EXTENDS Integers, Sequences, SequencesExt

CONSTANT End       \* capacity: the number of nodes, and the iterator's end

VARIABLES
  nodes, head, size,
  list,    \* history: the nodes that should be in the list, in order
  mine,    \* history: the nodes the user has, and not in the list
  told     \* what the last operation returned

listVars == <<nodes, head, size, list, mine, told>>

Nodes == 0..(End - 1)

ListInit ==
  /\ nodes = [n \in Nodes |-> n] /\ head = End /\ size = 0
  /\ list = <<>> /\ mine = {} /\ told = End

IsFree(n) == nodes[n] = n

(* try_acquire_node, try_acquire_a_node: the first that is free.           *)
Acquired(n) ==
  /\ nodes' = [nodes EXCEPT ![n] = End] /\ mine' = mine \cup {n}
  /\ told' = n
  /\ UNCHANGED <<head, size, list>>

NotAcquired == told' = End /\ UNCHANGED <<nodes, head, size, list, mine>>

TryAcquire(n) == IF IsFree(n) THEN Acquired(n) ELSE NotAcquired

TryAcquireOne ==
  \/ \E n \in Nodes : IsFree(n) /\ (\A m \in 0..(n - 1) : ~IsFree(m)) /\ Acquired(n)
  \/ (\A n \in Nodes : ~IsFree(n)) /\ NotAcquired

Release(n) ==
  /\ n \in mine
  /\ nodes' = [nodes EXCEPT ![n] = n] /\ mine' = mine \ {n}
  /\ UNCHANGED <<head, size, list, told>>

(* find_two_previous_nodes: from the head, the nodes before val.           *)
TwoBefore(val) ==
  LET it[k \in 0..End] == IF k = 0 \/ head = End THEN head
                          ELSE IF it[k - 1] = End THEN End ELSE nodes[it[k - 1]]
      steps == CHOOSE k \in 0..End : it[k] = val /\ \A j \in 0..(k - 1) : it[j] # val
  IN  [prev  |-> IF steps > 0 THEN it[steps - 1] ELSE End,
       prev2 |-> IF steps > 1 THEN it[steps - 2] ELSE End]

InsertHead(n) ==
  /\ n \in mine
  /\ nodes' = [nodes EXCEPT ![n] = head] /\ head' = n /\ size' = size + 1
  /\ list' = <<n>> \o list /\ mine' = mine \ {n}
  /\ UNCHANGED told

InsertTail(n) ==
  /\ n \in mine
  /\ IF head # End
       THEN nodes' = [nodes EXCEPT ![TwoBefore(End).prev] = n] /\ UNCHANGED head
       ELSE head' = n /\ UNCHANGED nodes
  /\ size' = size + 1
  /\ list' = Append(list, n) /\ mine' = mine \ {n}
  /\ UNCHANGED told

(* The user has the node n again.                                          *)
Taken(n) ==
  /\ list' = RemoveFirst(list, n) /\ mine' = mine \cup {n}

DropNothing == head = End /\ told' = End /\ UNCHANGED <<nodes, head, size, list, mine>>

DropHead ==
  \/ DropNothing
  \/ /\ head # End
     /\ head' = nodes[head] /\ nodes' = [nodes EXCEPT ![head] = End]
     /\ size' = size - 1 /\ told' = head
     /\ Taken(Head(list))

DropTail ==
  LET before == TwoBefore(End)
  IN  \/ DropNothing
      \/ /\ head # End
         /\ IF before.prev2 # End
              THEN nodes' = [nodes EXCEPT ![before.prev2] = End] /\ UNCHANGED head
              ELSE head' = End /\ UNCHANGED nodes
         /\ size' = size - 1 /\ told' = before.prev
         /\ Taken(Last(list))

(* The nodes drop handles: of the first node it takes that it is the only  *)
(* one.                                                                    *)
DropsLater(n) == Contains(list, n) /\ (Len(list) = 1 \/ n # Head(list))

(* drop returns the node before.                                           *)
Drop(n) ==
  LET next == nodes[n]
      before == TwoBefore(next)
  IN  \/ n \in mine /\ DropNothing
      \/ /\ DropsLater(n)
         /\ IF before.prev2 # End
              THEN /\ nodes' = [nodes EXCEPT ![before.prev2] = next, ![n] = End]
                   /\ UNCHANGED head
              ELSE /\ head' = End
                   /\ nodes' = [nodes EXCEPT ![n] = End]
         /\ size' = size - 1 /\ told' = before.prev2
         /\ Taken(n)

ListNext ==
  \/ TryAcquireOne \/ DropHead \/ DropTail
  \/ \E n \in Nodes : \/ TryAcquire(n) \/ Release(n)
                      \/ InsertHead(n) \/ InsertTail(n) \/ Drop(n)

---------------------------------------------------------------------------
(* Following the links from the head the user meets the nodes of the list, *)
(* in order, then the end; the nodes the user has are linked nowhere, all  *)
(* others are free, so none is ever lost or had twice.                     *)
ListHolds ==
  /\ size = Len(list)
  /\ head = IF list = <<>> THEN End ELSE list[1]
  /\ \A i \in DOMAIN list :
       nodes[list[i]] = IF i = Len(list) THEN End ELSE list[i + 1]
  /\ \A n \in mine : nodes[n] = End /\ ~Contains(list, n)
  /\ \A n \in Nodes : IsFree(n) <=> n \notin mine \cup ToSet(list)

(* drop_head and drop_tail return the node dropped, drop the one before.   *)
ListIsTrue(n) ==
  /\ DropHead /\ list # <<>> => told' = Head(list)
  /\ DropTail /\ list # <<>> => told' = Last(list)
  /\ Drop(n) /\ Contains(list, n) =>
       told' = IF n = Head(list) THEN End
               ELSE list[(CHOOSE i \in DOMAIN list : list[i] = n) - 1]
=============================================================================
