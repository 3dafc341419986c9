----------------------- MODULE ArrayDoublyLinkedList -----------------------
(***************************************************************************)
(* bl_adlnls_u16 (src/src/bl/base/generated/adlnls/): a doubly linked list *)
(* whose links are indexes of an array, eight bits each.  Nodes pass       *)
(* between the user and the list as in ArrayLinkedList.                    *)
(***************************************************************************)
EXTENDS Integers, Sequences, SequencesExt

CONSTANT End       \* capacity: the number of nodes, and the iterator's end

VARIABLES
  nodes, head, size,
  list,    \* history: the nodes that should be in the list, in order
  mine,    \* history: the nodes the user has, and not in the list
  told     \* what the last operation returned

listVars == <<nodes, head, size, list, mine, told>>

Nodes   == 0..(End - 1)
Hook(n, p) == [next |-> n, prev |-> p]

ListInit ==
  /\ nodes = [n \in Nodes |-> Hook(n, n)] /\ head = Hook(End, End) /\ size = 0
  /\ list = <<>> /\ mine = {} /\ told = End

IsFree(n) == nodes[n].next = n
IsEmpty   == head.next = End

Acquired(n) ==
  /\ nodes' = [nodes EXCEPT ![n] = Hook(End, End)] /\ mine' = mine \cup {n}
  /\ told' = n
  /\ UNCHANGED <<head, size, list>>

NotAcquired == told' = End /\ UNCHANGED <<nodes, head, size, list, mine>>

TryAcquire(n) == IF IsFree(n) THEN Acquired(n) ELSE NotAcquired

TryAcquireOne ==
  \/ \E n \in Nodes : IsFree(n) /\ (\A m \in 0..(n - 1) : ~IsFree(m)) /\ Acquired(n)
  \/ (\A n \in Nodes : ~IsFree(n)) /\ NotAcquired

Release(n) ==
  /\ n \in mine
  /\ nodes' = [nodes EXCEPT ![n] = Hook(n, n)] /\ mine' = mine \ {n}
  /\ UNCHANGED <<head, size, list, told>>

InsertHead(n) ==
  /\ n \in mine
  /\ IF IsEmpty
       THEN head' = Hook(n, n) /\ UNCHANGED nodes
       ELSE /\ nodes' = [nodes EXCEPT ![head.next].prev = n, ![n].next = head.next]
            /\ head' = [head EXCEPT !.next = n]
  /\ size' = size + 1
  /\ list' = <<n>> \o list /\ mine' = mine \ {n}
  /\ UNCHANGED told

InsertTail(n) ==
  /\ n \in mine
  /\ IF IsEmpty
       THEN head' = Hook(n, n) /\ UNCHANGED nodes
       ELSE /\ nodes' = [nodes EXCEPT ![head.prev].next = n, ![n].prev = head.prev]
            /\ head' = [head EXCEPT !.prev = n]
  /\ size' = size + 1
  /\ list' = Append(list, n) /\ mine' = mine \ {n}
  /\ UNCHANGED told

(* The node after n keeps its way back to n.                               *)
UnlinkMutant(n) ==
  LET next == nodes[n].next
      prev == nodes[n].prev
  IN  /\ nodes' = [m \in Nodes |->
           IF m = n THEN Hook(End, End)
           ELSE Hook(IF m = prev THEN next ELSE nodes[m].next, nodes[m].prev)]
      /\ head' = Hook(IF prev = End THEN next ELSE head.next,
                      IF next = End THEN prev ELSE head.prev)
      /\ size' = size - 1
      /\ list' = RemoveFirst(list, n) /\ mine' = mine \cup {n}

(* The nodes beside n, or the head's hook, are linked past it.             *)
Unlink(n) ==
  LET next == nodes[n].next
      prev == nodes[n].prev
  IN  /\ nodes' = [m \in Nodes |->
           IF m = n THEN Hook(End, End)
           ELSE Hook(IF m = prev THEN next ELSE nodes[m].next,
                     IF m = next THEN prev ELSE nodes[m].prev)]
      /\ head' = Hook(IF prev = End THEN next ELSE head.next,
                      IF next = End THEN prev ELSE head.prev)
      /\ size' = size - 1
      /\ list' = RemoveFirst(list, n) /\ mine' = mine \cup {n}

(* drop_explicit returns the node before or the one after; drop the former.*)
Drop(n, previous) ==
  \/ n \in mine /\ IsEmpty /\ NotAcquired
  \/ /\ Contains(list, n)
     /\ Unlink(n)
     /\ told' = IF previous THEN nodes[n].prev ELSE nodes[n].next

(* They ask for a node in the list, in an assertion.                       *)
DropHead == list # <<>> /\ Unlink(head.next) /\ told' = head.next
DropTail == list # <<>> /\ Unlink(head.prev) /\ told' = head.prev

ListNext ==
  \/ TryAcquireOne \/ DropHead \/ DropTail
  \/ \E n \in Nodes : \/ TryAcquire(n) \/ Release(n)
                      \/ InsertHead(n) \/ InsertTail(n)
                      \/ \E previous \in BOOLEAN : Drop(n, previous)

---------------------------------------------------------------------------
(* Following the links forwards from the head's next, or backwards from    *)
(* its prev, the user meets the nodes of the list in order, then the end;  *)
(* the nodes the user has are linked nowhere, all others are free.         *)
ListHolds ==
  LET n == Len(list)
      Node(i) == IF i \in 1..n THEN list[i] ELSE End
  IN  /\ size = n /\ head = Hook(Node(1), Node(n))
      /\ \A i \in 1..n : nodes[list[i]] = Hook(Node(i + 1), Node(i - 1))
      /\ \A m \in mine : nodes[m] = Hook(End, End) /\ ~Contains(list, m)
      /\ \A m \in Nodes : IsFree(m) <=> m \notin mine \cup ToSet(list)

(* drop returns a node beside the one dropped, drop_head and drop_tail the *)
(* node dropped.                                                           *)
ListIsTrue(n) ==
  LET Node(i) == IF i \in DOMAIN list THEN list[i] ELSE End
      at == CHOOSE i \in DOMAIN list : list[i] = n
  IN  /\ DropHead => told' = Head(list)
      /\ DropTail => told' = Last(list)
      /\ \A previous \in BOOLEAN : Drop(n, previous) /\ Contains(list, n) =>
           told' = Node(IF previous THEN at - 1 ELSE at + 1)
=============================================================================
