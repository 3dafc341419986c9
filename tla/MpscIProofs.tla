----------------------------- MODULE MpscIProofs -----------------------------
(***************************************************************************)
(* Proofs about MpscI, for any number of producers, nodes and tags.        *)
(***************************************************************************)
EXTENDS MpscI, SequenceTheorems, TLAPS

---------------------------------------------------------------------------
(* The inductive invariant.                                                *)

Node(i) == order[i].node

(* The nodes from head to tail: those of order, with the stable node at    *)
(* place k among them, or nowhere when k is 0.                             *)
Length(k)   == IF k = 0 THEN Len(order) ELSE Len(order) + 1
Chain(k, i) == IF i = k THEN Stable
               ELSE IF k # 0 /\ k < i THEN Node(i - 1) ELSE Node(i)

(* Each node is linked to the one after it, or the thread that exchanged   *)
(* the tail between the two still has to link them; the last has no link.  *)
Shape(k) ==
  /\ Length(k) > 0 /\ head = Chain(k, 1) /\ tail = Chain(k, Length(k))
  /\ next[tail].ptr = Null
  /\ \A i \in 1..(Length(k) - 1) :
       \/ next[Chain(k, i)].ptr = Chain(k, i + 1)
       \/ \E t \in Callers : Linking(t) /\ old[t] = Chain(k, i)
  /\ \A t \in Callers : Linking(t) =>
       \E i \in 1..(Length(k) - 1) :
         /\ old[t] = Chain(k, i) /\ front[t] = Chain(k, i + 1)
         /\ next[old[t]].ptr = Null

(* Where the stable node is while the consumer is in consume.              *)
PullerOK(k) ==
  /\ place[Puller] \in {"second", "renew", "push"} => k = 0
  /\ place[Puller] = "tail" => k \notin {1, 2}
  /\ place[Puller] \in {"load", "link", "again"} => k \notin {0, 1}
  /\ place[Puller] = "push" => next[Stable].ptr = Null

(* The nodes in the queue are distinct and the consumer's is not of them;  *)
(* only the consumer links the stable node.                                *)
Owners ==
  /\ \A i, j \in DOMAIN order : i # j => Node(i) # Node(j)
  /\ got # Null => got \notin Queued
  /\ place[Puller] \notin {"idle", "empty", "busy"} => got = Null
  /\ \A p \in Pushers : place[p] \in {"idle", "load", "link"}
  /\ \A t \in Callers : Linking(t) => (front[t] = Stable <=> t = Puller)
  /\ \A t, u \in Callers : Linking(t) /\ Linking(u) /\ t # u => old[t] # old[u]

(* A node's word has the node's tag, and the thread that is to write the   *)
(* word knows it.                                                          *)
TagsOK ==
  /\ \A i \in DOMAIN order : next[Node(i)].tag = order[i].tag
  /\ \A t \in Callers : place[t] = "link" => word[t].tag = next[old[t]].tag
  /\ ~tagged => next[Stable].tag = 0 /\ \A i \in DOMAIN order : order[i].tag = 0
  /\ ~tagged => \A t \in Callers : place[t] # "load" /\ word[t].tag = 0

Inv ==
  /\ TypeOK /\ Owners /\ TagsOK
  /\ \E k \in 0..(Len(order) + 1) : Shape(k) /\ PullerOK(k)

---------------------------------------------------------------------------
(* The chain of nodes.                                                     *)

(* What the history of the exchanges holds.                                *)
LEMMA OrderHas ==
  ASSUME TypeOK
  PROVE  /\ Len(order) \in Nat /\ DOMAIN order = 1..Len(order)
         /\ \A i \in 1..Len(order) :
              Node(i) \in Nodes /\ Node(i) \in Queued /\ order[i].tag \in Tags
<1>1. order \in Seq([node : Nodes, tag : Tags])
  BY DEF TypeOK
<1>2. Len(order) \in Nat /\ DOMAIN order = 1..Len(order)
  BY <1>1, LenProperties
<1>3. \A i \in 1..Len(order) : order[i] \in [node : Nodes, tag : Tags]
  BY <1>1, ElementOfSeq
<1> QED BY <1>2, <1>3 DEF Node, Queued

(* The nodes of the chain differ, and only place k has the stable node.    *)
LEMMA ChainHas ==
  ASSUME ListAssumption, TypeOK, Owners, NEW k \in 0..(Len(order) + 1)
  PROVE  /\ Length(k) \in Nat
         /\ \A i \in 1..Length(k) :
              /\ Chain(k, i) \in All /\ Chain(k, i) # Null
              /\ Chain(k, i) = Stable <=> i = k
              /\ i # k => Chain(k, i) \in Queued
         /\ \A i, j \in 1..Length(k) : i # j => Chain(k, i) # Chain(k, j)
<1>1. /\ Len(order) \in Nat
      /\ \A i \in 1..Len(order) :
           Node(i) \in Nodes /\ Node(i) \in Queued /\ Node(i) # Stable
      /\ \A i, j \in 1..Len(order) : i # j => Node(i) # Node(j)
      /\ Nodes \subseteq All /\ Stable \in All /\ Null \notin All
  BY OrderHas DEF Owners, ListAssumption, All
<1>2. Length(k) \in Nat
  BY <1>1 DEF Length
<1>3. ASSUME NEW i \in 1..Length(k), i # k
      PROVE  \E a \in 1..Len(order) :
               /\ Chain(k, i) = Node(a)
               /\ a = IF k # 0 /\ k < i THEN i - 1 ELSE i
  BY <1>1, <1>3 DEF Length, Chain
<1>4. ASSUME NEW i \in 1..Length(k), NEW j \in 1..Length(k), i # j, i # k, j # k
      PROVE  Chain(k, i) # Chain(k, j)
  <2>1. PICK a \in 1..Len(order) : Chain(k, i) = Node(a)
                                   /\ a = IF k # 0 /\ k < i THEN i - 1 ELSE i
    BY <1>3, <1>4
  <2>2. PICK b \in 1..Len(order) : Chain(k, j) = Node(b)
                                   /\ b = IF k # 0 /\ k < j THEN j - 1 ELSE j
    BY <1>3, <1>4
  <2>3. a # b
    BY <1>1, <1>2, <1>4, <2>1, <2>2
  <2> QED BY <1>1, <2>1, <2>2, <2>3
<1>5. \A i \in 1..Length(k) : i = k => Chain(k, i) = Stable
  BY DEF Chain
<1>6. ASSUME NEW i \in 1..Length(k), i # k
      PROVE  Chain(k, i) \in Nodes /\ Chain(k, i) \in Queued /\ Chain(k, i) # Stable
  BY <1>1, <1>3, <1>6
<1> QED BY <1>1, <1>2, <1>4, <1>5, <1>6

(* The chain in a state with the same history.                             *)
LEMMA SameChain ==
  ASSUME order' = order, NEW k
  PROVE  Length(k)' = Length(k) /\ \A i : Chain(k, i)' = Chain(k, i)
BY DEF Length, Chain, Node

(* Shape of the next state, told with the new length.                      *)
LEMMA ShapeFrom ==
  ASSUME NEW k, NEW M \in Nat, M > 0, Length(k)' = M,
         head' = Chain(k, 1)', tail' = Chain(k, M)', next'[tail'].ptr = Null,
         \A i \in 1..(M - 1) :
           \/ next'[Chain(k, i)'].ptr = Chain(k, i + 1)'
           \/ \E t \in Callers : Linking(t)' /\ old'[t] = Chain(k, i)',
         \A t \in Callers : Linking(t)' =>
           \E i \in 1..(M - 1) :
             /\ old'[t] = Chain(k, i)' /\ front'[t] = Chain(k, i + 1)'
             /\ next'[old'[t]].ptr = Null
  PROVE  Shape(k)'
<1>1. 1..(Length(k)' - 1) = 1..(M - 1) /\ Length(k)' > 0
  OBVIOUS
<1>2. tail' = Chain(k, Length(k))'
  BY DEF Chain, Node
<1> QED BY <1>1, <1>2 DEF Shape

(* Steps that change neither the nodes nor what is still to be linked.     *)
LEMMA SameShape ==
  ASSUME NEW k, Shape(k), UNCHANGED <<order, head, tail, old, front>>,
         next'[tail].ptr = next[tail].ptr,
         \A i \in 1..(Length(k) - 1) :
           next'[Chain(k, i)].ptr = next[Chain(k, i)].ptr,
         \A t \in Callers : Linking(t)' = Linking(t)
  PROVE  Shape(k)'
<1>1. Length(k)' = Length(k) /\ \A i : Chain(k, i)' = Chain(k, i)
  BY SameChain
<1>2. ASSUME NEW i \in 1..(Length(k) - 1)
      PROVE  \/ next'[Chain(k, i)].ptr = Chain(k, i + 1)
             \/ \E t \in Callers : Linking(t)' /\ old[t] = Chain(k, i)
  BY DEF Shape
<1>3. ASSUME NEW t \in Callers, Linking(t)'
      PROVE  \E i \in 1..(Length(k) - 1) :
               /\ old[t] = Chain(k, i) /\ front[t] = Chain(k, i + 1)
               /\ next'[old[t]].ptr = Null
  BY <1>3 DEF Shape
<1>4. Length(k)' > 0 /\ head' = Chain(k, 1)' /\ tail' = Chain(k, Length(k))
      /\ next'[tail'].ptr = Null
  BY <1>1 DEF Shape
<1>5. Chain(k, Length(k))' = Chain(k, Length(k)') 
  BY DEF Chain, Node
<1> QED BY <1>1, <1>2, <1>3, <1>4 DEF Shape

---------------------------------------------------------------------------
(* produce_many and produce_many_notag.                                    *)

(* What the nodes a caller produces must be: distinct, and neither in the  *)
(* queue nor in the hands of the consumer's caller.                        *)
Duty(b) ==
  /\ b \in Seq(Nodes) /\ b # <<>>
  /\ \A i, j \in DOMAIN b : i # j => b[i] # b[j]
  /\ \A i \in DOMAIN b : b[i] \notin Queued \cup {got}

(* The batch is appended to the history, and its nodes are linked.         *)
LEMMA BatchAppended ==
  ASSUME ListAssumption, TypeOK, NEW p, NEW b, NEW g \in Tags, Duty(b),
         ProduceMany(p, b, g)
  PROVE  /\ Len(b) \in Nat /\ Len(b) >= 1 /\ DOMAIN b = 1..Len(b)
         /\ \A j \in 1..Len(b) : b[j] \in Nodes
         /\ order' \in Seq([node : Nodes, tag : Tags])
         /\ Len(order') = Len(order) + Len(b) /\ DOMAIN order' = 1..Len(order')
         /\ \A i \in 1..Len(order) : order'[i] = order[i]
         /\ \A i \in (Len(order) + 1)..(Len(order) + Len(b)) :
              order'[i] = [node |-> b[i - Len(order)], tag |-> g]
         /\ next' \in [All -> Word]
         /\ \A n \in All : n \notin {b[i] : i \in DOMAIN b} => next'[n] = next[n]
         /\ \A j \in 1..Len(b) :
              next'[b[j]] = [ptr |-> IF j = Len(b) THEN Null ELSE b[j + 1],
                             tag |-> g]
<1> DEFINE new == [i \in DOMAIN b |-> [node |-> b[i], tag |-> g]]
           last == b[Len(b)]
           Ptr(n) == IF n = last THEN Null
                     ELSE b[1 + CHOOSE i \in DOMAIN b : b[i] = n]
           Mine == {b[i] : i \in DOMAIN b}
<1>1. /\ Len(b) \in Nat /\ Len(b) >= 1 /\ DOMAIN b = 1..Len(b)
      /\ \A j \in 1..Len(b) : b[j] \in Nodes
  <2>1. b \in Seq(Nodes) /\ b # <<>>
    BY DEF Duty
  <2>2. Len(b) \in Nat /\ DOMAIN b = 1..Len(b) /\ Len(b) # 0
    BY <2>1, LenProperties, EmptySeq
  <2>3. \A j \in 1..Len(b) : b[j] \in Nodes
    BY <2>1, ElementOfSeq
  <2> QED BY <2>2, <2>3
<1>2. next' = [n \in All |-> IF n \in Mine THEN [ptr |-> Ptr(n), tag |-> g]
                             ELSE next[n]]
  BY DEF ProduceMany
<1>12. order' = order \o new
  BY DEF ProduceMany
<1>3. new \in Seq([node : Nodes, tag : Tags]) /\ Len(new) = Len(b)
      /\ \A j \in 1..Len(b) : new[j] = [node |-> b[j], tag |-> g]
  BY <1>1
<1>4. order \in Seq([node : Nodes, tag : Tags])
  BY DEF TypeOK
<1> HIDE DEF new
<1>5. /\ order' \in Seq([node : Nodes, tag : Tags])
      /\ Len(order') = Len(order) + Len(b)
      /\ \A i \in 1..(Len(order) + Len(b)) :
           order'[i] = IF i <= Len(order) THEN order[i] ELSE new[i - Len(order)]
  <2> DEFINE Entry == [node : Nodes, tag : Tags]
  <2>2. order \in Seq(Entry) /\ new \in Seq(Entry)
    BY <1>3, <1>4
  <2> HIDE DEF Entry
  <2>1. /\ order \o new \in Seq(Entry)
        /\ Len(order \o new) = Len(order) + Len(new)
        /\ \A i \in 1..(Len(order) + Len(new)) :
             (order \o new)[i] = IF i <= Len(order) THEN order[i]
                                 ELSE new[i - Len(order)]
    BY ONLY <2>2, ConcatProperties
  <2> QED BY ONLY <2>1, <1>3, <1>12 DEF Entry
<1>6. Len(order) \in Nat /\ DOMAIN order' = 1..Len(order')
  BY <1>4, <1>5, LenProperties
<1>7. \A i \in 1..Len(order) : order'[i] = order[i]
  BY <1>5, <1>6, <1>1
<1>8. ASSUME NEW i \in (Len(order) + 1)..(Len(order) + Len(b))
      PROVE  order'[i] = [node |-> b[i - Len(order)], tag |-> g]
  <2>1. i \in 1..(Len(order) + Len(b)) /\ ~(i <= Len(order))
        /\ i - Len(order) \in 1..Len(b)
    BY <1>1, <1>6
  <2> QED BY <2>1, <1>3, <1>5
<1>9. ASSUME NEW j \in 1..Len(b)
      PROVE  next'[b[j]] = [ptr |-> IF j = Len(b) THEN Null ELSE b[j + 1],
                            tag |-> g]
  <2>1. b[j] \in Mine /\ b[j] \in All
    BY <1>1 DEF All
  <2>2. next'[b[j]] = [ptr |-> Ptr(b[j]), tag |-> g]
    BY <1>2, <2>1
  <2>3. \A i \in DOMAIN b : b[i] = b[j] => i = j
    BY <1>1 DEF Duty
  <2>4. (CHOOSE i \in DOMAIN b : b[i] = b[j]) = j
    BY <2>3, <1>1
  <2>5. CASE j = Len(b)
    BY <2>2, <2>5
  <2>6. CASE j # Len(b)
    <3>1. Len(b) \in DOMAIN b
      BY <1>1
    <3>2. b[j] # last
      BY <3>1, <2>3, <2>6
    <3>3. Ptr(b[j]) = b[1 + j]
      BY <2>4, <3>2
    <3>4. 1 + j = j + 1
      OBVIOUS
    <3> QED BY <2>2, <2>6, <3>3, <3>4
  <2> QED BY <2>5, <2>6
<1>10. ASSUME NEW n \in All
       PROVE  next'[n] \in Word /\ (n \notin Mine => next'[n] = next[n])
  <2>1. CASE n \notin Mine
    <3>1. next'[n] = next[n]
      BY <1>2, <2>1
    <3> QED BY <3>1, <2>1 DEF TypeOK
  <2>2. CASE n \in Mine
    <3>1. PICK j \in 1..Len(b) : n = b[j]
      BY <1>1, <2>2
    <3>2. next'[n] = [ptr |-> IF j = Len(b) THEN Null ELSE b[j + 1], tag |-> g]
      BY <1>9, <3>1
    <3>3. j # Len(b) => b[j + 1] \in All
      <4>1. Len(b) \in Nat /\ j \in 1..Len(b)
        BY <1>1
      <4>2. j # Len(b) => j + 1 \in 1..Len(b)
        BY ONLY <4>1
      <4> QED BY <1>1, <4>2 DEF All
    <3> QED BY <3>2, <3>3, <2>2 DEF Word
  <2> QED BY <2>1, <2>2
<1>11. next' \in [All -> Word]
  <2>1. next' = [n \in All |-> next'[n]]
    BY <1>2
  <2> QED BY <2>1, <1>10
<1> QED BY <1>1, <1>5, <1>6, <1>7, <1>8, <1>9, <1>10, <1>11

(* The chain grows by the batch.                                           *)
LEMMA BatchChain ==
  ASSUME ListAssumption, TypeOK, NEW p, NEW b, NEW g \in Tags, Duty(b),
         ProduceMany(p, b, g), NEW k \in 0..(Len(order) + 1)
  PROVE  /\ Length(k)' = Length(k) + Len(b)
         /\ \A i \in 1..Length(k) : Chain(k, i)' = Chain(k, i)
         /\ \A i \in (Length(k) + 1)..(Length(k) + Len(b)) :
              Chain(k, i)' = b[i - Length(k)]
<1>1. /\ Len(order) \in Nat /\ Len(b) \in Nat
      /\ Len(order') = Len(order) + Len(b)
      /\ \A i \in 1..Len(order) : Node(i)' = Node(i)
      /\ \A i \in (Len(order) + 1)..(Len(order) + Len(b)) :
           Node(i)' = b[i - Len(order)]
  <2>1. Len(order) \in Nat
    BY OrderHas
  <2>2. /\ Len(b) \in Nat /\ Len(order') = Len(order) + Len(b)
        /\ \A i \in 1..Len(order) : order'[i] = order[i]
        /\ \A i \in (Len(order) + 1)..(Len(order) + Len(b)) :
             order'[i] = [node |-> b[i - Len(order)], tag |-> g]
    BY BatchAppended
  <2>3. ASSUME NEW i \in (Len(order) + 1)..(Len(order) + Len(b))
        PROVE  order'[i].node = b[i - Len(order)]
    <3>1. order'[i] = [node |-> b[i - Len(order)], tag |-> g]
      BY <2>2
    <3> QED BY ONLY <3>1
  <2> QED BY <2>1, <2>2, <2>3 DEF Node
<1>2. Length(k)' = Length(k) + Len(b)
  BY <1>1 DEF Length
<1>3. \A i \in 1..Length(k) : Chain(k, i)' = Chain(k, i)
  BY <1>1 DEF Length, Chain
<1>4. ASSUME NEW i \in (Length(k) + 1)..(Length(k) + Len(b))
      PROVE  Chain(k, i)' = b[i - Length(k)]
  <2>1. CASE k = 0
    BY <2>1, <1>1 DEF Length, Chain
  <2>2. CASE k # 0
    <3>1. i # k /\ k < i /\ i - 1 \in (Len(order) + 1)..(Len(order) + Len(b))
      BY <2>2, <1>1 DEF Length
    <3>2. Chain(k, i)' = Node(i - 1)'
      BY <3>1, <2>2 DEF Chain
    <3>3. Node(i - 1)' = b[(i - 1) - Len(order)]
      BY <3>1, <1>1
    <3>4. (i - 1) - Len(order) = i - Length(k)
      BY <2>2, <3>1, <1>1 DEF Length
    <3> QED BY <3>2, <3>3, <3>4
  <2> QED BY <2>1, <2>2
<1> QED BY <1>2, <1>3, <1>4

(* What an exchange of the tail changes of the threads.                    *)
LEMMA ExchangeDone ==
  ASSUME TypeOK, NEW t \in Callers, NEW first, NEW last, Exchange(t, first, last)
  PROVE  /\ Linking(t)' /\ place'[t] = IF tagged THEN "load" ELSE "link"
         /\ old'[t] = tail /\ front'[t] = first /\ tail' = last
         /\ \A u \in Callers : u # t =>
              /\ Linking(u)' = Linking(u) /\ place'[u] = place[u]
              /\ old'[u] = old[u] /\ front'[u] = front[u]
         /\ first \in All =>
              /\ place' \in [Callers -> Places]
              /\ old' \in [Callers -> All \cup {Null}]
              /\ front' \in [Callers -> All \cup {Null}]
<1>1. /\ place \in [Callers -> Places] /\ old \in [Callers -> All \cup {Null}]
      /\ front \in [Callers -> All \cup {Null}] /\ tail \in All
  BY DEF TypeOK
<1>2. /\ old' = [old EXCEPT ![t] = tail] /\ front' = [front EXCEPT ![t] = first]
      /\ tail' = last
      /\ place' = [place EXCEPT ![t] = IF tagged THEN "load" ELSE "link"]
  BY DEF Exchange, Go
<1>3. /\ place'[t] = (IF tagged THEN "load" ELSE "link")
      /\ old'[t] = tail /\ front'[t] = first /\ tail' = last
      /\ \A u \in Callers : u # t => /\ place'[u] = place[u]
                                     /\ old'[u] = old[u] /\ front'[u] = front[u]
  BY <1>1, <1>2
<1>4. Linking(t)' /\ \A u \in Callers : u # t => Linking(u)' = Linking(u)
  BY <1>3 DEF Linking
<1>5. place' \in [Callers -> Places]
  BY <1>1, <1>2 DEF Places
<1>6. first \in All => /\ old' \in [Callers -> All \cup {Null}]
                       /\ front' \in [Callers -> All \cup {Null}]
  BY <1>1, <1>2
<1> QED BY <1>3, <1>4, <1>5, <1>6

(* The nodes in the queue, by their places.                                *)
LEMMA QueuedIs ==
  ASSUME TypeOK, NEW n
  PROVE  n \in Queued <=> \E i \in 1..Len(order) : n = Node(i)
BY OrderHas DEF Queued, Node

(* The exchange leaves the batch at the end of the chain, to be linked.    *)
LEMMA ProduceShape ==
  ASSUME ListAssumption, TypeOK, Owners, NEW k \in 0..(Len(order) + 1), Shape(k),
         NEW p \in Pushers, NEW b, NEW g \in Tags, Duty(b), ProduceMany(p, b, g)
  PROVE  Shape(k)'
<1> DEFINE Mine == {b[i] : i \in DOMAIN b}
<1>0. PICK L, m : L = Length(k) /\ m = Len(b)
  OBVIOUS
<1>1. /\ L \in Nat /\ L > 0 /\ m \in Nat /\ m >= 1
      /\ \A i \in 1..L : Chain(k, i) \in All /\ Chain(k, i) \notin Mine
  <2>1. L \in Nat /\ L > 0 /\ m \in Nat /\ m >= 1 /\ DOMAIN b = 1..m
        /\ \A j \in 1..m : b[j] \in Nodes
    BY <1>0, ChainHas, BatchAppended DEF Shape
  <2>2. ASSUME NEW i \in 1..L
        PROVE  Chain(k, i) \in All /\ Chain(k, i) \notin Mine
    <3>1. Chain(k, i) \in All /\ (Chain(k, i) = Stable \/ Chain(k, i) \in Queued)
      BY <1>0, ChainHas
    <3>2. \A j \in 1..m : b[j] # Stable /\ b[j] \notin Queued
      BY <2>1 DEF Duty, ListAssumption
    <3> QED BY <2>1, <3>1, <3>2
  <2> QED BY <2>1, <2>2
<1>2. /\ Length(k)' = L + m
      /\ \A i \in 1..L : Chain(k, i)' = Chain(k, i)
      /\ \A i \in (L + 1)..(L + m) : Chain(k, i)' = b[i - L]
  BY <1>0, BatchChain
<1>3. /\ \A n \in All : n \notin Mine => next'[n] = next[n]
      /\ \A j \in 1..m : next'[b[j]].ptr = IF j = m THEN Null ELSE b[j + 1]
  <2>1. \A n \in All : n \notin Mine => next'[n] = next[n]
    BY BatchAppended
  <2>2. \A j \in 1..m :
          next'[b[j]] = [ptr |-> IF j = m THEN Null ELSE b[j + 1], tag |-> g]
    <3>1. \A j \in 1..Len(b) :
            next'[b[j]] = [ptr |-> IF j = Len(b) THEN Null ELSE b[j + 1],
                           tag |-> g]
      BY BatchAppended
    <3> QED BY ONLY <3>1, <1>0
  <2>3. ASSUME NEW j \in 1..m
        PROVE  next'[b[j]].ptr = IF j = m THEN Null ELSE b[j + 1]
    <3>1. next'[b[j]] = [ptr |-> IF j = m THEN Null ELSE b[j + 1], tag |-> g]
      BY <2>2
    <3> QED BY ONLY <3>1
  <2> QED BY <2>1, <2>3
<1>4. Exchange(p, b[1], b[m]) /\ p \in Callers /\ ~Linking(p) /\ head' = head
  BY <1>0 DEF ProduceMany, Callers, Linking
<1>5. /\ Linking(p)' /\ old'[p] = tail /\ front'[p] = b[1] /\ tail' = b[m]
      /\ \A u \in Callers : u # p =>
           /\ Linking(u)' = Linking(u)
           /\ old'[u] = old[u] /\ front'[u] = front[u]
  BY <1>4, ExchangeDone
<1>6. /\ head = Chain(k, 1) /\ tail = Chain(k, L) /\ next[tail].ptr = Null
      /\ \A i \in 1..(L - 1) :
           \/ next[Chain(k, i)].ptr = Chain(k, i + 1)
           \/ \E t \in Callers : Linking(t) /\ old[t] = Chain(k, i)
      /\ \A t \in Callers : Linking(t) =>
           \E i \in 1..(L - 1) :
             /\ old[t] = Chain(k, i) /\ front[t] = Chain(k, i + 1)
             /\ next[old[t]].ptr = Null
  BY <1>0 DEF Shape
<1>7. L + m > 0 /\ head' = Chain(k, 1)' /\ tail' = b[m] /\ next'[b[m]].ptr = Null
      /\ \A i \in 1..L : next'[Chain(k, i)] = next[Chain(k, i)]
  <2>1. 1 \in 1..L /\ m \in 1..m /\ L + m > 0
    BY <1>1
  <2>2. head' = Chain(k, 1)'
    BY <2>1, <1>2, <1>4, <1>6
  <2>3. next'[b[m]].ptr = Null
    BY <2>1, <1>3
  <2>4. \A i \in 1..L : next'[Chain(k, i)] = next[Chain(k, i)]
    BY <1>1, <1>3
  <2> QED BY <2>1, <2>2, <2>3, <2>4, <1>5
<1>16. PICK M \in Nat : M = L + m
  BY <1>1
<1>8. ASSUME NEW i \in 1..(M - 1)
      PROVE  \/ next'[Chain(k, i)'].ptr = Chain(k, i + 1)'
             \/ \E t \in Callers : Linking(t)' /\ old'[t] = Chain(k, i)'
  <2>1. CASE i < L
    <3>1. i \in 1..(L - 1) /\ i \in 1..L /\ i + 1 \in 1..L
      BY <1>1, <2>1
    <3>2. Chain(k, i)' = Chain(k, i) /\ Chain(k, i + 1)' = Chain(k, i + 1)
          /\ next'[Chain(k, i)] = next[Chain(k, i)]
      BY <3>1, <1>2, <1>7
    <3>3. CASE next[Chain(k, i)].ptr = Chain(k, i + 1)
      BY <3>2, <3>3
    <3>4. CASE \E t \in Callers : Linking(t) /\ old[t] = Chain(k, i)
      <4>1. PICK t \in Callers : Linking(t) /\ old[t] = Chain(k, i)
        BY <3>4
      <4>2. Linking(t)' /\ old'[t] = Chain(k, i)
        BY <4>1, <1>4, <1>5
      <4> QED BY <4>2, <3>2
    <3> QED BY <3>1, <3>3, <3>4, <1>6
  <2>2. CASE i = L
    <3>1. L \in 1..L
      BY <1>1
    <3>2. Linking(p)' /\ old'[p] = Chain(k, i)' /\ p \in Callers
      BY <3>1, <2>2, <1>2, <1>4, <1>5, <1>6
    <3> QED BY <3>2
  <2>3. CASE i > L
    <3>1. i \in (L + 1)..(L + m) /\ i + 1 \in (L + 1)..(L + m)
          /\ i - L \in 1..m /\ i - L # m /\ (i + 1) - L = (i - L) + 1
      BY <1>1, <1>16, <2>3
    <3>2. Chain(k, i)' = b[i - L] /\ Chain(k, i + 1)' = b[(i - L) + 1]
      BY <3>1, <1>2
    <3>3. next'[b[i - L]].ptr = b[(i - L) + 1]
      BY <3>1, <1>3
    <3> QED BY <3>2, <3>3
  <2> QED BY <2>1, <2>2, <2>3, <1>1
<1>9. ASSUME NEW t \in Callers, Linking(t)'
      PROVE  \E i \in 1..(M - 1) :
               /\ old'[t] = Chain(k, i)' /\ front'[t] = Chain(k, i + 1)'
               /\ next'[old'[t]].ptr = Null
  <2>1. CASE t = p
    <3>1. L \in 1..(M - 1) /\ L \in 1..L /\ L + 1 \in (L + 1)..(L + m)
          /\ (L + 1) - L = 1
      BY <1>1, <1>16
    <3>2. Chain(k, L)' = tail /\ Chain(k, L + 1)' = b[1]
      BY <3>1, <1>2, <1>6
    <3>3. next'[tail] = next[tail]
      BY <3>1, <1>6, <1>7
    <3> QED BY <3>1, <3>2, <3>3, <1>5, <1>6, <2>1
  <2>2. CASE t # p
    <3>1. Linking(t) /\ old'[t] = old[t] /\ front'[t] = front[t]
      BY <1>5, <1>9, <2>2
    <3>2. PICK i \in 1..(L - 1) :
            /\ old[t] = Chain(k, i) /\ front[t] = Chain(k, i + 1)
            /\ next[old[t]].ptr = Null
      BY <3>1, <1>6
    <3>3. i \in 1..L /\ i + 1 \in 1..L /\ i \in 1..(M - 1)
      BY <1>1, <1>16
    <3>4. Chain(k, i)' = old[t] /\ Chain(k, i + 1)' = front[t]
          /\ next'[old[t]] = next[old[t]]
      BY <3>2, <3>3, <1>2, <1>7
    <3> QED BY <3>1, <3>2, <3>3, <3>4
  <2> QED BY <2>1, <2>2
<1>10. tail' = Chain(k, L + m)'
  <2>1. L + m \in (L + 1)..(L + m) /\ (L + m) - L = m
    BY <1>1
  <2> QED BY <2>1, <1>2, <1>5
<1>11. Length(k)' = L + m /\ L + m \in Nat /\ L + m > 0
  BY <1>1, <1>2
<1>13. /\ M > 0 /\ Length(k)' = M
       /\ head' = Chain(k, 1)' /\ tail' = Chain(k, M)' /\ next'[tail'].ptr = Null
  BY <1>5, <1>7, <1>10, <1>11, <1>16
<1> QED BY ONLY <1>16, <1>13, <1>8, <1>9, ShapeFrom

(* The batch is disjoint from what the queue has and its user holds.       *)
LEMMA ProduceOwners ==
  ASSUME ListAssumption, TypeOK, Owners, NEW k \in 0..(Len(order) + 1), Shape(k),
         NEW p \in Pushers, NEW b, NEW g \in Tags, Duty(b), ProduceMany(p, b, g)
  PROVE  Owners'
<1> DEFINE n == Len(order)
<1>1. /\ Len(order) \in Nat /\ Len(b) \in Nat /\ Len(b) >= 1 /\ DOMAIN b = 1..Len(b)
      /\ Len(order') = Len(order) + Len(b) /\ DOMAIN order' = 1..Len(order')
      /\ DOMAIN order = 1..Len(order)
      /\ \A j \in 1..Len(b) : b[j] \in Nodes
  BY BatchAppended, OrderHas
<1>2. \A i \in 1..Len(order) : Node(i)' = Node(i)
  BY BatchAppended DEF Node
<1>3. ASSUME NEW i \in (Len(order) + 1)..(Len(order) + Len(b))
      PROVE  Node(i)' = b[i - Len(order)]
  <2>1. order'[i] = [node |-> b[i - Len(order)], tag |-> g]
    BY BatchAppended
  <2>2. order'[i].node = b[i - Len(order)]
    BY ONLY <2>1
  <2> QED BY <2>2 DEF Node
<1>4. ASSUME NEW i \in DOMAIN order'
      PROVE  \/ i \in DOMAIN order /\ Node(i)' = Node(i)
             \/ \E j \in DOMAIN b : i = Len(order) + j /\ Node(i)' = b[j]
  <2>1. CASE i <= Len(order)
    BY <1>1, <1>2, <2>1
  <2>2. CASE i > Len(order)
    <3>1. /\ i \in (Len(order) + 1)..(Len(order) + Len(b))
          /\ i - Len(order) \in DOMAIN b /\ i = Len(order) + (i - Len(order))
      BY <1>1, <2>2
    <3> QED BY <3>1, <1>3
  <2> QED BY <2>1, <2>2, <1>1
<1>5. /\ \A i, j \in DOMAIN order : i # j => Node(i) # Node(j)
      /\ \A i \in DOMAIN order : Node(i) \in Queued
      /\ \A i, j \in DOMAIN b : i # j => b[i] # b[j]
      /\ \A i \in DOMAIN b : b[i] \notin Queued \cup {got}
  BY OrderHas, <1>1 DEF Owners, Duty
<1>6. ASSUME NEW i \in DOMAIN order', NEW j \in DOMAIN order', i # j
      PROVE  Node(i)' # Node(j)'
  <2>1. CASE i \in DOMAIN order /\ Node(i)' = Node(i)
    <3>1. CASE j \in DOMAIN order /\ Node(j)' = Node(j)
      BY <1>5, <1>6, <2>1, <3>1
    <3>2. CASE \E m \in DOMAIN b : j = Len(order) + m /\ Node(j)' = b[m]
      BY <1>5, <2>1, <3>2
    <3> QED BY <1>4, <3>1, <3>2
  <2>2. CASE \E l \in DOMAIN b : i = Len(order) + l /\ Node(i)' = b[l]
    <3>1. CASE j \in DOMAIN order /\ Node(j)' = Node(j)
      BY <1>5, <2>2, <3>1
    <3>2. CASE \E m \in DOMAIN b : j = Len(order) + m /\ Node(j)' = b[m]
      <4>1. PICK l \in DOMAIN b : i = Len(order) + l /\ Node(i)' = b[l]
        BY <2>2
      <4>2. PICK m \in DOMAIN b : j = Len(order) + m /\ Node(j)' = b[m]
        BY <3>2
      <4>3. l # m
        BY <1>6, <4>1, <4>2
      <4> QED BY <4>1, <4>2, <4>3, <1>5
    <3> QED BY <1>4, <3>1, <3>2
  <2> QED BY <1>4, <2>1, <2>2
<1>7. got' = got /\ (got # Null => got \notin Queued')
  <2>1. got' = got
    BY DEF ProduceMany
  <2>2. ASSUME got # Null, got \in Queued'
        PROVE  FALSE
    <3>1. PICK i \in DOMAIN order' : got = Node(i)'
      BY <2>2 DEF Queued, Node
    <3>2. got \notin Queued
      BY <2>2 DEF Owners
    <3> QED BY <1>4, <1>5, <3>1, <3>2
  <2> QED BY <2>1, <2>2
<1>8. /\ Exchange(p, b[1], b[Len(b)]) /\ p \in Callers /\ p # Puller
      /\ Puller \in Callers /\ b[1] \in Nodes /\ b[1] # Stable
  BY <1>1 DEF ProduceMany, Callers, ListAssumption
<1>9. /\ Linking(p)' /\ place'[p] = (IF tagged THEN "load" ELSE "link")
      /\ old'[p] = tail /\ front'[p] = b[1]
      /\ \A u \in Callers : u # p =>
           /\ Linking(u)' = Linking(u) /\ place'[u] = place[u]
           /\ old'[u] = old[u] /\ front'[u] = front[u]
  BY <1>8, ExchangeDone
<1>10. ASSUME NEW u \in Callers, u # p, Linking(u)
       PROVE  old[u] # tail
  <2>1. PICK i \in 1..(Length(k) - 1) : old[u] = Chain(k, i)
    BY <1>10 DEF Shape
  <2>2. tail = Chain(k, Length(k)) /\ Length(k) \in Nat /\ Length(k) > 0
    BY ChainHas DEF Shape
  <2>3. i \in 1..Length(k) /\ Length(k) \in 1..Length(k) /\ i # Length(k)
    BY <2>2
  <2> QED BY <2>1, <2>2, <2>3, ChainHas
<1>11. place'[Puller] \notin {"idle", "empty", "busy"} => got' = Null
  BY <1>7, <1>8, <1>9 DEF Owners
<1>12. ASSUME NEW q \in Pushers
       PROVE  place'[q] \in {"idle", "load", "link"}
  <2>1. q \in Callers
    BY DEF Callers
  <2>2. CASE q = p
    BY <2>2, <1>9
  <2>3. CASE q # p
    BY <2>1, <2>3, <1>9 DEF Owners
  <2> QED BY <2>2, <2>3
<1>13. ASSUME NEW t \in Callers, Linking(t)'
       PROVE  front'[t] = Stable <=> t = Puller
  <2>1. CASE t = p
    BY <2>1, <1>8, <1>9
  <2>2. CASE t # p
    BY <2>2, <1>9, <1>13 DEF Owners
  <2> QED BY <2>1, <2>2
<1>14. ASSUME NEW t \in Callers, NEW u \in Callers, Linking(t)', Linking(u)', t # u
       PROVE  old'[t] # old'[u]
  <2>1. CASE t = p
    BY <2>1, <1>9, <1>10, <1>14
  <2>2. CASE u = p
    BY <2>2, <1>9, <1>10, <1>14
  <2>3. CASE t # p /\ u # p
    BY <2>3, <1>9, <1>14 DEF Owners
  <2> QED BY <2>1, <2>2, <2>3
<1> QED BY <1>6, <1>7, <1>11, <1>12, <1>13, <1>14 DEF Owners

(* The tags of the batch are in its words; the old tail's tag is known if  *)
(* the call has none.                                                      *)
LEMMA ProduceTags ==
  ASSUME ListAssumption, TypeOK, Owners, TagsOK,
         NEW k \in 0..(Len(order) + 1), Shape(k),
         NEW p \in Pushers, NEW b, NEW g \in Tags, Duty(b), ProduceMany(p, b, g)
  PROVE  TagsOK'
<1> DEFINE Mine == {b[i] : i \in DOMAIN b}
<1>1. /\ Len(order) \in Nat /\ Len(b) \in Nat /\ DOMAIN b = 1..Len(b)
      /\ Len(order') = Len(order) + Len(b) /\ DOMAIN order' = 1..Len(order')
      /\ DOMAIN order = 1..Len(order)
      /\ \A j \in 1..Len(b) : b[j] \in Nodes
      /\ \A i \in 1..Len(order) : order'[i] = order[i]
      /\ \A n \in All : n \notin Mine => next'[n] = next[n]
  BY BatchAppended, OrderHas
<1>2. ASSUME NEW i \in (Len(order) + 1)..(Len(order) + Len(b))
      PROVE  order'[i].node = b[i - Len(order)] /\ order'[i].tag = g
  <2>1. order'[i] = [node |-> b[i - Len(order)], tag |-> g]
    BY BatchAppended
  <2> QED BY ONLY <2>1
<1>3. ASSUME NEW j \in 1..Len(b)
      PROVE  next'[b[j]].tag = g
  <2>1. next'[b[j]] = [ptr |-> IF j = Len(b) THEN Null ELSE b[j + 1], tag |-> g]
    BY BatchAppended
  <2> QED BY ONLY <2>1
<1>4. Stable \notin Mine /\ next'[Stable] = next[Stable]
  BY <1>1 DEF ListAssumption, All
<1>5. \A i \in 1..Len(order) : Node(i) \in All /\ Node(i) \notin Mine
  BY OrderHas DEF Duty, All
<1>6. tagged' = tagged /\ word' = word /\ (~tagged => g = 0)
  BY DEF ProduceMany
<1>7. ASSUME NEW i \in DOMAIN order'
      PROVE  /\ next'[Node(i)'].tag = order'[i].tag
             /\ ~tagged => order'[i].tag = 0
  <2>1. CASE i <= Len(order)
    <3>1. i \in 1..Len(order)
      BY <1>1, <2>1
    <3>2. order'[i] = order[i] /\ Node(i)' = Node(i) /\ next'[Node(i)] = next[Node(i)]
      BY <3>1, <1>1, <1>5 DEF Node
    <3> QED BY <3>1, <3>2, <1>1 DEF TagsOK
  <2>2. CASE i > Len(order)
    <3>1. /\ i \in (Len(order) + 1)..(Len(order) + Len(b))
          /\ i - Len(order) \in 1..Len(b)
      BY <1>1, <2>2
    <3>2. Node(i)' = b[i - Len(order)] /\ order'[i].tag = g
      BY <3>1, <1>2 DEF Node
    <3> QED BY <3>1, <3>2, <1>3, <1>6
  <2> QED BY <2>1, <2>2, <1>1
<1>8. Exchange(p, b[1], b[Len(b)]) /\ p \in Callers
  BY DEF ProduceMany, Callers
<1>9. Len(b) >= 1 /\ b[1] \in All
  BY BatchAppended DEF All
<1>10. /\ place'[p] = (IF tagged THEN "load" ELSE "link") /\ old'[p] = tail
       /\ \A u \in Callers : u # p => place'[u] = place[u] /\ old'[u] = old[u]
  BY <1>8, ExchangeDone
<1>11. /\ tail = Stable \/ \E i \in 1..Len(order) : tail = Node(i)
       /\ \A t \in Callers : Linking(t) =>
            old[t] = Stable \/ \E i \in 1..Len(order) : old[t] = Node(i)
  <2>1. ASSUME NEW i \in 1..Length(k)
        PROVE  Chain(k, i) = Stable \/ \E j \in 1..Len(order) : Chain(k, i) = Node(j)
    BY ChainHas, QueuedIs
  <2>2. Length(k) \in Nat /\ Length(k) > 0 /\ tail = Chain(k, Length(k))
    BY ChainHas DEF Shape
  <2>3. Length(k) \in 1..Length(k)
    BY <2>2
  <2>4. ASSUME NEW t \in Callers, Linking(t)
        PROVE  \E i \in 1..Length(k) : old[t] = Chain(k, i)
    <3>1. PICK i \in 1..(Length(k) - 1) : old[t] = Chain(k, i)
      BY <2>4 DEF Shape
    <3>2. i \in 1..Length(k)
      BY <2>2
    <3> QED BY <3>1, <3>2
  <2> QED BY <2>1, <2>2, <2>3, <2>4
<1>12. ASSUME NEW t \in Callers, place'[t] = "link"
       PROVE  word'[t].tag = next'[old'[t]].tag
  <2>1. CASE t = p
    <3>1. ~tagged /\ old'[t] = tail
      BY <2>1, <1>10, <1>12
    <3>2. next[tail].tag = 0
      BY <3>1, <1>1, <1>11 DEF TagsOK
    <3>3. next'[tail] = next[tail]
      BY <1>1, <1>4, <1>5, <1>11
    <3>4. word[t].tag = 0
      BY <3>1 DEF TagsOK
    <3> QED BY <3>1, <3>2, <3>3, <3>4, <1>6
  <2>2. CASE t # p
    <3>1. place[t] = "link" /\ old'[t] = old[t]
      BY <2>2, <1>10, <1>12
    <3>2. word[t].tag = next[old[t]].tag /\ Linking(t)
      BY <3>1 DEF TagsOK, Linking
    <3>3. next'[old[t]] = next[old[t]]
      BY <3>2, <1>1, <1>4, <1>5, <1>11
    <3> QED BY <3>1, <3>2, <3>3, <1>6
  <2> QED BY <2>1, <2>2
<1>13. ASSUME ~tagged, NEW t \in Callers
       PROVE  place'[t] # "load" /\ word'[t].tag = 0
  BY <1>13, <1>6, <1>10 DEF TagsOK
<1>14. ~tagged => next'[Stable].tag = 0
  BY <1>4 DEF TagsOK
<1> QED BY <1>6, <1>7, <1>12, <1>13, <1>14 DEF TagsOK

(* A produce call keeps the invariant.                                     *)
LEMMA ProduceStep ==
  ASSUME ListAssumption, Inv,
         NEW p \in Pushers, NEW b, NEW g \in Tags, Duty(b), ProduceMany(p, b, g)
  PROVE  Inv'
<1>1. TypeOK /\ Owners /\ TagsOK
  BY DEF Inv
<1>2. PICK k \in 0..(Len(order) + 1) : Shape(k) /\ PullerOK(k)
  BY DEF Inv
<1>3. Shape(k)' /\ Owners' /\ TagsOK'
  BY <1>1, <1>2, ProduceShape, ProduceOwners, ProduceTags
<1>4. /\ Exchange(p, b[1], b[Len(b)]) /\ p \in Callers /\ p # Puller
      /\ Puller \in Callers /\ UNCHANGED <<tagged, head, word, got>>
  BY DEF ProduceMany, Callers, ListAssumption
<1>5. /\ Len(b) \in Nat /\ Len(b) >= 1 /\ DOMAIN b = 1..Len(b)
      /\ \A j \in 1..Len(b) : b[j] \in Nodes
      /\ order' \in Seq([node : Nodes, tag : Tags])
      /\ next' \in [All -> Word]
      /\ Len(order') = Len(order) + Len(b)
  BY <1>1, BatchAppended
<1>6. b[1] \in All /\ b[Len(b)] \in All
  BY <1>5 DEF All
<1>7. /\ tail' = b[Len(b)] /\ place'[Puller] = place[Puller]
      /\ place' \in [Callers -> Places]
      /\ old' \in [Callers -> All \cup {Null}]
      /\ front' \in [Callers -> All \cup {Null}]
  BY <1>1, <1>4, <1>6, ExchangeDone
<1>8. TypeOK'
  BY <1>1, <1>4, <1>5, <1>6, <1>7 DEF TypeOK
<1>9. next'[Stable] = next[Stable]
  <2>1. \A n \in All : n \notin {b[i] : i \in DOMAIN b} => next'[n] = next[n]
    BY <1>1, BatchAppended
  <2>2. Stable \in All /\ Stable \notin {b[i] : i \in DOMAIN b}
    BY <1>5 DEF ListAssumption, All
  <2> QED BY <2>1, <2>2
<1>10. PullerOK(k)'
  BY <1>2, <1>7, <1>9 DEF PullerOK
<1>11. k \in 0..(Len(order') + 1)
  <2>1. Len(order) \in Nat
    BY <1>1, OrderHas
  <2> QED BY <2>1, <1>5
<1> QED BY <1>3, <1>8, <1>10, <1>11 DEF Inv

---------------------------------------------------------------------------
(* The threads that link their nodes.                                      *)

(* A thread that still has to link its nodes writes to a node of the chain *)
(* that is not the last, and whose link is still null.                     *)
LEMMA LinkerPlace ==
  ASSUME ListAssumption, TypeOK, Owners, NEW k \in 0..(Len(order) + 1), Shape(k),
         NEW t \in Callers, Linking(t)
  PROVE  \E i \in 1..(Length(k) - 1) :
           /\ i \in 1..Length(k) /\ i + 1 \in 1..Length(k) /\ i # Length(k)
           /\ old[t] = Chain(k, i) /\ front[t] = Chain(k, i + 1)
           /\ next[old[t]].ptr = Null /\ old[t] # tail /\ old[t] \in All
<1>1. PICK i \in 1..(Length(k) - 1) :
        /\ old[t] = Chain(k, i) /\ front[t] = Chain(k, i + 1)
        /\ next[old[t]].ptr = Null
  BY DEF Shape
<1>2. Length(k) \in Nat /\ Length(k) > 0 /\ tail = Chain(k, Length(k))
  BY ChainHas DEF Shape
<1>3. /\ i \in 1..Length(k) /\ i + 1 \in 1..Length(k) /\ i # Length(k)
      /\ Length(k) \in 1..Length(k)
  BY <1>2
<1>4. Chain(k, i) # Chain(k, Length(k)) /\ Chain(k, i) \in All
  BY <1>3, ChainHas
<1> QED BY <1>1, <1>2, <1>3, <1>4

(* It loads the tag it must keep.                                          *)
LEMMA LoadStep ==
  ASSUME ListAssumption, Inv, NEW t \in Callers, LoadOld(t)
  PROVE  Inv'
<1>1. TypeOK /\ Owners /\ TagsOK
  BY DEF Inv
<1>2. PICK k \in 0..(Len(order) + 1) : Shape(k) /\ PullerOK(k)
  BY DEF Inv
<1>3. /\ place[t] = "load" /\ word' = [word EXCEPT ![t] = next[old[t]]]
      /\ place' = [place EXCEPT ![t] = "link"]
      /\ UNCHANGED <<tagged, tail, head, next, old, front, got, order>>
  BY DEF LoadOld, Go
<1>4. /\ place'[t] = "link" /\ word'[t] = next[old[t]]
      /\ \A u \in Callers : u # t => place'[u] = place[u] /\ word'[u] = word[u]
  BY <1>1, <1>3 DEF TypeOK
<1>5. \A u \in Callers : Linking(u)' = Linking(u)
  BY <1>3, <1>4 DEF Linking
<1>6. Shape(k)'
  BY <1>2, <1>3, <1>5, SameShape
<1>7. TypeOK'
  <2>1. next[old[t]] \in Word
    <3>1. old[t] \in All
      BY <1>1, <1>2, <1>3, LinkerPlace DEF Linking
    <3> QED BY <3>1, <1>1 DEF TypeOK
  <2>2. word' \in [Callers -> Word] /\ place' \in [Callers -> Places]
    BY <1>1, <1>3, <2>1 DEF TypeOK, Places
  <2> QED BY <1>1, <1>3, <2>2 DEF TypeOK
<1>8. Queued' = Queued
  BY <1>3 DEF Queued
<1>9. Owners'
  <2>1. \A p \in Pushers : p \in Callers
    BY DEF Callers
  <2>2. Puller \in Callers
    BY DEF Callers
  <2>3. \A i \in DOMAIN order : Node(i)' = Node(i)
    BY <1>3 DEF Node
  <2> QED BY <1>1, <1>3, <1>4, <1>5, <1>8, <2>1, <2>2, <2>3 DEF Owners
<1>10. TagsOK'
  <2>1. tagged
    BY <1>1, <1>3 DEF TagsOK
  <2>2. \A i \in DOMAIN order : next'[Node(i)'].tag = order'[i].tag
    BY <1>1, <1>3 DEF TagsOK, Node
  <2>3. \A u \in Callers : place'[u] = "link" => word'[u].tag = next'[old'[u]].tag
    BY <1>1, <1>3, <1>4 DEF TagsOK
  <2> QED BY <1>3, <2>1, <2>2, <2>3 DEF TagsOK
<1>11. PullerOK(k)'
  <2>1. Puller \in Callers
    BY DEF Callers
  <2> QED BY <1>2, <1>3, <1>4, <2>1 DEF PullerOK
<1> QED BY <1>2, <1>3, <1>6, <1>7, <1>9, <1>10, <1>11 DEF Inv

(* It stores its first node and the tag: the chain is linked at its place. *)
LEMMA LinkShape ==
  ASSUME ListAssumption, TypeOK, Owners, NEW k \in 0..(Len(order) + 1), Shape(k),
         NEW t \in Callers, Link(t)
  PROVE  /\ Shape(k)' /\ ~Linking(t)'
         /\ \A u \in Callers : u # t =>
              /\ Linking(u)' = Linking(u) /\ place'[u] = place[u]
              /\ old'[u] = old[u] /\ front'[u] = front[u] /\ word'[u] = word[u]
         /\ \A n \in All : n # old[t] => next'[n] = next[n]
         /\ next'[old[t]] = [ptr |-> front[t], tag |-> word[t].tag]
<1>1. /\ place[t] = "link" /\ Linking(t)
      /\ next' = [next EXCEPT ![old[t]] = [ptr |-> front[t], tag |-> word[t].tag]]
      /\ old' = [old EXCEPT ![t] = Null] /\ word' = [word EXCEPT ![t] = NoWord]
      /\ front' = [front EXCEPT ![t] = Null]
      /\ place' = [place EXCEPT ![t] = IF t = Puller THEN "again" ELSE "idle"]
      /\ UNCHANGED <<tagged, tail, head, got, order>>
  BY DEF Link, Settle, Go, Linking
<1>2. PICK i \in 1..(Length(k) - 1) :
        /\ i \in 1..Length(k) /\ i + 1 \in 1..Length(k) /\ i # Length(k)
        /\ old[t] = Chain(k, i) /\ front[t] = Chain(k, i + 1)
        /\ next[old[t]].ptr = Null /\ old[t] # tail /\ old[t] \in All
  BY <1>1, LinkerPlace
<1>3. /\ \A n \in All : n # old[t] => next'[n] = next[n]
      /\ next'[old[t]] = [ptr |-> front[t], tag |-> word[t].tag]
  BY <1>1, <1>2 DEF TypeOK
<1>4. /\ place'[t] \notin {"load", "link"}
      /\ \A u \in Callers : u # t =>
           /\ place'[u] = place[u] /\ old'[u] = old[u] /\ front'[u] = front[u]
           /\ word'[u] = word[u]
  BY <1>1 DEF TypeOK
<1>5. ~Linking(t)' /\ \A u \in Callers : u # t => Linking(u)' = Linking(u)
  BY <1>4 DEF Linking
<1>6. Length(k)' = Length(k) /\ \A j : Chain(k, j)' = Chain(k, j)
  BY <1>1, SameChain
<1>7. PICK M \in Nat : M = Length(k)
  BY ChainHas
<1>8. /\ M > 0 /\ head = Chain(k, 1) /\ tail = Chain(k, M) /\ next[tail].ptr = Null
      /\ tail \in All /\ \A j \in 1..M : Chain(k, j) \in All
      /\ \A j \in 1..M : j # i => Chain(k, j) # old[t]
  BY <1>2, <1>7, ChainHas DEF Shape, TypeOK
<1>9. ASSUME NEW j \in 1..(M - 1)
      PROVE  \/ next'[Chain(k, j)'].ptr = Chain(k, j + 1)'
             \/ \E u \in Callers : Linking(u)' /\ old'[u] = Chain(k, j)'
  <2>1. CASE j = i
    <3>1. next'[old[t]].ptr = front[t]
      BY <1>3
    <3> QED BY <2>1, <3>1, <1>2, <1>6
  <2>2. CASE j # i
    <3>1. j \in 1..M
      OBVIOUS
    <3>2. next'[Chain(k, j)] = next[Chain(k, j)]
      BY <3>1, <2>2, <1>3, <1>8
    <3>3. CASE next[Chain(k, j)].ptr = Chain(k, j + 1)
      BY <3>2, <3>3, <1>6
    <3>4. CASE \E u \in Callers : Linking(u) /\ old[u] = Chain(k, j)
      <4>1. PICK u \in Callers : Linking(u) /\ old[u] = Chain(k, j)
        BY <3>4
      <4>2. u # t
        BY <4>1, <3>1, <2>2, <1>8
      <4> QED BY <4>1, <4>2, <1>4, <1>5, <1>6
    <3> QED BY <3>3, <3>4, <1>7 DEF Shape
  <2> QED BY <2>1, <2>2
<1>10. ASSUME NEW u \in Callers, Linking(u)'
       PROVE  \E j \in 1..(M - 1) :
                /\ old'[u] = Chain(k, j)' /\ front'[u] = Chain(k, j + 1)'
                /\ next'[old'[u]].ptr = Null
  <2>1. u # t /\ Linking(u) /\ old'[u] = old[u] /\ front'[u] = front[u]
    BY <1>4, <1>5, <1>10
  <2>2. PICK j \in 1..(Length(k) - 1) :
          /\ old[u] = Chain(k, j) /\ front[u] = Chain(k, j + 1)
          /\ next[old[u]].ptr = Null /\ old[u] \in All
    BY <2>1, LinkerPlace
  <2>3. old[u] # old[t]
    BY <2>1, <1>1 DEF Owners
  <2>4. next'[old[u]] = next[old[u]]
    BY <2>2, <2>3, <1>3
  <2> QED BY <2>1, <2>2, <2>4, <1>6, <1>7
<1>11. /\ Length(k)' = M /\ head' = Chain(k, 1)' /\ tail' = Chain(k, M)'
       /\ next'[tail'].ptr = Null
  BY <1>1, <1>2, <1>3, <1>6, <1>7, <1>8
<1>12. Shape(k)'
  BY ONLY <1>7, <1>8, <1>9, <1>10, <1>11, ShapeFrom
<1> QED BY <1>3, <1>4, <1>5, <1>12

LEMMA LinkStep ==
  ASSUME ListAssumption, Inv, NEW t \in Callers, Link(t)
  PROVE  Inv'
<1>1. TypeOK /\ Owners /\ TagsOK
  BY DEF Inv
<1>2. PICK k \in 0..(Len(order) + 1) : Shape(k) /\ PullerOK(k)
  BY DEF Inv
<1>3. /\ Shape(k)' /\ ~Linking(t)'
      /\ \A u \in Callers : u # t =>
           /\ Linking(u)' = Linking(u) /\ place'[u] = place[u]
           /\ old'[u] = old[u] /\ front'[u] = front[u] /\ word'[u] = word[u]
      /\ \A n \in All : n # old[t] => next'[n] = next[n]
      /\ next'[old[t]] = [ptr |-> front[t], tag |-> word[t].tag]
  BY <1>1, <1>2, LinkShape
<1>4. /\ place[t] = "link" /\ Linking(t)
      /\ next' = [next EXCEPT ![old[t]] = [ptr |-> front[t], tag |-> word[t].tag]]
      /\ old' = [old EXCEPT ![t] = Null] /\ word' = [word EXCEPT ![t] = NoWord]
      /\ front' = [front EXCEPT ![t] = Null]
      /\ place' = [place EXCEPT ![t] = IF t = Puller THEN "again" ELSE "idle"]
      /\ UNCHANGED <<tagged, tail, head, got, order>>
  BY DEF Link, Settle, Go, Linking
<1>5. PICK i \in 1..(Length(k) - 1) :
        /\ i \in 1..Length(k) /\ i + 1 \in 1..Length(k)
        /\ old[t] = Chain(k, i) /\ front[t] = Chain(k, i + 1)
        /\ old[t] \in All
  BY <1>1, <1>2, <1>4, LinkerPlace
<1>6. front[t] \in All /\ word[t] \in Word /\ word[t].tag \in Tags
  BY <1>1, <1>2, <1>5, ChainHas DEF TypeOK, Word
<1>7. NoWord \in Word
  BY DEF NoWord, Word, ListAssumption
<1>8. TypeOK'
  <2>1. next' \in [All -> Word]
    BY <1>1, <1>4, <1>6 DEF TypeOK, Word
  <2>2. word' \in [Callers -> Word]
    BY <1>1, <1>4, <1>7 DEF TypeOK
  <2>3. place' \in [Callers -> Places]
    BY <1>1, <1>4 DEF TypeOK, Places
  <2>4. /\ old' \in [Callers -> All \cup {Null}]
        /\ front' \in [Callers -> All \cup {Null}]
    BY <1>1, <1>4 DEF TypeOK
  <2> QED BY <1>1, <1>4, <2>1, <2>2, <2>3, <2>4 DEF TypeOK
<1>9. /\ \A p \in Pushers : p \in Callers /\ p # Puller
      /\ Puller \in Callers
      /\ place'[t] = IF t = Puller THEN "again" ELSE "idle"
  BY <1>1, <1>4 DEF Callers, ListAssumption, TypeOK
<1>10. Owners'
  <2>1. Queued' = Queued /\ \A j \in DOMAIN order : Node(j)' = Node(j)
    BY <1>4 DEF Queued, Node
  <2>2. \A p \in Pushers : place'[p] \in {"idle", "load", "link"}
    BY <1>1, <1>3, <1>9 DEF Owners
  <2>3. place'[Puller] \notin {"idle", "empty", "busy"} => got' = Null
    BY <1>1, <1>3, <1>4, <1>9 DEF Owners
  <2>4. \A u \in Callers : Linking(u)' => (front'[u] = Stable <=> u = Puller)
    BY <1>1, <1>3 DEF Owners
  <2>5. \A u, v \in Callers : Linking(u)' /\ Linking(v)' /\ u # v
                                => old'[u] # old'[v]
    BY <1>1, <1>3 DEF Owners
  <2> QED BY <1>1, <1>4, <2>1, <2>2, <2>3, <2>4, <2>5 DEF Owners
<1>11. \A n \in All : next'[n].tag = next[n].tag
  BY <1>1, <1>3, <1>4 DEF TagsOK
<1>12. TagsOK'
  <2>1. \A j \in DOMAIN order : next'[Node(j)].tag = order[j].tag
    BY <1>1, <1>11, OrderHas DEF TagsOK, All
  <2>2. ASSUME NEW u \in Callers, place'[u] = "link"
        PROVE  word'[u].tag = next'[old'[u]].tag
    <3>1. u # t /\ place[u] = "link" /\ old'[u] = old[u] /\ word'[u] = word[u]
      BY <1>3, <1>9, <2>2
    <3>2. old[u] \in All
      BY <1>1, <1>2, <3>1, LinkerPlace DEF Linking
    <3> QED BY <3>1, <3>2, <1>1, <1>11 DEF TagsOK
  <2>3. ~tagged => next'[Stable].tag = 0 /\ \A j \in DOMAIN order : order[j].tag = 0
    BY <1>1, <1>11 DEF TagsOK, All
  <2>4. NoWord.tag = 0
    BY DEF NoWord
  <2>5. word'[t] = NoWord
    BY <1>1, <1>4 DEF TypeOK
  <2>6. ~tagged => \A u \in Callers : place'[u] # "load" /\ word'[u].tag = 0
    BY <1>1, <1>3, <1>9, <2>4, <2>5 DEF TagsOK
  <2> QED BY <1>4, <2>1, <2>2, <2>3, <2>6 DEF TagsOK, Node
<1>13. PullerOK(k)'
  <2>1. CASE t = Puller
    BY <2>1, <1>2, <1>4, <1>9 DEF PullerOK
  <2>2. CASE t # Puller
    <3>1. place'[Puller] = place[Puller]
      BY <2>2, <1>3, <1>9
    <3>2. place[Puller] = "push" => next'[Stable] = next[Stable]
      <4>1. ASSUME place[Puller] = "push"
            PROVE  old[t] # Stable
        <5>1. k = 0
          BY <1>2, <4>1 DEF PullerOK
        <5> QED BY <5>1, <1>1, <1>5, ChainHas
      <4> QED BY <4>1, <1>3 DEF All
    <3> QED BY <3>1, <3>2, <1>2 DEF PullerOK
  <2> QED BY <2>1, <2>2
<1> QED BY <1>2, <1>3, <1>4, <1>8, <1>10, <1>12, <1>13 DEF Inv

---------------------------------------------------------------------------
(* The consumer.                                                           *)

(* What its moves change of the threads.                                   *)
LEMMA PullerGoes ==
  ASSUME ListAssumption, TypeOK, NEW w \in Places \ {"load", "link"},
         Go(Puller, w), ~Linking(Puller)
  PROVE  /\ Puller \in Callers /\ place'[Puller] = w
         /\ place' \in [Callers -> Places]
         /\ \A t \in Callers : t # Puller => place'[t] = place[t]
         /\ \A p \in Pushers : p \in Callers /\ place'[p] = place[p]
         /\ \A t \in Callers : Linking(t)' = Linking(t)
         /\ \A t \in Callers :
              (place'[t] = "link") = (place[t] = "link")
              /\ (place'[t] = "load") = (place[t] = "load")
<1>1. Puller \in Callers /\ \A p \in Pushers : p \in Callers /\ p # Puller
  BY DEF Callers, ListAssumption
<1>2. place \in [Callers -> Places] /\ place' = [place EXCEPT ![Puller] = w]
  BY DEF TypeOK, Go
<1>3. /\ place'[Puller] = w /\ place' \in [Callers -> Places]
      /\ \A t \in Callers : t # Puller => place'[t] = place[t]
  BY <1>1, <1>2
<1>4. w \notin {"load", "link"} /\ place[Puller] \notin {"load", "link"}
  BY DEF Linking
<1>5. \A t \in Callers :
        (place'[t] = "link") = (place[t] = "link")
        /\ (place'[t] = "load") = (place[t] = "load")
  BY <1>3, <1>4
<1>6. \A t \in Callers : Linking(t)' = Linking(t)
  BY <1>3, <1>4 DEF Linking
<1> QED BY <1>1, <1>3, <1>5, <1>6

(* A move that writes nothing.                                             *)
LEMMA LookStep ==
  ASSUME ListAssumption, TypeOK, Owners, TagsOK,
         NEW k \in 0..(Len(order) + 1), Shape(k),
         NEW w \in {"empty", "busy", "tail", "renew"},
         Go(Puller, w), ~Linking(Puller), got = Null,
         w = "tail" => k \notin {1, 2}, w = "renew" => k = 0,
         UNCHANGED <<tagged, tail, head, next, old, word, front, got, order>>
  PROVE  Inv'
<1>1. w \in Places \ {"load", "link"}
  BY DEF Places
<1>2. /\ Puller \in Callers /\ place'[Puller] = w
      /\ place' \in [Callers -> Places]
      /\ \A p \in Pushers : p \in Callers /\ place'[p] = place[p]
      /\ \A t \in Callers : Linking(t)' = Linking(t)
      /\ \A t \in Callers : /\ (place'[t] = "link") = (place[t] = "link")
                            /\ (place'[t] = "load") = (place[t] = "load")
  BY <1>1, PullerGoes
<1>3. Shape(k)'
  BY <1>2, SameShape
<1>4. TypeOK'
  BY <1>2 DEF TypeOK
<1>5. Queued' = Queued /\ \A i \in DOMAIN order : Node(i)' = Node(i)
  BY DEF Queued, Node
<1>6. Owners'
  BY <1>2, <1>5 DEF Owners
<1>7. TagsOK'
  BY <1>2, <1>5 DEF TagsOK
<1>8. PullerOK(k)'
  BY <1>2 DEF PullerOK
<1> QED BY <1>3, <1>4, <1>6, <1>7, <1>8 DEF Inv

(* The stable node is skipped: the chain begins at the next node.          *)
LEMMA SkipShape ==
  ASSUME ListAssumption, TypeOK, Owners,
         NEW k \in 0..(Len(order) + 1), Shape(k),
         head = Stable, next[Stable].ptr # Null, head' = next[Stable].ptr,
         UNCHANGED <<tail, next, old, front, order>>,
         \A t \in Callers : Linking(t)' = Linking(t)
  PROVE  Shape(0)'
<1>1. /\ Length(k) \in Nat /\ Length(k) > 0 /\ head = Chain(k, 1)
      /\ tail = Chain(k, Length(k)) /\ next[tail].ptr = Null
  BY ChainHas DEF Shape
<1>2. 1 \in 1..Length(k) /\ k = 1
  <2>1. 1 \in 1..Length(k)
    BY <1>1
  <2> QED BY <1>1, <2>1, ChainHas
<1>3. Length(k) # 1
  BY <1>1
<1>4. PICK n \in Nat : n = Len(order)
  BY OrderHas
<1>5. Length(k) = n + 1 /\ n > 0 /\ 0 \in 0..(Len(order) + 1)
  BY <1>1, <1>2, <1>3, <1>4 DEF Length
<1>6. \A i \in 1..n : Chain(0, i)' = Chain(k, i + 1) /\ Chain(0, i) = Chain(k, i + 1)
  BY <1>2, <1>4 DEF Chain, Node
<1>7. \A t \in Callers : Linking(t) => old[t] # Stable
  <2>1. ASSUME NEW t \in Callers, Linking(t)
        PROVE  next[old[t]].ptr = Null
    BY <2>1, LinkerPlace
  <2> QED BY <2>1
<1>8. head' = Chain(0, 1)'
  <2>1. 1 \in 1..(Length(k) - 1) /\ Chain(k, 1) = Stable /\ 1 \in 1..n
    BY <1>1, <1>5
  <2>2. next[Stable].ptr = Chain(k, 1 + 1)
    BY <2>1, <1>7 DEF Shape
  <2> QED BY <2>1, <2>2, <1>6
<1>9. Length(0)' = n /\ tail' = Chain(0, n)' /\ next'[tail'].ptr = Null
  <2>1. n \in 1..n
    BY <1>5
  <2> QED BY <2>1, <1>1, <1>4, <1>5, <1>6 DEF Length
<1>10. ASSUME NEW i \in 1..(n - 1)
       PROVE  \/ next'[Chain(0, i)'].ptr = Chain(0, i + 1)'
              \/ \E t \in Callers : Linking(t)' /\ old'[t] = Chain(0, i)'
  <2>1. i \in 1..n /\ i + 1 \in 1..n /\ i + 1 \in 1..(Length(k) - 1)
    BY <1>4, <1>5
  <2>2. \/ next[Chain(k, i + 1)].ptr = Chain(k, (i + 1) + 1)
        \/ \E t \in Callers : Linking(t) /\ old[t] = Chain(k, i + 1)
    BY <2>1 DEF Shape
  <2>3. Chain(0, i)' = Chain(k, i + 1) /\ Chain(0, i + 1)' = Chain(k, (i + 1) + 1)
    BY <2>1, <1>6
  <2> QED BY <2>2, <2>3
<1>11. ASSUME NEW t \in Callers, Linking(t)'
       PROVE  \E i \in 1..(n - 1) :
                /\ old'[t] = Chain(0, i)' /\ front'[t] = Chain(0, i + 1)'
                /\ next'[old'[t]].ptr = Null
  <2>1. PICK j \in 1..(Length(k) - 1) :
          /\ old[t] = Chain(k, j) /\ front[t] = Chain(k, j + 1)
          /\ next[old[t]].ptr = Null
    BY <1>11 DEF Shape
  <2>2. j # 1
    BY <1>1, <1>7, <1>11, <2>1
  <2>3. PICK i \in 1..(n - 1) : j = i + 1
    BY <2>2, <1>5
  <2>4. i \in 1..n /\ i + 1 \in 1..n
    BY <2>3, <1>4
  <2>5. Chain(0, i)' = Chain(k, j) /\ Chain(0, i + 1)' = Chain(k, j + 1)
    BY <2>3, <2>4, <1>6
  <2> QED BY <2>1, <2>5
<1> QED BY ONLY <1>4, <1>5, <1>8, <1>9, <1>10, <1>11, ShapeFrom

(* The first node is given: it leaves the chain, which loses its place.    *)
LEMMA GiveShape ==
  ASSUME ListAssumption, TypeOK, Owners,
         NEW k \in 0..(Len(order) + 1), Shape(k),
         head # Stable, next[head].ptr # Null,
         Give(head, next[head].ptr), ~Linking(Puller),
         UNCHANGED <<tail, next, old, front>>
  PROVE  /\ Shape(IF k = 0 THEN 0 ELSE k - 1)'
         /\ k # 1 /\ (k # 0 => k - 1 \in 0..(Len(order') + 1))
         /\ Len(order) \in Nat /\ Len(order) > 0 /\ head = Node(1)
         /\ order' \in Seq([node : Nodes, tag : Tags])
         /\ Len(order') = Len(order) - 1 /\ DOMAIN order' = 1..(Len(order) - 1)
         /\ \A i \in 1..(Len(order) - 1) : order'[i] = order[i + 1]
         /\ \A t \in Callers : Linking(t) => old[t] # head
<1>1. /\ Length(k) \in Nat /\ Length(k) > 0 /\ head = Chain(k, 1)
      /\ tail = Chain(k, Length(k)) /\ next[tail].ptr = Null
  BY ChainHas DEF Shape
<1>2. /\ head' = next[head].ptr /\ order' = SubSeq(order, 2, Len(order))
      /\ Go(Puller, "idle") /\ "idle" \in Places \ {"load", "link"}
  BY DEF Give, Places
<1>3. \A t \in Callers : Linking(t)' = Linking(t)
  BY <1>2, PullerGoes
<1>4. 1 \in 1..Length(k) /\ k # 1
  <2>1. 1 \in 1..Length(k)
    BY <1>1
  <2> QED BY <1>1, <2>1, ChainHas
<1>5. Length(k) # 1
  BY <1>1
<1>6. PICK n \in Nat : n = Len(order)
  BY OrderHas
<1>7. n > 0 /\ head = Node(1)
  <2>1. n > 0
    BY <1>1, <1>4, <1>5, <1>6 DEF Length
  <2>2. head = Node(1)
    BY <1>1, <1>4 DEF Chain
  <2> QED BY <2>1, <2>2
<1>8. /\ order' \in Seq([node : Nodes, tag : Tags])
      /\ Len(order') = n - 1
      /\ \A i \in 1..(n - 1) : order'[i] = order[i + 1]
  <2>1. \A i \in 2..n : order[i] \in [node : Nodes, tag : Tags]
    <3>1. order \in Seq([node : Nodes, tag : Tags])
      BY DEF TypeOK
    <3>2. \A i \in 1..n : order[i] \in [node : Nodes, tag : Tags]
      BY <1>6, <3>1, ElementOfSeq
    <3> QED BY <3>2
  <2> DEFINE Entry == [node : Nodes, tag : Tags]
  <2>2. \A i \in 2..n : order[i] \in Entry
    BY <2>1
  <2> HIDE DEF Entry
  <2>3. /\ SubSeq(order, 2, n) \in Seq(Entry)
        /\ Len(SubSeq(order, 2, n)) = IF 2 <= n THEN n - 2 + 1 ELSE 0
        /\ \A i \in 1..(n - 2 + 1) : SubSeq(order, 2, n)[i] = order[2 + i - 1]
    BY ONLY <2>2, <1>6, SubSeqProperties
  <2>4. Len(SubSeq(order, 2, n)) = n - 1
    BY <2>3, <1>7
  <2>5. \A i \in 1..(n - 1) : SubSeq(order, 2, n)[i] = order[i + 1]
    <3>1. n - 2 + 1 = n - 1 /\ \A i \in 1..(n - 1) : 2 + i - 1 = i + 1
      OBVIOUS
    <3> QED BY <2>3, <3>1
  <2> QED BY <2>3, <2>4, <2>5, <1>2, <1>6 DEF Entry
<1>9. DOMAIN order' = 1..(n - 1)
  BY <1>8, LenProperties
<1>10. PICK c : c = IF k = 0 THEN 0 ELSE k - 1
  OBVIOUS
<1>11. /\ \A i \in 1..(n - 1) : Node(i)' = Node(i + 1)
       /\ Length(k) = (IF k = 0 THEN n ELSE n + 1)
       /\ c \in 0..n /\ (c = 0 <=> k = 0) /\ (k # 0 => c = k - 1)
  BY <1>4, <1>6, <1>8, <1>10 DEF Node, Length
<1>12. PICK M \in Nat : M = Length(k) - 1
  BY <1>1
<1>13. M > 0 /\ Length(c)' = M
  BY <1>1, <1>5, <1>8, <1>11, <1>12 DEF Length
<1>14. \A i \in 1..M : Chain(c, i)' = Chain(k, i + 1)
  BY <1>4, <1>11, <1>12 DEF Chain
<1>15. \A t \in Callers : Linking(t) => old[t] # head
  <2>1. ASSUME NEW t \in Callers, Linking(t)
        PROVE  next[old[t]].ptr = Null
    BY <2>1, LinkerPlace
  <2> QED BY <2>1
<1>16. head' = Chain(c, 1)'
  <2>1. 1 \in 1..(Length(k) - 1) /\ 1 \in 1..M
    BY <1>12, <1>13
  <2>2. next[head].ptr = Chain(k, 1 + 1)
    BY <2>1, <1>1, <1>15 DEF Shape
  <2> QED BY <2>1, <2>2, <1>2, <1>14
<1>17. tail' = Chain(c, M)' /\ next'[tail'].ptr = Null
  <2>1. M \in 1..M /\ M + 1 = Length(k)
    BY <1>1, <1>12, <1>13
  <2> QED BY <2>1, <1>1, <1>14
<1>18. ASSUME NEW i \in 1..(M - 1)
       PROVE  \/ next'[Chain(c, i)'].ptr = Chain(c, i + 1)'
              \/ \E t \in Callers : Linking(t)' /\ old'[t] = Chain(c, i)'
  <2>1. i \in 1..M /\ i + 1 \in 1..M /\ i + 1 \in 1..(Length(k) - 1)
    BY <1>12
  <2>2. \/ next[Chain(k, i + 1)].ptr = Chain(k, (i + 1) + 1)
        \/ \E t \in Callers : Linking(t) /\ old[t] = Chain(k, i + 1)
    BY <2>1 DEF Shape
  <2>3. Chain(c, i)' = Chain(k, i + 1) /\ Chain(c, i + 1)' = Chain(k, (i + 1) + 1)
    BY <2>1, <1>14
  <2> QED BY <2>2, <2>3, <1>3
<1>19. ASSUME NEW t \in Callers, Linking(t)'
       PROVE  \E i \in 1..(M - 1) :
                /\ old'[t] = Chain(c, i)' /\ front'[t] = Chain(c, i + 1)'
                /\ next'[old'[t]].ptr = Null
  <2>0. Linking(t)
    BY <1>3, <1>19
  <2>1. PICK j \in 1..(Length(k) - 1) :
          /\ old[t] = Chain(k, j) /\ front[t] = Chain(k, j + 1)
          /\ next[old[t]].ptr = Null
    BY <2>0 DEF Shape
  <2>2. j # 1
    BY <1>1, <1>15, <2>0, <2>1
  <2>3. PICK i \in 1..(M - 1) : j = i + 1
    BY <2>2, <1>1, <1>12
  <2>4. i \in 1..M /\ i + 1 \in 1..M
    BY <2>3
  <2>5. Chain(c, i)' = Chain(k, j) /\ Chain(c, i + 1)' = Chain(k, j + 1)
    BY <2>3, <2>4, <1>14
  <2> QED BY <2>1, <2>5
<1>20. Shape(c)'
  BY ONLY <1>12, <1>13, <1>16, <1>17, <1>18, <1>19, ShapeFrom
<1>21. Shape(IF k = 0 THEN 0 ELSE k - 1)'
  BY <1>10, <1>20
<1>22. k # 0 => k - 1 \in 0..(Len(order') + 1)
  BY <1>8, <1>11
<1> QED BY <1>4, <1>6, <1>7, <1>8, <1>9, <1>15, <1>21, <1>22

LEMMA GiveStep ==
  ASSUME ListAssumption, TypeOK, Owners, TagsOK,
         NEW k \in 0..(Len(order) + 1), Shape(k),
         head # Stable, next[head].ptr # Null,
         Give(head, next[head].ptr), ~Linking(Puller), got = Null,
         UNCHANGED <<tagged, tail, next, old, word, front>>
  PROVE  Inv'
<1>1. PICK c : c = IF k = 0 THEN 0 ELSE k - 1
  OBVIOUS
<1>2. /\ Shape(c)' /\ (k # 0 => k - 1 \in 0..(Len(order') + 1))
      /\ Len(order) \in Nat /\ Len(order) > 0 /\ head = Node(1)
      /\ order' \in Seq([node : Nodes, tag : Tags])
      /\ Len(order') = Len(order) - 1 /\ DOMAIN order' = 1..(Len(order) - 1)
      /\ \A i \in 1..(Len(order) - 1) : order'[i] = order[i + 1]
      /\ \A t \in Callers : Linking(t) => old[t] # head
  BY <1>1, GiveShape
<1>3. c \in 0..(Len(order') + 1)
  BY <1>1, <1>2
<1>4. /\ got' = head /\ head' = next[head].ptr /\ Go(Puller, "idle")
      /\ "idle" \in Places \ {"load", "link"}
  BY DEF Give, Places
<1>5. /\ Puller \in Callers /\ place'[Puller] = "idle"
      /\ place' \in [Callers -> Places]
      /\ \A p \in Pushers : p \in Callers /\ place'[p] = place[p]
      /\ \A t \in Callers : Linking(t)' = Linking(t)
      /\ \A t \in Callers : /\ (place'[t] = "link") = (place[t] = "link")
                            /\ (place'[t] = "load") = (place[t] = "load")
  BY <1>4, PullerGoes
<1>6. DOMAIN order = 1..Len(order) /\ \A i \in 1..Len(order) : Node(i) \in Nodes
  BY OrderHas
<1>7. TypeOK'
  <2>1. head \in Nodes
    BY <1>2, <1>6
  <2>2. next[head].ptr \in All
    BY <2>1 DEF TypeOK, Word, All
  <2> QED BY <1>2, <1>4, <1>5, <2>1, <2>2 DEF TypeOK
<1>8. \A i \in DOMAIN order' :
        Node(i)' = Node(i + 1) /\ order'[i].tag = order[i + 1].tag
        /\ i + 1 \in DOMAIN order /\ i + 1 # 1
  BY <1>2, <1>6 DEF Node
<1>9. Owners'
  <2>1. ASSUME NEW i \in DOMAIN order', NEW j \in DOMAIN order', i # j
        PROVE  Node(i)' # Node(j)'
    <3>1. i + 1 # j + 1
      BY <1>2, <2>1
    <3> QED BY <3>1, <1>8 DEF Owners
  <2>2. got' \notin Queued'
    <3>1. ASSUME NEW i \in DOMAIN order', head = Node(i)'
          PROVE  FALSE
      <4>1. 1 \in DOMAIN order
        BY <1>2, <1>6
      <4>2. Node(i)' = Node(i + 1) /\ i + 1 \in DOMAIN order /\ i + 1 # 1
        BY <1>8
      <4>3. Node(i + 1) # Node(1)
        BY <4>1, <4>2 DEF Owners
      <4> QED BY <3>1, <4>2, <4>3, <1>2
    <3> QED BY <3>1, <1>4 DEF Queued, Node
  <2> QED BY <2>1, <2>2, <1>5 DEF Owners
<1>10. TagsOK'
  <2>1. \A i \in DOMAIN order' : next'[Node(i)'].tag = order'[i].tag
    BY <1>8 DEF TagsOK
  <2>2. \A t \in Callers : place'[t] = "link" => word'[t].tag = next'[old'[t]].tag
    BY <1>5 DEF TagsOK
  <2>3. ~tagged => next'[Stable].tag = 0 /\ \A i \in DOMAIN order' : order'[i].tag = 0
    BY <1>8 DEF TagsOK
  <2>4. ~tagged => \A t \in Callers : place'[t] # "load" /\ word'[t].tag = 0
    BY <1>5 DEF TagsOK
  <2> QED BY <2>1, <2>2, <2>3, <2>4 DEF TagsOK
<1>11. PullerOK(c)'
  BY <1>5 DEF PullerOK
<1> QED BY <1>2, <1>3, <1>7, <1>9, <1>10, <1>11 DEF Inv

(* The first load of consume.                                              *)
LEMMA ConsumeStep ==
  ASSUME ListAssumption, Inv, Consume
  PROVE  Inv'
<1>1. TypeOK /\ Owners /\ TagsOK
  BY DEF Inv
<1>2. PICK k \in 0..(Len(order) + 1) : Shape(k) /\ PullerOK(k)
  BY DEF Inv
<1>3. /\ place[Puller] \in {"idle", "empty", "busy"} /\ got = Null
      /\ UNCHANGED <<tagged, tail, next, old, word, front>>
  BY DEF Consume
<1>4. ~Linking(Puller)
  BY <1>3 DEF Linking
<1>5. Length(k) \in Nat /\ Length(k) > 0 /\ head = Chain(k, 1) /\ 1 \in 1..Length(k)
  BY <1>1, <1>2, ChainHas DEF Shape
<1>6. head = Stable <=> k = 1
  BY <1>1, <1>5, ChainHas
<1>7. CASE SeesNothing /\ Go(Puller, "empty") /\ UNCHANGED <<head, got, order>>
  BY <1>1, <1>2, <1>3, <1>4, <1>7, LookStep
<1>8. CASE /\ head = Stable /\ next[head].ptr # Null /\ head' = next[head].ptr
           /\ Go(Puller, "second") /\ UNCHANGED <<got, order>>
  <2>1. "second" \in Places \ {"load", "link"}
    BY DEF Places
  <2>2. /\ Puller \in Callers /\ place'[Puller] = "second"
        /\ place' \in [Callers -> Places]
        /\ \A p \in Pushers : p \in Callers /\ place'[p] = place[p]
        /\ \A t \in Callers : Linking(t)' = Linking(t)
        /\ \A t \in Callers : /\ (place'[t] = "link") = (place[t] = "link")
                              /\ (place'[t] = "load") = (place[t] = "load")
    BY <1>1, <1>4, <1>8, <2>1, PullerGoes
  <2>3. Shape(0)'
    BY <1>1, <1>2, <1>3, <1>8, <2>2, SkipShape
  <2>4. TypeOK'
    <3>1. head' \in All
      BY <1>1, <1>8 DEF TypeOK, Word, All
    <3> QED BY <1>1, <1>3, <1>8, <2>2, <3>1 DEF TypeOK
  <2>5. Queued' = Queued /\ \A i \in DOMAIN order : Node(i)' = Node(i)
    BY <1>8 DEF Queued, Node
  <2>6. Owners'
    BY <1>1, <1>3, <1>8, <2>2, <2>5 DEF Owners
  <2>7. TagsOK'
    BY <1>1, <1>3, <1>8, <2>2, <2>5 DEF TagsOK
  <2>8. PullerOK(0)'
    BY <2>2 DEF PullerOK
  <2>9. 0 \in 0..(Len(order') + 1)
    BY <1>1, <1>8, OrderHas
  <2> QED BY <2>3, <2>4, <2>6, <2>7, <2>8, <2>9 DEF Inv
<1>9. CASE head # Stable /\ next[head].ptr # Null /\ Give(head, next[head].ptr)
  BY <1>1, <1>2, <1>3, <1>4, <1>9, GiveStep
<1>10. CASE /\ head # Stable /\ next[head].ptr = Null
            /\ Go(Puller, "tail") /\ UNCHANGED <<head, got, order>>
  <2>1. ASSUME k = 2
        PROVE  FALSE
    <3>1. Length(k) = Len(order) + 1 /\ Len(order) \in Nat /\ k <= Len(order) + 1
      BY <1>1, <2>1, OrderHas DEF Length
    <3>2. 1 \in 1..(Length(k) - 1) /\ 2 \in 1..Length(k) /\ 1 + 1 = 2
      BY <2>1, <3>1
    <3>3. Chain(k, 2) = Stable /\ Stable # Null
      BY <2>1, <3>2, <1>1, ChainHas
    <3>4. PICK t \in Callers : Linking(t) /\ old[t] = Chain(k, 1)
      BY <3>2, <3>3, <1>2, <1>5, <1>10 DEF Shape
    <3>5. PICK i \in 1..(Length(k) - 1) :
            /\ i \in 1..Length(k) /\ old[t] = Chain(k, i)
            /\ front[t] = Chain(k, i + 1)
      BY <3>4, <1>1, <1>2, LinkerPlace
    <3>6. i = 1
      BY <3>4, <3>5, <1>1, <1>5, ChainHas
    <3>7. front[t] = Stable
      BY <3>2, <3>3, <3>5, <3>6
    <3>8. t = Puller
      BY <3>4, <3>7, <1>1 DEF Owners
    <3> QED BY <3>4, <3>8, <1>4
  <2> QED BY <2>1, <1>1, <1>2, <1>3, <1>4, <1>6, <1>10, LookStep
<1> QED BY <1>7, <1>8, <1>9, <1>10 DEF Consume

(* The loads after it.                                                     *)
LEMMA LaterLoads ==
  ASSUME ListAssumption, Inv, Skipped \/ LookTail \/ LookAgain
  PROVE  Inv'
<1>1. TypeOK /\ Owners /\ TagsOK
  BY DEF Inv
<1>2. PICK k \in 0..(Len(order) + 1) : Shape(k) /\ PullerOK(k)
  BY DEF Inv
<1>3. /\ place[Puller] \in {"second", "tail", "again"}
      /\ UNCHANGED <<tagged, tail, next, old, word, front>>
  BY DEF Skipped, LookTail, LookAgain
<1>4. ~Linking(Puller) /\ got = Null
  BY <1>1, <1>3 DEF Linking, Owners
<1>5. /\ Length(k) \in Nat /\ Length(k) > 0 /\ head = Chain(k, 1)
      /\ tail = Chain(k, Length(k)) /\ 1 \in 1..Length(k)
  BY <1>1, <1>2, ChainHas DEF Shape
<1>6. head = Stable <=> k = 1
  BY <1>1, <1>5, ChainHas
<1>7. CASE Skipped
  <2>1. k = 0
    BY <1>2, <1>7 DEF Skipped, PullerOK
  <2>2. CASE next[head].ptr # Null
    BY <2>1, <2>2, <1>1, <1>2, <1>3, <1>4, <1>6, <1>7, GiveStep DEF Skipped
  <2>3. CASE next[head].ptr = Null
    BY <2>1, <2>3, <1>1, <1>2, <1>3, <1>4, <1>7, LookStep DEF Skipped
  <2> QED BY <2>2, <2>3
<1>8. CASE LookTail
  <2>1. /\ k \notin {1, 2} /\ Go(Puller, IF head = tail THEN "renew" ELSE "busy")
        /\ UNCHANGED <<head, got, order>>
    BY <1>2, <1>8 DEF LookTail, PullerOK
  <2>2. CASE head = tail
    <3>1. Length(k) \in 1..Length(k)
      BY <1>5
    <3>2. Length(k) = 1
      <4>1. \A i, j \in 1..Length(k) : i # j => Chain(k, i) # Chain(k, j)
        BY <1>1, ChainHas
      <4> QED BY <4>1, <3>1, <2>2, <1>5
    <3>3. k = 0
      BY <2>1, <3>2, <1>1, OrderHas DEF Length
    <3> QED BY <2>1, <2>2, <3>3, <1>1, <1>2, <1>3, <1>4, LookStep
  <2>3. CASE head # tail
    BY <2>1, <2>3, <1>1, <1>2, <1>3, <1>4, LookStep
  <2> QED BY <2>2, <2>3
<1>9. CASE LookAgain
  <2>1. k # 1
    BY <1>2, <1>9 DEF LookAgain, PullerOK
  <2>2. CASE next[head].ptr # Null
    BY <2>1, <2>2, <1>1, <1>2, <1>3, <1>4, <1>6, <1>9, GiveStep DEF LookAgain
  <2>3. CASE next[head].ptr = Null
    BY <2>3, <1>1, <1>2, <1>3, <1>4, <1>9, LookStep DEF LookAgain
  <2> QED BY <2>2, <2>3
<1> QED BY <1>7, <1>8, <1>9

(* The stable node is renewed while it is in no chain.                     *)
LEMMA RenewStep ==
  ASSUME ListAssumption, Inv, RenewStable
  PROVE  Inv'
<1>1. TypeOK /\ Owners /\ TagsOK
  BY DEF Inv
<1>2. PICK k \in 0..(Len(order) + 1) : Shape(k) /\ PullerOK(k)
  BY DEF Inv
<1>3. /\ place[Puller] = "renew" /\ next' = [next EXCEPT ![Stable] = NoWord]
      /\ Go(Puller, "push")
      /\ UNCHANGED <<tagged, tail, head, old, word, front, got, order>>
      /\ "push" \in Places \ {"load", "link"} /\ ~Linking(Puller)
  BY DEF RenewStable, Places, Linking
<1>4. k = 0 /\ got = Null
  BY <1>1, <1>2, <1>3 DEF PullerOK, Owners
<1>5. /\ Puller \in Callers /\ place'[Puller] = "push"
      /\ place' \in [Callers -> Places]
      /\ \A p \in Pushers : p \in Callers /\ place'[p] = place[p]
      /\ \A t \in Callers : Linking(t)' = Linking(t)
      /\ \A t \in Callers : /\ (place'[t] = "link") = (place[t] = "link")
                            /\ (place'[t] = "load") = (place[t] = "load")
  BY <1>1, <1>3, PullerGoes
<1>6. /\ next'[Stable] = NoWord /\ NoWord.ptr = Null /\ NoWord.tag = 0
      /\ \A n \in All : n # Stable => next'[n] = next[n]
  BY <1>1, <1>3 DEF TypeOK, All, NoWord
<1>7. \A i \in 1..Length(k) : Chain(k, i) \in All /\ Chain(k, i) # Stable
  BY <1>1, <1>4, ChainHas
<1>8. /\ Length(k) \in Nat /\ tail = Chain(k, Length(k)) /\ Length(k) \in 1..Length(k)
  BY <1>1, <1>2, ChainHas DEF Shape
<1>9. Shape(k)'
  <2>1. next'[tail].ptr = next[tail].ptr
    BY <1>6, <1>7, <1>8
  <2>2. \A i \in 1..(Length(k) - 1) : next'[Chain(k, i)] = next[Chain(k, i)]
    <3>1. \A i \in 1..(Length(k) - 1) : i \in 1..Length(k)
      BY <1>8
    <3> QED BY <3>1, <1>6, <1>7
  <2> QED BY <2>1, <2>2, <1>2, <1>3, <1>5, SameShape
<1>10. TypeOK'
  <2>1. next' \in [All -> Word]
    BY <1>1, <1>3 DEF TypeOK, NoWord, Word, ListAssumption
  <2> QED BY <2>1, <1>1, <1>3, <1>5 DEF TypeOK
<1>11. Queued' = Queued /\ \A i \in DOMAIN order : Node(i)' = Node(i)
  BY <1>3 DEF Queued, Node
<1>12. Owners'
  BY <1>1, <1>3, <1>4, <1>5, <1>11 DEF Owners
<1>13. TagsOK'
  <2>1. ASSUME NEW i \in DOMAIN order
        PROVE  next'[Node(i)].tag = order[i].tag
    <3>1. Node(i) \in All /\ Node(i) # Stable
      BY <1>1, OrderHas DEF All, ListAssumption
    <3> QED BY <3>1, <1>1, <1>6 DEF TagsOK
  <2>2. ASSUME NEW t \in Callers, place'[t] = "link"
        PROVE  word'[t].tag = next'[old'[t]].tag
    <3>1. place[t] = "link" /\ Linking(t)
      BY <2>2, <1>5 DEF Linking
    <3>2. \E i \in 1..Length(k) : old[t] = Chain(k, i)
      BY <3>1, <1>1, <1>2, LinkerPlace
    <3>3. next'[old[t]] = next[old[t]]
      BY <3>2, <1>6, <1>7
    <3> QED BY <3>1, <3>3, <1>1, <1>3 DEF TagsOK
  <2>3. ~tagged => \A i \in DOMAIN order : order[i].tag = 0
    BY <1>1 DEF TagsOK
  <2>4. ~tagged => \A t \in Callers : place'[t] # "load" /\ word'[t].tag = 0
    BY <1>1, <1>3, <1>5 DEF TagsOK
  <2> QED BY <2>1, <2>2, <2>3, <2>4, <1>3, <1>6, <1>11 DEF TagsOK
<1>14. PullerOK(k)'
  BY <1>4, <1>5, <1>6 DEF PullerOK
<1> QED BY <1>2, <1>3, <1>9, <1>10, <1>12, <1>13, <1>14 DEF Inv

(* The stable node is exchanged with the tail, and ends the chain.         *)
LEMMA PushStep ==
  ASSUME ListAssumption, Inv, PushStable
  PROVE  Inv'
<1>1. TypeOK /\ Owners /\ TagsOK
  BY DEF Inv
<1>2. /\ place[Puller] = "push" /\ Exchange(Puller, Stable, Stable)
      /\ UNCHANGED <<tagged, head, next, word, got, order>>
      /\ Puller \in Callers /\ ~Linking(Puller) /\ Stable \in All
      /\ \A p \in Pushers : p \in Callers /\ p # Puller
  BY DEF PushStable, Callers, Linking, All, ListAssumption
<1>3. PICK l \in 0..(Len(order) + 1) : Shape(l) /\ PullerOK(l)
  BY DEF Inv
<1>4. /\ l = 0 /\ Shape(0) /\ next[Stable].ptr = Null /\ got = Null
      /\ 0 \in 0..(Len(order) + 1)
  BY <1>1, <1>2, <1>3 DEF PullerOK, Owners
<1>5. PICK n \in Nat : n = Len(order)
  BY <1>1, OrderHas
<1>6. /\ n > 0 /\ head = Chain(0, 1) /\ tail = Chain(0, n) /\ next[tail].ptr = Null
      /\ Length(0) = n
      /\ \A i \in 1..n : Chain(0, i) \in All /\ Chain(0, i) # Stable
      /\ \A i, j \in 1..n : i # j => Chain(0, i) # Chain(0, j)
  BY <1>1, <1>4, <1>5, ChainHas DEF Shape, Length
<1>7. PICK k \in Nat : k = n + 1
  BY <1>5
<1>8. /\ Length(k)' = n + 1 /\ Chain(k, k)' = Stable
      /\ \A i \in 1..n : Chain(k, i)' = Chain(0, i)
  BY <1>2, <1>5, <1>7 DEF Length, Chain, Node
<1>9. /\ Linking(Puller)' /\ place'[Puller] = (IF tagged THEN "load" ELSE "link")
      /\ old'[Puller] = tail /\ front'[Puller] = Stable /\ tail' = Stable
      /\ \A u \in Callers : u # Puller =>
           /\ Linking(u)' = Linking(u) /\ place'[u] = place[u]
           /\ old'[u] = old[u] /\ front'[u] = front[u]
      /\ place' \in [Callers -> Places]
      /\ old' \in [Callers -> All \cup {Null}]
      /\ front' \in [Callers -> All \cup {Null}]
  BY <1>1, <1>2, ExchangeDone
<1>10. ASSUME NEW u \in Callers, Linking(u)
       PROVE  \E i \in 1..(n - 1) :
                /\ i \in 1..n /\ i + 1 \in 1..n
                /\ old[u] = Chain(0, i) /\ front[u] = Chain(0, i + 1)
                /\ next[old[u]].ptr = Null /\ old[u] # tail
  BY <1>1, <1>4, <1>6, <1>10, LinkerPlace
<1>11. Shape(k)'
  <2>1. ASSUME NEW i \in 1..(k - 1)
        PROVE  \/ next'[Chain(k, i)'].ptr = Chain(k, i + 1)'
               \/ \E t \in Callers : Linking(t)' /\ old'[t] = Chain(k, i)'
    <3>1. i \in 1..n
      BY <1>7
    <3>2. CASE i = n
      <4>1. Chain(k, i)' = tail
        BY <3>1, <3>2, <1>6, <1>8
      <4> QED BY <4>1, <1>2, <1>9
    <3>3. CASE i # n
      <4>1. i \in 1..(n - 1) /\ i + 1 \in 1..n
        BY <3>1, <3>3
      <4>2. CASE next[Chain(0, i)].ptr = Chain(0, i + 1)
        BY <4>1, <4>2, <3>1, <1>2, <1>8
      <4>3. CASE \E t \in Callers : Linking(t) /\ old[t] = Chain(0, i)
        <5>1. PICK t \in Callers : Linking(t) /\ old[t] = Chain(0, i)
          BY <4>3
        <5>2. Linking(t)' /\ old'[t] = old[t]
          BY <5>1, <1>2, <1>9
        <5> QED BY <5>1, <5>2, <3>1, <1>8
      <4> QED BY <4>1, <4>2, <4>3, <1>4, <1>6 DEF Shape
    <3> QED BY <3>2, <3>3
  <2>2. ASSUME NEW t \in Callers, Linking(t)'
        PROVE  \E i \in 1..(k - 1) :
                 /\ old'[t] = Chain(k, i)' /\ front'[t] = Chain(k, i + 1)'
                 /\ next'[old'[t]].ptr = Null
    <3>1. CASE t = Puller
      <4>1. n \in 1..(k - 1) /\ n \in 1..n /\ n + 1 = k
        BY <1>6, <1>7
      <4>2. Chain(k, n)' = tail /\ Chain(k, n + 1)' = Stable
        BY <4>1, <1>6, <1>8
      <4>3. next'[old'[t]].ptr = Null
        BY <3>1, <1>2, <1>6, <1>9
      <4> QED BY <3>1, <4>1, <4>2, <4>3, <1>9
    <3>2. CASE t # Puller
      <4>1. Linking(t) /\ old'[t] = old[t] /\ front'[t] = front[t]
        BY <3>2, <2>2, <1>9
      <4>2. PICK i \in 1..(n - 1) :
              /\ i \in 1..n /\ i + 1 \in 1..n
              /\ old[t] = Chain(0, i) /\ front[t] = Chain(0, i + 1)
              /\ next[old[t]].ptr = Null
        BY <4>1, <1>10
      <4>3. i \in 1..(k - 1)
        BY <1>7
      <4> QED BY <4>1, <4>2, <4>3, <1>2, <1>8
    <3> QED BY <3>1, <3>2
  <2>3. head' = Chain(k, 1)'
    <3>1. 1 \in 1..n
      BY <1>6
    <3> QED BY <3>1, <1>2, <1>6, <1>8
  <2>4. k > 0 /\ Length(k)' = k /\ tail' = Chain(k, k)' /\ next'[tail'].ptr = Null
    BY <1>2, <1>4, <1>7, <1>8, <1>9
  <2> QED BY ONLY <1>7, <2>1, <2>2, <2>3, <2>4, ShapeFrom
<1>12. TypeOK'
  BY <1>1, <1>2, <1>9 DEF TypeOK
<1>13. Queued' = Queued /\ \A i \in DOMAIN order : Node(i)' = Node(i)
  BY <1>2 DEF Queued, Node
<1>14. Owners'
  <2>1. \A t \in Callers : Linking(t)' => (front'[t] = Stable <=> t = Puller)
    BY <1>1, <1>9 DEF Owners
  <2>2. ASSUME NEW t \in Callers, NEW u \in Callers, Linking(t)', Linking(u)', t # u
        PROVE  old'[t] # old'[u]
    <3>1. CASE t = Puller
      BY <2>2, <3>1, <1>9, <1>10
    <3>2. CASE u = Puller
      BY <2>2, <3>2, <1>9, <1>10
    <3>3. CASE t # Puller /\ u # Puller
      BY <2>2, <3>3, <1>1, <1>9 DEF Owners
    <3> QED BY <3>1, <3>2, <3>3
  <2>3. \A p \in Pushers : place'[p] \in {"idle", "load", "link"}
    BY <1>1, <1>2, <1>9 DEF Owners
  <2> QED BY <2>1, <2>2, <2>3, <1>1, <1>2, <1>4, <1>13 DEF Owners
<1>15. TagsOK'
  <2>1. \A i \in DOMAIN order : next'[Node(i)].tag = order[i].tag
    BY <1>1, <1>2 DEF TagsOK
  <2>2. ASSUME NEW t \in Callers, place'[t] = "link"
        PROVE  word'[t].tag = next'[old'[t]].tag
    <3>1. CASE t = Puller
      <4>1. ~tagged /\ old'[t] = tail
        BY <2>2, <3>1, <1>9
      <4>2. n \in DOMAIN order /\ tail = Node(n)
        BY <1>1, <1>5, <1>6, OrderHas DEF Chain
      <4>3. next[tail].tag = 0 /\ word[t].tag = 0
        BY <4>1, <4>2, <1>1 DEF TagsOK
      <4> QED BY <4>1, <4>3, <1>2
    <3>2. CASE t # Puller
      BY <2>2, <3>2, <1>1, <1>2, <1>9 DEF TagsOK
    <3> QED BY <3>1, <3>2
  <2>3. ~tagged => \A t \in Callers : place'[t] # "load" /\ word'[t].tag = 0
    BY <1>1, <1>2, <1>9 DEF TagsOK
  <2>4. ~tagged => next'[Stable].tag = 0 /\ \A i \in DOMAIN order : order[i].tag = 0
    BY <1>1, <1>2 DEF TagsOK
  <2> QED BY <2>1, <2>2, <2>3, <2>4, <1>2, <1>13 DEF TagsOK
<1>16. PullerOK(k)'
  <2>1. k \notin {0, 1}
    BY <1>6, <1>7
  <2> QED BY <2>1, <1>9 DEF PullerOK
<1>17. k \in 0..(Len(order') + 1)
  BY <1>2, <1>5, <1>7
<1> QED BY <1>11, <1>12, <1>14, <1>15, <1>16, <1>17 DEF Inv

(* The node given is in no chain: its word may become anything.            *)
LEMMA ReleaseStep ==
  ASSUME ListAssumption, Inv, Release
  PROVE  Inv'
<1>1. TypeOK /\ Owners /\ TagsOK
  BY DEF Inv
<1>2. PICK k \in 0..(Len(order) + 1) : Shape(k) /\ PullerOK(k)
  BY DEF Inv
<1>3. /\ got # Null /\ got' = Null
      /\ next' = [next EXCEPT ![got] = [ptr |-> got, tag |-> 0]]
      /\ UNCHANGED <<tagged, tail, head, place, old, word, front, order>>
  BY DEF Release
<1>4. got \in Nodes /\ got \in All /\ got # Stable /\ got \notin Queued
  BY <1>1, <1>3 DEF TypeOK, Owners, All, ListAssumption
<1>5. \A n \in All : n # got => next'[n] = next[n]
  BY <1>1, <1>3 DEF TypeOK
<1>6. next'[Stable] = next[Stable]
  BY <1>4, <1>5 DEF All
<1>7. \A i \in 1..Length(k) : next'[Chain(k, i)] = next[Chain(k, i)]
  <2>1. \A i \in 1..Length(k) : Chain(k, i) \in All /\ Chain(k, i) # got
    BY <1>1, <1>4, ChainHas
  <2> QED BY <2>1, <1>5
<1>8. /\ Length(k) \in Nat /\ tail = Chain(k, Length(k)) /\ Length(k) \in 1..Length(k)
  BY <1>1, <1>2, ChainHas DEF Shape
<1>9. \A t \in Callers : Linking(t)' = Linking(t)
  BY <1>3 DEF Linking
<1>10. Shape(k)'
  <2>1. \A i \in 1..(Length(k) - 1) : next'[Chain(k, i)] = next[Chain(k, i)]
    <3>1. \A i \in 1..(Length(k) - 1) : i \in 1..Length(k)
      BY <1>8
    <3> QED BY <3>1, <1>7
  <2>2. next'[tail].ptr = next[tail].ptr
    BY <1>7, <1>8
  <2> QED BY <2>1, <2>2, <1>2, <1>3, <1>9, SameShape
<1>11. TypeOK'
  <2>1. next' \in [All -> Word]
    BY <1>1, <1>3, <1>4 DEF TypeOK, Word, ListAssumption
  <2> QED BY <2>1, <1>1, <1>3 DEF TypeOK
<1>12. Queued' = Queued /\ \A i \in DOMAIN order : Node(i)' = Node(i)
  BY <1>3 DEF Queued, Node
<1>13. Owners'
  BY <1>1, <1>3, <1>9, <1>12 DEF Owners
<1>14. TagsOK'
  <2>1. \A i \in DOMAIN order : next'[Node(i)].tag = order[i].tag
    <3>1. \A i \in DOMAIN order : Node(i) \in All /\ Node(i) # got
      BY <1>1, <1>4, OrderHas DEF All
    <3> QED BY <3>1, <1>1, <1>5 DEF TagsOK
  <2>2. ASSUME NEW t \in Callers, place[t] = "link"
        PROVE  word[t].tag = next'[old[t]].tag
    <3>1. Linking(t)
      BY <2>2 DEF Linking
    <3>2. \E i \in 1..Length(k) : old[t] = Chain(k, i)
      BY <3>1, <1>1, <1>2, LinkerPlace
    <3>3. next'[old[t]] = next[old[t]]
      BY <3>2, <1>7
    <3> QED BY <2>2, <3>3, <1>1 DEF TagsOK
  <2>3. ~tagged => next'[Stable].tag = 0 /\ \A i \in DOMAIN order : order[i].tag = 0
    BY <1>1, <1>6 DEF TagsOK
  <2>4. ~tagged => \A t \in Callers : place[t] # "load" /\ word[t].tag = 0
    BY <1>1 DEF TagsOK
  <2> QED BY <2>1, <2>2, <2>3, <2>4, <1>3, <1>12 DEF TagsOK
<1>15. PullerOK(k)'
  BY <1>2, <1>3, <1>6 DEF PullerOK
<1> QED BY <1>2, <1>3, <1>10, <1>11, <1>13, <1>14, <1>15 DEF Inv

---------------------------------------------------------------------------
(* The invariant.                                                          *)

LEMMA InitHolds ==
  ASSUME ListAssumption, Init
  PROVE  Inv
<1>1. /\ tail = Stable /\ head = Stable /\ got = Null /\ order = <<>>
      /\ Len(order) = 0 /\ DOMAIN order = {} /\ tagged \in BOOLEAN
      /\ \A t \in Callers : /\ place[t] = "idle" /\ old[t] = Null
                            /\ word[t] = NoWord /\ front[t] = Null
      /\ Puller \in Callers /\ \A p \in Pushers : p \in Callers
      /\ Stable \in All
  BY DEF Init, Callers, All
<1>2. NoWord \in Word /\ NoWord.ptr = Null /\ NoWord.tag = 0
  BY DEF NoWord, Word, ListAssumption
<1>3. next[Stable] = NoWord
  BY <1>1 DEF Init, NoWord
<1>4. TypeOK
  <2>1. next \in [All -> Word]
    BY DEF Init, Word, ListAssumption
  <2>2. /\ word \in [Callers -> Word] /\ place \in [Callers -> Places]
        /\ old \in [Callers -> All \cup {Null}]
        /\ front \in [Callers -> All \cup {Null}]
    BY <1>2 DEF Init, Places
  <2>3. order \in Seq([node : Nodes, tag : Tags])
    BY <1>1, EmptySeq
  <2> QED BY <1>1, <2>1, <2>2, <2>3 DEF TypeOK
<1>5. \A t \in Callers : ~Linking(t)
  BY <1>1 DEF Linking
<1>6. Owners
  BY <1>1, <1>5 DEF Owners
<1>7. TagsOK
  BY <1>1, <1>2, <1>3 DEF TagsOK
<1>8. Shape(1)
  <2>1. Length(1) = 1 /\ Chain(1, 1) = Stable
    BY <1>1 DEF Length, Chain
  <2> QED BY <2>1, <1>1, <1>2, <1>3, <1>5 DEF Shape
<1>9. PullerOK(1)
  BY <1>1 DEF PullerOK
<1>10. 1 \in 0..(Len(order) + 1)
  BY <1>1
<1> QED BY <1>4, <1>6, <1>7, <1>8, <1>9, <1>10 DEF Inv

(* A thread's and the consumer's steps inside the functions keep it.       *)
LEMMA InsideStep ==
  ASSUME ListAssumption, Inv,
         Pulls \/ Release \/ \E p \in Pushers : Pushes(p)
  PROVE  Inv'
<1>1. ASSUME NEW t \in Callers, LoadOld(t) \/ Link(t)
      PROVE  Inv'
  BY <1>1, LoadStep, LinkStep
<1>2. Puller \in Callers /\ \A p \in Pushers : p \in Callers
  BY DEF Callers
<1> QED BY <1>1, <1>2, ConsumeStep, LaterLoads, RenewStep, PushStep, ReleaseStep
        DEF Pulls, Pushes

(* A step that leaves the list alone keeps it.                             *)
LEMMA StillStep ==
  ASSUME Inv, UNCHANGED listVars
  PROVE  Inv'
<1>1. PICK k \in 0..(Len(order) + 1) : Shape(k) /\ PullerOK(k)
  BY DEF Inv
<1>2. \A t \in Callers : Linking(t)' = Linking(t)
  BY DEF Linking, listVars
<1>3. Shape(k)'
  BY <1>1, <1>2, SameShape DEF listVars
<1>4. PullerOK(k)'
  BY <1>1 DEF PullerOK, listVars
<1>5. TypeOK'
  BY DEF Inv, TypeOK, listVars
<1>6. Queued' = Queued /\ \A i \in DOMAIN order : Node(i)' = Node(i)
  BY DEF Queued, Node, listVars
<1>7. Owners'
  BY <1>2, <1>6 DEF Inv, Owners, listVars
<1>8. TagsOK'
  BY <1>6 DEF Inv, TagsOK, listVars
<1> QED BY <1>1, <1>3, <1>4, <1>5, <1>7, <1>8 DEF Inv, listVars

(* The batches the module lets its callers choose keep the duty.           *)
LEMMA BatchesKeepDuty ==
  ASSUME NEW b \in Batches
  PROVE  Duty(b)
<1>1. /\ \/ \E n \in Nodes : b = <<n>>
         \/ \E m, n \in Nodes : b = <<m, n>>
      /\ \A i \in DOMAIN b : b[i] \notin Queued \cup {got}
      /\ Len(b) = 2 => b[1] # b[2]
  BY DEF Batches
<1>2. CASE \E n \in Nodes : b = <<n>>
  <2>1. PICK n \in Nodes : b = <<n>>
    BY <1>2
  <2>2. DOMAIN b = {1} /\ b \in Seq(Nodes) /\ b # <<>>
    BY <2>1
  <2> QED BY <2>2, <1>1 DEF Duty
<1>3. CASE \E m, n \in Nodes : b = <<m, n>>
  <2>1. PICK m \in Nodes, n \in Nodes : b = <<m, n>>
    BY <1>3
  <2>2. DOMAIN b = {1, 2} /\ b \in Seq(Nodes) /\ b # <<>> /\ Len(b) = 2
    BY <2>1
  <2> QED BY <2>2, <1>1 DEF Duty
<1> QED BY <1>1, <1>2, <1>3

(* The invariant is inductive, whatever the numbers of threads, nodes and  *)
(* tags.                                                                   *)
THEOREM Inductive ==
  ASSUME ListAssumption
  PROVE  Inv /\ [Next]_listVars => Inv'
<1> SUFFICES ASSUME Inv, [Next]_listVars
             PROVE  Inv'
  OBVIOUS
<1>1. CASE UNCHANGED listVars
  BY <1>1, StillStep
<1>2. CASE Pulls \/ Release \/ \E p \in Pushers : Pushes(p)
  BY <1>2, InsideStep
<1>3. ASSUME NEW p \in Pushers, NEW b \in Batches, NEW g \in Tags,
             ProduceMany(p, b, g)
      PROVE  Inv'
  BY <1>3, BatchesKeepDuty, ProduceStep
<1> QED BY <1>1, <1>2, <1>3 DEF Next

THEOREM Invariance ==
  ASSUME ListAssumption
  PROVE  Spec => []Inv
<1>1. Init => Inv
  BY InitHolds
<1>2. Inv /\ [Next]_listVars => Inv'
  BY Inductive
<1> QED BY <1>1, <1>2, PTL DEF Spec

---------------------------------------------------------------------------
(* What follows from it.                                                   *)

LEMMA NoLateWriteHolds ==
  ASSUME ListAssumption, Inv
  PROVE  NoLateWrite
<1>1. TypeOK /\ Owners
  BY DEF Inv
<1>2. PICK k \in 0..(Len(order) + 1) : Shape(k) /\ PullerOK(k)
  BY DEF Inv
<1>3. ASSUME NEW t \in Callers, Linking(t)
      PROVE  /\ old[t] \in Queued \cup {Stable}
             /\ k = 0 => old[t] # Stable
  <2>1. PICK i \in 1..Length(k) : old[t] = Chain(k, i)
    BY <1>1, <1>2, <1>3, LinkerPlace
  <2> QED BY <2>1, <1>1, ChainHas
<1>4. place[Puller] \in {"renew", "push"} => k = 0
  BY <1>2 DEF PullerOK
<1>5. \A p \in Pushers : p \in Callers
  BY DEF Callers
<1> QED BY <1>1, <1>3, <1>4, <1>5 DEF NoLateWrite, Owners

LEMMA AnswersHold ==
  ASSUME ListAssumption, Inv
  PROVE  AnswersAreTrue
<1>1. TypeOK /\ Owners
  BY DEF Inv
<1>2. PICK k \in 0..(Len(order) + 1) : Shape(k) /\ PullerOK(k)
  BY DEF Inv
<1>3. /\ Length(k) \in Nat /\ Length(k) > 0 /\ head = Chain(k, 1)
      /\ tail = Chain(k, Length(k)) /\ next[tail].ptr = Null
      /\ 1 \in 1..Length(k) /\ Length(k) \in 1..Length(k)
  BY <1>1, <1>2, ChainHas DEF Shape
<1>4. PICK n \in Nat : n = Len(order)
  BY <1>1, OrderHas
<1>5. /\ k \in 0..(n + 1) /\ Length(k) = IF k = 0 THEN n ELSE n + 1
      /\ (head = Stable <=> k = 1) /\ (k = Length(k) => tail = Stable)
  <2>1. head = Stable <=> k = 1
    BY <1>1, <1>3, ChainHas
  <2>2. k = Length(k) => tail = Stable
    BY <1>1, <1>3, ChainHas
  <2> QED BY <2>1, <2>2, <1>4 DEF Length
<1>6. order = <<>> => tail = Stable
  <2>1. order = <<>> => n = 0
    BY <1>4
  <2>2. n = 0 => k = Length(k)
    BY <1>3, <1>5
  <2> QED BY <2>1, <2>2, <1>5
<1>7. ASSUME SeesNothing, order # <<>>
      PROVE  \E t \in Callers : Linking(t) /\ old[t] = Stable
  <2>1. n > 0
    BY <1>1, <1>4, <1>7, EmptySeq DEF TypeOK
  <2>2. k = 1 /\ next[head].ptr = Null /\ head = Stable
    BY <1>5, <1>7 DEF SeesNothing
  <2>3. 1 \in 1..(Length(k) - 1) /\ 1 + 1 \in 1..Length(k)
    BY <2>1, <2>2, <1>4, <1>5
  <2>4. Chain(k, 1 + 1) # Null
    BY <2>3, <1>1, ChainHas
  <2> QED BY <2>2, <2>3, <2>4, <1>2, <1>3 DEF Shape
<1>8. ASSUME place[Puller] = "tail", head # tail
      PROVE  Len(order) > 1
  <2>1. k \notin {1, 2}
    BY <1>2, <1>8 DEF PullerOK
  <2>2. Length(k) # 1
    BY <1>3, <1>8
  <2> QED BY <2>1, <2>2, <1>3, <1>4, <1>5
<1> QED BY <1>6, <1>7, <1>8 DEF AnswersAreTrue

(* A step that gives a node gives the first one of the history.            *)
LEMMA GivesFirst ==
  ASSUME ListAssumption, Inv, got = Null, got' # Null,
         \/ Pulls \/ Release \/ UNCHANGED listVars
         \/ \E p \in Pushers :
              Pushes(p) \/ \E b, g : ProduceMany(p, b, g)
  PROVE  /\ order # <<>> /\ order[1].node = got'
         /\ next'[got'].tag = order[1].tag
<1>1. TypeOK /\ Owners /\ TagsOK
  BY DEF Inv
<1>2. PICK k \in 0..(Len(order) + 1) : Shape(k) /\ PullerOK(k)
  BY DEF Inv
<1>3. /\ Give(head, next[head].ptr) /\ next[head].ptr # Null
      /\ UNCHANGED <<tagged, tail, next, old, word, front>>
      /\ \/ place[Puller] \in {"idle", "empty", "busy"} /\ head # Stable
         \/ place[Puller] \in {"second", "again"}
  BY DEF Pulls, Release, Pushes, ProduceMany, listVars, Consume, Skipped, LookTail,
         RenewStable, PushStable, LoadOld, Link, LookAgain
<1>4. ~Linking(Puller)
  BY <1>3 DEF Linking
<1>5. head # Stable
  <2>1. CASE place[Puller] \in {"second", "again"}
    <3>1. k # 1
      BY <2>1, <1>2 DEF PullerOK
    <3>2. Length(k) \in Nat /\ Length(k) > 0 /\ head = Chain(k, 1)
      BY <1>1, <1>2, ChainHas DEF Shape
    <3>3. 1 \in 1..Length(k)
      BY <3>2
    <3> QED BY <3>1, <3>2, <3>3, <1>1, ChainHas
  <2> QED BY <2>1, <1>3
<1>6. Len(order) \in Nat /\ Len(order) > 0 /\ head = Node(1)
  BY <1>1, <1>2, <1>3, <1>4, <1>5, GiveShape
<1>7. 1 \in DOMAIN order /\ order # <<>>
  BY <1>1, <1>6, OrderHas
<1>8. got' = head
  BY <1>3 DEF Give
<1> QED BY <1>1, <1>3, <1>6, <1>7, <1>8 DEF TagsOK, Node

(* Producers never write into a node that is out of the queue, two never   *)
(* into the same one, and the consumer renews no stable node a producer    *)
(* will write to.                                                          *)
THEOREM LateWritesNever ==
  ASSUME ListAssumption
  PROVE  Spec => []NoLateWrite
<1>1. Inv => NoLateWrite
  BY NoLateWriteHolds
<1> QED BY <1>1, Invariance, PTL

(* What produce and consume tell their callers is true.                    *)
THEOREM AnswersTrue ==
  ASSUME ListAssumption
  PROVE  Spec => []AnswersAreTrue
<1>1. Inv => AnswersAreTrue
  BY AnswersHold
<1> QED BY <1>1, Invariance, PTL

(* Every node comes out once, in the order of the exchanges, with its tag. *)
THEOREM OutInOrder ==
  ASSUME ListAssumption
  PROVE  Spec => InOrder
<1>1. Inv /\ [Next]_listVars =>
        [got = Null /\ got' # Null =>
           /\ order # <<>> /\ order[1].node = got'
           /\ next'[got'].tag = order[1].tag]_listVars
  <2> SUFFICES ASSUME Inv, Next, got = Null, got' # Null
               PROVE  /\ order # <<>> /\ order[1].node = got'
                      /\ next'[got'].tag = order[1].tag
    OBVIOUS
  <2>1. \/ Pulls \/ Release \/ UNCHANGED listVars
        \/ \E p \in Pushers : Pushes(p) \/ \E b, g : ProduceMany(p, b, g)
    BY DEF Next
  <2> QED BY <2>1, GivesFirst
<1> QED BY <1>1, Invariance, PTL DEF Spec, InOrder
==============================================================================
