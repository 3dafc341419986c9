-------------------------- MODULE ContainersProofs --------------------------
(***************************************************************************)
(* The linked lists and the rings of Containers, for every size, number of *)
(* ids and range of the clock: what the storage, the links and the searches*)
(* say is what was put in and taken out.                                   *)
(***************************************************************************)
EXTENDS Containers, Lemmas

(* The node at place i of the sequence s; beside it, the end.              *)
NodeAt(s, i) == IF i \in 1..Len(s) THEN s[i] ELSE End
Once(s) == \A i, j \in 1..Len(s) : s[i] = s[j] => i = j

(* The inductive invariant of a doubly linked list: its links are what the *)
(* history says, and no node is in the list twice.                         *)
DoubleInv ==
  /\ list \in Seq(Double!Nodes) /\ Once(list)
  /\ mine \in SUBSET Double!Nodes
  /\ nodes \in [Double!Nodes -> [next : 0..End, prev : 0..End]]
  /\ Double!ListHolds

(* The invariant, of a list s, place by place.                             *)
Linked(N, h, z, s, m) ==
  /\ s \in Seq(0..(End - 1)) /\ Once(s)
  /\ m \in SUBSET (0..(End - 1))
  /\ N \in [0..(End - 1) -> [next : 0..End, prev : 0..End]]
  /\ z = Len(s) /\ h = [next |-> NodeAt(s, 1), prev |-> NodeAt(s, Len(s))]
  /\ \A i \in 1..Len(s) : /\ N[s[i]].next = NodeAt(s, i + 1)
                          /\ N[s[i]].prev = NodeAt(s, i - 1)
  /\ \A x \in m : /\ N[x].next = End /\ N[x].prev = End
                  /\ \A i \in 1..Len(s) : s[i] # x
  /\ \A x \in 0..(End - 1) :
       N[x].next = x <=> (x \notin m /\ \A i \in 1..Len(s) : s[i] # x)

(* Read from the list's sequence, the invariant says what each link is.    *)
LEMMA DoubleInvIs == DoubleInv <=> Linked(nodes, head, size, list, mine)
<1> DEFINE T == /\ list \in Seq(Double!Nodes) /\ Once(list)
                /\ mine \in SUBSET Double!Nodes
                /\ nodes \in [Double!Nodes -> [next : 0..End, prev : 0..End]]
<1>1. ASSUME T
      PROVE Double!ListHolds <=> Linked(nodes, head, size, list, mine)
  <2>1. Double!Nodes = 0..(End - 1)
    BY DEF Double!Nodes
  <2>2. \A x : x \in ToSet(list) <=> \E i \in 1..Len(list) : list[i] = x
    <3>1. DOMAIN list = 1..Len(list)
      BY <1>1, LenProperties
    <3> QED BY <3>1 DEF ToSet
  <2>3. \A x : Contains(list, x) <=> \E i \in 1..Len(list) : list[i] = x
    BY DEF Contains
  <2>4. \A x \in 0..(End - 1) : \A a, b \in 0..End :
          nodes[x] = [next |-> a, prev |-> b] <=> nodes[x].next = a /\ nodes[x].prev = b
    BY <1>1, <2>1
  <2>5. \A i \in 1..Len(list) : list[i] \in 0..(End - 1)
    BY <1>1, <2>1, ElementOfSeq
  <2>6. \A i : NodeAt(list, i) \in 0..End /\ End \in 0..End
    BY <2>5, EndAssumption DEF NodeAt
  <2>7. Double!ListHolds <=>
           /\ size = Len(list) /\ head = [next |-> NodeAt(list, 1), prev |-> NodeAt(list, Len(list))]
           /\ \A i \in 1..Len(list) : nodes[list[i]] = [next |-> NodeAt(list, i + 1), prev |-> NodeAt(list, i - 1)]
           /\ \A x \in mine : nodes[x] = [next |-> End, prev |-> End] /\ ~Contains(list, x)
           /\ \A x \in Double!Nodes : nodes[x].next = x <=> x \notin mine \cup ToSet(list)
    BY DEF Double!ListHolds, Double!Hook, NodeAt, Double!IsFree,
           Double!Contains, Contains, Double!ToSet, ToSet
  <2>8. \A i \in 1..Len(list) :
          nodes[list[i]] = [next |-> NodeAt(list, i + 1), prev |-> NodeAt(list, i - 1)]
            <=> /\ nodes[list[i]].next = NodeAt(list, i + 1)
                /\ nodes[list[i]].prev = NodeAt(list, i - 1)
    BY <2>4, <2>5, <2>6
  <2>9. \A x \in mine : nodes[x] = [next |-> End, prev |-> End]
            <=> nodes[x].next = End /\ nodes[x].prev = End
    BY <2>4, <2>6, <1>1, <2>1
  <2>10. /\ list \in Seq(0..(End - 1)) /\ Once(list)
         /\ mine \in SUBSET (0..(End - 1))
         /\ nodes \in [0..(End - 1) -> [next : 0..End, prev : 0..End]]
    BY <1>1, <2>1
  <2>11. \A x \in Double!Nodes :
           (nodes[x].next = x <=> x \notin mine \cup ToSet(list)) <=>
           (nodes[x].next = x <=> (x \notin mine /\ \A i \in 1..Len(list) : list[i] # x))
    BY <2>2
  <2>12. \A x \in mine :
           (nodes[x] = [next |-> End, prev |-> End] /\ ~Contains(list, x)) <=>
           (nodes[x].next = End /\ nodes[x].prev = End /\ \A i \in 1..Len(list) : list[i] # x)
    BY <2>3, <2>9
  <2> HIDE DEF T
  <2> QED BY <2>1, <2>7, <2>8, <2>10, <2>11, <2>12 DEF Linked
<1>2. Linked(nodes, head, size, list, mine) => T
  BY DEF Linked, Double!Nodes
<1>3. DoubleInv <=> T /\ Double!ListHolds
  BY DEF DoubleInv
<1> HIDE DEF T
<1> QED BY <1>1, <1>2, <1>3

(* What a list with the invariant is made of, for the provers.             *)
LEMMA LinkedTypes ==
  ASSUME NEW N, NEW h, NEW z, NEW s, NEW m, Linked(N, h, z, s, m)
  PROVE  /\ End \in Nat /\ Len(s) \in Nat
         /\ \A i \in 1..Len(s) : s[i] \in 0..(End - 1)
         /\ \A i : NodeAt(s, i) \in 0..End
         /\ h.next = End <=> Len(s) = 0
<1>1. Len(s) \in Nat /\ \A i \in 1..Len(s) : s[i] \in 0..(End - 1)
  BY LenProperties, ElementOfSeq DEF Linked
<1>2. End \in Nat /\ \A i : NodeAt(s, i) \in 0..End
  <2>1. End \in Nat /\ End \in 0..End /\ \A x \in 0..(End - 1) : x \in 0..End
    BY ONLY EndAssumption
  <2> QED BY ONLY <1>1, <2>1 DEF NodeAt
<1>3. h.next = NodeAt(s, 1)
  BY DEF Linked
<1> QED BY <1>1, <1>2, <1>3 DEF NodeAt

(* A free node becomes the user's: it is linked nowhere.                   *)
LEMMA Acquiring ==
  ASSUME NEW N, NEW h, NEW z, NEW s, NEW m, Linked(N, h, z, s, m),
         NEW n \in 0..(End - 1), N[n].next = n
  PROVE  Linked([N EXCEPT ![n] = [next |-> End, prev |-> End]], h, z, s, m \cup {n})
<1>1. n \notin m /\ \A i \in 1..Len(s) : s[i] # n
  BY DEF Linked
<1> DEFINE P == [N EXCEPT ![n] = [next |-> End, prev |-> End]]
<1>2. /\ P \in [0..(End - 1) -> [next : 0..End, prev : 0..End]]
      /\ P[n].next = End /\ P[n].prev = End
      /\ \A x \in 0..(End - 1) : x # n => P[x] = N[x]
  <2>1. End \in 0..End
    BY LinkedTypes
  <2>2. N \in [0..(End - 1) -> [next : 0..End, prev : 0..End]]
    BY DEF Linked
  <2> QED BY <2>1, <2>2
<1> HIDE DEF P
<1>3. \A i \in 1..Len(s) : P[s[i]] = N[s[i]]
  BY <1>1, <1>2, LinkedTypes
<1>4. \A x \in m : P[x] = N[x]
  BY <1>1, <1>2 DEF Linked
<1>5. \A x \in m \cup {n} : P[x].next = End /\ P[x].prev = End /\ \A i \in 1..Len(s) : s[i] # x
  BY <1>1, <1>2, <1>4 DEF Linked
<1>6. \A x \in 0..(End - 1) :
        P[x].next = x <=> (x \notin m \cup {n} /\ \A i \in 1..Len(s) : s[i] # x)
  BY <1>1, <1>2, LinkedTypes DEF Linked
<1>7. Linked(P, h, z, s, m \cup {n})
  BY <1>2, <1>3, <1>5, <1>6 DEF Linked
<1> QED BY <1>7 DEF P

(* A node the user has becomes free.                                       *)
LEMMA Releasing ==
  ASSUME NEW N, NEW h, NEW z, NEW s, NEW m, Linked(N, h, z, s, m), NEW n \in m
  PROVE  Linked([N EXCEPT ![n] = [next |-> n, prev |-> n]], h, z, s, m \ {n})
<1>1. n \in 0..(End - 1) /\ \A i \in 1..Len(s) : s[i] # n
  BY DEF Linked
<1> DEFINE P == [N EXCEPT ![n] = [next |-> n, prev |-> n]]
<1>2. /\ P \in [0..(End - 1) -> [next : 0..End, prev : 0..End]]
      /\ P[n].next = n
      /\ \A x \in 0..(End - 1) : x # n => P[x] = N[x]
  BY <1>1, LinkedTypes DEF Linked
<1> HIDE DEF P
<1>3. \A i \in 1..Len(s) : P[s[i]] = N[s[i]]
  BY <1>1, <1>2, LinkedTypes
<1>4. \A x \in m \ {n} : P[x] = N[x]
  BY <1>1, <1>2 DEF Linked
<1>5. \A x \in 0..(End - 1) :
        P[x].next = x <=> (x \notin m \ {n} /\ \A i \in 1..Len(s) : s[i] # x)
  BY <1>1, <1>2, LinkedTypes DEF Linked
<1>6. Linked(P, h, z, s, m \ {n})
  BY <1>2, <1>3, <1>4, <1>5 DEF Linked
<1> QED BY <1>6 DEF P

(* A node the user has is linked before the first node.                    *)
LEMMA LinkingFirst ==
  ASSUME NEW N, NEW h, NEW z, NEW s, NEW m, Linked(N, h, z, s, m), NEW n \in m,
         NEW P, NEW g,
         IF h.next = End THEN g = [next |-> n, prev |-> n] /\ P = N
         ELSE /\ P = [N EXCEPT ![h.next].prev = n, ![n].next = h.next]
              /\ g = [h EXCEPT !.next = n]
  PROVE  Linked(P, g, z + 1, <<n>> \o s, m \ {n})
<1> DEFINE t == <<n>> \o s
<1>1. n \in 0..(End - 1) /\ N[n].next = End /\ N[n].prev = End /\ \A i \in 1..Len(s) : s[i] # n
  BY DEF Linked
<1>2. /\ t \in Seq(0..(End - 1)) /\ Len(t) = Len(s) + 1 /\ Len(s) \in Nat
      /\ \A i \in 1..(Len(s) + 1) : t[i] = IF i = 1 THEN n ELSE s[i - 1]
  <2>1. s \in Seq(0..(End - 1)) /\ <<n>> \in Seq(0..(End - 1)) /\ Len(<<n>>) = 1 /\ <<n>>[1] = n
    BY <1>1 DEF Linked
  <2>2. /\ t \in Seq(0..(End - 1)) /\ Len(t) = 1 + Len(s)
        /\ \A i \in 1..(1 + Len(s)) : t[i] = IF i <= 1 THEN <<n>>[i] ELSE s[i - 1]
    BY <2>1, ConcatProperties
  <2>3. Len(s) \in Nat
    BY LinkedTypes
  <2> HIDE DEF t
  <2> QED BY <2>1, <2>2, <2>3
<1> HIDE DEF t
<1>3. Once(t)
  <2>1. \A i \in 2..(Len(s) + 1) : i - 1 \in 1..Len(s) /\ t[i] = s[i - 1]
    BY <1>2
  <2>2. Once(s)
    BY DEF Linked
  <2>3. ASSUME NEW i \in 1..Len(t), NEW j \in 1..Len(t), t[i] = t[j] PROVE i = j
    <3>1. CASE i = 1 /\ j = 1
      BY <3>1
    <3>2. CASE i = 1 /\ j # 1
      BY <3>2, <2>1, <2>3, <1>1, <1>2
    <3>3. CASE i # 1 /\ j = 1
      BY <3>3, <2>1, <2>3, <1>1, <1>2
    <3>4. CASE i # 1 /\ j # 1
      <4>1. s[i - 1] = s[j - 1] /\ i - 1 \in 1..Len(s) /\ j - 1 \in 1..Len(s)
        BY <3>4, <2>1, <2>3, <1>2
      <4>2. i - 1 = j - 1
        BY <4>1, <2>2 DEF Once
      <4> QED BY <4>2, <1>2
    <3> QED BY <3>1, <3>2, <3>3, <3>4
  <2> QED BY <2>3 DEF Once
<1>4. NodeAt(t, 1) = n /\ \A i \in 1..(Len(s) + 1) : NodeAt(t, i + 1) = NodeAt(s, i)
  BY <1>2 DEF NodeAt
<1>5. /\ g = [next |-> NodeAt(t, 1), prev |-> NodeAt(t, Len(t))]
      /\ P \in [0..(End - 1) -> [next : 0..End, prev : 0..End]]
      /\ P[n].next = NodeAt(s, 1) /\ P[n].prev = End
      /\ \A x \in 0..(End - 1) : x # n => P[x].next = N[x].next
      /\ \A x \in 0..(End - 1) : x # n => P[x].prev = IF x = NodeAt(s, 1) THEN n ELSE N[x].prev
  <2>1. h = [next |-> NodeAt(s, 1), prev |-> NodeAt(s, Len(s))]
    BY DEF Linked
  <2>2. N \in [0..(End - 1) -> [next : 0..End, prev : 0..End]]
    BY DEF Linked
  <2>3. CASE Len(s) = 0
    <3>1. h.next = End /\ NodeAt(s, 1) = End
      BY <2>3, <2>1, LinkedTypes
    <3>2. g = [next |-> n, prev |-> n] /\ P = N
      BY <3>1
    <3>3. NodeAt(t, Len(t)) = n
      BY <2>3, <1>2, <1>4
    <3>4. End \in Nat /\ \A x \in 0..(End - 1) : x # End
      BY LinkedTypes
    <3> QED BY <2>2, <3>1, <3>2, <3>3, <3>4, <1>1, <1>4
  <2>4. CASE Len(s) # 0
    <3>1. h.next # End /\ h.next = s[1] /\ s[1] \in 0..(End - 1) /\ s[1] # n /\ NodeAt(s, 1) = s[1]
      <4>1. 1 \in 1..Len(s)
        BY <2>4, LinkedTypes
      <4> QED BY <4>1, <2>4, <2>1, LinkedTypes, <1>1 DEF NodeAt
    <3>2. /\ P = [N EXCEPT ![s[1]].prev = n, ![n].next = s[1]]
          /\ g = [h EXCEPT !.next = n]
      BY <3>1
    <3>3. NodeAt(t, Len(t)) = NodeAt(s, Len(s))
      BY <2>4, <1>2, <1>4
    <3>4. n \in 0..End /\ s[1] \in 0..End
      BY <1>1, <3>1, LinkedTypes
    <3>5. g = [next |-> n, prev |-> NodeAt(s, Len(s))]
      BY <3>2, <2>1
    <3>6. P \in [0..(End - 1) -> [next : 0..End, prev : 0..End]]
      <4> DEFINE Q == [N EXCEPT ![s[1]].prev = n]
      <4>1. Q \in [0..(End - 1) -> [next : 0..End, prev : 0..End]]
        BY <3>4, <2>2
      <4>2. P = [Q EXCEPT ![n].next = s[1]]
        BY <3>2
      <4> HIDE DEF Q
      <4> QED BY <4>1, <4>2, <3>4
    <3> QED BY <2>2, <3>1, <3>2, <3>3, <3>5, <3>6, <1>1, <1>4
  <2> QED BY <2>3, <2>4
<1>6. ASSUME NEW i \in 1..Len(t)
      PROVE  P[t[i]].next = NodeAt(t, i + 1) /\ P[t[i]].prev = NodeAt(t, i - 1)
  <2>1. CASE i = 1
    <3>1. NodeAt(t, i - 1) = End
      BY <2>1 DEF NodeAt
    <3> QED BY <2>1, <3>1, <1>2, <1>4, <1>5
  <2>2. CASE i # 1
    <3>1. i - 1 \in 1..Len(s) /\ t[i] = s[i - 1] /\ i - 1 + 1 = i /\ i \in Nat
      BY <2>2, <1>2
    <3>2. s[i - 1] # n /\ s[i - 1] \in 0..(End - 1)
      BY <3>1, <1>1, LinkedTypes
    <3>3. /\ N[s[i - 1]].next = NodeAt(s, i)
          /\ N[s[i - 1]].prev = NodeAt(s, i - 1 - 1)
      BY <3>1 DEF Linked
    <3>4. P[t[i]].next = NodeAt(t, i + 1)
      BY <3>1, <3>2, <3>3, <1>2, <1>4, <1>5
    <3>5. CASE i = 2
      <4>1. NodeAt(s, 1) = s[1] /\ NodeAt(t, i - 1) = n
        BY <3>1, <3>5, <1>4 DEF NodeAt
      <4> QED BY <3>1, <3>2, <3>4, <3>5, <4>1, <1>5
    <3>6. CASE i # 2
      <4>1. i - 1 - 1 \in 1..Len(s) /\ i - 1 \in 1..(Len(s) + 1) /\ i - 1 # 1
        BY <3>6, <3>1
      <4>2. NodeAt(t, i - 1) = NodeAt(s, i - 1 - 1)
        BY <4>1, <1>2 DEF NodeAt
      <4>3. s[i - 1] # s[1] /\ NodeAt(s, 1) = s[1]
        <5>1. Once(s) /\ 1 \in 1..Len(s)
          BY <3>1, <1>2 DEF Linked
        <5> QED BY <5>1, <3>1, <4>1 DEF Once, NodeAt
      <4> QED BY <3>1, <3>2, <3>3, <3>4, <4>2, <4>3, <1>5
    <3> QED BY <3>5, <3>6
  <2> QED BY <2>1, <2>2
<1>7. \A x \in m \ {n} : P[x].next = End /\ P[x].prev = End /\ \A i \in 1..Len(t) : t[i] # x
  <2>1. ASSUME NEW x \in m \ {n}
        PROVE  P[x].next = End /\ P[x].prev = End /\ \A i \in 1..Len(t) : t[i] # x
    <3>1. /\ x \in 0..(End - 1) /\ N[x].next = End /\ N[x].prev = End
          /\ \A i \in 1..Len(s) : s[i] # x
      BY DEF Linked
    <3>2. x # NodeAt(s, 1)
      BY <3>1, LinkedTypes DEF NodeAt
    <3>3. \A i \in 1..Len(t) : t[i] # x
      <4>1. x # n
        BY <2>1
      <4> QED BY ONLY <3>1, <4>1, <1>2
    <3> QED BY <3>1, <3>2, <3>3, <1>5
  <2> QED BY <2>1
<1>8. ASSUME NEW x \in 0..(End - 1)
      PROVE  P[x].next = x <=> (x \notin m \ {n} /\ \A i \in 1..Len(t) : t[i] # x)
  <2>1. CASE x = n
    <3>1. P[x].next # x
      BY <2>1, <1>1, <1>5, LinkedTypes DEF NodeAt
    <3>2. 1 \in 1..Len(t) /\ t[1] = n
      BY <1>2
    <3> QED BY <2>1, <3>1, <3>2
  <2>2. CASE x # n
    <3>1. P[x].next = N[x].next
      BY <2>2, <1>5
    <3>2. N[x].next = x <=> (x \notin m /\ \A i \in 1..Len(s) : s[i] # x)
      BY DEF Linked
    <3>3. (\A i \in 1..Len(t) : t[i] # x) <=> \A i \in 1..Len(s) : s[i] # x
      <4>1. \A i \in 1..Len(s) : i + 1 \in 1..Len(t) /\ t[i + 1] = s[i]
        BY <1>2
      <4>2. ASSUME NEW i \in 1..Len(t), i # 1 PROVE i - 1 \in 1..Len(s) /\ t[i] = s[i - 1]
        BY <4>2, <1>2
      <4>3. t[1] # x
        BY <2>2, <1>2
      <4>4. ASSUME NEW i \in 1..Len(t), t[i] = x PROVE \E j \in 1..Len(s) : s[j] = x
        BY <4>2, <4>3, <4>4
      <4>5. ASSUME NEW j \in 1..Len(s), s[j] = x PROVE \E i \in 1..Len(t) : t[i] = x
        BY <4>1, <4>5
      <4> QED BY <4>4, <4>5
    <3> QED BY <2>2, <3>1, <3>2, <3>3
  <2> QED BY <2>1, <2>2
<1>9. z + 1 = Len(t) /\ m \ {n} \in SUBSET (0..(End - 1))
  BY <1>2 DEF Linked
<1>10. Linked(P, g, z + 1, t, m \ {n})
  BY <1>2, <1>3, <1>5, <1>6, <1>7, <1>8, <1>9 DEF Linked
<1> QED BY <1>10 DEF t

(* A node the user has is linked after the last node.                      *)
LEMMA LinkingLast ==
  ASSUME NEW N, NEW h, NEW z, NEW s, NEW m, Linked(N, h, z, s, m), NEW n \in m,
         NEW P, NEW g,
         IF h.next = End THEN g = [next |-> n, prev |-> n] /\ P = N
         ELSE /\ P = [N EXCEPT ![h.prev].next = n, ![n].prev = h.prev]
              /\ g = [h EXCEPT !.prev = n]
  PROVE  Linked(P, g, z + 1, Append(s, n), m \ {n})
<1> DEFINE t == Append(s, n)
           last == NodeAt(s, Len(s))
<1>1. n \in 0..(End - 1) /\ N[n].next = End /\ N[n].prev = End /\ \A i \in 1..Len(s) : s[i] # n
  BY DEF Linked
<1>2. /\ t \in Seq(0..(End - 1)) /\ Len(t) = Len(s) + 1 /\ Len(s) \in Nat
      /\ \A i \in 1..Len(s) : t[i] = s[i]
      /\ t[Len(s) + 1] = n
  <2>1. s \in Seq(0..(End - 1)) /\ Len(s) \in Nat
    BY LinkedTypes DEF Linked
  <2> QED BY <1>1, <2>1, AppendProperties
<1> HIDE DEF t
<1>3. Once(t)
  <2>1. Once(s)
    BY DEF Linked
  <2>2. ASSUME NEW i \in 1..Len(t), NEW j \in 1..Len(t), t[i] = t[j] PROVE i = j
    <3>1. CASE i = Len(s) + 1
      BY <3>1, <2>2, <1>1, <1>2
    <3>2. CASE j = Len(s) + 1
      BY <3>2, <2>2, <1>1, <1>2
    <3>3. CASE i # Len(s) + 1 /\ j # Len(s) + 1
      <4>1. i \in 1..Len(s) /\ j \in 1..Len(s)
        BY <3>3, <1>2
      <4> QED BY <4>1, <2>1, <2>2, <1>2 DEF Once
    <3> QED BY <3>1, <3>2, <3>3
  <2> QED BY <2>2 DEF Once
<1>4. NodeAt(t, Len(t)) = n /\ \A i \in 0..Len(s) : NodeAt(t, i) = NodeAt(s, i)
  BY <1>2 DEF NodeAt
<1>5. /\ g = [next |-> NodeAt(t, 1), prev |-> NodeAt(t, Len(t))]
      /\ P \in [0..(End - 1) -> [next : 0..End, prev : 0..End]]
      /\ P[n].prev = last /\ P[n].next = End
      /\ \A x \in 0..(End - 1) : x # n => P[x].prev = N[x].prev
      /\ \A x \in 0..(End - 1) : x # n => P[x].next = IF x = last THEN n ELSE N[x].next
  <2>1. h = [next |-> NodeAt(s, 1), prev |-> last]
    BY DEF Linked
  <2>2. N \in [0..(End - 1) -> [next : 0..End, prev : 0..End]]
    BY DEF Linked
  <2>3. CASE Len(s) = 0
    <3>1. h.next = End /\ last = End
      BY <2>3, <2>1, LinkedTypes DEF NodeAt
    <3>2. g = [next |-> n, prev |-> n] /\ P = N
      BY <3>1
    <3>3. NodeAt(t, 1) = n
      BY <2>3, <1>2, <1>4
    <3>4. End \in Nat /\ \A x \in 0..(End - 1) : x # End
      BY LinkedTypes
    <3> QED BY <2>2, <3>1, <3>2, <3>3, <3>4, <1>1, <1>4
  <2>4. CASE Len(s) # 0
    <3> DEFINE b == s[Len(s)]
    <3>1. h.next # End /\ h.prev = b /\ b \in 0..(End - 1) /\ b # n /\ last = b
      <4>1. Len(s) \in 1..Len(s)
        BY <2>4, LinkedTypes
      <4> QED BY <4>1, <2>4, <2>1, LinkedTypes, <1>1 DEF NodeAt
    <3> HIDE DEF b, last
    <3>2. /\ P = [N EXCEPT ![b].next = n, ![n].prev = b]
          /\ g = [h EXCEPT !.prev = n]
      BY <3>1
    <3>3. NodeAt(t, 1) = NodeAt(s, 1)
      BY <2>4, <1>2, <1>4
    <3>4. n \in 0..End /\ b \in 0..End
      BY <1>1, <3>1, LinkedTypes
    <3>5. g = [next |-> NodeAt(s, 1), prev |-> n]
      BY <3>2, <2>1
    <3>6. P \in [0..(End - 1) -> [next : 0..End, prev : 0..End]]
      <4> DEFINE Q == [N EXCEPT ![b].next = n]
      <4>1. Q \in [0..(End - 1) -> [next : 0..End, prev : 0..End]]
        BY <3>4, <2>2
      <4>2. P = [Q EXCEPT ![n].prev = b]
        BY <3>2
      <4> HIDE DEF Q
      <4> QED BY <4>1, <4>2, <3>4
    <3> QED BY <2>2, <3>1, <3>2, <3>3, <3>5, <3>6, <1>1, <1>4
  <2> QED BY <2>3, <2>4
<1>6. ASSUME NEW i \in 1..Len(t)
      PROVE  P[t[i]].next = NodeAt(t, i + 1) /\ P[t[i]].prev = NodeAt(t, i - 1)
  <2>0. NodeAt(t, i - 1) = NodeAt(s, i - 1)
    BY <1>2, <1>4
  <2>1. CASE i = Len(s) + 1
    <3>1. NodeAt(t, i + 1) = End /\ t[i] = n /\ NodeAt(s, i - 1) = last
      BY <2>1, <1>2 DEF NodeAt
    <3> QED BY <2>0, <3>1, <1>5
  <2>2. CASE i # Len(s) + 1
    <3>1. i \in 1..Len(s) /\ t[i] = s[i]
      BY <2>2, <1>2
    <3>2. s[i] # n /\ s[i] \in 0..(End - 1)
      BY <3>1, <1>1, LinkedTypes
    <3>3. N[s[i]].next = NodeAt(s, i + 1) /\ N[s[i]].prev = NodeAt(s, i - 1)
      BY <3>1 DEF Linked
    <3>4. P[t[i]].prev = NodeAt(t, i - 1)
      BY <3>1, <3>2, <3>3, <2>0, <1>5
    <3>5. CASE i = Len(s)
      <4>1. last = s[i] /\ NodeAt(t, i + 1) = n
        BY <3>1, <3>5, <1>2, <1>4 DEF NodeAt
      <4> QED BY <3>1, <3>2, <3>4, <4>1, <1>5
    <3>6. CASE i # Len(s)
      <4>1. i + 1 \in 1..Len(s)
        BY <3>6, <3>1, <1>2
      <4>2. NodeAt(t, i + 1) = NodeAt(s, i + 1)
        BY <4>1, <1>4
      <4>3. s[i] # last
        <5>1. Once(s) /\ Len(s) \in 1..Len(s)
          BY <3>1, <1>2 DEF Linked
        <5> QED BY <5>1, <3>1, <3>6 DEF Once, NodeAt
      <4> QED BY <3>1, <3>2, <3>3, <3>4, <4>2, <4>3, <1>5
    <3> QED BY <3>5, <3>6
  <2> QED BY <2>1, <2>2
<1>7. ASSUME NEW x
      PROVE  (\A i \in 1..Len(t) : t[i] # x) <=> x # n /\ \A i \in 1..Len(s) : s[i] # x
  <2>1. Len(s) + 1 \in 1..Len(t) /\ \A i \in 1..Len(s) : i \in 1..Len(t)
    BY <1>2
  <2>2. \A i \in 1..Len(t) : i \in 1..Len(s) \/ i = Len(s) + 1
    BY <1>2
  <2> QED BY <2>1, <2>2, <1>2
<1>8. ASSUME NEW x \in m \ {n}
      PROVE  P[x].next = End /\ P[x].prev = End /\ \A i \in 1..Len(t) : t[i] # x
  <2>1. /\ x \in 0..(End - 1) /\ N[x].next = End /\ N[x].prev = End
        /\ \A i \in 1..Len(s) : s[i] # x
    BY DEF Linked
  <2>2. x # last
    BY <2>1, LinkedTypes DEF NodeAt
  <2> QED BY <2>1, <2>2, <1>5, <1>7
<1>9. ASSUME NEW x \in 0..(End - 1)
      PROVE  P[x].next = x <=> (x \notin m \ {n} /\ \A i \in 1..Len(t) : t[i] # x)
  <2>1. CASE x = n
    <3>1. P[x].next # x
      BY <2>1, <1>1, <1>5, LinkedTypes
    <3> QED BY <2>1, <3>1, <1>7
  <2>2. CASE x # n /\ x = last
    <3>1. P[x].next # x
      BY <2>2, <1>5
    <3>2. \E i \in 1..Len(s) : s[i] = x
      BY <2>2, LinkedTypes DEF NodeAt
    <3> QED BY <3>1, <3>2, <1>7
  <2>3. CASE x # n /\ x # last
    <3>1. P[x].next = N[x].next
      BY <2>3, <1>5
    <3>2. N[x].next = x <=> (x \notin m /\ \A i \in 1..Len(s) : s[i] # x)
      BY DEF Linked
    <3> QED BY <2>3, <3>1, <3>2, <1>7
  <2> QED BY <2>1, <2>2, <2>3
<1>10. z + 1 = Len(t) /\ m \ {n} \in SUBSET (0..(End - 1))
  BY <1>2 DEF Linked
<1>11. Linked(P, g, z + 1, t, m \ {n})
  BY <1>2, <1>3, <1>5, <1>6, <1>8, <1>9, <1>10 DEF Linked
<1> QED BY <1>11 DEF t

(* A node's place is told by the node.                                     *)
LEMMA PlaceOfNode ==
  ASSUME NEW N, NEW h, NEW z, NEW s, NEW m, Linked(N, h, z, s, m),
         NEW a \in 1..Len(s), NEW b \in Int
  PROVE  s[a] = NodeAt(s, b) <=> a = b
<1>1. CASE b \in 1..Len(s)
  BY <1>1 DEF Linked, Once, NodeAt
<1>2. CASE b \notin 1..Len(s)
  <2>1. NodeAt(s, b) = End /\ s[a] \in 0..(End - 1) /\ End \in Nat
    BY <1>2, LinkedTypes DEF NodeAt
  <2> QED BY <2>1, <1>2
<1> QED BY <1>1, <1>2

(* The node at place i is unlinked.                                        *)
LEMMA Unlinking ==
  ASSUME NEW N, NEW h, NEW z, NEW s, NEW m, Linked(N, h, z, s, m),
         NEW i \in 1..Len(s), NEW n, n = s[i], NEW next, NEW prev,
         next = N[n].next, prev = N[n].prev,
         NEW P, NEW g,
         P = [x \in 0..(End - 1) |->
                IF x = n THEN [next |-> End, prev |-> End]
                ELSE [next |-> IF x = prev THEN next ELSE N[x].next,
                      prev |-> IF x = next THEN prev ELSE N[x].prev]],
         g = [next |-> IF prev = End THEN next ELSE h.next,
              prev |-> IF next = End THEN prev ELSE h.prev]
  PROVE  Linked(P, g, z - 1, RemoveAt(s, i), m \cup {n})
<1> DEFINE t == RemoveAt(s, i)
<1>1. /\ n \in 0..(End - 1) /\ next = NodeAt(s, i + 1) /\ prev = NodeAt(s, i - 1)
      /\ i \in Nat /\ Len(s) \in Nat /\ i <= Len(s) /\ i >= 1
      /\ next \in 0..End /\ prev \in 0..End /\ End \in 0..End
  <2>1. i \in Nat /\ Len(s) \in Nat /\ i <= Len(s) /\ i >= 1
    BY LinkedTypes
  <2>2. N[s[i]].next = NodeAt(s, i + 1) /\ N[s[i]].prev = NodeAt(s, i - 1)
    BY DEF Linked
  <2>3. s[i] \in 0..(End - 1) /\ End \in 0..End /\ \A j : NodeAt(s, j) \in 0..End
    BY LinkedTypes
  <2> QED BY <2>1, <2>2, <2>3
<1>2. /\ t \in Seq(0..(End - 1)) /\ Len(t) = Len(s) - 1
      /\ \A j \in 1..(Len(s) - 1) : t[j] = IF j < i THEN s[j] ELSE s[j + 1]
  <2>1. s \in Seq(0..(End - 1))
    BY DEF Linked
  <2> QED BY <2>1, Removing
<1> HIDE DEF t
<1>3. Once(s)
  BY DEF Linked
<1>4. Once(t)
  <2>1. ASSUME NEW j \in 1..Len(t), NEW k \in 1..Len(t), t[j] = t[k] PROVE j = k
    <3>1. /\ j \in 1..Len(s) /\ j + 1 \in 1..Len(s)
          /\ k \in 1..Len(s) /\ k + 1 \in 1..Len(s)
      <4>1. i \in Nat /\ Len(s) \in Nat /\ Len(t) = Len(s) - 1 /\ j \in 1..Len(t) /\ k \in 1..Len(t)
        BY <1>1, <1>2
      <4> QED BY ONLY <4>1
    <3>2. CASE j < i /\ k < i
      BY <3>1, <3>2, <2>1, <1>2, <1>3 DEF Once
    <3>3. CASE j < i /\ ~(k < i)
      <4>1. s[j] = s[k + 1]
        BY <3>1, <3>3, <2>1, <1>2
      <4>2. j = k + 1
        BY <4>1, <3>1, <1>3 DEF Once
      <4> QED BY <4>2, <3>3, <1>1
    <3>4. CASE ~(j < i) /\ k < i
      <4>1. s[j + 1] = s[k]
        BY <3>1, <3>4, <2>1, <1>2
      <4>2. j + 1 = k
        BY <4>1, <3>1, <1>3 DEF Once
      <4> QED BY <4>2, <3>4, <1>1
    <3>5. CASE ~(j < i) /\ ~(k < i)
      <4>1. s[j + 1] = s[k + 1]
        BY <3>1, <3>5, <2>1, <1>2
      <4>2. j + 1 = k + 1
        BY <4>1, <3>1, <1>3 DEF Once
      <4> QED BY <4>2, <3>1
    <3> QED BY <3>2, <3>3, <3>4, <3>5
  <2> QED BY <2>1 DEF Once
<1>5. \A j \in Nat : NodeAt(t, j) = IF j < i THEN NodeAt(s, j) ELSE NodeAt(s, j + 1)
  <2>1. ASSUME NEW j \in Nat
        PROVE  NodeAt(t, j) = IF j < i THEN NodeAt(s, j) ELSE NodeAt(s, j + 1)
    <3>1. CASE j \in 1..(Len(s) - 1)
      <4>1. j \in 1..Len(s) /\ j + 1 \in 1..Len(s) /\ j \in 1..Len(t)
        <5>1. Len(s) \in Nat /\ Len(t) = Len(s) - 1
          BY ONLY <1>1, <1>2
        <5> QED BY ONLY <3>1, <5>1
      <4>2. t[j] = IF j < i THEN s[j] ELSE s[j + 1]
        BY ONLY <3>1, <1>2
      <4> QED BY ONLY <4>1, <4>2 DEF NodeAt
    <3>2. CASE j \notin 1..(Len(s) - 1) /\ j < i
      BY <3>2, <1>1, <1>2 DEF NodeAt
    <3>3. CASE j \notin 1..(Len(s) - 1) /\ ~(j < i)
      BY <3>3, <1>1, <1>2 DEF NodeAt
    <3> QED BY <3>1, <3>2, <3>3
  <2> QED BY <2>1
<1>6. \A a \in 1..Len(s) : /\ s[a] = n <=> a = i
                           /\ s[a] = prev <=> a = i - 1
                           /\ s[a] = next <=> a = i + 1
  <2>1. ASSUME NEW a \in 1..Len(s)
        PROVE  /\ s[a] = n <=> a = i
               /\ s[a] = prev <=> a = i - 1
               /\ s[a] = next <=> a = i + 1
    <3>1. s[a] = n <=> a = i
      BY <1>3 DEF Once
    <3>2. s[a] = prev <=> a = i - 1
      BY <1>1, PlaceOfNode
    <3>3. s[a] = next <=> a = i + 1
      BY <1>1, PlaceOfNode
    <3> QED BY <3>1, <3>2, <3>3
  <2> QED BY <2>1
<1>7. /\ P \in [0..(End - 1) -> [next : 0..End, prev : 0..End]]
      /\ P[n].next = End /\ P[n].prev = End
      /\ \A x \in 0..(End - 1) : x # n =>
            /\ P[x].next = IF x = prev THEN next ELSE N[x].next
            /\ P[x].prev = IF x = next THEN prev ELSE N[x].prev
  <2>1. N \in [0..(End - 1) -> [next : 0..End, prev : 0..End]]
    BY DEF Linked
  <2> QED BY <2>1, <1>1
<1>8. g = [next |-> NodeAt(t, 1), prev |-> NodeAt(t, Len(t))]
  <2>1. h = [next |-> NodeAt(s, 1), prev |-> NodeAt(s, Len(s))]
    BY DEF Linked
  <2>2. prev = End <=> i = 1
    <3>1. CASE i = 1
      BY <3>1, <1>1 DEF NodeAt
    <3>2. CASE i # 1
      <4>1. i - 1 \in 1..Len(s)
        BY <3>2, <1>1
      <4>2. NodeAt(s, i - 1) = s[i - 1] /\ s[i - 1] \in 0..(End - 1) /\ End \in Nat
        BY <4>1, LinkedTypes DEF NodeAt
      <4> QED BY <4>2, <3>2, <1>1
    <3> QED BY <3>1, <3>2
  <2>3. next = End <=> i = Len(s)
    <3>1. CASE i = Len(s)
      BY <3>1, <1>1 DEF NodeAt
    <3>2. CASE i # Len(s)
      <4>1. i + 1 \in 1..Len(s)
        BY <3>2, <1>1
      <4>2. NodeAt(s, i + 1) = s[i + 1] /\ s[i + 1] \in 0..(End - 1) /\ End \in Nat
        BY <4>1, LinkedTypes DEF NodeAt
      <4> QED BY <4>2, <3>2, <1>1
    <3> QED BY <3>1, <3>2
  <2>4. NodeAt(t, 1) = IF i = 1 THEN next ELSE NodeAt(s, 1)
    <3>1. NodeAt(t, 1) = IF 1 < i THEN NodeAt(s, 1) ELSE NodeAt(s, 1 + 1)
      BY <1>5
    <3> QED BY <3>1, <1>1
  <2>5. NodeAt(t, Len(t)) = IF i = Len(s) THEN prev ELSE NodeAt(s, Len(s))
    <3>1. Len(t) \in Nat /\ Len(t) = Len(s) - 1
      BY <1>1, <1>2
    <3>2. NodeAt(t, Len(t)) = IF Len(t) < i THEN NodeAt(s, Len(t)) ELSE NodeAt(s, Len(t) + 1)
      BY <3>1, <1>5
    <3>3. CASE i = Len(s)
      <4>1. Len(t) < i /\ Len(t) = i - 1
        BY <3>1, <3>3, <1>1
      <4> QED BY <3>2, <3>3, <4>1, <1>1
    <3>4. CASE i # Len(s)
      <4>1. ~(Len(t) < i) /\ Len(t) + 1 = Len(s)
        BY <3>1, <3>4, <1>1
      <4> QED BY <3>2, <3>4, <4>1
    <3> QED BY <3>3, <3>4
  <2> QED BY <2>1, <2>2, <2>3, <2>4, <2>5
<1>9. ASSUME NEW j \in 1..Len(t)
      PROVE  P[t[j]].next = NodeAt(t, j + 1) /\ P[t[j]].prev = NodeAt(t, j - 1)
  <2>0. j \in 1..Len(s) /\ j + 1 \in 1..Len(s) /\ j \in Nat /\ j - 1 \in Nat /\ j + 1 \in Nat
    BY <1>1, <1>2
  <2>1. CASE j < i
    <3>1. /\ t[j] = s[j] /\ s[j] # n /\ s[j] # next /\ s[j] \in 0..(End - 1)
          /\ s[j] = prev <=> j = i - 1
      <4>1. t[j] = s[j]
        BY <2>0, <2>1, <1>2
      <4>2. j # i /\ j # i + 1
        <5>1. j \in Nat /\ i \in Nat
          BY ONLY <2>0, <1>1
        <5> QED BY ONLY <2>1, <5>1
      <4>3. s[j] \in 0..(End - 1)
        BY <2>0, LinkedTypes
      <4> QED BY ONLY <2>0, <4>1, <4>2, <4>3, <1>6
    <3>2. N[s[j]].next = NodeAt(s, j + 1) /\ N[s[j]].prev = NodeAt(s, j - 1)
      BY <2>0 DEF Linked
    <3>3. NodeAt(t, j - 1) = NodeAt(s, j - 1)
      BY <2>0, <2>1, <1>1, <1>5
    <3>4. NodeAt(t, j + 1) = IF j = i - 1 THEN next ELSE NodeAt(s, j + 1)
      <4>1. NodeAt(t, j + 1) = IF j + 1 < i THEN NodeAt(s, j + 1) ELSE NodeAt(s, j + 1 + 1)
        BY <2>0, <1>5
      <4>2. j + 1 < i <=> j # i - 1
        BY <2>0, <2>1, <1>1
      <4>3. j = i - 1 => j + 1 + 1 = i + 1
        BY <1>1
      <4> QED BY <4>1, <4>2, <4>3, <1>1
    <3> QED BY <3>1, <3>2, <3>3, <3>4, <1>7
  <2>2. CASE ~(j < i)
    <3>1. /\ t[j] = s[j + 1] /\ s[j + 1] # n /\ s[j + 1] # prev /\ s[j + 1] \in 0..(End - 1)
          /\ s[j + 1] = next <=> j = i
      <4>1. t[j] = s[j + 1]
        BY <2>0, <2>2, <1>2
      <4>2. j + 1 # i /\ j + 1 # i - 1 /\ (j + 1 = i + 1 <=> j = i)
        BY <2>0, <2>2, <1>1
      <4> QED BY <2>0, <4>1, <4>2, <1>6, LinkedTypes
    <3>2. N[s[j + 1]].next = NodeAt(s, j + 1 + 1) /\ N[s[j + 1]].prev = NodeAt(s, j)
      <4>1. (j + 1) - 1 = j
        BY <2>0
      <4>2. \A k \in 1..Len(s) : N[s[k]].next = NodeAt(s, k + 1) /\ N[s[k]].prev = NodeAt(s, k - 1)
        BY DEF Linked
      <4>3. N[s[j + 1]].next = NodeAt(s, (j + 1) + 1) /\ N[s[j + 1]].prev = NodeAt(s, (j + 1) - 1)
        BY ONLY <2>0, <4>2
      <4> QED BY <4>1, <4>3
    <3>3. NodeAt(t, j + 1) = NodeAt(s, j + 1 + 1)
      BY <2>0, <2>2, <1>1, <1>5
    <3>4. NodeAt(t, j - 1) = IF j = i THEN prev ELSE NodeAt(s, j)
      <4>1. NodeAt(t, j - 1) = IF j - 1 < i THEN NodeAt(s, j - 1) ELSE NodeAt(s, (j - 1) + 1)
        BY <2>0, <1>5
      <4>2. (j - 1 < i <=> j = i) /\ (j - 1) + 1 = j
        <5>1. j \in Nat /\ i \in Nat /\ ~(j < i)
          BY <2>0, <2>2, <1>1
        <5> QED BY ONLY <5>1
      <4> QED BY <4>1, <4>2, <1>1
    <3> QED BY <3>1, <3>2, <3>3, <3>4, <1>7
  <2> QED BY <2>1, <2>2
<1>10. ASSUME NEW x
       PROVE  (\A j \in 1..Len(t) : t[j] # x) <=> (x = n \/ \A j \in 1..Len(s) : s[j] # x)
  <2>1. ASSUME NEW j \in 1..Len(t) PROVE \E k \in 1..Len(s) : t[j] = s[k] /\ s[k] # n
    <3>1. j \in 1..Len(s) /\ j + 1 \in 1..Len(s) /\ (j < i => j # i) /\ (~(j < i) => j + 1 # i)
      <4>1. Len(t) = Len(s) - 1 /\ i \in Nat /\ Len(s) \in Nat /\ j \in 1..Len(t)
        BY <1>1, <1>2, <2>1
      <4> QED BY ONLY <4>1
    <3>2. t[j] = IF j < i THEN s[j] ELSE s[j + 1]
      BY <1>2
    <3> QED BY <3>1, <3>2, <1>6
  <2>2. ASSUME NEW k \in 1..Len(s), s[k] # n PROVE \E j \in 1..Len(t) : t[j] = s[k]
    <3>1. k # i
      BY <2>2
    <3>2. CASE k < i
      <4>1. k \in 1..(Len(s) - 1)
        BY <3>2, <1>1
      <4> QED BY <4>1, <3>2, <1>2
    <3>3. CASE ~(k < i)
      <4>1. k - 1 \in 1..(Len(s) - 1) /\ ~(k - 1 < i) /\ k - 1 + 1 = k
        BY <3>1, <3>3, <1>1
      <4> QED BY <4>1, <1>2
    <3> QED BY <3>2, <3>3
  <2> QED BY <2>1, <2>2
<1>11. ASSUME NEW x \in m \cup {n}
       PROVE  P[x].next = End /\ P[x].prev = End /\ \A j \in 1..Len(t) : t[j] # x
  <2>1. CASE x = n
    BY <2>1, <1>7, <1>10
  <2>2. CASE x # n
    <3>1. /\ x \in 0..(End - 1) /\ N[x].next = End /\ N[x].prev = End
          /\ \A j \in 1..Len(s) : s[j] # x
      BY <2>2 DEF Linked
    <3>2. x # prev /\ x # next
      BY <3>1, <1>1, LinkedTypes DEF NodeAt
    <3> QED BY <2>2, <3>1, <3>2, <1>7, <1>10
  <2> QED BY <2>1, <2>2
<1>12. ASSUME NEW x \in 0..(End - 1)
       PROVE  P[x].next = x <=> (x \notin m \cup {n} /\ \A j \in 1..Len(t) : t[j] # x)
  <2>1. CASE x = n
    BY <2>1, <1>7, LinkedTypes
  <2>2. CASE x # n /\ x = prev
    <3>1. P[x].next = next
      BY <2>2, <1>7
    <3>2. i - 1 \in 1..Len(s) /\ s[i - 1] = x
      BY <2>2, <1>1, LinkedTypes DEF NodeAt
    <3>3. x # next
      <4>1. i - 1 # i + 1
        BY <1>1
      <4> QED BY <3>2, <4>1, <1>6
    <3> QED BY <2>2, <3>1, <3>2, <3>3, <1>10
  <2>3. CASE x # n /\ x # prev
    <3>1. P[x].next = N[x].next
      BY <2>3, <1>7
    <3>2. N[x].next = x <=> (x \notin m /\ \A j \in 1..Len(s) : s[j] # x)
      BY DEF Linked
    <3> QED BY <2>3, <3>1, <3>2, <1>10
  <2> QED BY <2>1, <2>2, <2>3
<1>13. z - 1 = Len(t) /\ m \cup {n} \in SUBSET (0..(End - 1))
  BY <1>1, <1>2 DEF Linked
<1>14. Linked(P, g, z - 1, t, m \cup {n})
  BY <1>2, <1>4, <1>7, <1>8, <1>9, <1>11, <1>12, <1>13 DEF Linked
<1> QED BY <1>14 DEF t

(* The same of the next state.                                             *)
LEMMA DoubleInvNext == DoubleInv' <=> Linked(nodes', head', size', list', mine')
<1>1. (DoubleInv <=> Linked(nodes, head, size, list, mine))'
  BY DoubleInvIs, PTL
<1> QED BY <1>1

(* An empty list has the invariant.                                        *)
LEMMA DoubleStarts == Double!ListInit => DoubleInv
<1> SUFFICES ASSUME Double!ListInit PROVE Linked(nodes, head, size, list, mine)
  BY DoubleInvIs
<1>1. /\ nodes = [n \in 0..(End - 1) |-> [next |-> n, prev |-> n]]
      /\ head = [next |-> End, prev |-> End] /\ size = 0
      /\ list = <<>> /\ mine = {}
  BY DEF Double!ListInit, Double!Hook, Double!Nodes
<1>2. End \in Nat
  BY EndAssumption
<1>3. Len(list) = 0 /\ list \in Seq(0..(End - 1))
  BY <1>1
<1>4. Once(list) /\ NodeAt(list, 1) = End /\ NodeAt(list, Len(list)) = End
  BY <1>3 DEF Once, NodeAt
<1> QED BY <1>1, <1>2, <1>3, <1>4 DEF Linked

(* What the user gets unlinked is the list's node n, wherever it is.       *)
LEMMA UnlinkKeeps ==
  ASSUME DoubleInv, NEW i \in 1..Len(list), Double!Unlink(list[i])
  PROVE  DoubleInv'
<1> DEFINE n == list[i]
           next == nodes[n].next
           prev == nodes[n].prev
           P == [x \in 0..(End - 1) |->
                   IF x = n THEN [next |-> End, prev |-> End]
                   ELSE [next |-> IF x = prev THEN next ELSE nodes[x].next,
                         prev |-> IF x = next THEN prev ELSE nodes[x].prev]]
           g == [next |-> IF prev = End THEN next ELSE head.next,
                 prev |-> IF next = End THEN prev ELSE head.prev]
<1>1. Linked(nodes, head, size, list, mine)
  BY DoubleInvIs
<1>2. /\ nodes' = P /\ head' = g /\ size' = size - 1
      /\ list' = Double!RemoveFirst(list, n) /\ mine' = mine \cup {n}
  BY DEF Double!Unlink, Double!Hook, Double!Nodes
<1>3. list' = RemoveAt(list, i)
  <2>1. list \in Seq(0..(End - 1)) /\ \A j \in 1..Len(list) : list[j] = list[i] => j = i
    BY <1>1 DEF Linked, Once
  <2>2. RemoveFirst(list, n) = RemoveAt(list, i)
    BY <2>1, RemovingFirst
  <2>3. Double!RemoveFirst(list, n) = RemoveFirst(list, n)
    BY DEF Double!RemoveFirst, RemoveFirst, Double!SelectInSeq, SelectInSeq,
           Double!RemoveAt, RemoveAt, Double!Min, Min
  <2> QED BY <1>2, <2>2, <2>3
<1>4. Linked(P, g, size - 1, RemoveAt(list, i), mine \cup {n})
  <2>1. n = list[i] /\ next = nodes[n].next /\ prev = nodes[n].prev
    OBVIOUS
  <2>2. P = [x \in 0..(End - 1) |->
               IF x = n THEN [next |-> End, prev |-> End]
               ELSE [next |-> IF x = prev THEN next ELSE nodes[x].next,
                     prev |-> IF x = next THEN prev ELSE nodes[x].prev]]
    OBVIOUS
  <2>3. g = [next |-> IF prev = End THEN next ELSE head.next,
             prev |-> IF next = End THEN prev ELSE head.prev]
    OBVIOUS
  <2> HIDE DEF n, next, prev, P, g
  <2> QED BY <1>1, <2>1, <2>2, <2>3, Unlinking
<1>5. Linked(nodes', head', size', list', mine')
  BY <1>2, <1>3, <1>4
<1> QED BY <1>5, DoubleInvNext

(* Every operation of the doubly linked list keeps the links right.        *)
LEMMA DoubleStep == DoubleInv /\ Double!ListNext => DoubleInv'
<1> SUFFICES ASSUME DoubleInv, Double!ListNext PROVE DoubleInv'
  OBVIOUS
<1>1. Linked(nodes, head, size, list, mine)
  BY DoubleInvIs
<1> USE DEF Double!Hook, Double!Nodes, Double!IsFree, Double!IsEmpty
<1>2. ASSUME NEW n \in 0..(End - 1), nodes[n].next = n, Double!Acquired(n) PROVE DoubleInv'
  <2>1. Linked([nodes EXCEPT ![n] = [next |-> End, prev |-> End]], head, size, list, mine \cup {n})
    BY <1>1, <1>2, Acquiring
  <2>2. Linked(nodes', head', size', list', mine')
    BY <1>2, <2>1 DEF Double!Acquired
  <2> QED BY <2>2, DoubleInvNext
<1>3. ASSUME Double!NotAcquired PROVE DoubleInv'
  <2>1. Linked(nodes', head', size', list', mine')
    BY <1>1, <1>3 DEF Double!NotAcquired
  <2> QED BY <2>1, DoubleInvNext
<1>4. ASSUME NEW i \in 1..Len(list), Double!Unlink(list[i]) PROVE DoubleInv'
  BY <1>4, UnlinkKeeps
<1>5. CASE Double!TryAcquireOne
  BY <1>2, <1>3, <1>5 DEF Double!TryAcquireOne
<1>6. ASSUME NEW n \in 0..(End - 1), Double!TryAcquire(n) PROVE DoubleInv'
  BY <1>2, <1>3, <1>6 DEF Double!TryAcquire
<1>7. CASE Double!DropHead
  <2>1. Len(list) # 0 /\ list \in Seq(0..(End - 1))
    BY <1>1, <1>7 DEF Double!DropHead, Linked
  <2>2. 1 \in 1..Len(list) /\ head.next = list[1]
    BY <1>1, <2>1, LenProperties DEF Linked, NodeAt
  <2> QED BY <1>4, <1>7, <2>2 DEF Double!DropHead
<1>8. CASE Double!DropTail
  <2>1. Len(list) # 0 /\ list \in Seq(0..(End - 1))
    BY <1>1, <1>8 DEF Double!DropTail, Linked
  <2>2. Len(list) \in 1..Len(list) /\ head.prev = list[Len(list)]
    BY <1>1, <2>1, LenProperties DEF Linked, NodeAt
  <2> QED BY <1>4, <1>8, <2>2 DEF Double!DropTail
<1>9. ASSUME NEW n \in 0..(End - 1), Double!Release(n) PROVE DoubleInv'
  <2>1. n \in mine
    BY <1>9 DEF Double!Release
  <2>2. Linked([nodes EXCEPT ![n] = [next |-> n, prev |-> n]], head, size, list, mine \ {n})
    BY <1>1, <2>1, Releasing
  <2>3. Linked(nodes', head', size', list', mine')
    BY <1>9, <2>2 DEF Double!Release
  <2> QED BY <2>3, DoubleInvNext
<1>10. ASSUME NEW n \in 0..(End - 1), Double!InsertHead(n) PROVE DoubleInv'
  <2>1. /\ n \in mine /\ size' = size + 1 /\ list' = <<n>> \o list /\ mine' = mine \ {n}
        /\ IF head.next = End THEN head' = [next |-> n, prev |-> n] /\ nodes' = nodes
           ELSE /\ nodes' = [nodes EXCEPT ![head.next].prev = n, ![n].next = head.next]
                /\ head' = [head EXCEPT !.next = n]
    BY <1>10 DEF Double!InsertHead
  <2>2. Linked(nodes', head', size + 1, <<n>> \o list, mine \ {n})
    BY <1>1, <2>1, LinkingFirst
  <2>3. Linked(nodes', head', size', list', mine')
    BY <2>1, <2>2
  <2> QED BY <2>3, DoubleInvNext
<1>11. ASSUME NEW n \in 0..(End - 1), Double!InsertTail(n) PROVE DoubleInv'
  <2>1. /\ n \in mine /\ size' = size + 1 /\ list' = Append(list, n) /\ mine' = mine \ {n}
        /\ IF head.next = End THEN head' = [next |-> n, prev |-> n] /\ nodes' = nodes
           ELSE /\ nodes' = [nodes EXCEPT ![head.prev].next = n, ![n].prev = head.prev]
                /\ head' = [head EXCEPT !.prev = n]
    BY <1>11 DEF Double!InsertTail
  <2>2. Linked(nodes', head', size + 1, Append(list, n), mine \ {n})
    BY <1>1, <2>1, LinkingLast
  <2>3. Linked(nodes', head', size', list', mine')
    BY <2>1, <2>2
  <2> QED BY <2>3, DoubleInvNext
<1>12. ASSUME NEW n \in 0..(End - 1), NEW previous \in BOOLEAN, Double!Drop(n, previous)
       PROVE DoubleInv'
  <2>1. CASE Double!NotAcquired
    BY <2>1, <1>3
  <2>2. CASE Double!Contains(list, n) /\ Double!Unlink(n)
    <3>1. PICK i \in 1..Len(list) : list[i] = n
      BY <2>2 DEF Double!Contains
    <3> QED BY <2>2, <3>1, <1>4
  <2> QED BY <1>12, <2>1, <2>2 DEF Double!Drop
<1> QED BY <1>5, <1>6, <1>7, <1>8, <1>9, <1>10, <1>11, <1>12 DEF Double!ListNext

(* What the operations of the doubly linked list tell is so.               *)
LEMMA DoubleTells ==
  ASSUME DoubleInv, NEW n \in 0..(End - 1)
  PROVE  Double!ListIsTrue(n)
<1>1. Linked(nodes, head, size, list, mine)
  BY DoubleInvIs
<1>2. list \in Seq(0..(End - 1)) /\ Len(list) \in Nat /\ DOMAIN list = 1..Len(list)
  BY <1>1, LinkedTypes, LenProperties DEF Linked
<1>3. head = [next |-> NodeAt(list, 1), prev |-> NodeAt(list, Len(list))]
  BY <1>1 DEF Linked
<1>4. ASSUME list # <<>>
      PROVE  head.next = Head(list) /\ head.prev = Last(list)
  <2>1. Len(list) # 0
    BY <1>2, <1>4
  <2>2. NodeAt(list, 1) = list[1] /\ NodeAt(list, Len(list)) = list[Len(list)]
    BY <1>2, <2>1 DEF NodeAt
  <2>3. Head(list) = list[1]
    BY <1>2, <1>4
  <2> QED BY <1>3, <2>2, <2>3 DEF Last
<1>5. Double!DropHead => told' = Head(list)
  BY <1>4 DEF Double!DropHead
<1>6. Double!DropTail => told' = Double!Last(list)
  BY <1>4 DEF Double!DropTail, Double!Last, Last
<1> DEFINE at == CHOOSE i \in DOMAIN list : list[i] = n
           Node(i) == IF i \in DOMAIN list THEN list[i] ELSE End
<1>7. ASSUME NEW previous \in BOOLEAN, Double!Drop(n, previous), Double!Contains(list, n)
      PROVE  told' = Node(IF previous THEN at - 1 ELSE at + 1)
  <2>1. PICK i \in 1..Len(list) : list[i] = n
    BY <1>7 DEF Double!Contains
  <2>2. \A j \in 1..Len(list) : list[j] = n => j = i
    BY <1>1, <2>1 DEF Linked, Once
  <2>3. at = i
    BY <1>2, <2>1, <2>2
  <2>4. nodes[n].next = NodeAt(list, i + 1) /\ nodes[n].prev = NodeAt(list, i - 1)
    BY <1>1, <2>1 DEF Linked
  <2>5. n \notin mine
    BY <1>1, <2>1 DEF Linked
  <2>6. told' = IF previous THEN nodes[n].prev ELSE nodes[n].next
    BY <1>7, <2>5 DEF Double!Drop
  <2>7. NodeAt(list, i + 1) = Node(i + 1) /\ NodeAt(list, i - 1) = Node(i - 1)
    BY <1>2 DEF NodeAt
  <2> HIDE DEF at, Node
  <2> QED BY <2>3, <2>4, <2>6, <2>7
<1> QED BY <1>5, <1>6, <1>7 DEF Double!ListIsTrue


(* Following the links as find_two_previous_nodes does.                    *)
Follows(f, N, h) ==
  f = [k \in 0..End |-> IF k = 0 \/ h = End THEN h
                        ELSE IF f[k - 1] = End THEN End ELSE N[f[k - 1]]]

(* The links N lead from h through the sequence s.                         *)
Leads(N, h, s) ==
  /\ s \in Seq(0..(End - 1)) /\ Once(s)
  /\ h = NodeAt(s, 1)
  /\ \A i \in 1..Len(s) : N[s[i]] = NodeAt(s, i + 1)

(* What such a chain is made of, for the provers.                          *)
LEMMA LeadsTypes ==
  ASSUME NEW N, NEW h, NEW s, Leads(N, h, s)
  PROVE  /\ End \in Nat /\ Len(s) \in Nat /\ Len(s) <= End
         /\ \A i \in 1..Len(s) : s[i] \in 0..(End - 1)
         /\ \A i : NodeAt(s, i) \in 0..End
         /\ h = End <=> Len(s) = 0
<1>1. Len(s) \in Nat /\ \A i \in 1..Len(s) : s[i] \in 0..(End - 1)
  BY LenProperties, ElementOfSeq DEF Leads
<1>2. End \in Nat /\ \A i : NodeAt(s, i) \in 0..End
  <2>1. End \in Nat /\ End \in 0..End /\ \A x \in 0..(End - 1) : x \in 0..End
    BY ONLY EndAssumption
  <2> QED BY ONLY <1>1, <2>1 DEF NodeAt
<1>3. IsFiniteSet(0..(End - 1)) /\ Cardinality(0..(End - 1)) = End
  BY <1>2, FS_Interval
<1>4. Len(s) <= Cardinality(0..(End - 1))
  BY <1>3, DistinctLength DEF Leads, Once
<1>5. h = NodeAt(s, 1)
  BY DEF Leads
<1> QED BY <1>1, <1>2, <1>3, <1>4, <1>5 DEF NodeAt

(* The links followed, node by node, are the sequence's nodes.             *)
LEMMA Following ==
  ASSUME NEW N, NEW h, NEW s, Leads(N, h, s)
  PROVE  /\ Follows([k \in 0..End |-> NodeAt(s, k + 1)], N, h)
         /\ \A f : Follows(f, N, h) => \A k \in 0..End : f[k] = NodeAt(s, k + 1)
<1> DEFINE W == [k \in 0..End |-> NodeAt(s, k + 1)]
<1>0. End \in Nat /\ Len(s) \in Nat /\ Len(s) <= End /\ h = NodeAt(s, 1) /\ (h = End <=> Len(s) = 0)
  BY LeadsTypes DEF Leads
<1>1. ASSUME NEW k \in 1..End
      PROVE  NodeAt(s, k + 1) = IF h = End THEN h
                                ELSE IF NodeAt(s, k) = End THEN End ELSE N[NodeAt(s, k)]
  <2>1. CASE k \in 1..Len(s)
    <3>1. NodeAt(s, k) = s[k] /\ s[k] \in 0..(End - 1) /\ N[s[k]] = NodeAt(s, k + 1)
      BY <2>1, LeadsTypes DEF Leads, NodeAt
    <3> QED BY <3>1, <2>1, <1>0
  <2>2. CASE k \notin 1..Len(s)
    <3>1. NodeAt(s, k) = End /\ NodeAt(s, k + 1) = End
      BY <2>2, <1>0 DEF NodeAt
    <3> QED BY <3>1
  <2> QED BY <2>1, <2>2
<1>2. Follows(W, N, h)
  <2>1. ASSUME NEW k \in 0..End
        PROVE  W[k] = IF k = 0 \/ h = End THEN h
                      ELSE IF W[k - 1] = End THEN End ELSE N[W[k - 1]]
    <3>1. CASE k = 0
      BY <3>1, <1>0
    <3>2. CASE k # 0
      <4>1. k \in 1..End /\ k - 1 \in 0..End /\ (k - 1) + 1 = k
        BY <3>2, <1>0
      <4>2. W[k] = NodeAt(s, k + 1) /\ W[k - 1] = NodeAt(s, k)
        BY <4>1
      <4> HIDE DEF W
      <4> QED BY <4>1, <4>2, <3>2, <1>1
    <3> QED BY <3>1, <3>2
  <2> QED BY <2>1 DEF Follows
<1>3. ASSUME NEW f, Follows(f, N, h), NEW j \in 0..End, f[j] # NodeAt(s, j + 1) PROVE FALSE
  <2> DEFINE Bad == {k \in 0..End : f[k] # NodeAt(s, k + 1)}
  <2>1. PICK m \in Bad : \A k \in Bad : m <= k
    <3>1. Bad \in SUBSET Nat /\ j \in Bad
      BY <1>0, <1>3
    <3> HIDE DEF Bad
    <3> QED BY <3>1, Smallest
  <2>2. m \in 0..End /\ f[m] # NodeAt(s, m + 1)
    OBVIOUS
  <2>3. f[m] = IF m = 0 \/ h = End THEN h
               ELSE IF f[m - 1] = End THEN End ELSE N[f[m - 1]]
    BY <2>2, <1>3 DEF Follows
  <2>4. m # 0
    BY <1>0, <2>2, <2>3
  <2>5. m - 1 \in 0..End /\ m \in 1..End /\ (m - 1) + 1 = m
    BY <2>2, <2>4, <1>0
  <2>6. f[m - 1] = NodeAt(s, m)
    <3>1. m - 1 \notin Bad
      <4>1. ~(m <= m - 1)
        BY <2>5
      <4> HIDE DEF Bad
      <4> QED BY <4>1, <2>1
    <3> QED BY <3>1, <2>5
  <2> QED BY <2>2, <2>3, <2>4, <2>5, <2>6, <1>1
<1> QED BY <1>2, <1>3

(* The two nodes before the place of val.                                  *)
LEMMA TwoBeforeIs ==
  ASSUME Leads(nodes, head, list), NEW p \in 1..(Len(list) + 1), NEW val, val = NodeAt(list, p)
  PROVE  /\ Single!TwoBefore(val).prev = NodeAt(list, p - 1)
         /\ Single!TwoBefore(val).prev2 = NodeAt(list, p - 2)
<1> DEFINE it == CHOOSE f : Follows(f, nodes, head)
           steps == CHOOSE k \in 0..End : it[k] = val /\ \A j \in 0..(k - 1) : it[j] # val
<1>1. /\ Single!TwoBefore(val).prev = IF steps > 0 THEN it[steps - 1] ELSE End
      /\ Single!TwoBefore(val).prev2 = IF steps > 1 THEN it[steps - 2] ELSE End
  BY DEF Single!TwoBefore, Follows
<1>2. Follows(it, nodes, head)
  BY Following
<1>3. \A k \in 0..End : it[k] = NodeAt(list, k + 1)
  BY <1>2, Following
<1> HIDE DEF it
<1>4. /\ Len(list) \in Nat /\ End \in Nat /\ Len(list) <= End
      /\ \A i \in 1..Len(list) : list[i] \in 0..(End - 1)
  BY LeadsTypes
<1>5. p - 1 \in 0..End /\ it[p - 1] = val
  <2>1. p - 1 \in 0..End /\ (p - 1) + 1 = p
    BY <1>4
  <2> QED BY <2>1, <1>3
<1>6. ASSUME NEW k \in 0..End, NEW j \in 0..(k - 1), it[k] = val, k <= p - 1
      PROVE  it[j] # val
  <2>1. j \in 0..End /\ j + 1 \in 1..Len(list) /\ j + 1 < p
    BY <1>4, <1>6
  <2>2. it[j] = list[j + 1] /\ list[j + 1] \in 0..(End - 1)
    BY <2>1, <1>3, <1>4 DEF NodeAt
  <2>3. CASE p \in 1..Len(list)
    <3>1. val = list[p]
      BY <2>3 DEF NodeAt
    <3>2. list[p] = list[j + 1] => p = j + 1
      BY <2>1, <2>3 DEF Leads, Once
    <3> QED BY <3>1, <3>2, <2>1, <2>2
  <2>4. CASE p \notin 1..Len(list)
    <3>1. val = End
      BY <2>4 DEF NodeAt
    <3> QED BY <3>1, <2>2, <1>4
  <2> QED BY <2>3, <2>4
<1>7. steps = p - 1
  <2>1. \A j \in 0..((p - 1) - 1) : it[j] # val
    BY <1>4, <1>5, <1>6
  <2>2. ASSUME NEW k \in 0..End, it[k] = val, \A j \in 0..(k - 1) : it[j] # val PROVE k = p - 1
    <3>1. CASE k < p - 1
      <4>1. k \in 0..((p - 1) - 1)
        BY <3>1, <1>4
      <4> QED BY <4>1, <2>1, <2>2
    <3>2. CASE k > p - 1
      <4>1. p - 1 \in 0..(k - 1)
        BY <3>2, <1>4
      <4> QED BY <4>1, <2>2, <1>5
    <3> QED BY <3>1, <3>2, <1>4
  <2> QED BY <1>5, <2>1, <2>2
<1> HIDE DEF steps
<1>8. p - 1 > 0 => it[(p - 1) - 1] = NodeAt(list, p - 1)
  <2>1. p - 1 > 0 => (p - 1) - 1 \in 0..End /\ ((p - 1) - 1) + 1 = p - 1
    BY <1>4
  <2> QED BY <2>1, <1>3
<1>9. p - 1 > 1 => it[(p - 1) - 2] = NodeAt(list, p - 2)
  <2>1. p - 1 > 1 => (p - 1) - 2 \in 0..End /\ ((p - 1) - 2) + 1 = p - 2
    BY <1>4
  <2> QED BY <2>1, <1>3
<1>10. (~(p - 1 > 0) => NodeAt(list, p - 1) = End) /\ (~(p - 1 > 1) => NodeAt(list, p - 2) = End)
  BY <1>4 DEF NodeAt
<1> QED BY <1>1, <1>7, <1>8, <1>9, <1>10

(* The inductive invariant of a singly linked list.                        *)
SingleInv ==
  /\ list \in Seq(Single!Nodes) /\ Once(list)
  /\ mine \in SUBSET Single!Nodes
  /\ nodes \in [Single!Nodes -> 0..End]
  /\ Single!ListHolds

(* The invariant, of a list s, place by place.                             *)
Chained(N, h, z, s, m) ==
  /\ Leads(N, h, s)
  /\ m \in SUBSET (0..(End - 1))
  /\ N \in [0..(End - 1) -> 0..End]
  /\ z = Len(s)
  /\ \A x \in m : N[x] = End /\ \A i \in 1..Len(s) : s[i] # x
  /\ \A x \in 0..(End - 1) :
       N[x] = x <=> (x \notin m /\ \A i \in 1..Len(s) : s[i] # x)

(* Read from the list's sequence, the invariant says what each link is.    *)
LEMMA SingleInvIs == SingleInv <=> Chained(nodes, head, size, list, mine)
<1> DEFINE T == /\ list \in Seq(0..(End - 1)) /\ Once(list)
                /\ mine \in SUBSET (0..(End - 1))
                /\ nodes \in [0..(End - 1) -> 0..End]
<1>1. ASSUME T
      PROVE Single!ListHolds <=> Chained(nodes, head, size, list, mine)
  <2>1. DOMAIN list = 1..Len(list) /\ Len(list) \in Nat
    BY <1>1, LenProperties
  <2>2. list = <<>> <=> Len(list) = 0
    BY <1>1
  <2>3. (head = IF list = <<>> THEN End ELSE list[1]) <=> head = NodeAt(list, 1)
    BY <2>1, <2>2 DEF NodeAt
  <2>4. \A i \in 1..Len(list) :
          (nodes[list[i]] = IF i = Len(list) THEN End ELSE list[i + 1])
            <=> nodes[list[i]] = NodeAt(list, i + 1)
    <3>1. \A i \in 1..Len(list) : i + 1 \in 1..Len(list) <=> i # Len(list)
      <4>1. \A k \in Nat : \A i \in 1..k : i + 1 \in 1..k <=> i # k
        OBVIOUS
      <4> QED BY <2>1, <4>1
    <3> HIDE DEF T
    <3> QED BY <3>1 DEF NodeAt
  <2>5. \A x \in mine : (nodes[x] = End /\ ~Single!Contains(list, x)) <=>
                        (nodes[x] = End /\ \A i \in 1..Len(list) : list[i] # x)
    BY DEF Single!Contains
  <2>6. \A x \in 0..(End - 1) :
          (Single!IsFree(x) <=> x \notin mine \cup Single!ToSet(list)) <=>
          (nodes[x] = x <=> (x \notin mine /\ \A i \in 1..Len(list) : list[i] # x))
    BY <2>1 DEF Single!IsFree, Single!ToSet
  <2>7. Single!ListHolds <=>
           /\ size = Len(list)
           /\ head = NodeAt(list, 1)
           /\ \A i \in 1..Len(list) : nodes[list[i]] = NodeAt(list, i + 1)
           /\ \A x \in mine : nodes[x] = End /\ \A i \in 1..Len(list) : list[i] # x
           /\ \A x \in 0..(End - 1) :
                nodes[x] = x <=> (x \notin mine /\ \A i \in 1..Len(list) : list[i] # x)
    <3> HIDE DEF T
    <3> QED BY <2>1, <2>3, <2>4, <2>5, <2>6 DEF Single!ListHolds, Single!Nodes
  <2>8. /\ list \in Seq(0..(End - 1)) /\ Once(list)
        /\ mine \in SUBSET (0..(End - 1))
        /\ nodes \in [0..(End - 1) -> 0..End]
    BY <1>1
  <2> HIDE DEF T
  <2> QED BY <2>7, <2>8 DEF Chained, Leads
<1>2. Chained(nodes, head, size, list, mine) => T
  BY DEF Chained, Leads
<1>3. SingleInv <=> T /\ Single!ListHolds
  BY DEF SingleInv, Single!Nodes
<1> HIDE DEF T
<1> QED BY <1>1, <1>2, <1>3

(* The same of the next state.                                             *)
LEMMA SingleInvNext == SingleInv' <=> Chained(nodes', head', size', list', mine')
<1>1. (SingleInv <=> Chained(nodes, head, size, list, mine))'
  BY SingleInvIs, PTL
<1> QED BY <1>1

(* An empty list has the invariant.                                        *)
LEMMA SingleStarts == Single!ListInit => SingleInv
<1> SUFFICES ASSUME Single!ListInit PROVE Chained(nodes, head, size, list, mine)
  BY SingleInvIs
<1>1. /\ nodes = [n \in 0..(End - 1) |-> n]
      /\ head = End /\ size = 0
      /\ list = <<>> /\ mine = {}
  BY DEF Single!ListInit, Single!Nodes
<1>2. End \in Nat
  BY EndAssumption
<1>3. Len(list) = 0 /\ list \in Seq(0..(End - 1))
  BY <1>1
<1>4. Once(list) /\ NodeAt(list, 1) = End
  BY <1>3 DEF Once, NodeAt
<1> QED BY <1>1, <1>2, <1>3, <1>4 DEF Chained, Leads

(* A node free is the user's, and one of the user's free.                  *)
LEMMA Handing ==
  ASSUME NEW N, NEW h, NEW z, NEW s, NEW m, Chained(N, h, z, s, m),
         NEW n \in 0..(End - 1)
  PROVE  /\ N[n] = n => Chained([N EXCEPT ![n] = End], h, z, s, m \cup {n})
         /\ n \in m => Chained([N EXCEPT ![n] = n], h, z, s, m \ {n})
<1>1. Leads(N, h, s) /\ N \in [0..(End - 1) -> 0..End]
  BY DEF Chained
<1>2. End \in Nat /\ \A i \in 1..Len(s) : s[i] \in 0..(End - 1)
  BY <1>1, LeadsTypes
<1>3. \A x \in m : x \in 0..(End - 1) /\ N[x] = End /\ \A i \in 1..Len(s) : s[i] # x
  BY DEF Chained
<1>4. \A x \in 0..(End - 1) : N[x] = x <=> (x \notin m /\ \A i \in 1..Len(s) : s[i] # x)
  BY DEF Chained
<1>5. ASSUME NEW v \in 0..End, \A i \in 1..Len(s) : s[i] # n
      PROVE  /\ Leads([N EXCEPT ![n] = v], h, s)
             /\ [N EXCEPT ![n] = v] \in [0..(End - 1) -> 0..End]
  <2> DEFINE P == [N EXCEPT ![n] = v]
  <2>1. P \in [0..(End - 1) -> 0..End] /\ \A x \in 0..(End - 1) : x # n => P[x] = N[x]
    BY <1>1
  <2> HIDE DEF P
  <2>2. \A i \in 1..Len(s) : P[s[i]] = N[s[i]]
    BY <2>1, <1>2, <1>5
  <2>3. Leads(P, h, s)
    BY <1>1, <2>2 DEF Leads
  <2> QED BY <2>1, <2>3 DEF P
<1>6. ASSUME N[n] = n
      PROVE  Chained([N EXCEPT ![n] = End], h, z, s, m \cup {n})
  <2>1. n \notin m /\ \A i \in 1..Len(s) : s[i] # n
    BY <1>4, <1>6
  <2> DEFINE P == [N EXCEPT ![n] = End]
  <2>2. P[n] = End /\ \A x \in 0..(End - 1) : x # n => P[x] = N[x]
    BY <1>1
  <2>3. End \in 0..End
    BY <1>2
  <2>4. Leads(P, h, s) /\ P \in [0..(End - 1) -> 0..End]
    BY <1>5, <2>1, <2>3
  <2> HIDE DEF P
  <2>5. \A x \in m \cup {n} : P[x] = End /\ \A i \in 1..Len(s) : s[i] # x
    BY <1>3, <2>1, <2>2
  <2>6. \A x \in 0..(End - 1) : P[x] = x <=> (x \notin m \cup {n} /\ \A i \in 1..Len(s) : s[i] # x)
    BY <1>2, <1>4, <2>1, <2>2
  <2>7. z = Len(s) /\ m \cup {n} \in SUBSET (0..(End - 1))
    BY DEF Chained
  <2>8. Chained(P, h, z, s, m \cup {n})
    BY <2>4, <2>5, <2>6, <2>7 DEF Chained
  <2> QED BY <2>8 DEF P
<1>7. ASSUME n \in m
      PROVE  Chained([N EXCEPT ![n] = n], h, z, s, m \ {n})
  <2>1. \A i \in 1..Len(s) : s[i] # n
    BY <1>3, <1>7
  <2> DEFINE P == [N EXCEPT ![n] = n]
  <2>2. P[n] = n /\ \A x \in 0..(End - 1) : x # n => P[x] = N[x]
    BY <1>1
  <2>3. n \in 0..End
    BY <1>2
  <2>4. Leads(P, h, s) /\ P \in [0..(End - 1) -> 0..End]
    BY <1>5, <2>1, <2>3
  <2> HIDE DEF P
  <2>5. \A x \in m \ {n} : P[x] = End /\ \A i \in 1..Len(s) : s[i] # x
    BY <1>3, <2>2
  <2>6. \A x \in 0..(End - 1) : P[x] = x <=> (x \notin m \ {n} /\ \A i \in 1..Len(s) : s[i] # x)
    BY <1>4, <2>1, <2>2
  <2>7. z = Len(s) /\ m \ {n} \in SUBSET (0..(End - 1))
    BY DEF Chained
  <2>8. Chained(P, h, z, s, m \ {n})
    BY <2>4, <2>5, <2>6, <2>7 DEF Chained
  <2> QED BY <2>8 DEF P
<1> QED BY <1>6, <1>7

(* A node the user has is linked before the first node.                    *)
LEMMA ChainingFirst ==
  ASSUME NEW N, NEW h, NEW z, NEW s, NEW m, Chained(N, h, z, s, m), NEW n \in m
  PROVE  Chained([N EXCEPT ![n] = h], n, z + 1, <<n>> \o s, m \ {n})
<1> DEFINE t == <<n>> \o s
           P == [N EXCEPT ![n] = h]
<1>0. Leads(N, h, s) /\ N \in [0..(End - 1) -> 0..End]
  BY DEF Chained
<1>1. n \in 0..(End - 1) /\ N[n] = End /\ \A i \in 1..Len(s) : s[i] # n
  BY DEF Chained
<1>2. /\ t \in Seq(0..(End - 1)) /\ Len(t) = Len(s) + 1 /\ Len(s) \in Nat
      /\ \A i \in 1..(Len(s) + 1) : t[i] = IF i = 1 THEN n ELSE s[i - 1]
  <2>1. s \in Seq(0..(End - 1)) /\ <<n>> \in Seq(0..(End - 1)) /\ Len(<<n>>) = 1 /\ <<n>>[1] = n
    BY <1>0, <1>1 DEF Leads
  <2>2. /\ t \in Seq(0..(End - 1)) /\ Len(t) = 1 + Len(s)
        /\ \A i \in 1..(1 + Len(s)) : t[i] = IF i <= 1 THEN <<n>>[i] ELSE s[i - 1]
    BY <2>1, ConcatProperties
  <2>3. Len(s) \in Nat
    BY <1>0, LeadsTypes
  <2> HIDE DEF t
  <2> QED BY <2>1, <2>2, <2>3
<1> HIDE DEF t
<1>3. Once(t)
  <2>1. \A i \in 2..(Len(s) + 1) : i - 1 \in 1..Len(s) /\ t[i] = s[i - 1]
    BY <1>2
  <2>2. Once(s)
    BY <1>0 DEF Leads
  <2>3. ASSUME NEW i \in 1..Len(t), NEW j \in 1..Len(t), t[i] = t[j] PROVE i = j
    <3>1. CASE i = 1 /\ j = 1
      BY <3>1
    <3>2. CASE i = 1 /\ j # 1
      BY <3>2, <2>1, <2>3, <1>1, <1>2
    <3>3. CASE i # 1 /\ j = 1
      BY <3>3, <2>1, <2>3, <1>1, <1>2
    <3>4. CASE i # 1 /\ j # 1
      <4>1. s[i - 1] = s[j - 1] /\ i - 1 \in 1..Len(s) /\ j - 1 \in 1..Len(s)
        BY <3>4, <2>1, <2>3, <1>2
      <4>2. i - 1 = j - 1
        BY <4>1, <2>2 DEF Once
      <4> QED BY <4>2, <1>2
    <3> QED BY <3>1, <3>2, <3>3, <3>4
  <2> QED BY <2>3 DEF Once
<1>4. NodeAt(t, 1) = n /\ \A i \in 1..(Len(s) + 1) : NodeAt(t, i + 1) = NodeAt(s, i)
  BY <1>2 DEF NodeAt
<1>5. /\ h = NodeAt(s, 1) /\ h \in 0..End /\ h # n
      /\ P \in [0..(End - 1) -> 0..End]
      /\ P[n] = h
      /\ \A x \in 0..(End - 1) : x # n => P[x] = N[x]
  <2>1. h = NodeAt(s, 1) /\ NodeAt(s, 1) \in 0..End
    BY <1>0, LeadsTypes DEF Leads
  <2>2. NodeAt(s, 1) # n
    BY <1>0, <1>1, LeadsTypes DEF NodeAt
  <2> QED BY <1>0, <1>1, <2>1, <2>2
<1> HIDE DEF P
<1>6. ASSUME NEW i \in 1..Len(t)
      PROVE  P[t[i]] = NodeAt(t, i + 1)
  <2>1. CASE i = 1
    BY <2>1, <1>2, <1>4, <1>5
  <2>2. CASE i # 1
    <3>1. i - 1 \in 1..Len(s) /\ t[i] = s[i - 1] /\ (i - 1) + 1 = i /\ i \in 1..(Len(s) + 1)
      BY <2>2, <1>2
    <3>2. s[i - 1] # n /\ s[i - 1] \in 0..(End - 1)
      BY <3>1, <1>0, <1>1, LeadsTypes
    <3>3. N[s[i - 1]] = NodeAt(s, (i - 1) + 1)
      BY <3>1, <1>0 DEF Leads
    <3> QED BY <3>1, <3>2, <3>3, <1>4, <1>5
  <2> QED BY <2>1, <2>2
<1>7. ASSUME NEW x
      PROVE  (\A i \in 1..Len(t) : t[i] # x) <=> x # n /\ \A i \in 1..Len(s) : s[i] # x
  <2>1. 1 \in 1..Len(t) /\ \A i \in 1..Len(s) : i + 1 \in 1..Len(t) /\ t[i + 1] = s[i]
    BY <1>2
  <2>2. \A i \in 1..Len(t) : i # 1 => i - 1 \in 1..Len(s) /\ t[i] = s[i - 1]
    BY <1>2
  <2>3. t[1] = n
    BY <1>2
  <2>4. ASSUME NEW i \in 1..Len(t), t[i] = x, x # n PROVE \E j \in 1..Len(s) : s[j] = x
    BY <2>2, <2>3, <2>4
  <2>5. ASSUME NEW j \in 1..Len(s), s[j] = x PROVE \E i \in 1..Len(t) : t[i] = x
    BY <2>1, <2>5
  <2> QED BY <2>1, <2>3, <2>4, <2>5
<1>8. \A x \in m \ {n} : P[x] = End /\ \A i \in 1..Len(t) : t[i] # x
  <2>1. \A x \in m : x \in 0..(End - 1) /\ N[x] = End /\ \A i \in 1..Len(s) : s[i] # x
    BY DEF Chained
  <2> QED BY <2>1, <1>5, <1>7
<1>9. \A x \in 0..(End - 1) :
        P[x] = x <=> (x \notin m \ {n} /\ \A i \in 1..Len(t) : t[i] # x)
  <2>1. \A x \in 0..(End - 1) : N[x] = x <=> (x \notin m /\ \A i \in 1..Len(s) : s[i] # x)
    BY DEF Chained
  <2> QED BY <2>1, <1>5, <1>7
<1>10. z + 1 = Len(t) /\ m \ {n} \in SUBSET (0..(End - 1))
  BY <1>2 DEF Chained
<1>11. Leads(P, n, t)
  BY <1>2, <1>3, <1>4, <1>6 DEF Leads
<1>12. Chained(P, n, z + 1, t, m \ {n})
  BY <1>5, <1>8, <1>9, <1>10, <1>11 DEF Chained
<1> QED BY <1>12 DEF t, P

(* A node the user has is linked after the last node.                      *)
LEMMA ChainingLast ==
  ASSUME NEW N, NEW h, NEW z, NEW s, NEW m, Chained(N, h, z, s, m), NEW n \in m,
         NEW P, NEW g,
         IF h # End THEN P = [N EXCEPT ![NodeAt(s, Len(s))] = n] /\ g = h
         ELSE g = n /\ P = N
  PROVE  Chained(P, g, z + 1, Append(s, n), m \ {n})
<1> DEFINE t == Append(s, n)
           last == NodeAt(s, Len(s))
<1>0. Leads(N, h, s) /\ N \in [0..(End - 1) -> 0..End]
  BY DEF Chained
<1>1. n \in 0..(End - 1) /\ N[n] = End /\ \A i \in 1..Len(s) : s[i] # n
  BY DEF Chained
<1>2. /\ t \in Seq(0..(End - 1)) /\ Len(t) = Len(s) + 1 /\ Len(s) \in Nat
      /\ \A i \in 1..Len(s) : t[i] = s[i]
      /\ t[Len(s) + 1] = n
  <2>1. s \in Seq(0..(End - 1)) /\ Len(s) \in Nat
    BY <1>0, LeadsTypes DEF Leads
  <2> QED BY <1>1, <2>1, AppendProperties
<1> HIDE DEF t
<1>3. Once(t)
  <2>1. Once(s)
    BY <1>0 DEF Leads
  <2>2. ASSUME NEW i \in 1..Len(t), NEW j \in 1..Len(t), t[i] = t[j] PROVE i = j
    <3>1. CASE i = Len(s) + 1
      BY <3>1, <2>2, <1>1, <1>2
    <3>2. CASE j = Len(s) + 1
      BY <3>2, <2>2, <1>1, <1>2
    <3>3. CASE i # Len(s) + 1 /\ j # Len(s) + 1
      <4>1. i \in 1..Len(s) /\ j \in 1..Len(s)
        BY <3>3, <1>2
      <4> QED BY <4>1, <2>1, <2>2, <1>2 DEF Once
    <3> QED BY <3>1, <3>2, <3>3
  <2> QED BY <2>2 DEF Once
<1>4. NodeAt(t, Len(t)) = n /\ \A i \in 0..Len(s) : NodeAt(t, i) = NodeAt(s, i)
  BY <1>2 DEF NodeAt
<1>5. /\ g = NodeAt(t, 1)
      /\ P \in [0..(End - 1) -> 0..End]
      /\ P[n] = End /\ last # n
      /\ \A x \in 0..(End - 1) : P[x] = IF x = last THEN n ELSE N[x]
  <2>1. h = NodeAt(s, 1) /\ (h = End <=> Len(s) = 0) /\ End \in Nat
    BY <1>0, LeadsTypes DEF Leads
  <2>2. CASE Len(s) = 0
    <3>1. h = End /\ last = End
      BY <2>1, <2>2 DEF NodeAt
    <3>2. g = n /\ P = N
      BY <3>1
    <3>3. NodeAt(t, 1) = n
      BY <2>2, <1>2, <1>4
    <3>4. \A x \in 0..(End - 1) : x # End
      BY <2>1
    <3> QED BY <3>1, <3>2, <3>3, <3>4, <1>0, <1>1
  <2>3. CASE Len(s) # 0
    <3>1. h # End /\ last \in 0..(End - 1) /\ last # n
      <4>1. Len(s) \in 1..Len(s)
        BY <2>3, <1>2
      <4> QED BY <4>1, <2>3, <2>1, <1>0, <1>1, LeadsTypes DEF NodeAt
    <3>2. P = [N EXCEPT ![last] = n] /\ g = h
      BY <3>1
    <3>3. NodeAt(t, 1) = NodeAt(s, 1)
      BY <2>3, <1>2, <1>4
    <3>4. n \in 0..End
      BY <1>1, <2>1
    <3> HIDE DEF last
    <3>5. P \in [0..(End - 1) -> 0..End] /\ \A x \in 0..(End - 1) : P[x] = IF x = last THEN n ELSE N[x]
      BY <3>1, <3>2, <3>4, <1>0
    <3> QED BY <3>1, <3>2, <3>3, <3>5, <2>1, <1>1
  <2> QED BY <2>2, <2>3
<1>6. ASSUME NEW i \in 1..Len(t)
      PROVE  P[t[i]] = NodeAt(t, i + 1)
  <2>1. CASE i = Len(s) + 1
    <3>1. NodeAt(t, i + 1) = End /\ t[i] = n
      BY <2>1, <1>2 DEF NodeAt
    <3> QED BY <3>1, <1>5
  <2>2. CASE i # Len(s) + 1
    <3>1. i \in 1..Len(s) /\ t[i] = s[i]
      BY <2>2, <1>2
    <3>2. s[i] \in 0..(End - 1)
      BY <3>1, <1>0, LeadsTypes
    <3>3. N[s[i]] = NodeAt(s, i + 1)
      BY <3>1, <1>0 DEF Leads
    <3>4. CASE i = Len(s)
      <4>1. last = s[i] /\ NodeAt(t, i + 1) = n
        BY <3>1, <3>4, <1>2, <1>4 DEF NodeAt
      <4> QED BY <3>1, <3>2, <4>1, <1>5
    <3>5. CASE i # Len(s)
      <4>1. i + 1 \in 1..Len(s)
        BY <3>5, <3>1, <1>2
      <4>2. NodeAt(t, i + 1) = NodeAt(s, i + 1)
        BY <4>1, <1>4
      <4>3. s[i] # last
        <5>1. Once(s) /\ Len(s) \in 1..Len(s)
          BY <3>1, <1>0, <1>2 DEF Leads
        <5> QED BY <5>1, <3>1, <3>5 DEF Once, NodeAt
      <4> QED BY <3>1, <3>2, <3>3, <4>2, <4>3, <1>5
    <3> QED BY <3>4, <3>5
  <2> QED BY <2>1, <2>2
<1>7. ASSUME NEW x
      PROVE  (\A i \in 1..Len(t) : t[i] # x) <=> x # n /\ \A i \in 1..Len(s) : s[i] # x
  <2>1. Len(s) + 1 \in 1..Len(t) /\ \A i \in 1..Len(s) : i \in 1..Len(t)
    BY <1>2
  <2>2. \A i \in 1..Len(t) : i \in 1..Len(s) \/ i = Len(s) + 1
    BY <1>2
  <2> QED BY <2>1, <2>2, <1>2
<1>8. ASSUME NEW x \in m \ {n}
      PROVE  P[x] = End /\ \A i \in 1..Len(t) : t[i] # x
  <2>1. x \in 0..(End - 1) /\ N[x] = End /\ \A i \in 1..Len(s) : s[i] # x
    BY DEF Chained
  <2>2. x # last
    BY <2>1, <1>0, LeadsTypes DEF NodeAt
  <2> QED BY <2>1, <2>2, <1>5, <1>7
<1>9. ASSUME NEW x \in 0..(End - 1)
      PROVE  P[x] = x <=> (x \notin m \ {n} /\ \A i \in 1..Len(t) : t[i] # x)
  <2>1. CASE x = last
    <3>1. P[x] # x /\ last # End
      BY <2>1, <1>0, <1>5, LeadsTypes
    <3>2. \E i \in 1..Len(s) : s[i] = x
      BY <2>1, <3>1 DEF NodeAt
    <3> QED BY <3>1, <3>2, <1>7
  <2>2. CASE x # last
    <3>1. P[x] = N[x]
      BY <2>2, <1>5
    <3>2. N[x] = x <=> (x \notin m /\ \A i \in 1..Len(s) : s[i] # x)
      BY DEF Chained
    <3>3. N[n] # n
      BY <1>1
    <3> QED BY <2>2, <3>1, <3>2, <3>3, <1>7
  <2> QED BY <2>1, <2>2
<1>10. z + 1 = Len(t) /\ m \ {n} \in SUBSET (0..(End - 1))
  BY <1>2 DEF Chained
<1>11. Leads(P, g, t)
  BY <1>2, <1>3, <1>5, <1>6 DEF Leads
<1>12. Chained(P, g, z + 1, t, m \ {n})
  BY <1>5, <1>8, <1>9, <1>10, <1>11 DEF Chained
<1> QED BY <1>12 DEF t

(* P and g are the links N and the head h once the node at place i of s is *)
(* passed over.                                                            *)
PassedOver(N, h, s, i, P, g) ==
  /\ P \in [0..(End - 1) -> 0..End] /\ P[s[i]] = End
  /\ \A x \in 0..(End - 1) :
       x # s[i] => P[x] = IF x = NodeAt(s, i - 1) THEN NodeAt(s, i + 1) ELSE N[x]
  /\ g = IF i = 1 THEN NodeAt(s, 2) ELSE h

(* The node at place i is taken out of the chain.                          *)
LEMMA Unchaining ==
  ASSUME NEW N, NEW h, NEW z, NEW s, NEW m, Chained(N, h, z, s, m),
         NEW i \in 1..Len(s), NEW P, NEW g, PassedOver(N, h, s, i, P, g)
  PROVE  Chained(P, g, z - 1, RemoveAt(s, i), m \cup {s[i]})
<1> USE DEF PassedOver
<1> DEFINE t == RemoveAt(s, i)
           n == s[i]
<1>0. Leads(N, h, s) /\ Once(s)
  BY DEF Chained, Leads
<1>1. /\ n \in 0..(End - 1)
      /\ i \in Nat /\ Len(s) \in Nat /\ i <= Len(s) /\ i >= 1 /\ End \in Nat
      /\ \A j \in 1..Len(s) : s[j] \in 0..(End - 1)
  BY <1>0, LeadsTypes
<1>2. /\ t \in Seq(0..(End - 1)) /\ Len(t) = Len(s) - 1
      /\ \A j \in 1..(Len(s) - 1) : t[j] = IF j < i THEN s[j] ELSE s[j + 1]
  <2>1. s \in Seq(0..(End - 1))
    BY <1>0 DEF Leads
  <2> QED BY <2>1, Removing
<1> HIDE DEF t, n
<1>3. \A a, b \in 1..Len(s) : s[a] = s[b] => a = b
  BY <1>0 DEF Once
<1>4. Once(t)
  <2>1. ASSUME NEW j \in 1..Len(t), NEW k \in 1..Len(t), t[j] = t[k] PROVE j = k
    <3>1. /\ j \in 1..Len(s) /\ j + 1 \in 1..Len(s)
          /\ k \in 1..Len(s) /\ k + 1 \in 1..Len(s)
      <4>1. i \in Nat /\ Len(s) \in Nat /\ Len(t) = Len(s) - 1 /\ j \in 1..Len(t) /\ k \in 1..Len(t)
        BY <1>1, <1>2
      <4> QED BY ONLY <4>1
    <3>2. CASE j < i /\ k < i
      BY <3>1, <3>2, <2>1, <1>2, <1>3
    <3>3. CASE j < i /\ ~(k < i)
      <4>1. s[j] = s[k + 1]
        BY <3>1, <3>3, <2>1, <1>2
      <4>2. j = k + 1
        BY <4>1, <3>1, <1>3
      <4> QED BY <4>2, <3>3, <1>1
    <3>4. CASE ~(j < i) /\ k < i
      <4>1. s[j + 1] = s[k]
        BY <3>1, <3>4, <2>1, <1>2
      <4>2. j + 1 = k
        BY <4>1, <3>1, <1>3
      <4> QED BY <4>2, <3>4, <1>1
    <3>5. CASE ~(j < i) /\ ~(k < i)
      <4>1. s[j + 1] = s[k + 1]
        BY <3>1, <3>5, <2>1, <1>2
      <4>2. j + 1 = k + 1
        BY <4>1, <3>1, <1>3
      <4>3. j \in Int /\ k \in Int
        BY ONLY <3>1, <1>1
      <4> QED BY ONLY <4>2, <4>3
    <3> QED BY <3>2, <3>3, <3>4, <3>5
  <2> QED BY <2>1 DEF Once
<1>5. \A j \in Nat : NodeAt(t, j) = IF j < i THEN NodeAt(s, j) ELSE NodeAt(s, j + 1)
  <2>1. ASSUME NEW j \in Nat
        PROVE  NodeAt(t, j) = IF j < i THEN NodeAt(s, j) ELSE NodeAt(s, j + 1)
    <3>1. CASE j \in 1..(Len(s) - 1)
      <4>1. j \in 1..Len(s) /\ j + 1 \in 1..Len(s) /\ j \in 1..Len(t)
        <5>1. Len(s) \in Nat /\ Len(t) = Len(s) - 1
          BY ONLY <1>1, <1>2
        <5> QED BY ONLY <3>1, <5>1
      <4>2. t[j] = IF j < i THEN s[j] ELSE s[j + 1]
        BY ONLY <3>1, <1>2
      <4> QED BY ONLY <4>1, <4>2 DEF NodeAt
    <3>2. CASE j \notin 1..(Len(s) - 1) /\ j < i
      BY <3>2, <1>1, <1>2 DEF NodeAt
    <3>3. CASE j \notin 1..(Len(s) - 1) /\ ~(j < i)
      BY <3>3, <1>1, <1>2 DEF NodeAt
    <3> QED BY <3>1, <3>2, <3>3
  <2> QED BY <2>1
<1>6. \A a \in 1..Len(s) : /\ s[a] = n <=> a = i
                           /\ s[a] = NodeAt(s, i - 1) <=> a = i - 1
  <2>1. ASSUME NEW a \in 1..Len(s) PROVE s[a] = NodeAt(s, i - 1) <=> a = i - 1
    <3>1. CASE i - 1 \in 1..Len(s)
      BY <3>1, <1>3 DEF NodeAt
    <3>2. CASE i - 1 \notin 1..Len(s)
      BY <3>2, <1>1 DEF NodeAt
    <3> QED BY <3>1, <3>2
  <2> QED BY <2>1, <1>3 DEF n
<1>7. g = NodeAt(t, 1)
  <2>1. h = NodeAt(s, 1)
    BY <1>0 DEF Leads
  <2>2. NodeAt(t, 1) = IF 1 < i THEN NodeAt(s, 1) ELSE NodeAt(s, 1 + 1)
    BY <1>5
  <2>3. 1 < i <=> i # 1
    BY <1>1
  <2> QED BY <2>1, <2>2, <2>3
<1>8. ASSUME NEW j \in 1..Len(t)
      PROVE  P[t[j]] = NodeAt(t, j + 1)
  <2>0. j \in 1..Len(s) /\ j + 1 \in 1..Len(s) /\ j \in Nat /\ j + 1 \in Nat
    BY <1>1, <1>2
  <2>4. NodeAt(t, j + 1) = IF j + 1 < i THEN NodeAt(s, j + 1) ELSE NodeAt(s, (j + 1) + 1)
    BY <2>0, <1>5
  <2>5. \A k \in 1..Len(s) : N[s[k]] = NodeAt(s, k + 1)
    BY <1>0 DEF Leads
  <2>1. CASE j < i
    <3>1. t[j] = s[j] /\ j # i
      BY <2>0, <2>1, <1>1, <1>2
    <3>2. s[j] # n /\ s[j] \in 0..(End - 1) /\ (s[j] = NodeAt(s, i - 1) <=> j = i - 1)
      BY <3>1, <2>0, <1>1, <1>6
    <3>3. P[t[j]] = IF j = i - 1 THEN NodeAt(s, i + 1) ELSE NodeAt(s, j + 1)
      BY <3>1, <3>2, <2>0, <2>5 DEF n
    <3>4. (j + 1 < i <=> j # i - 1) /\ (j = i - 1 => (j + 1) + 1 = i + 1)
      BY <2>0, <2>1, <1>1
    <3> QED BY <3>3, <3>4, <2>4
  <2>2. CASE ~(j < i)
    <3>1. t[j] = s[j + 1] /\ j + 1 # i /\ j + 1 # i - 1
      BY <2>0, <2>2, <1>1, <1>2
    <3>2. s[j + 1] # n /\ s[j + 1] \in 0..(End - 1) /\ s[j + 1] # NodeAt(s, i - 1)
      BY <3>1, <2>0, <1>1, <1>6
    <3>3. P[t[j]] = NodeAt(s, (j + 1) + 1)
      BY <3>1, <3>2, <2>0, <2>5 DEF n
    <3>4. ~(j + 1 < i)
      BY <2>0, <2>2, <1>1
    <3> QED BY <3>3, <3>4, <2>4
  <2> QED BY <2>1, <2>2
<1>9. ASSUME NEW x
      PROVE  (\A j \in 1..Len(t) : t[j] # x) <=> (x = n \/ \A j \in 1..Len(s) : s[j] # x)
  <2>1. ASSUME NEW j \in 1..Len(t) PROVE \E k \in 1..Len(s) : t[j] = s[k] /\ s[k] # n
    <3>1. j \in 1..Len(s) /\ j + 1 \in 1..Len(s) /\ (j < i => j # i) /\ (~(j < i) => j + 1 # i)
      <4>1. Len(t) = Len(s) - 1
        BY <1>2
      <4> QED BY <1>1, <4>1
    <3>2. t[j] = IF j < i THEN s[j] ELSE s[j + 1]
      BY <1>2
    <3> QED BY <3>1, <3>2, <1>6
  <2>2. ASSUME NEW k \in 1..Len(s), s[k] # n PROVE \E j \in 1..Len(t) : t[j] = s[k]
    <3>1. k # i
      BY <2>2 DEF n
    <3>2. CASE k < i
      <4>1. k \in 1..(Len(s) - 1)
        BY <3>2, <1>1
      <4> QED BY <4>1, <3>2, <1>2
    <3>3. CASE ~(k < i)
      <4>1. k - 1 \in 1..(Len(s) - 1) /\ ~(k - 1 < i) /\ k - 1 + 1 = k
        BY <3>1, <3>3, <1>1
      <4> QED BY <4>1, <1>2
    <3> QED BY <3>2, <3>3
  <2>3. ASSUME NEW j \in 1..Len(t), t[j] = x PROVE x # n /\ \E k \in 1..Len(s) : s[k] = x
    BY <2>1, <2>3
  <2>4. ASSUME NEW k \in 1..Len(s), s[k] = x, x # n PROVE \E j \in 1..Len(t) : t[j] = x
    BY <2>2, <2>4
  <2> QED BY <2>3, <2>4
<1>10. \A x \in m : x \in 0..(End - 1) /\ N[x] = End /\ \A j \in 1..Len(s) : s[j] # x
  BY DEF Chained
<1>11. ASSUME NEW x \in m \cup {n}
       PROVE  P[x] = End /\ \A j \in 1..Len(t) : t[j] # x
  <2>1. CASE x = n
    BY <2>1, <1>9 DEF n
  <2>2. CASE x # n
    <3>1. x \in 0..(End - 1) /\ N[x] = End /\ \A j \in 1..Len(s) : s[j] # x
      BY <2>2, <1>10
    <3>2. x # NodeAt(s, i - 1)
      BY <3>1, <1>1 DEF NodeAt
    <3> QED BY <2>2, <3>1, <3>2, <1>9 DEF n
  <2> QED BY <2>1, <2>2
<1>12. ASSUME NEW x \in 0..(End - 1)
       PROVE  P[x] = x <=> (x \notin m \cup {n} /\ \A j \in 1..Len(t) : t[j] # x)
  <2>1. CASE x = n
    BY <2>1, <1>1 DEF n
  <2>2. CASE x # n /\ x = NodeAt(s, i - 1)
    <3>1. P[x] = NodeAt(s, i + 1)
      BY <2>2 DEF n
    <3>2. i - 1 \in 1..Len(s) /\ s[i - 1] = x
      BY <2>2, <1>1 DEF NodeAt
    <3>3. x # NodeAt(s, i + 1)
      <4>1. CASE i + 1 \in 1..Len(s)
        BY <4>1, <3>2, <1>1, <1>3 DEF NodeAt
      <4>2. CASE i + 1 \notin 1..Len(s)
        BY <4>2, <1>1 DEF NodeAt
      <4> QED BY <4>1, <4>2
    <3> QED BY <2>2, <3>1, <3>2, <3>3, <1>9
  <2>3. CASE x # n /\ x # NodeAt(s, i - 1)
    <3>1. P[x] = N[x]
      BY <2>3 DEF n
    <3>2. N[x] = x <=> (x \notin m /\ \A j \in 1..Len(s) : s[j] # x)
      BY DEF Chained
    <3> QED BY <2>3, <3>1, <3>2, <1>9
  <2> QED BY <2>1, <2>2, <2>3
<1>13. z - 1 = Len(t) /\ m \cup {n} \in SUBSET (0..(End - 1))
  BY <1>1, <1>2 DEF Chained
<1>14. Leads(P, g, t)
  BY <1>2, <1>4, <1>7, <1>8 DEF Leads
<1>15. Chained(P, g, z - 1, t, m \cup {n})
  BY <1>11, <1>12, <1>13, <1>14 DEF Chained
<1> QED BY <1>15 DEF t, n

(* A node is the only one of its name, so taking it out by name is taking  *)
(* it out by place.                                                        *)
LEMMA TakenIs ==
  ASSUME Chained(nodes, head, size, list, mine), NEW i \in 1..Len(list),
         Single!Taken(list[i])
  PROVE  list' = RemoveAt(list, i) /\ mine' = mine \cup {list[i]}
<1>1. list \in Seq(0..(End - 1)) /\ \A j \in 1..Len(list) : list[j] = list[i] => j = i
  BY DEF Chained, Leads, Once
<1>2. RemoveFirst(list, list[i]) = RemoveAt(list, i)
  BY <1>1, RemovingFirst
<1>3. Single!RemoveFirst(list, list[i]) = RemoveFirst(list, list[i])
  BY DEF Single!RemoveFirst, RemoveFirst, Single!SelectInSeq, SelectInSeq,
         Single!RemoveAt, RemoveAt, Single!Min, Min
<1> QED BY <1>2, <1>3 DEF Single!Taken

(* Every operation of the singly linked list keeps the links right.        *)
LEMMA SingleStep == SingleInv /\ Single!ListNext => SingleInv'
<1> SUFFICES ASSUME SingleInv, Single!ListNext PROVE SingleInv'
  OBVIOUS
<1>1. Chained(nodes, head, size, list, mine)
  BY SingleInvIs
<1>0. /\ Leads(nodes, head, list) /\ nodes \in [0..(End - 1) -> 0..End] /\ size = Len(list)
      /\ End \in Nat /\ Len(list) \in Nat
      /\ \A i \in 1..Len(list) : list[i] \in 0..(End - 1)
      /\ (head = End <=> Len(list) = 0) /\ head = NodeAt(list, 1)
      /\ \A i \in 1..Len(list) : nodes[list[i]] = NodeAt(list, i + 1)
  <2>1. Leads(nodes, head, list) /\ nodes \in [0..(End - 1) -> 0..End] /\ size = Len(list)
    BY <1>1 DEF Chained
  <2>2. head = NodeAt(list, 1) /\ \A i \in 1..Len(list) : nodes[list[i]] = NodeAt(list, i + 1)
    BY <2>1 DEF Leads
  <2>3. /\ End \in Nat /\ Len(list) \in Nat /\ (head = End <=> Len(list) = 0)
        /\ \A i \in 1..Len(list) : list[i] \in 0..(End - 1)
    BY <2>1, LeadsTypes
  <2> QED BY <2>1, <2>2, <2>3
<1> USE DEF Single!Nodes, Single!IsFree
<1>2. ASSUME NEW n \in 0..(End - 1), nodes[n] = n, Single!Acquired(n) PROVE SingleInv'
  <2>1. Chained([nodes EXCEPT ![n] = End], head, size, list, mine \cup {n})
    BY <1>1, <1>2, Handing
  <2>2. Chained(nodes', head', size', list', mine')
    BY <1>2, <2>1 DEF Single!Acquired
  <2> QED BY <2>2, SingleInvNext
<1>3. ASSUME UNCHANGED <<nodes, head, size, list, mine>> PROVE SingleInv'
  <2>1. Chained(nodes', head', size', list', mine')
    BY <1>1, <1>3
  <2> QED BY <2>1, SingleInvNext
<1>4. ASSUME NEW i \in 1..Len(list), Single!Taken(list[i]), size' = size - 1,
             nodes' \in [0..(End - 1) -> 0..End], nodes'[list[i]] = End,
             \A x \in 0..(End - 1) :
               x # list[i] => nodes'[x] = IF x = NodeAt(list, i - 1) THEN NodeAt(list, i + 1)
                                          ELSE nodes[x],
             head' = IF i = 1 THEN NodeAt(list, 2) ELSE head
      PROVE  SingleInv'
  <2>1. Chained(nodes', head', size - 1, RemoveAt(list, i), mine \cup {list[i]})
    <3>1. PassedOver(nodes, head, list, i, nodes', head')
      BY <1>4 DEF PassedOver
    <3>2. Chained(nodes, head, size, list, mine)
      BY <1>1
    <3> QED BY <3>2, <3>1, Unchaining
  <2>2. Chained(nodes', head', size', list', mine')
    BY <1>1, <1>4, <2>1, TakenIs
  <2> QED BY <2>2, SingleInvNext
<1>5. CASE Single!TryAcquireOne
  BY <1>2, <1>3, <1>5 DEF Single!TryAcquireOne, Single!NotAcquired
<1>6. ASSUME NEW n \in 0..(End - 1), Single!TryAcquire(n) PROVE SingleInv'
  BY <1>2, <1>3, <1>6 DEF Single!TryAcquire, Single!NotAcquired
<1>7. ASSUME NEW n \in 0..(End - 1), Single!Release(n) PROVE SingleInv'
  <2>1. n \in mine
    BY <1>7 DEF Single!Release
  <2>2. Chained([nodes EXCEPT ![n] = n], head, size, list, mine \ {n})
    BY <1>1, <2>1, Handing
  <2>3. Chained(nodes', head', size', list', mine')
    BY <1>7, <2>2 DEF Single!Release
  <2> QED BY <2>3, SingleInvNext
<1>8. ASSUME NEW n \in 0..(End - 1), Single!InsertHead(n) PROVE SingleInv'
  <2>1. n \in mine
    BY <1>8 DEF Single!InsertHead
  <2>2. Chained([nodes EXCEPT ![n] = head], n, size + 1, <<n>> \o list, mine \ {n})
    BY <1>1, <2>1, ChainingFirst
  <2>3. Chained(nodes', head', size', list', mine')
    BY <1>8, <2>2 DEF Single!InsertHead
  <2> QED BY <2>3, SingleInvNext
<1>9. ASSUME NEW n \in 0..(End - 1), Single!InsertTail(n) PROVE SingleInv'
  <2>1. n \in mine /\ size' = size + 1 /\ list' = Append(list, n) /\ mine' = mine \ {n}
    BY <1>9 DEF Single!InsertTail
  <2>2. Single!TwoBefore(End).prev = NodeAt(list, Len(list))
    <3>1. Len(list) + 1 \in 1..(Len(list) + 1) /\ (Len(list) + 1) - 1 = Len(list)
      BY <1>0
    <3>2. End = NodeAt(list, Len(list) + 1)
      BY <1>0 DEF NodeAt
    <3>3. Single!TwoBefore(End).prev = NodeAt(list, (Len(list) + 1) - 1)
      BY <1>0, <3>1, <3>2, TwoBeforeIs
    <3> QED BY <3>1, <3>3
  <2>3. IF head # End THEN nodes' = [nodes EXCEPT ![NodeAt(list, Len(list))] = n] /\ head' = head
        ELSE head' = n /\ nodes' = nodes
    BY <1>9, <2>2 DEF Single!InsertTail
  <2>4. Chained(nodes', head', size + 1, Append(list, n), mine \ {n})
    BY <1>1, <2>1, <2>3, ChainingLast
  <2>5. Chained(nodes', head', size', list', mine')
    BY <2>1, <2>4
  <2> QED BY <2>5, SingleInvNext
<1>10. CASE Single!DropHead
  <2>1. CASE Single!DropNothing
    BY <2>1, <1>3 DEF Single!DropNothing
  <2>2. CASE /\ head # End
             /\ head' = nodes[head] /\ nodes' = [nodes EXCEPT ![head] = End]
             /\ size' = size - 1 /\ told' = head
             /\ Single!Taken(Head(list))
    <3>1. 1 \in 1..Len(list)
      BY <1>0, <2>2
    <3>2. head = list[1] /\ Head(list) = list[1] /\ head' = NodeAt(list, 2)
      <4>1. head = list[1] /\ list # <<>> /\ list \in Seq(0..(End - 1))
        BY <1>0, <3>1 DEF NodeAt, Leads
      <4>2. nodes[list[1]] = NodeAt(list, 1 + 1)
        BY <1>0, <3>1
      <4> QED BY <2>2, <4>1, <4>2
    <3>3. NodeAt(list, 1 - 1) = End /\ \A x \in 0..(End - 1) : x # End
      BY <1>0 DEF NodeAt
    <3>4. nodes' = [nodes EXCEPT ![list[1]] = End] /\ list[1] \in 0..(End - 1) /\ End \in 0..End
      BY <2>2, <3>1, <3>2, <1>0
    <3>5. /\ nodes' \in [0..(End - 1) -> 0..End] /\ nodes'[list[1]] = End
          /\ \A x \in 0..(End - 1) : x # list[1] => nodes'[x] = nodes[x]
      BY <1>0, <3>4
    <3> QED BY <1>4, <2>2, <3>1, <3>2, <3>3, <3>5
  <2> QED BY <1>10, <2>1, <2>2 DEF Single!DropHead
<1>11. CASE Single!DropTail
  <2> DEFINE before == Single!TwoBefore(End)
  <2>1. CASE Single!DropNothing
    BY <2>1, <1>3 DEF Single!DropNothing
  <2>2. CASE /\ head # End
             /\ IF before.prev2 # End
                  THEN nodes' = [nodes EXCEPT ![before.prev2] = End] /\ UNCHANGED head
                  ELSE head' = End /\ UNCHANGED nodes
             /\ size' = size - 1
             /\ Single!Taken(Single!Last(list))
    <3> DEFINE k == Len(list)
    <3>1. k \in 1..Len(list) /\ k \in Nat /\ k >= 1
      BY <1>0, <2>2
    <3>2. before.prev2 = NodeAt(list, k - 1)
      <4>1. k + 1 \in 1..(k + 1) /\ (k + 1) - 2 = k - 1
        BY <1>0
      <4>2. End = NodeAt(list, k + 1)
        BY <1>0 DEF NodeAt
      <4>3. before.prev2 = NodeAt(list, (k + 1) - 2)
        BY <1>0, <4>1, <4>2, TwoBeforeIs
      <4> QED BY <4>1, <4>3
    <3>3. Single!Last(list) = list[k]
      BY DEF Single!Last
    <3>4. nodes[list[k]] = End /\ NodeAt(list, k + 1) = End
      <4>1. NodeAt(list, k + 1) = End
        BY <1>0 DEF NodeAt
      <4> QED BY <1>0, <3>1, <4>1
    <3>5. CASE k = 1
      <4>1. NodeAt(list, k - 1) = End /\ NodeAt(list, 2) = End /\ \A x \in 0..(End - 1) : x # End
        BY <1>0, <3>5 DEF NodeAt
      <4>2. nodes' = nodes /\ head' = End
        BY <2>2, <3>2, <4>1
      <4> QED BY <1>0, <1>4, <2>2, <3>1, <3>3, <3>4, <3>5, <4>1, <4>2
    <3>6. CASE k # 1
      <4>1. k - 1 \in 1..Len(list)
        <5>1. k - 1 \in 1..k
          BY <1>0, <3>1, <3>6
        <5> QED BY <5>1
      <4>2. /\ NodeAt(list, k - 1) = list[k - 1] /\ list[k - 1] \in 0..(End - 1)
            /\ list[k - 1] # End
        BY <1>0, <4>1 DEF NodeAt
      <4>3. nodes' = [nodes EXCEPT ![list[k - 1]] = End] /\ head' = head /\ End \in 0..End
        BY <1>0, <2>2, <3>2, <4>2
      <4>4. list[k - 1] # list[k]
        BY <1>0, <3>1, <4>1 DEF Leads, Once
      <4>5. /\ nodes' \in [0..(End - 1) -> 0..End] /\ nodes'[list[k]] = End
            /\ \A x \in 0..(End - 1) : nodes'[x] = IF x = list[k - 1] THEN End ELSE nodes[x]
        BY <1>0, <3>1, <3>4, <4>2, <4>3, <4>4
      <4> HIDE DEF k
      <4> QED BY <1>4, <2>2, <3>1, <3>3, <3>4, <3>6, <4>2, <4>3, <4>5
    <3> QED BY <3>5, <3>6
  <2> QED BY <1>11, <2>1, <2>2 DEF Single!DropTail
<1>12. ASSUME NEW n \in 0..(End - 1), Single!Drop(n) PROVE SingleInv'
  <2> DEFINE next == nodes[n]
             before == Single!TwoBefore(next)
  <2>1. CASE Single!DropNothing
    BY <2>1, <1>3 DEF Single!DropNothing
  <2>2. CASE /\ Single!DropsLater(n)
             /\ IF before.prev2 # End
                  THEN /\ nodes' = [nodes EXCEPT ![before.prev2] = next, ![n] = End]
                       /\ UNCHANGED head
                  ELSE /\ head' = End
                       /\ nodes' = [nodes EXCEPT ![n] = End]
             /\ size' = size - 1
             /\ Single!Taken(n)
    <3>1. PICK i \in 1..Len(list) : list[i] = n
      BY <2>2 DEF Single!DropsLater, Single!Contains
    <3>2. next = NodeAt(list, i + 1) /\ next \in 0..End
      BY <1>0, <3>1, LeadsTypes
    <3>3. before.prev2 = NodeAt(list, i - 1)
      <4>1. i + 1 \in 1..(Len(list) + 1) /\ (i + 1) - 2 = i - 1
        BY <1>0
      <4>2. before.prev2 = NodeAt(list, (i + 1) - 2)
        BY <1>0, <3>2, <4>1, TwoBeforeIs
      <4> QED BY <4>1, <4>2
    <3> HIDE DEF next, before
    <3>4. CASE i = 1
      <4>1. NodeAt(list, i - 1) = End /\ \A x \in 0..(End - 1) : x # End
        BY <1>0, <3>4 DEF NodeAt
      <4>2. Len(list) = 1
        <5>1. list # <<>> /\ list \in Seq(0..(End - 1))
          BY <1>0, <3>1 DEF Leads
        <5>2. Head(list) = list[1]
          BY <5>1
        <5> QED BY <2>2, <3>1, <3>4, <5>2 DEF Single!DropsLater
      <4>3. head' = End /\ nodes' = [nodes EXCEPT ![n] = End] /\ NodeAt(list, 2) = End
        BY <2>2, <3>3, <4>1, <4>2 DEF NodeAt
      <4>4. /\ nodes' \in [0..(End - 1) -> 0..End] /\ nodes'[n] = End
            /\ \A x \in 0..(End - 1) : x # n => nodes'[x] = nodes[x]
        BY <1>0, <4>3
      <4> QED BY <1>4, <2>2, <3>1, <3>4, <4>1, <4>3, <4>4
    <3>5. CASE i # 1
      <4>1. i - 1 \in 1..Len(list)
        BY <1>0, <3>5
      <4>2. /\ NodeAt(list, i - 1) = list[i - 1] /\ list[i - 1] \in 0..(End - 1)
            /\ list[i - 1] # End
        BY <1>0, <4>1 DEF NodeAt
      <4> DEFINE b == list[i - 1]
      <4>3. nodes' = [nodes EXCEPT ![b] = next, ![n] = End] /\ head' = head /\ End \in 0..End
        BY <1>0, <2>2, <3>3, <4>2
      <4>4. b \in 0..(End - 1)
        BY <4>2
      <4> HIDE DEF b
      <4>5. /\ nodes' \in [0..(End - 1) -> 0..End] /\ nodes'[n] = End
            /\ \A x \in 0..(End - 1) : x # n => nodes'[x] = IF x = b THEN next ELSE nodes[x]
        BY <1>0, <3>2, <4>3, <4>4
      <4>6. b = NodeAt(list, i - 1)
        BY <4>2 DEF b
      <4> QED BY <1>4, <2>2, <3>1, <3>2, <3>5, <4>3, <4>5, <4>6
    <3> QED BY <3>4, <3>5
  <2> QED BY <1>12, <2>1, <2>2 DEF Single!Drop
<1> QED BY <1>5, <1>6, <1>7, <1>8, <1>9, <1>10, <1>11, <1>12 DEF Single!ListNext

(* What the operations of the singly linked list tell is so.               *)
LEMMA SingleTells ==
  ASSUME SingleInv, NEW n \in 0..(End - 1)
  PROVE  Single!ListIsTrue(n)
<1>1. Chained(nodes, head, size, list, mine)
  BY SingleInvIs
<1>2. /\ Leads(nodes, head, list) /\ list \in Seq(0..(End - 1))
      /\ DOMAIN list = 1..Len(list) /\ End \in Nat /\ Len(list) \in Nat
      /\ \A i \in 1..Len(list) : list[i] \in 0..(End - 1)
      /\ (head = End <=> Len(list) = 0)
  <2>1. Leads(nodes, head, list) /\ list \in Seq(0..(End - 1))
    BY <1>1 DEF Chained, Leads
  <2>2. /\ End \in Nat /\ Len(list) \in Nat /\ (head = End <=> Len(list) = 0)
        /\ \A i \in 1..Len(list) : list[i] \in 0..(End - 1)
    BY <2>1, LeadsTypes
  <2> QED BY <2>1, <2>2, LenProperties
<1>3. ASSUME list # <<>>
      PROVE  head = Head(list) /\ Head(list) = list[1] /\ 1 \in 1..Len(list) /\ head # End
  <2>1. Len(list) # 0 /\ Head(list) = list[1]
    BY <1>2, <1>3
  <2>2. head = NodeAt(list, 1) /\ 1 \in 1..Len(list)
    BY <1>2, <2>1 DEF Leads
  <2> QED BY <1>2, <2>1, <2>2 DEF NodeAt
<1>4. Single!DropHead /\ list # <<>> => told' = Head(list)
  BY <1>3 DEF Single!DropHead, Single!DropNothing
<1>5. ASSUME Single!DropTail, list # <<>> PROVE told' = Single!Last(list)
  <2>1. told' = Single!TwoBefore(End).prev
    BY <1>3, <1>5 DEF Single!DropTail, Single!DropNothing
  <2>2. Len(list) + 1 \in 1..(Len(list) + 1) /\ (Len(list) + 1) - 1 = Len(list)
    BY <1>2
  <2>3. End = NodeAt(list, Len(list) + 1)
    BY <1>2 DEF NodeAt
  <2>4. Single!TwoBefore(End).prev = NodeAt(list, (Len(list) + 1) - 1)
    BY <1>2, <2>2, <2>3, TwoBeforeIs
  <2>5. NodeAt(list, Len(list)) = list[Len(list)]
    BY <1>2, <1>3, <1>5 DEF NodeAt
  <2> QED BY <2>1, <2>2, <2>4, <2>5 DEF Single!Last
<1>6. ASSUME Single!Drop(n), Single!Contains(list, n)
      PROVE  told' = IF n = Head(list) THEN End
                     ELSE list[(CHOOSE i \in DOMAIN list : list[i] = n) - 1]
  <2>1. PICK i \in 1..Len(list) : list[i] = n
    BY <1>6 DEF Single!Contains
  <2>2. \A j \in 1..Len(list) : list[j] = n => j = i
    BY <1>2, <2>1 DEF Leads, Once
  <2>3. (CHOOSE j \in DOMAIN list : list[j] = n) = i
    BY <1>2, <2>1, <2>2
  <2>4. nodes[n] = NodeAt(list, i + 1)
    BY <1>2, <2>1 DEF Leads
  <2>5. n \notin mine
    BY <1>1, <2>1 DEF Chained
  <2>6. told' = Single!TwoBefore(nodes[n]).prev2
    BY <1>6, <2>5 DEF Single!Drop
  <2>7. i + 1 \in 1..(Len(list) + 1) /\ (i + 1) - 2 = i - 1
    BY <1>2
  <2>8. Single!TwoBefore(nodes[n]).prev2 = NodeAt(list, (i + 1) - 2)
    BY <1>2, <2>4, <2>7, TwoBeforeIs
  <2>9. list # <<>>
    BY <1>2, <2>1
  <2>10. n = Head(list) <=> i = 1
    BY <1>3, <2>1, <2>2, <2>9
  <2>11. NodeAt(list, i - 1) = IF i = 1 THEN End ELSE list[i - 1]
    <3>1. i # 1 => i - 1 \in 1..Len(list)
      BY <1>2
    <3>2. i = 1 => i - 1 \notin 1..Len(list)
      BY <1>2
    <3> QED BY <3>1, <3>2 DEF NodeAt
  <2> QED BY <2>3, <2>6, <2>7, <2>8, <2>10, <2>11
<1> QED BY <1>4, <1>5, <1>6 DEF Single!ListIsTrue

(* Whichever list the program uses.                                        *)
ListInv == IF kind = "double" THEN DoubleInv ELSE SingleInv

(* The invariant says that the list holds its nodes.                       *)
LEMMA ListInvHolds == ListInv => ListHolds
BY DEF ListInv, ListHolds, DoubleInv, SingleInv

(* A list starts empty, with its nodes not in it.                          *)
LEMMA ListStarts == ContInit => ListInv
BY DoubleStarts, SingleStarts DEF ContInit, ListInv

(* A list is as it was, and so is its invariant.                           *)
LEMMA ListKept == ListInv /\ UNCHANGED <<kind, lists>> => ListInv'
<1> SUFFICES ASSUME ListInv, UNCHANGED <<kind, lists>> PROVE ListInv'
  OBVIOUS
<1>1. /\ kind' = kind /\ nodes' = nodes /\ head' = head /\ size' = size
      /\ list' = list /\ mine' = mine
  BY DEF lists
<1>2. CASE kind = "double"
  <2>1. Linked(nodes', head', size', list', mine')
    BY <1>1, <1>2, DoubleInvIs DEF ListInv
  <2> QED BY <2>1, <1>1, <1>2, DoubleInvNext DEF ListInv
<1>3. CASE kind # "double"
  <2>1. Chained(nodes', head', size', list', mine')
    BY <1>1, <1>3, SingleInvIs DEF ListInv
  <2> QED BY <2>1, <1>1, <1>3, SingleInvNext DEF ListInv
<1> QED BY <1>2, <1>3

(* No step makes a container of another kind.                              *)
LEMMA KindStays == ContNext => kind' = kind
BY DEF ContNext

(* Every step keeps a list's invariant.                                    *)
LEMMA ListStep == ListInv /\ [ContNext]_contVars => ListInv'
<1> SUFFICES ASSUME ListInv, [ContNext]_contVars PROVE ListInv'
  OBVIOUS
<1>1. CASE UNCHANGED contVars
  BY <1>1, ListKept DEF contVars
<1>2. CASE ContNext
  <2>1. CASE kind = "single" /\ Single!ListNext
    BY <1>2, <2>1, KindStays, SingleStep DEF ListInv
  <2>2. CASE kind = "double" /\ Double!ListNext
    BY <1>2, <2>2, KindStays, DoubleStep DEF ListInv
  <2>3. CASE ~(kind = "single" /\ Single!ListNext) /\ ~(kind = "double" /\ Double!ListNext)
    <3>1. UNCHANGED <<kind, lists>>
      BY <1>2, <2>3 DEF ContNext
    <3> QED BY <3>1, ListKept
  <2> QED BY <2>1, <2>2, <2>3
<1> QED BY <1>1, <1>2

(* Both kinds of list hold the nodes that were inserted, in their order,   *)
(* and no others: following the links from the head visits them, and from  *)
(* the tail backwards.                                                     *)
THEOREM ListsAreLinked == ContSpec => []ListHolds
<1>1. ContSpec => []ListInv
  BY ListStarts, ListStep, PTL DEF ContSpec
<1> QED BY <1>1, ListInvHolds, PTL

Entry == [time : Int, id : Ids]
Cell  == Entry \cup {Blank}
Rings == [stor : [Places -> Cell], begin : Places, size : 0..Capacity]

(* A ring has at least one place.                                          *)
LEMMA CapacityIs == Capacity \in Nat /\ Capacity >= 1
BY RingAssumption

(* An index counted from another, within one turn of the ring.             *)
LEMMA PlaceFrom ==
  ASSUME NEW r, r.begin \in Places, NEW i \in Int, NEW d \in 0..(Capacity - 1)
  PROVE  /\ Place(r, i) \in Places
         /\ Place(r, i + d) = IF Place(r, i) + d < Capacity THEN Place(r, i) + d
                              ELSE Place(r, i) + d - Capacity
<1> DEFINE a == Place(r, i)
           b == IF a + d < Capacity THEN a + d ELSE a + d - Capacity
           x == r.begin + i
           q == x \div Capacity
           l == IF a + d < Capacity THEN q ELSE q + 1
<1>1. Capacity \in Nat /\ Capacity >= 1 /\ x \in Int
  BY CapacityIs DEF Places
<1>2. a \in 0..(Capacity - 1) /\ q \in Int /\ x = Capacity * q + a
  BY <1>1, DivMod DEF Place
<1>3. b \in 0..(Capacity - 1)
  BY <1>1, <1>2
<1>4. x + d = b + Laps(l, Capacity)
  <2> HIDE DEF x, q, a
  <2>1. Capacity * (q + 1) = Capacity * q + Capacity
    BY <1>1, <1>2
  <2> QED BY <1>1, <1>2, <2>1 DEF Laps
<1>5. (x + d) % Capacity = b % Capacity
  <2>1. l \in Int /\ x + d \in Int /\ b \in Int
    BY <1>1, <1>2, <1>3
  <2> HIDE DEF x, q, a, b, l
  <2> QED BY <1>1, <1>4, <2>1, LapsVanish
<1>6. b % Capacity = b
  <2> HIDE DEF b
  <2> QED BY <1>1, <1>3, SmallNumber
<1>7. Place(r, i + d) = (x + d) % Capacity
  BY <1>1 DEF Place, Places
<1> QED BY <1>2, <1>5, <1>6, <1>7 DEF Places

(* No two indexes within a turn have the same place.                       *)
LEMMA PlacesDiffer ==
  ASSUME NEW r, r.begin \in Places, NEW i \in Int, NEW j \in Int,
         i - j < Capacity, j - i < Capacity, Place(r, i) = Place(r, j)
  PROVE  i = j
<1>1. r.begin \in Int /\ Capacity \in Nat /\ Capacity >= 1
  BY CapacityIs DEF Places
<1>2. (r.begin + i) % Capacity = (r.begin + j) % Capacity
  BY DEF Place
<1>3. (r.begin + i) - (r.begin + j) < Capacity /\ (r.begin + j) - (r.begin + i) < Capacity
  BY <1>1
<1>4. r.begin + i = r.begin + j
  BY <1>1, <1>2, <1>3, SameWrapped
<1> QED BY <1>1, <1>4

(* Every place is that of an index within a turn from i.                   *)
LEMMA PlaceIsOf ==
  ASSUME NEW r, r.begin \in Places, NEW i \in Int, NEW p \in Places
  PROVE  \E d \in 0..(Capacity - 1) : p = Place(r, i + d)
<1> DEFINE a == Place(r, i)
           d == IF a <= p THEN p - a ELSE p - a + Capacity
<1>1. Capacity \in Nat /\ Capacity >= 1 /\ p \in 0..(Capacity - 1)
  BY CapacityIs DEF Places
<1>2. a \in 0..(Capacity - 1)
  <2>1. 0 \in 0..(Capacity - 1)
    BY <1>1
  <2> QED BY <2>1, PlaceFrom DEF Places
<1>3. d \in 0..(Capacity - 1)
  BY <1>1, <1>2
<1>4. p = IF a + d < Capacity THEN a + d ELSE a + d - Capacity
  BY <1>1, <1>2
<1>5. Place(r, i + d) = IF a + d < Capacity THEN a + d ELSE a + d - Capacity
  <2> HIDE DEF d
  <2> QED BY <1>3, PlaceFrom
<1> QED BY <1>3, <1>4, <1>5

(* The begin of the ring moved by n.                                       *)
LEMMA PlaceShifted ==
  ASSUME NEW r, r.begin \in Places, NEW q, NEW n \in Int, NEW i \in Int,
         q.begin = (r.begin + n) % Capacity
  PROVE  q.begin \in Places /\ Place(q, i) = Place(r, n + i)
<1> DEFINE x == r.begin + n
           k == x \div Capacity
<1>1. Capacity \in Nat /\ Capacity >= 1 /\ x \in Int /\ r.begin \in Int
  BY CapacityIs DEF Places
<1>2. q.begin \in 0..(Capacity - 1) /\ k \in Int /\ x = Capacity * k + q.begin
  BY <1>1, DivMod
<1> HIDE DEF x, k
<1>3. x + i = (q.begin + i) + Laps(k, Capacity)
  BY <1>1, <1>2 DEF Laps
<1>4. (x + i) % Capacity = (q.begin + i) % Capacity
  <2>1. x + i \in Int /\ q.begin + i \in Int
    BY <1>1, <1>2
  <2> QED BY <1>1, <1>2, <1>3, <2>1, LapsVanish
<1>5. x + i = r.begin + (n + i)
  BY <1>1 DEF x
<1> QED BY <1>2, <1>4, <1>5 DEF Place, Places

(* What the ring r has at index k, of a ring whose turn starts at first.   *)
LEMMA PlacesInTurn ==
  ASSUME NEW r, r.begin \in Places, NEW i \in Int, NEW d \in Int, NEW a, a = Place(r, i)
  PROVE  /\ a \in 0..(Capacity - 1)
         /\ d \in 0..(Capacity - 1) /\ a + d < Capacity => Place(r, i + d) = a + d
         /\ d \in 0..(Capacity - 1) /\ a + d >= Capacity => Place(r, i + d) = a + d - Capacity
<1>1. Capacity \in Nat /\ Capacity >= 1
  BY CapacityIs
<1>2. 0 \in 0..(Capacity - 1)
  BY <1>1
<1>3. a \in 0..(Capacity - 1)
  BY <1>2, PlaceFrom DEF Places
<1>4. ASSUME d \in 0..(Capacity - 1)
      PROVE  Place(r, i + d) = IF a + d < Capacity THEN a + d ELSE a + d - Capacity
  BY <1>4, PlaceFrom
<1> QED BY <1>1, <1>3, <1>4

(* The cells that moving up writes to.                                     *)
LEMMA ForwardCells ==
  ASSUME NEW r \in Rings, NEW first \in Int, NEW last \in Int,
         NEW a, a = Place(r, first), NEW b, b = Place(r, last),
         a \in 0..(Capacity - 1), b \in 0..(Capacity - 1)
  PROVE  LET q == MoveForward(r, first, last)
         IN  /\ q \in Rings /\ q.begin = r.begin /\ q.size = r.size
             /\ \A p \in 0..(Capacity - 1) :
                  q.stor[p] =
                    IF a <= b THEN IF a < p /\ p <= b THEN r.stor[p - 1] ELSE r.stor[p]
                    ELSE IF p = 0 THEN r.stor[Capacity - 1]
                    ELSE IF p <= b \/ a < p THEN r.stor[p - 1] ELSE r.stor[p]
<1> DEFINE C == Capacity
           m == r.stor
           c1 == Copy(m, a + 1, a, b - a)
           c2 == Copy(m, 1, 0, b)
           c3 == Copy(c2, 0, C - 1, 1)
           c4 == Copy(c3, a + 1, a, C - a - 1)
           c  == IF a <= b THEN c1 ELSE c4
           q == MoveForward(r, first, last)
<1>1. C \in Nat /\ C >= 1 /\ Places = 0..(C - 1)
  BY CapacityIs DEF Places
<1>2. /\ m \in [Places -> Cell]
      /\ r.begin \in Places /\ r.size \in 0..C
      /\ r = [stor |-> m, begin |-> r.begin, size |-> r.size]
  BY DEF Rings
<1>3. q = [r EXCEPT !.stor = c]
  BY DEF MoveForward
<1>4. /\ \A p \in 0..(C - 1) : c1[p] = IF p \in (a + 1)..(a + 1 + (b - a) - 1) THEN m[p - (a + 1) + a] ELSE m[p]
      /\ \A p \in 0..(C - 1) : c2[p] = IF p \in 1..(1 + b - 1) THEN m[p - 1 + 0] ELSE m[p]
      /\ \A p \in 0..(C - 1) : c3[p] = IF p \in 0..(0 + 1 - 1) THEN c2[p - 0 + (C - 1)] ELSE c2[p]
      /\ \A p \in 0..(C - 1) : c4[p] = IF p \in (a + 1)..(a + 1 + (C - a - 1) - 1) THEN c3[p - (a + 1) + a] ELSE c3[p]
  BY <1>1 DEF Copy
<1>5. c = [p \in Places |-> c[p]]
  <2>1. c1 = [p \in Places |-> c1[p]] /\ c4 = [p \in Places |-> c4[p]]
    BY DEF Copy
  <2> HIDE DEF c1, c4
  <2> QED BY <2>1
<1> HIDE DEF C, m, c1, c2, c3, c4, q
<1>6. ASSUME NEW p \in 0..(C - 1), a <= b
      PROVE  c[p] = IF a < p /\ p <= b THEN m[p - 1] ELSE m[p]
  <2>1. /\ p - (a + 1) + a = p - 1 /\ a + 1 + (b - a) - 1 = b
        /\ (p \in (a + 1)..b <=> a < p /\ p <= b)
    BY <1>1 DEF C
  <2>2. c1[p] = IF p \in (a + 1)..(a + 1 + (b - a) - 1) THEN m[p - (a + 1) + a] ELSE m[p]
    BY <1>4
  <2>3. c1[p] = IF p \in (a + 1)..b THEN m[p - 1] ELSE m[p]
    BY <2>1, <2>2
  <2>4. c = c1
    BY <1>6
  <2> QED BY <2>1, <2>3, <2>4
<1>7. ASSUME NEW p \in 0..(C - 1), ~(a <= b)
      PROVE  c[p] = IF p = 0 THEN m[C - 1] ELSE IF p <= b \/ a < p THEN m[p - 1] ELSE m[p]
  <2>1. \A x \in 0..(C - 1) : c2[x] = IF 0 < x /\ x <= b THEN m[x - 1] ELSE m[x]
    <3> TAKE x \in 0..(C - 1)
    <3>1. x - 1 + 0 = x - 1 /\ 1 + b - 1 = b
      BY <1>1 DEF C
    <3> QED BY <1>4, <3>1, <1>1 DEF C
  <2>2. \A x \in 0..(C - 1) : c3[x] = IF x = 0 THEN m[C - 1] ELSE IF x <= b THEN m[x - 1] ELSE m[x]
    <3> TAKE x \in 0..(C - 1)
    <3>1. c3[x] = IF x = 0 THEN c2[C - 1] ELSE c2[x]
      <4>1. x = 0 => x - 0 + (C - 1) = C - 1
        BY <1>1
      <4> QED BY <1>4, <4>1, <1>1
    <3>2. C - 1 \in 0..(C - 1) /\ ~(C - 1 <= b)
      BY <1>1, <1>7 DEF C
    <3> QED BY <3>1, <3>2, <2>1, <1>1
  <2>3. c4[p] = IF a < p THEN c3[p - 1] ELSE c3[p]
    <3> DEFINE top == a + 1 + (C - a - 1) - 1
               low == p - (a + 1) + a
    <3>1. low = p - 1 /\ top = C - 1
      BY <1>1 DEF C
    <3>2. c4[p] = IF p \in (a + 1)..top THEN c3[low] ELSE c3[p]
      BY <1>4
    <3> HIDE DEF top, low, c
    <3>3. p \in (a + 1)..top <=> a < p
      BY <3>1, <1>1 DEF C
    <3> QED BY <3>1, <3>2, <3>3
  <2>4. CASE a < p
    <3>1. p - 1 \in 0..(C - 1) /\ p - 1 # 0 /\ ~(p - 1 <= b) /\ p # 0
      BY <1>1, <1>7, <2>4 DEF C
    <3>2. c3[p - 1] = m[p - 1]
      BY <3>1, <2>2
    <3> QED BY <1>7, <2>3, <2>4, <3>1, <3>2
  <2>5. CASE ~(a < p)
    BY <1>7, <2>3, <2>5, <2>2
  <2> QED BY <2>4, <2>5
<1>8. \A p \in 0..(C - 1) : c[p] \in Cell
  <2> TAKE p \in 0..(C - 1)
  <2>1. m[p] \in Cell /\ m[C - 1] \in Cell /\ (p # 0 => m[p - 1] \in Cell)
    BY <1>1, <1>2
  <2>2. CASE a <= b
    <3>1. a < p => p # 0
      BY <1>1 DEF C
    <3> QED BY <1>6, <2>2, <2>1, <3>1
  <2>3. CASE ~(a <= b)
    BY <1>7, <2>3, <2>1
  <2> QED BY <2>2, <2>3
<1> HIDE DEF c
<1>9. c \in [Places -> Cell]
  BY <1>1, <1>5, <1>8
<1>10. q = [stor |-> c, begin |-> r.begin, size |-> r.size]
  BY <1>2, <1>3
<1>11. q \in Rings /\ q.begin = r.begin /\ q.size = r.size /\ q.stor = c
  BY <1>2, <1>9, <1>10 DEF Rings, C
<1> QED BY <1>6, <1>7, <1>11 DEF C, m, q

(* The elements from first to the one before last move up by one.          *)
LEMMA MovingForward ==
  ASSUME NEW r \in Rings, NEW first \in Int, NEW last \in Int,
         first <= last, last - first < Capacity,
         NEW q, q = MoveForward(r, first, last)
  PROVE  /\ q \in Rings /\ q.begin = r.begin /\ q.size = r.size
         /\ \A k \in first..(first + Capacity - 1) :
              At(q, k) = IF first < k /\ k <= last THEN At(r, k - 1) ELSE At(r, k)
<1> DEFINE C == Capacity
           a == Place(r, first)
           b == Place(r, last)
           D == last - first
<1>1. C \in Nat /\ C >= 1 /\ r.begin \in Places
  BY CapacityIs DEF Rings
<1> HIDE DEF a, b
<1>2. /\ a \in 0..(C - 1) /\ D \in 0..(C - 1) /\ first + D = last
      /\ b = IF a + D < C THEN a + D ELSE a + D - C
  BY <1>1, PlacesInTurn DEF a, b
<1>3. b \in 0..(C - 1)
  BY <1>1, <1>2
<1>4. /\ q \in Rings /\ q.begin = r.begin /\ q.size = r.size
      /\ \A p \in 0..(C - 1) :
           q.stor[p] =
             IF a <= b THEN IF a < p /\ p <= b THEN r.stor[p - 1] ELSE r.stor[p]
             ELSE IF p = 0 THEN r.stor[C - 1]
             ELSE IF p <= b \/ a < p THEN r.stor[p - 1] ELSE r.stor[p]
  BY <1>2, <1>3, ForwardCells DEF a, b
<1>5. ASSUME NEW k \in first..(first + C - 1)
      PROVE  At(q, k) = IF first < k /\ k <= last THEN At(r, k - 1) ELSE At(r, k)
  <2> DEFINE d == k - first
             p == IF a + d < C THEN a + d ELSE a + d - C
             o == IF a + (d - 1) < C THEN a + (d - 1) ELSE a + (d - 1) - C
  <2>1. d \in 0..(C - 1) /\ k = first + d /\ k \in Int
    BY <1>1
  <2>2. Place(r, k) = p /\ p \in 0..(C - 1)
    BY <1>1, <1>2, <2>1, PlacesInTurn DEF a
  <2>3. Place(q, k) = p
    BY <1>4, <2>2 DEF Place
  <2>4. ASSUME first < k
        PROVE  Place(r, k - 1) = o
    <3>1. d - 1 \in 0..(C - 1) /\ k - 1 = first + (d - 1)
      BY <1>1, <2>1, <2>4
    <3> QED BY <1>1, <1>2, <3>1, PlacesInTurn DEF a
  <2> HIDE DEF d
  <2>5. CASE first < k /\ k <= last
    <3>1. 0 < d /\ d <= D
      BY <1>1, <1>2, <2>1, <2>5
    <3>2. o = IF p = 0 THEN C - 1 ELSE p - 1
      BY <1>1, <1>2, <2>1, <3>1
    <3>3. a <= b => a < p /\ p <= b
      BY <1>1, <1>2, <2>1, <3>1
    <3>4. ~(a <= b) => p = 0 \/ p <= b \/ a < p
      BY <1>1, <1>2, <2>1, <3>1
    <3>5. a <= b => p # 0
      BY <3>3, <1>2, <2>2
    <3> HIDE DEF p, o
    <3>6. q.stor[p] = r.stor[o]
      BY <1>4, <2>2, <3>2, <3>3, <3>4, <3>5
    <3> QED BY <2>2, <2>3, <2>4, <2>5, <3>6 DEF At
  <2>6. CASE ~(first < k /\ k <= last)
    <3>1. d = 0 \/ d > D
      BY <1>1, <1>2, <2>1, <2>6
    <3>2. a <= b => ~(a < p /\ p <= b)
      BY <1>1, <1>2, <2>1, <3>1
    <3>3. ~(a <= b) => p # 0 /\ ~(p <= b \/ a < p)
      BY <1>1, <1>2, <2>1, <3>1
    <3> HIDE DEF p, o
    <3>6. q.stor[p] = r.stor[p]
      BY <1>4, <2>2, <3>2, <3>3
    <3> QED BY <2>2, <2>3, <2>6, <3>6 DEF At
  <2> QED BY <2>5, <2>6
<1> QED BY <1>4, <1>5

(* The cells that moving down writes to.                                   *)
LEMMA BackwardCells ==
  ASSUME NEW r \in Rings, NEW first \in Int, NEW last \in Int,
         NEW a, a = Place(r, first), NEW b, b = Place(r, last),
         a \in 0..(Capacity - 1), b \in 0..(Capacity - 1)
  PROVE  LET q == MoveBackward(r, first, last)
         IN  /\ q \in Rings /\ q.begin = r.begin /\ q.size = r.size
             /\ \A p \in 0..(Capacity - 1) :
                  q.stor[p] =
                    IF a <= b THEN IF a <= p /\ p < b THEN r.stor[p + 1] ELSE r.stor[p]
                    ELSE IF p = Capacity - 1 THEN r.stor[0]
                    ELSE IF p < b \/ a <= p THEN r.stor[p + 1] ELSE r.stor[p]
<1> DEFINE C == Capacity
           m == r.stor
           c1 == Copy(m, a, a + 1, b - a)
           c2 == Copy(m, a, a + 1, C - a - 1)
           c3 == Copy(c2, C - 1, 0, 1)
           c4 == Copy(c3, 0, 1, b)
           c  == IF a <= b THEN c1 ELSE c4
           q == MoveBackward(r, first, last)
<1>1. C \in Nat /\ C >= 1 /\ Places = 0..(C - 1)
  BY CapacityIs DEF Places
<1>2. /\ m \in [Places -> Cell]
      /\ r.begin \in Places /\ r.size \in 0..C
      /\ r = [stor |-> m, begin |-> r.begin, size |-> r.size]
  BY DEF Rings
<1>3. q = [r EXCEPT !.stor = c]
  BY DEF MoveBackward
<1>4. /\ \A p \in 0..(C - 1) : c1[p] = IF p \in a..(a + (b - a) - 1) THEN m[p - a + (a + 1)] ELSE m[p]
      /\ \A p \in 0..(C - 1) : c2[p] = IF p \in a..(a + (C - a - 1) - 1) THEN m[p - a + (a + 1)] ELSE m[p]
      /\ \A p \in 0..(C - 1) : c3[p] = IF p \in (C - 1)..(C - 1 + 1 - 1) THEN c2[p - (C - 1) + 0] ELSE c2[p]
      /\ \A p \in 0..(C - 1) : c4[p] = IF p \in 0..(0 + b - 1) THEN c3[p - 0 + 1] ELSE c3[p]
  BY <1>1 DEF Copy
<1>5. c = [p \in Places |-> c[p]]
  <2>1. c1 = [p \in Places |-> c1[p]] /\ c4 = [p \in Places |-> c4[p]]
    BY DEF Copy
  <2> HIDE DEF c1, c4
  <2> QED BY <2>1
<1> HIDE DEF C, m, c1, c2, c3, c4, q
<1>6. ASSUME NEW p \in 0..(C - 1), a <= b
      PROVE  c[p] = IF a <= p /\ p < b THEN m[p + 1] ELSE m[p]
  <2> DEFINE top == a + (b - a) - 1
             low == p - a + (a + 1)
  <2>1. low = p + 1 /\ top = b - 1
    BY <1>1 DEF C
  <2>2. c1[p] = IF p \in a..top THEN m[low] ELSE m[p]
    BY <1>4
  <2> HIDE DEF top, low
  <2>3. p \in a..top <=> a <= p /\ p < b
    BY <2>1, <1>1 DEF C
  <2> QED BY <1>6, <2>1, <2>2, <2>3
<1>7. ASSUME NEW p \in 0..(C - 1), ~(a <= b)
      PROVE  c[p] = IF p = C - 1 THEN m[0] ELSE IF p < b \/ a <= p THEN m[p + 1] ELSE m[p]
  <2>1. \A x \in 0..(C - 1) : c2[x] = IF a <= x /\ x < C - 1 THEN m[x + 1] ELSE m[x]
    <3> TAKE x \in 0..(C - 1)
    <3> DEFINE top == a + (C - a - 1) - 1
               low == x - a + (a + 1)
    <3>1. low = x + 1 /\ top = C - 2
      BY <1>1 DEF C
    <3>2. c2[x] = IF x \in a..top THEN m[low] ELSE m[x]
      BY <1>4
    <3> HIDE DEF top, low, c
    <3>3. x \in a..top <=> a <= x /\ x < C - 1
      BY <3>1, <1>1 DEF C
    <3> QED BY <3>1, <3>2, <3>3
  <2>2. \A x \in 0..(C - 1) :
          c3[x] = IF x = C - 1 THEN m[0] ELSE IF a <= x THEN m[x + 1] ELSE m[x]
    <3> TAKE x \in 0..(C - 1)
    <3>1. c3[x] = IF x = C - 1 THEN c2[0] ELSE c2[x]
      <4>1. x = C - 1 => x - (C - 1) + 0 = 0
        BY <1>1
      <4> QED BY <1>4, <4>1, <1>1
    <3>2. 0 \in 0..(C - 1) /\ ~(a <= 0)
      BY <1>1, <1>7 DEF C
    <3>3. x < C - 1 <=> x # C - 1
      BY <1>1
    <3> HIDE DEF c
    <3> QED BY <3>1, <3>2, <3>3, <2>1
  <2>3. c4[p] = IF p < b THEN c3[p + 1] ELSE c3[p]
    <3> DEFINE top == 0 + b - 1
               low == p - 0 + 1
    <3>1. low = p + 1 /\ top = b - 1
      BY <1>1 DEF C
    <3>2. c4[p] = IF p \in 0..top THEN c3[low] ELSE c3[p]
      BY <1>4
    <3> HIDE DEF top, low, c
    <3>3. p \in 0..top <=> p < b
      BY <3>1, <1>1 DEF C
    <3> QED BY <3>1, <3>2, <3>3
  <2>4. CASE p < b
    <3>2. p + 1 \in 0..(C - 1) /\ ~(a <= p + 1) /\ p + 1 # C - 1 /\ p # C - 1
      BY <1>1, <1>7, <2>4 DEF C
    <3>3. c3[p + 1] = m[p + 1]
      BY <3>2, <2>2
    <3> QED BY <1>7, <2>3, <2>4, <3>2, <3>3
  <2>5. CASE ~(p < b)
    BY <1>7, <2>3, <2>5, <2>2
  <2> QED BY <2>4, <2>5
<1>8. \A p \in 0..(C - 1) : c[p] \in Cell
  <2> TAKE p \in 0..(C - 1)
  <2>1. m[p] \in Cell /\ m[0] \in Cell /\ (p # C - 1 => m[p + 1] \in Cell)
    BY <1>1, <1>2
  <2>2. CASE a <= b
    <3>1. p < b => p # C - 1
      BY <1>1 DEF C
    <3> QED BY <1>6, <2>2, <2>1, <3>1
  <2>3. CASE ~(a <= b)
    BY <1>7, <2>3, <2>1
  <2> QED BY <2>2, <2>3
<1> HIDE DEF c
<1>9. c \in [Places -> Cell]
  BY <1>1, <1>5, <1>8
<1>10. q = [stor |-> c, begin |-> r.begin, size |-> r.size]
  BY <1>2, <1>3
<1>11. q \in Rings /\ q.begin = r.begin /\ q.size = r.size /\ q.stor = c
  BY <1>2, <1>9, <1>10 DEF Rings, C
<1> QED BY <1>6, <1>7, <1>11 DEF C, m, q

(* The elements from the one after first to last move down by one.         *)
LEMMA MovingBackward ==
  ASSUME NEW r \in Rings, NEW first \in Int, NEW last \in Int,
         first <= last, last - first < Capacity,
         NEW q, q = MoveBackward(r, first, last)
  PROVE  /\ q \in Rings /\ q.begin = r.begin /\ q.size = r.size
         /\ \A k \in first..(first + Capacity - 1) :
              At(q, k) = IF k < last THEN At(r, k + 1) ELSE At(r, k)
<1> DEFINE C == Capacity
           a == Place(r, first)
           b == Place(r, last)
           D == last - first
<1>1. C \in Nat /\ C >= 1 /\ r.begin \in Places
  BY CapacityIs DEF Rings
<1> HIDE DEF a, b
<1>2. /\ a \in 0..(C - 1) /\ D \in 0..(C - 1) /\ first + D = last
      /\ b = IF a + D < C THEN a + D ELSE a + D - C
  BY <1>1, PlacesInTurn DEF a, b
<1>3. b \in 0..(C - 1)
  BY <1>1, <1>2
<1>4. /\ q \in Rings /\ q.begin = r.begin /\ q.size = r.size
      /\ \A p \in 0..(C - 1) :
           q.stor[p] =
             IF a <= b THEN IF a <= p /\ p < b THEN r.stor[p + 1] ELSE r.stor[p]
             ELSE IF p = C - 1 THEN r.stor[0]
             ELSE IF p < b \/ a <= p THEN r.stor[p + 1] ELSE r.stor[p]
  BY <1>2, <1>3, BackwardCells DEF a, b
<1>5. ASSUME NEW k \in first..(first + C - 1)
      PROVE  At(q, k) = IF k < last THEN At(r, k + 1) ELSE At(r, k)
  <2> DEFINE d == k - first
             p == IF a + d < C THEN a + d ELSE a + d - C
             o == IF a + (d + 1) < C THEN a + (d + 1) ELSE a + (d + 1) - C
  <2>1. d \in 0..(C - 1) /\ k = first + d /\ k \in Int
    BY <1>1
  <2>2. Place(r, k) = p /\ p \in 0..(C - 1)
    BY <1>1, <1>2, <2>1, PlacesInTurn DEF a
  <2>3. Place(q, k) = p
    BY <1>4, <2>2 DEF Place
  <2>4. ASSUME k < last
        PROVE  Place(r, k + 1) = o
    <3> DEFINE e == d + 1
    <3>1. e \in 0..(C - 1) /\ k + 1 = first + e
      BY <1>1, <1>2, <2>1, <2>4
    <3> HIDE DEF e
    <3>2. Place(r, first + e) = IF a + e < C THEN a + e ELSE a + e - C
      BY <1>1, <1>2, <3>1, PlacesInTurn DEF a
    <3> QED BY <3>1, <3>2 DEF e
  <2> HIDE DEF d
  <2>5. CASE k < last
    <3>1. 0 <= d /\ d < D
      BY <1>1, <1>2, <2>1, <2>5
    <3>2. o = IF p = C - 1 THEN 0 ELSE p + 1
      BY <1>1, <1>2, <2>1, <3>1
    <3>3. a <= b => a <= p /\ p < b
      BY <1>1, <1>2, <2>1, <3>1
    <3>4. ~(a <= b) => p = C - 1 \/ p < b \/ a <= p
      BY <1>1, <1>2, <2>1, <3>1
    <3>5. a <= b => p # C - 1
      BY <3>3, <1>2, <2>2, <1>3, <1>1
    <3> HIDE DEF p, o
    <3>6. q.stor[p] = r.stor[o]
      BY <1>4, <2>2, <3>2, <3>3, <3>4, <3>5
    <3> QED BY <2>2, <2>3, <2>4, <2>5, <3>6 DEF At
  <2>6. CASE ~(k < last)
    <3>1. d >= D
      BY <1>1, <1>2, <2>1, <2>6
    <3>2. a <= b => ~(a <= p /\ p < b)
      BY <1>1, <1>2, <2>1, <3>1
    <3>3. ~(a <= b) => p # C - 1 /\ ~(p < b \/ a <= p)
      BY <1>1, <1>2, <2>1, <3>1
    <3> HIDE DEF p, o
    <3>6. q.stor[p] = r.stor[p]
      BY <1>4, <2>2, <3>2, <3>3
    <3> QED BY <2>2, <2>3, <2>6, <3>6 DEF At
  <2> QED BY <2>5, <2>6
<1> QED BY <1>4, <1>5

(* After a turn the places are the same.                                   *)
LEMMA TurnOfPlaces ==
  ASSUME NEW r, r.begin \in Places, NEW k \in Int
  PROVE  At(r, k + Capacity) = At(r, k)
<1>1. Capacity \in Nat /\ Capacity >= 1 /\ r.begin \in Int
  BY CapacityIs DEF Places
<1> DEFINE x == r.begin + k
           y == r.begin + (k + Capacity)
<1>2. x \in Int /\ y \in Int /\ y = x + Laps(1, Capacity)
  BY <1>1 DEF Laps
<1> HIDE DEF x, y
<1>3. y % Capacity = x % Capacity
  BY <1>1, <1>2, LapsVanish
<1> QED BY <1>3 DEF At, Place, x, y

(* A write to an index changes that element of one turn of the ring.       *)
LEMMA Writing ==
  ASSUME NEW r \in Rings, NEW i \in Int, NEW v \in Cell, NEW q, q = Write(r, i, v)
  PROVE  /\ q \in Rings /\ q.begin = r.begin /\ q.size = r.size
         /\ \A k \in Int : k - i < Capacity /\ i - k < Capacity =>
              At(q, k) = IF k = i THEN v ELSE At(r, k)
<1> DEFINE p == Place(r, i)
           m == [r.stor EXCEPT ![p] = v]
<1>1. /\ r.stor \in [Places -> Cell] /\ r.begin \in Places /\ r.size \in 0..Capacity
      /\ r = [stor |-> r.stor, begin |-> r.begin, size |-> r.size]
  BY DEF Rings
<1>2. p \in Places
  BY <1>1, PlacesInTurn DEF Places
<1>3. q = [stor |-> m, begin |-> r.begin, size |-> r.size]
  BY <1>1 DEF Write
<1>4. m \in [Places -> Cell]
  BY <1>1, <1>2
<1>5. q \in Rings /\ q.begin = r.begin /\ q.size = r.size /\ q.stor = m
  BY <1>1, <1>3, <1>4 DEF Rings
<1>6. ASSUME NEW k \in Int, k - i < Capacity, i - k < Capacity
      PROVE  At(q, k) = IF k = i THEN v ELSE At(r, k)
  <2>1. Place(q, k) = Place(r, k)
    BY <1>5 DEF Place
  <2>2. Place(r, k) \in Places
    BY <1>1, PlacesInTurn DEF Places
  <2>3. k # i => Place(r, k) # p
    BY <1>1, <1>6, PlacesDiffer
  <2> QED BY <1>1, <1>2, <1>5, <2>1, <2>2, <2>3 DEF At
<1> QED BY <1>5, <1>6

(* The head moved by n, and the size set.                                  *)
LEMMA Shifting ==
  ASSUME NEW r \in Rings, NEW n \in Int, NEW z \in 0..Capacity,
         NEW b, b = (r.begin + n) % Capacity,
         NEW q, q = [stor |-> r.stor, begin |-> b, size |-> z]
  PROVE  /\ q \in Rings /\ q.size = z
         /\ \A k \in Int : At(q, k) = At(r, n + k)
<1>1. /\ r.stor \in [Places -> Cell] /\ r.begin \in Places /\ r.size \in 0..Capacity
      /\ r = [stor |-> r.stor, begin |-> r.begin, size |-> r.size]
  BY DEF Rings
<1>3. q.begin = b /\ q.size = z /\ q.stor = r.stor
  OBVIOUS
<1>4. ASSUME NEW k \in Int
      PROVE  q.begin \in Places /\ Place(q, k) = Place(r, n + k)
  <2>1. r.begin \in Places /\ q.begin = (r.begin + n) % Capacity
    BY <1>1, <1>3
  <2> QED BY <2>1, PlaceShifted, ZenonT(30)
<1>5. q.begin \in Places
  BY <1>4
<1>6. q \in Rings
  BY <1>1, <1>3, <1>5 DEF Rings
<1> QED BY <1>3, <1>4, <1>6 DEF At

(* Room before the head: the elements move up by as many indexes.          *)
LEMMA HeadExpanded ==
  ASSUME NEW r \in Rings, NEW n \in Nat, r.size + n <= Capacity, NEW q, q = ExpandHead(r, n)
  PROVE  /\ q \in Rings /\ q.size = r.size + n
         /\ \A k \in Int : At(q, k) = At(r, k - n)
<1>1. r.begin \in Int /\ r.size \in Nat /\ Capacity \in Nat
  BY CapacityIs DEF Rings, Places
<1>2. q = [r EXCEPT !.size = r.size + n, !.begin = (r.begin + (-n)) % Capacity]
  <2>1. r.begin - n = r.begin + (-n)
    BY <1>1
  <2> QED BY <2>1 DEF ExpandHead
<1> DEFINE m == -n
           z == r.size + n
<1>3. m \in Int /\ z \in 0..Capacity /\ \A k \in Int : m + k = k - n
  BY <1>1
<1> HIDE DEF m, z
<1>4. /\ q \in Rings /\ q.size = z
      /\ \A k \in Int : At(q, k) = At(r, m + k)
  <2> DEFINE b == (r.begin + m) % Capacity
  <2>1. q = [r EXCEPT !.size = z, !.begin = b]
    BY <1>2 DEF m, z
  <2> HIDE DEF b
  <2>2. q = [stor |-> r.stor, begin |-> b, size |-> z]
    BY <2>1 DEF Rings
  <2>3. b = (r.begin + m) % Capacity
    BY DEF b
  <2> QED BY <1>3, <2>2, <2>3, Shifting
<1> QED BY <1>3, <1>4 DEF z

(* The head given up: the elements move down by as many indexes.           *)
LEMMA HeadDropped ==
  ASSUME NEW r \in Rings, NEW n \in Nat, n <= r.size, NEW q, q = DropHead(r, n)
  PROVE  /\ q \in Rings /\ q.size = r.size - n
         /\ \A k \in Int : At(q, k) = At(r, k + n)
<1>1. r.begin \in Int /\ r.size \in 0..Capacity /\ Capacity \in Nat
  BY CapacityIs DEF Rings, Places
<1>2. q = [r EXCEPT !.size = r.size - n, !.begin = (r.begin + n) % Capacity]
  BY DEF DropHead
<1> DEFINE z == r.size - n
<1>3. n \in Int /\ z \in 0..Capacity /\ \A k \in Int : n + k = k + n
  BY <1>1
<1> HIDE DEF z
<1>4. /\ q \in Rings /\ q.size = z
      /\ \A k \in Int : At(q, k) = At(r, n + k)
  <2> DEFINE b == (r.begin + n) % Capacity
  <2>1. q = [r EXCEPT !.size = z, !.begin = b]
    BY <1>2 DEF z
  <2> HIDE DEF b
  <2>2. q = [stor |-> r.stor, begin |-> b, size |-> z]
    BY <2>1 DEF Rings
  <2>3. b = (r.begin + n) % Capacity
    BY DEF b
  <2> QED BY <1>3, <2>2, <2>3, Shifting
<1> QED BY <1>3, <1>4 DEF z

(* The tail moves without the elements.                                    *)
LEMMA Resizing ==
  ASSUME NEW r \in Rings, NEW z \in 0..Capacity, NEW q, q = [r EXCEPT !.size = z]
  PROVE  /\ q \in Rings /\ q.size = z /\ q.begin = r.begin
         /\ \A k \in Int : At(q, k) = At(r, k)
<1>1. /\ r.stor \in [Places -> Cell] /\ r.begin \in Places /\ r.size \in 0..Capacity
      /\ r = [stor |-> r.stor, begin |-> r.begin, size |-> r.size]
  BY DEF Rings
<1>2. q = [stor |-> r.stor, begin |-> r.begin, size |-> z]
  BY <1>1
<1>3. q.begin = r.begin /\ q.size = z /\ q.stor = r.stor
  BY <1>2
<1>4. q \in Rings
  BY <1>1, <1>2, <1>3 DEF Rings
<1> QED BY <1>3, <1>4 DEF At, Place

(* The cells not in use do not matter.                                     *)
LEMMA Cleaning ==
  ASSUME NEW r \in Rings, NEW q, q = Clean(r)
  PROVE  /\ q \in Rings /\ q.size = r.size /\ q.begin = r.begin
         /\ \A k \in 0..(r.size - 1) : At(q, k) = At(r, k)
<1> DEFINE used == {Place(r, i) : i \in 0..(r.size - 1)}
           m == [p \in Places |-> IF p \in used THEN r.stor[p] ELSE Blank]
<1>1. /\ r.stor \in [Places -> Cell] /\ r.begin \in Places /\ r.size \in 0..Capacity
      /\ r = [stor |-> r.stor, begin |-> r.begin, size |-> r.size]
  BY DEF Rings
<1>2. q = [r EXCEPT !.stor = m]
  BY DEF Clean
<1>3. \A k \in 0..(r.size - 1) : Place(r, k) \in used
  OBVIOUS
<1>4. m \in [Places -> Cell]
  <2>1. Blank \in Cell
    BY DEF Cell
  <2> HIDE DEF used
  <2> QED BY <1>1, <2>1
<1>5. \A k \in 0..(r.size - 1) : Place(r, k) \in Places /\ m[Place(r, k)] = r.stor[Place(r, k)]
  <2> TAKE k \in 0..(r.size - 1)
  <2>1. Place(r, k) \in Places
    <3>1. k \in Int BY <1>1
    <3> QED BY <1>1, <3>1, PlacesInTurn DEF Places
  <2> HIDE DEF used
  <2> QED BY <1>3, <2>1
<1> HIDE DEF m
<1>6. q = [stor |-> m, begin |-> r.begin, size |-> r.size]
  BY <1>1, <1>2
<1>7. q.begin = r.begin /\ q.size = r.size /\ q.stor = m
  BY <1>6
<1>8. q \in Rings
  BY <1>1, <1>4, <1>6, <1>7 DEF Rings
<1> QED BY <1>5, <1>7, <1>8 DEF At, Place

(* bl_ringb_insert: the elements from the index on are one place up,       *)
(* whichever side was moved.                                               *)
LEMMA Inserted ==
  ASSUME NEW r \in Rings, r.size < Capacity, NEW i \in 0..r.size, NEW v \in Cell,
         NEW q, q = Insert(r, v, i)
  PROVE  /\ q \in Rings /\ q.size = r.size + 1
         /\ \A k \in 0..r.size :
              At(q, k) = IF k < i THEN At(r, k) ELSE IF k = i THEN v ELSE At(r, k - 1)
<1> DEFINE C == Capacity
           n == r.size + 1
<1>1. C \in Nat /\ C >= 1 /\ r.size \in Nat /\ n \in 1..C
  BY CapacityIs DEF Rings
<1>2. CASE i < n \div 2
  <2> DEFINE e == ExpandHead(r, 1)
             m == MoveBackward(e, 0, i)
  <2>0. q = Write(m, i, v)
    BY <1>2 DEF Insert
  <2> HIDE DEF e, m
  <2>1. e \in Rings /\ e.size = n /\ \A k \in Int : At(e, k) = At(r, k - 1)
    BY <1>1, HeadExpanded DEF e
  <2>2. /\ m \in Rings /\ m.size = n
        /\ \A k \in 0..(C - 1) : At(m, k) = IF k < i THEN At(e, k + 1) ELSE At(e, k)
    <3>1. i \in Int /\ 0 <= i /\ i - 0 < C
      BY <1>1
    <3> QED BY <1>1, <2>1, <3>1, MovingBackward DEF m
  <2>3. /\ q \in Rings /\ q.size = n
        /\ \A k \in Int : k - i < C /\ i - k < C => At(q, k) = IF k = i THEN v ELSE At(m, k)
    BY <2>0, <2>2, Writing
  <2>4. ASSUME NEW k \in 0..r.size
        PROVE  At(q, k) = IF k < i THEN At(r, k) ELSE IF k = i THEN v ELSE At(r, k - 1)
    <3>1. k \in Int /\ k + 1 \in Int /\ k + 1 - 1 = k /\ k \in 0..(C - 1) /\ k - i < C /\ i - k < C
      BY <1>1
    <3>2. At(e, k) = At(r, k - 1) /\ At(e, k + 1) = At(r, k)
      BY <2>1, <3>1
    <3>3. At(q, k) = IF k = i THEN v ELSE At(m, k)
      BY <2>3, <3>1
    <3>4. At(m, k) = IF k < i THEN At(r, k) ELSE At(r, k - 1)
      BY <2>2, <3>1, <3>2
    <3> QED BY <3>3, <3>4
  <2> QED BY <2>3, <2>4
<1>3. CASE ~(i < n \div 2)
  <2> DEFINE e == ExpandTail(r, 1)
             m == MoveForward(e, i, n - 1)
  <2>0. q = Write(m, i, v)
    BY <1>3 DEF Insert
  <2> HIDE DEF e, m
  <2>1. e \in Rings /\ e.size = n /\ \A k \in Int : At(e, k) = At(r, k)
    BY <1>1, Resizing DEF e, ExpandTail
  <2>2. /\ m \in Rings /\ m.size = n /\ m.begin = e.begin
        /\ \A k \in i..(i + C - 1) :
             At(m, k) = IF i < k /\ k <= n - 1 THEN At(e, k - 1) ELSE At(e, k)
    <3>1. i \in Int /\ n - 1 \in Int /\ i <= n - 1 /\ (n - 1) - i < C
      BY <1>1
    <3> QED BY <1>1, <2>1, <3>1, MovingForward DEF m
  <2>3. /\ q \in Rings /\ q.size = n
        /\ \A k \in Int : k - i < C /\ i - k < C => At(q, k) = IF k = i THEN v ELSE At(m, k)
    BY <2>0, <2>2, Writing
  <2>4. ASSUME NEW k \in 0..r.size
        PROVE  At(q, k) = IF k < i THEN At(r, k) ELSE IF k = i THEN v ELSE At(r, k - 1)
    <3>1. k \in Int /\ k - 1 \in Int /\ k - i < C /\ i - k < C
      BY <1>1
    <3>2. At(e, k) = At(r, k) /\ At(e, k - 1) = At(r, k - 1)
      BY <2>1, <3>1
    <3>3. At(q, k) = IF k = i THEN v ELSE At(m, k)
      BY <2>3, <3>1
    <3>4. CASE k >= i
      <4>1. k \in i..(i + C - 1) /\ k <= n - 1
        BY <1>1, <3>4
      <4>2. At(m, k) = IF i < k THEN At(r, k - 1) ELSE At(r, k)
        BY <2>2, <3>2, <4>1
      <4> QED BY <3>1, <3>3, <3>4, <4>2
    <3>5. CASE k < i
      <4>1. k + C \in i..(i + C - 1) /\ ~(k + C <= n - 1)
        BY <1>1, <3>5
      <4>2. At(m, k + C) = At(e, k + C)
        BY <2>2, <4>1
      <4>3. At(m, k) = At(e, k)
        BY <2>1, <2>2, <3>1, <4>2, TurnOfPlaces DEF Rings
      <4> QED BY <3>2, <3>3, <3>5, <4>3
    <3> QED BY <3>4, <3>5, <3>1
  <2> QED BY <2>3, <2>4
<1> QED BY <1>2, <1>3

(* bl_ringb_drop: the elements after the index are one place down.         *)
LEMMA Dropped ==
  ASSUME NEW r \in Rings, NEW i \in 0..(r.size - 1), NEW q, q = Drop(r, i)
  PROVE  /\ q \in Rings /\ q.size = r.size - 1
         /\ \A k \in 0..(r.size - 2) :
              At(q, k) = IF k < i THEN At(r, k) ELSE At(r, k + 1)
<1> DEFINE C == Capacity
           z == r.size
<1>1. C \in Nat /\ C >= 1 /\ z \in 1..C
  BY CapacityIs DEF Rings
<1>2. CASE i <= z \div 2
  <2> DEFINE m == MoveForward(r, 0, i)
  <2>0. q = DropHead(m, 1)
    BY <1>2 DEF Drop
  <2> HIDE DEF m
  <2>2. /\ m \in Rings /\ m.size = z
        /\ \A k \in 0..(C - 1) : At(m, k) = IF 0 < k /\ k <= i THEN At(r, k - 1) ELSE At(r, k)
    <3>1. i \in Int /\ 0 <= i /\ i - 0 < C
      BY <1>1
    <3> QED BY <1>1, <3>1, MovingForward DEF m
  <2>3. q \in Rings /\ q.size = z - 1 /\ \A k \in Int : At(q, k) = At(m, k + 1)
    BY <2>0, <2>2, <1>1, HeadDropped
  <2>4. ASSUME NEW k \in 0..(z - 2)
        PROVE  At(q, k) = IF k < i THEN At(r, k) ELSE At(r, k + 1)
    <3>1. k \in Int /\ k + 1 - 1 = k /\ k + 1 \in 0..(C - 1) /\ 0 < k + 1 /\ (k + 1 <= i <=> k < i)
      BY <1>1
    <3>2. At(q, k) = At(m, k + 1)
      BY <2>3, <3>1
    <3> QED BY <2>2, <3>1, <3>2
  <2> QED BY <2>3, <2>4
<1>3. CASE ~(i <= z \div 2)
  <2> DEFINE m == MoveBackward(r, i, z - 1)
  <2>0. q = [m EXCEPT !.size = m.size - 1]
    BY <1>3 DEF Drop, DropTail
  <2> HIDE DEF m
  <2>2. /\ m \in Rings /\ m.size = z /\ m.begin = r.begin
        /\ \A k \in i..(i + C - 1) : At(m, k) = IF k < z - 1 THEN At(r, k + 1) ELSE At(r, k)
    <3>1. i \in Int /\ z - 1 \in Int /\ i <= z - 1 /\ (z - 1) - i < C
      BY <1>1
    <3> QED BY <1>1, <3>1, MovingBackward DEF m
  <2>3. q \in Rings /\ q.size = z - 1 /\ \A k \in Int : At(q, k) = At(m, k)
    BY <2>0, <2>2, <1>1, Resizing
  <2>4. ASSUME NEW k \in 0..(z - 2)
        PROVE  At(q, k) = IF k < i THEN At(r, k) ELSE At(r, k + 1)
    <3>1. k \in Int
      BY <1>1
    <3>2. At(q, k) = At(m, k)
      BY <2>3, <3>1
    <3>3. CASE k >= i
      <4>1. k \in i..(i + C - 1) /\ k < z - 1
        BY <1>1, <3>3
      <4> QED BY <2>2, <3>1, <3>2, <3>3, <4>1
    <3>4. CASE k < i
      <4>1. k + C \in i..(i + C - 1) /\ ~(k + C < z - 1)
        BY <1>1, <3>4
      <4>2. At(m, k + C) = At(r, k + C)
        BY <2>2, <4>1
      <4>3. At(m, k) = At(r, k)
        BY <2>2, <3>1, <4>2, TurnOfPlaces DEF Rings
      <4> QED BY <3>2, <3>4, <4>3
    <3> QED BY <3>3, <3>4, <3>1
  <2> QED BY <2>3, <2>4
<1> QED BY <1>2, <1>3

(* The ring q is r with v written from index i on.                         *)
FilledWith(q, r, i, v) ==
  /\ q \in Rings /\ q.size = r.size /\ q.begin = r.begin
  /\ \A j \in i..(i + Capacity - 1) :
       At(q, j) = IF j < i + Len(v) THEN v[j - i + 1] ELSE At(r, j)

(* The values pushed are written one after the other.                      *)
LEMMA Filling ==
  ASSUME NEW r \in Rings, NEW i \in Int, NEW v \in Seq(Cell), Len(v) <= Capacity
  PROVE  FilledWith(Filled(r, i, v), r, i, v)
<1> DEFINE C == Capacity
           n == Len(v)
           Fills(f) == f = [k \in 0..n |-> IF k = 0 THEN r ELSE Write(f[k - 1], i + k - 1, v[k])]
           fill == CHOOSE f : Fills(f)
           step == [k \in 1..n |-> [x \in Rings |-> Write(x, i + k - 1, v[k])]]
           q == Filled(r, i, v)
<1>1. C \in Nat /\ C >= 1 /\ n \in Nat /\ \A k \in 1..n : v[k] \in Cell
  BY CapacityIs, LenProperties, ElementOfSeq
<1>2. q = fill[n]
  BY DEF Filled
<1>3. step \in [1..n -> [Rings -> Rings]]
  <2>1. ASSUME NEW k \in 1..n, NEW x \in Rings PROVE Write(x, i + k - 1, v[k]) \in Rings
    <3>1. i + k - 1 \in Int BY <1>1
    <3> QED BY <1>1, <3>1, Writing
  <2> QED BY <2>1
<1>4. PICK f \in [0..n -> Rings] : f[0] = r /\ \A k \in 1..n : f[k] = step[k][f[k - 1]]
  <2> HIDE DEF step
  <2>1. PICK f : Iterates(f, Rings, n, r, step)
    BY <1>1, <1>3, Iterating
  <2> QED BY <2>1 DEF Iterates
<1>5. Fills(f)
  <2>1. ASSUME NEW k \in 1..n PROVE f[k] = Write(f[k - 1], i + k - 1, v[k])
    <3>1. k - 1 \in 0..n BY <1>1
    <3>2. f[k - 1] \in Rings BY <1>4, <3>1
    <3> QED BY <1>4, <3>2
  <2>2. \A k \in 0..n : f[k] = IF k = 0 THEN r ELSE Write(f[k - 1], i + k - 1, v[k])
    <3> TAKE k \in 0..n
    <3>1. k = 0 \/ k \in 1..n BY <1>1
    <3> QED BY <1>1, <1>4, <2>1, <3>1
  <2> HIDE DEF step
  <2> QED BY <1>4, <2>2
<1>6. Fills(fill)
  <2> HIDE DEF Fills, step
  <2> QED BY <1>5
<1>7. fill[0] = r /\ \A k \in 1..n : fill[k] = Write(fill[k - 1], i + k - 1, v[k])
  <2> HIDE DEF fill
  <2> QED BY <1>1, <1>6
<1> HIDE DEF fill, Fills, step
<1> DEFINE Good(k) ==
             /\ fill[k] \in Rings /\ fill[k].size = r.size /\ fill[k].begin = r.begin
             /\ \A j \in i..(i + C - 1) :
                  At(fill[k], j) = IF j < i + k THEN v[j - i + 1] ELSE At(r, j)
           T == {k \in 0..n : Good(k)}
<1>8. 0 \in T
  BY <1>1, <1>7
<1>9. ASSUME NEW k \in 1..n, k - 1 \in T PROVE k \in T
  <2> DEFINE o == i + k - 1
             w == fill[k - 1]
  <2>1. o \in Int /\ v[k] \in Cell /\ w \in Rings /\ fill[k] = Write(w, o, v[k])
    BY <1>1, <1>7, <1>9
  <2>2. /\ w.size = r.size /\ w.begin = r.begin
        /\ \A j \in i..(i + C - 1) : At(w, j) = IF j < i + (k - 1) THEN v[j - i + 1] ELSE At(r, j)
    BY <1>9
  <2> HIDE DEF w, o
  <2>3. /\ fill[k] \in Rings /\ fill[k].begin = r.begin /\ fill[k].size = r.size
        /\ \A j \in Int : j - o < C /\ o - j < C => At(fill[k], j) = IF j = o THEN v[k] ELSE At(w, j)
    BY <2>1, <2>2, Writing
  <2>4. ASSUME NEW j \in i..(i + C - 1)
        PROVE  At(fill[k], j) = IF j < i + k THEN v[j - i + 1] ELSE At(r, j)
    <3>1. j \in Int /\ j - o < C /\ o - j < C
      BY <1>1 DEF o
    <3>2. At(fill[k], j) = IF j = o THEN v[k] ELSE At(w, j)
      BY <2>3, <3>1
    <3>3. CASE j = o
      <4>1. j - i + 1 = k /\ j < i + k
        BY <1>1, <3>3 DEF o
      <4> QED BY <3>2, <3>3, <4>1
    <3>4. CASE j # o
      <4>1. j < i + (k - 1) <=> j < i + k
        BY <1>1, <3>4 DEF o
      <4> QED BY <2>2, <3>2, <3>4, <4>1
    <3> QED BY <3>3, <3>4
  <2> QED BY <1>1, <2>3, <2>4
<1>10. n \in T
  <2> HIDE DEF T
  <2>1. \A k \in 0..n : k \in T
    BY <1>1, <1>8, <1>9, Counting
  <2> QED BY <1>1, <2>1
<1>11. Good(n)
  <2> HIDE DEF Good
  <2> QED BY <1>10
<1> HIDE DEF q
<1> QED BY <1>2, <1>11 DEF FilledWith, q

(* The ring q is r without the n elements from index i on.                 *)
RangeTaken(q, r, i, n) ==
  /\ q \in Rings /\ q.size = r.size - n
  /\ \A k \in 0..(r.size - n - 1) : At(q, k) = IF k < i THEN At(r, k) ELSE At(r, k + n)

(* The ranges that bl_ringb_drop_range handles.                            *)
RangeHandled(r, i, n) ==
  i + n <= r.size /\ (i >= r.size - i - n \/ (r.begin = 0 /\ i <= n))

(* bl_ringb_drop_range, of a range that it handles.                        *)
LEMMA RangeDropped ==
  ASSUME NEW r \in Rings, NEW i \in Nat, NEW n \in Nat, RangeHandled(r, i, n)
  PROVE  RangeTaken(DropRange(r, i, n), r, i, n)
<1>0. i + n <= r.size /\ (i >= r.size - i - n \/ (r.begin = 0 /\ i <= n))
  BY DEF RangeHandled
<1> DEFINE C == Capacity
           q == DropRange(r, i, n)
           z == r.size
           rest == z - i - n
           tail == i >= rest
           src == IF tail THEN i + n ELSE 0
           dst == IF tail THEN i ELSE n
           m == IF tail THEN rest ELSE i
           Copies(f) == f = [k \in 0..C |-> IF k = 0 THEN r
                               ELSE Write(f[k - 1], dst + k - 1, At(f[k - 1], src + k - 1))]
           left == CHOOSE f : Copies(f)
           step == [k \in 1..C |-> [x \in Rings |-> Write(x, dst + k - 1, At(x, src + k - 1))]]
<1>1. /\ C \in Nat /\ C >= 1 /\ z \in 0..C /\ rest = z - (i + n) /\ rest \in Nat
      /\ src \in Nat /\ dst \in Nat /\ m \in 0..C
  BY <1>0, CapacityIs DEF Rings
<1>2. q = [left[m] EXCEPT !.size = left[m].size - n, !.begin = IF tail THEN left[m].begin ELSE n]
  BY DEF DropRange
<1> HIDE DEF src, dst, left, m, tail, rest, q
<1>3. ASSUME NEW x \in Rings, NEW k \in Int PROVE At(x, k) \in Cell
  <2>1. x.begin \in Places /\ x.stor \in [Places -> Cell]
    BY DEF Rings
  <2>2. Place(x, k) \in Places
    BY <2>1, PlacesInTurn DEF Places
  <2> QED BY <2>1, <2>2 DEF At
<1>4. step \in [1..C -> [Rings -> Rings]]
  <2>1. ASSUME NEW k \in 1..C, NEW x \in Rings
        PROVE  Write(x, dst + k - 1, At(x, src + k - 1)) \in Rings
    <3>1. dst + k - 1 \in Int /\ src + k - 1 \in Int BY <1>1
    <3>2. At(x, src + k - 1) \in Cell BY <3>1, <1>3
    <3> QED BY <3>1, <3>2, Writing
  <2> QED BY <2>1
<1>5. PICK f \in [0..C -> Rings] : f[0] = r /\ \A k \in 1..C : f[k] = step[k][f[k - 1]]
  <2> HIDE DEF step
  <2>1. PICK f : Iterates(f, Rings, C, r, step)
    BY <1>1, <1>4, Iterating
  <2> QED BY <2>1 DEF Iterates
<1>6. Copies(f)
  <2>1. ASSUME NEW k \in 1..C
        PROVE  f[k] = Write(f[k - 1], dst + k - 1, At(f[k - 1], src + k - 1))
    <3>1. k - 1 \in 0..C BY <1>1
    <3>2. f[k - 1] \in Rings BY <1>5, <3>1
    <3> QED BY <1>5, <3>2
  <2>2. \A k \in 0..C : f[k] = IF k = 0 THEN r
                                ELSE Write(f[k - 1], dst + k - 1, At(f[k - 1], src + k - 1))
    <3> TAKE k \in 0..C
    <3>1. k = 0 \/ k \in 1..C BY <1>1
    <3> QED BY <1>1, <1>5, <2>1, <3>1
  <2> HIDE DEF step
  <2> QED BY <1>5, <2>2
<1>7. Copies(left)
  <2> HIDE DEF Copies, step
  <2> QED BY <1>6 DEF left
<1>8. /\ left[0] = r
      /\ \A k \in 1..C : left[k] = Write(left[k - 1], dst + k - 1, At(left[k - 1], src + k - 1))
  BY <1>1, <1>7
<1> HIDE DEF Copies, step
<1> DEFINE Good(k) ==
             /\ left[k] \in Rings /\ left[k].size = z /\ left[k].begin = r.begin
             /\ \A j \in 0..(C - 1) :
                  At(left[k], j) = IF dst <= j /\ j < dst + k THEN At(r, j - dst + src) ELSE At(r, j)
           T == {k \in 0..m : Good(k)}
<1>9. 0 \in T
  BY <1>1, <1>8
<1>10. /\ m <= C /\ dst + m <= z /\ src + m <= z
       /\ (src < dst => src + m <= dst)
  BY <1>0, <1>1 DEF m, dst, src, tail, rest
<1>11. ASSUME NEW k \in 1..m, k - 1 \in T PROVE k \in T
  <2> DEFINE o == dst + k - 1
             s == src + k - 1
             w == left[k - 1]
  <2>1. o \in 0..(C - 1) /\ s \in 0..(C - 1) /\ k \in 1..C
    BY <1>1, <1>10
  <2>2. /\ w \in Rings /\ w.size = z /\ w.begin = r.begin
        /\ \A j \in 0..(C - 1) :
             At(w, j) = IF dst <= j /\ j < dst + (k - 1) THEN At(r, j - dst + src) ELSE At(r, j)
    BY <1>11
  <2>3. left[k] = Write(w, o, At(w, s))
    BY <1>8, <2>1
  <2>4. At(w, s) = At(r, s)
    <3>1. ~(dst <= s /\ s < dst + (k - 1))
      BY <1>1, <1>10
    <3> HIDE DEF w, s
    <3> QED BY <2>1, <2>2, <3>1
  <2>5. At(w, s) \in Cell
    <3> HIDE DEF w
    <3> QED BY <2>1, <2>2, <1>3
  <2> HIDE DEF w, o, s
  <2>6. /\ left[k] \in Rings /\ left[k].begin = r.begin /\ left[k].size = z
        /\ \A j \in Int : j - o < C /\ o - j < C => At(left[k], j) = IF j = o THEN At(r, s) ELSE At(w, j)
    BY <2>1, <2>2, <2>3, <2>4, <2>5, Writing
  <2>7. ASSUME NEW j \in 0..(C - 1)
        PROVE  At(left[k], j) = IF dst <= j /\ j < dst + k THEN At(r, j - dst + src) ELSE At(r, j)
    <3>1. j \in Int /\ j - o < C /\ o - j < C
      BY <1>1, <2>1
    <3>2. At(left[k], j) = IF j = o THEN At(r, s) ELSE At(w, j)
      BY <2>6, <3>1
    <3>3. CASE j = o
      <4>1. j - dst + src = s /\ dst <= j /\ j < dst + k
        BY <1>1, <3>3 DEF o, s
      <4> QED BY <3>2, <3>3, <4>1
    <3>4. CASE j # o
      <4>1. j < dst + (k - 1) <=> j < dst + k
        BY <1>1, <3>4 DEF o
      <4> QED BY <2>2, <3>2, <3>4, <4>1
    <3> QED BY <3>3, <3>4
  <2>8. k \in 0..m
    BY <1>1
  <2> QED BY <2>6, <2>7, <2>8
<1>12. Good(m)
  <2>1. m \in Nat BY <1>1
  <2> HIDE DEF T
  <2>2. \A k \in 0..m : k \in T
    BY <2>1, <1>9, <1>11, Counting
  <2>3. m \in T BY <2>1, <2>2
  <2> QED BY <2>3 DEF T
<1> DEFINE l == left[m]
<1>13. /\ l \in Rings /\ l.size = z /\ l.begin = r.begin
       /\ \A j \in 0..(C - 1) :
            At(l, j) = IF dst <= j /\ j < dst + m THEN At(r, j - dst + src) ELSE At(r, j)
  BY <1>12
<1>14. q = [l EXCEPT !.size = l.size - n, !.begin = IF tail THEN l.begin ELSE n]
  BY <1>2
<1> HIDE DEF l, T, Good
<1>15. ASSUME tail
      PROVE  /\ q \in Rings /\ q.size = z - n
             /\ \A k \in 0..(z - n - 1) : At(q, k) = IF k < i THEN At(r, k) ELSE At(r, k + n)
  <2> DEFINE y == z - n
  <2>1. y \in 0..C
    BY <1>1
  <2> HIDE DEF y
  <2>2. q = [l EXCEPT !.size = y]
    <3>1. l.size - n = y /\ q = [l EXCEPT !.size = l.size - n, !.begin = l.begin]
      BY <1>13, <1>14, <1>15 DEF y
    <3>2. l = [stor |-> l.stor, begin |-> l.begin, size |-> l.size]
      BY <1>13 DEF Rings
    <3> QED BY ONLY <3>1, <3>2
  <2>3. q \in Rings /\ q.size = y /\ \A k \in Int : At(q, k) = At(l, k)
    BY <2>1, <2>2, <1>13, Resizing
  <2>4. ASSUME NEW k \in 0..(z - n - 1)
        PROVE  At(q, k) = IF k < i THEN At(r, k) ELSE At(r, k + n)
    <3>1. k \in Int /\ k \in 0..(C - 1) /\ dst = i /\ src = i + n /\ m = z - i - n
      BY <1>1, <1>15 DEF dst, src, m, rest
    <3>2. k - dst + src = k + n /\ (dst <= k => k < dst + m)
      BY <3>1, <1>1
    <3> QED BY <3>1, <3>2, <1>13, <2>3, <1>1
  <2> QED BY <2>3, <2>4 DEF y
<1>16. ASSUME ~tail
      PROVE  /\ q \in Rings /\ q.size = z - n
             /\ \A k \in 0..(z - n - 1) : At(q, k) = IF k < i THEN At(r, k) ELSE At(r, k + n)
  <2> DEFINE y == z - n
             b == (l.begin + n) % C
  <2>1. r.begin = 0 /\ i <= n /\ n \in 0..(C - 1) /\ y \in 0..C
    BY <1>0, <1>1, <1>16 DEF tail, rest
  <2>2. b = n
    <3>1. l.begin + n = n
      BY <1>13, <2>1
    <3>2. n % C = n
      BY <2>1, <1>1, SmallNumber
    <3> QED BY <3>1, <3>2
  <2> HIDE DEF y, b
  <2>3. q = [stor |-> l.stor, begin |-> b, size |-> y]
    BY <1>13, <1>14, <1>16, <2>2 DEF y, Rings
  <2>4. b = (l.begin + n) % Capacity
    BY DEF b
  <2>5. q \in Rings /\ q.size = y /\ \A k \in Int : At(q, k) = At(l, n + k)
    BY <2>1, <2>3, <2>4, <1>13, Shifting
  <2>6. ASSUME NEW k \in 0..(z - n - 1)
        PROVE  At(q, k) = IF k < i THEN At(r, k) ELSE At(r, k + n)
    <3>1. k \in Int /\ n + k \in 0..(C - 1) /\ dst = n /\ src = 0 /\ m = i /\ n + k = k + n
      BY <1>1, <1>16 DEF dst, src, m, rest
    <3>2. n + k - dst + src = k /\ (n + k < dst + m <=> k < i) /\ dst <= n + k
      BY <3>1, <1>1
    <3>3. At(q, k) = At(l, n + k)
      BY <2>5, <3>1
    <3> QED BY <3>1, <3>2, <3>3, <1>13
  <2> QED BY <2>5, <2>6 DEF y
<1>17. /\ q \in Rings /\ q.size = z - n
       /\ \A k \in 0..(z - n - 1) : At(q, k) = IF k < i THEN At(r, k) ELSE At(r, k + n)
  <2> HIDE DEF tail, q
  <2> QED BY <1>15, <1>16
<1> QED BY <1>17 DEF RangeTaken, q

(* What the comparisons with an ordered ring's elements are like.          *)
Falling(res, z) ==
  /\ \A i \in 0..(z - 1) : res[i] \in Int
  /\ \A i, j \in 0..(z - 1) : i <= j => res[i] >= res[j]

Searches(f, res, last) ==
  f = [k \in 0..Capacity |->
         IF k = 0 THEN [head |-> 1, tail |-> last]
         ELSE IF f[k - 1].head >= f[k - 1].tail THEN f[k - 1]
         ELSE IF res[f[k - 1].head + (f[k - 1].tail - f[k - 1].head) \div 2] > 0
                THEN [f[k - 1] EXCEPT !.head = f[k - 1].head + (f[k - 1].tail - f[k - 1].head) \div 2 + 1]
         ELSE [f[k - 1] EXCEPT !.tail = f[k - 1].head + (f[k - 1].tail - f[k - 1].head) \div 2]]

(* The binary search ends between the elements before the value and those  *)
(* that are not.                                                           *)
LEMMA Searching ==
  ASSUME NEW res, NEW last \in 1..(Capacity - 1), Falling(res, last + 1),
         res[0] > 0, res[last] < 0
  PROVE  LET f == (CHOOSE g : Searches(g, res, last))[Capacity].tail
         IN  /\ f \in 1..last
             /\ \A i \in 0..last : (i < f => res[i] > 0) /\ (i >= f => res[i] <= 0)
<1> DEFINE C == Capacity
           S == [head : Int, tail : Int]
           idx(s) == s.head + (s.tail - s.head) \div 2
           Step(s) == IF s.head >= s.tail THEN s
                      ELSE IF res[idx(s)] > 0 THEN [s EXCEPT !.head = idx(s) + 1]
                      ELSE [s EXCEPT !.tail = idx(s)]
           step == [k \in 1..C |-> [s \in S |-> Step(s)]]
           first == [head |-> 1, tail |-> last]
           search == CHOOSE g : Searches(g, res, last)
<1>1. /\ C \in Nat /\ C >= 1 /\ last \in Int
      /\ \A i \in 0..last : res[i] \in Int
      /\ \A i, j \in 0..last : i <= j => res[i] >= res[j]
  <2>1. C \in Nat /\ C >= 1 /\ last \in Int /\ last + 1 - 1 = last
    BY CapacityIs
  <2> QED BY <2>1 DEF Falling
<1>2. \A s \in S : Step(s) \in S /\ idx(s) \in Int
  <2> TAKE s \in S
  <2>1. s.head \in Int /\ s.tail \in Int
    OBVIOUS
  <2>2. idx(s) \in Int
    BY <2>1
  <2> HIDE DEF idx
  <2> QED BY <2>1, <2>2
<1>3. step \in [1..C -> [S -> S]] /\ first \in S
  <2> HIDE DEF Step
  <2> QED BY <1>1, <1>2
<1>4. PICK f : Iterates(f, S, C, first, step)
  <2> HIDE DEF step, S, first
  <2> QED BY <1>1, <1>3, Iterating
<1>5. Searches(f, res, last)
  <2>1. f \in [0..C -> S] /\ f[0] = first /\ \A k \in 1..C : f[k] = step[k][f[k - 1]]
    BY <1>4 DEF Iterates
  <2>2. \A k \in 1..C : f[k] = Step(f[k - 1])
    <3> TAKE k \in 1..C
    <3>1. f[k - 1] \in S
      BY <1>1, <2>1
    <3> HIDE DEF S, Step
    <3> QED BY <2>1, <3>1
  <2>3. \A k \in 0..C : f[k] = IF k = 0 THEN first ELSE Step(f[k - 1])
    <3> TAKE k \in 0..C
    <3>1. k = 0 \/ k \in 1..C BY <1>1
    <3> HIDE DEF Step, first
    <3> QED BY <1>1, <2>1, <2>2, <3>1
  <2>4. f = [k \in 0..C |-> IF k = 0 THEN first ELSE Step(f[k - 1])]
    <3> HIDE DEF Step, first, step, S
    <3> QED BY <2>1, <2>3
  <2> QED BY <2>4, Zenon DEF Searches
<1>6. Searches(search, res, last)
  BY <1>5, Zenon
<1> HIDE DEF search
<1>7. search = [k \in 0..C |-> IF k = 0 THEN first ELSE Step(search[k - 1])]
  BY <1>6, Zenon DEF Searches
<1>8. search[0] = first /\ \A k \in 1..C : search[k] = Step(search[k - 1])
  <2>1. \A k \in 0..C : search[k] = IF k = 0 THEN first ELSE Step(search[k - 1])
    <3> HIDE DEF Step, first
    <3> QED BY <1>7
  <2>2. 0 \in 0..C /\ \A k \in 1..C : k \in 0..C /\ k # 0
    BY <1>1
  <2> HIDE DEF Step, first
  <2> QED BY <2>1, <2>2
<1> DEFINE Good(s, k) ==
             /\ s \in S /\ 1 <= s.head /\ s.head <= s.tail /\ s.tail <= last
             /\ s.head = s.tail \/ s.tail - s.head + k <= last - 1
             /\ \A i \in 0..last : (i < s.head => res[i] > 0) /\ (i >= s.tail => res[i] <= 0)
           T == {k \in 0..C : Good(search[k], k)}
<1>9. 0 \in T
  <2>1. Good(first, 0)
    <3>1. \A i \in 0..last : (i < 1 => i = 0) /\ (i >= last => i = last)
      BY <1>1
    <3>2. 1 <= last
      OBVIOUS
    <3> QED BY <1>1, <3>1, <3>2
  <2> HIDE DEF Good, first
  <2> QED BY <1>1, <1>8, <2>1
<1>10. ASSUME NEW k \in 1..C, k - 1 \in T PROVE k \in T
  <2> DEFINE s == search[k - 1]
             h == s.head
             t == s.tail
             m == idx(s)
  <2>1. /\ s \in S /\ h \in Int /\ t \in Int /\ 1 <= h /\ h <= t /\ t <= last
        /\ h = t \/ t - h + (k - 1) <= last - 1
        /\ \A i \in 0..last : (i < h => res[i] > 0) /\ (i >= t => res[i] <= 0)
        /\ s = [head |-> h, tail |-> t]
    BY <1>10
  <2>2. search[k] = Step(s)
    BY <1>8
  <2>3. m = h + (t - h) \div 2
    OBVIOUS
  <2> HIDE DEF s, h, t, m, Step, idx, S
  <2>4. CASE h >= t
    <3>1. search[k] = s
      BY <2>2, <2>4 DEF Step, h, t
    <3>2. Good(s, k)
      BY <2>1, <2>4 DEF h, t
    <3> HIDE DEF Good
    <3> QED BY <1>1, <3>1, <3>2
  <2>5. CASE ~(h >= t)
    <3>1. m \in Int /\ h <= m /\ m < t /\ m \in 0..last
      BY <1>1, <2>1, <2>3, <2>5
    <3>2. CASE res[m] > 0
      <4>1. search[k] = [head |-> m + 1, tail |-> t]
        <5>1. search[k] = [s EXCEPT !.head = m + 1]
          BY <2>2, <2>5, <3>2 DEF Step, h, t, m
        <5> QED BY <5>1, <2>1
      <4>2. \A i \in 0..last : (i < m + 1 => res[i] > 0) /\ (i >= t => res[i] <= 0)
        <5> TAKE i \in 0..last
        <5>1. i < m + 1 => i <= m
          BY <3>1
        <5>2. res[i] \in Int /\ res[m] \in Int /\ (i <= m => res[i] >= res[m])
          BY <1>1, <3>1
        <5> QED BY <2>1, <3>2, <5>1, <5>2
      <4> DEFINE w == [head |-> m + 1, tail |-> t]
      <4>3. Good(w, k)
        <5>1. w \in S /\ w.head = m + 1 /\ w.tail = t
          BY <3>1, <2>1 DEF S
        <5>2. /\ 1 <= m + 1 /\ m + 1 <= t /\ t <= last
              /\ m + 1 = t \/ t - (m + 1) + k <= last - 1
          BY <1>1, <2>1, <2>5, <3>1
        <5> HIDE DEF w
        <5> QED BY <5>1, <5>2, <4>2
      <4> HIDE DEF Good, w
      <4>4. search[k] = w
        BY <4>1 DEF w
      <4> QED BY <1>1, <4>3, <4>4
    <3>3. CASE ~(res[m] > 0)
      <4>1. search[k] = [head |-> h, tail |-> m]
        <5>1. search[k] = [s EXCEPT !.tail = m]
          BY <2>2, <2>5, <3>3 DEF Step, h, t, m
        <5> QED BY <5>1, <2>1
      <4>2. \A i \in 0..last : (i < h => res[i] > 0) /\ (i >= m => res[i] <= 0)
        <5> TAKE i \in 0..last
        <5>1. res[i] \in Int /\ res[m] \in Int /\ (m <= i => res[m] >= res[i])
          BY <1>1, <3>1
        <5>2. i >= m <=> m <= i
          BY <3>1
        <5> QED BY <2>1, <3>3, <5>1, <5>2
      <4> DEFINE w == [head |-> h, tail |-> m]
      <4>3. Good(w, k)
        <5>1. w \in S /\ w.head = h /\ w.tail = m
          BY <3>1, <2>1 DEF S
        <5>2. /\ 1 <= h /\ h <= m /\ m <= last
              /\ h = m \/ m - h + k <= last - 1
          BY <1>1, <2>1, <2>5, <3>1
        <5> HIDE DEF w
        <5> QED BY <5>1, <5>2, <4>2
      <4> HIDE DEF Good, w
      <4>4. search[k] = w
        BY <4>1 DEF w
      <4> QED BY <1>1, <4>3, <4>4
    <3> QED BY <3>2, <3>3
  <2> QED BY <2>4, <2>5
<1>11. Good(search[C], C)
  <2> HIDE DEF T
  <2>1. \A k \in 0..C : k \in T
    BY <1>1, <1>9, <1>10, Counting
  <2>2. C \in T
    BY <1>1, <2>1
  <2> HIDE DEF Good
  <2> QED BY <2>2 DEF T
<1> DEFINE u == search[C]
<1>12. u \in S /\ u.head = u.tail /\ u.tail \in 1..last
  <2>1. u \in S /\ u.head \in Int /\ u.tail \in Int /\ 1 <= u.head /\ u.head <= u.tail /\ u.tail <= last
        /\ (u.head = u.tail \/ u.tail - u.head + C <= last - 1)
    BY <1>11
  <2>2. last - 1 < C
    BY <1>1
  <2> HIDE DEF u
  <2> QED BY <1>1, <2>1, <2>2
<1>13. \A i \in 0..last : (i < u.tail => res[i] > 0) /\ (i >= u.tail => res[i] <= 0)
  <2>1. \A i \in 0..last : (i < u.head => res[i] > 0) /\ (i >= u.tail => res[i] <= 0)
    BY <1>11
  <2> HIDE DEF u
  <2> QED BY <1>12, <2>1
<1>14. (CHOOSE g : Searches(g, res, last))[Capacity].tail = u.tail
  BY DEF search
<1> HIDE DEF u
<1> QED BY <1>12, <1>13, <1>14

(* A nonempty set of indexes has a last one.                               *)
LEMMA LastIndex ==
  ASSUME NEW n \in Nat, NEW T \in SUBSET (0..n), T # {}
  PROVE  Max(T) \in T /\ \A i \in T : i <= Max(T)
<1> DEFINE D == {n - i : i \in T}
<1>1. D \in SUBSET Nat /\ D # {}
  <2>1. \A i \in T : i \in 0..n /\ n - i \in Nat
    OBVIOUS
  <2>2. PICK i \in T : TRUE
    OBVIOUS
  <2>3. n - i \in D
    OBVIOUS
  <2> QED BY <2>1, <2>3
<1>2. PICK m \in D : \A d \in D : m <= d
  <2> HIDE DEF D
  <2> QED BY <1>1, Smallest
<1>3. PICK x \in T : m = n - x
  BY <1>2
<1>4. \A y \in T : x >= y
  <2> TAKE y \in T
  <2>1. n - y \in D /\ m <= n - y
    BY <1>2
  <2> QED BY <1>3, <2>1
<1>5. Max(T) \in T /\ \A y \in T : Max(T) >= y
  BY <1>4 DEF Max
<1> QED BY <1>5

(* bl_oringb_find_eq_or_gt returns the number of the elements before the   *)
(* value.                                                                  *)
LEMMA FirstNotBefore ==
  ASSUME NEW r, NEW res, r.size \in 0..Capacity, Falling(res, r.size),
         NEW f, f = FindEqOrGt(r, res)
  PROVE  /\ f \in 0..r.size
         /\ \A i \in 0..(r.size - 1) : (i < f => res[i] > 0) /\ (i >= f => res[i] <= 0)
<1> DEFINE z == r.size
           last == z - 1
           N == {i \in 0..last : res[i] # 0}
           search == CHOOSE g : Searches(g, res, last)
<1>1. /\ z \in Nat /\ z <= Capacity /\ Capacity \in Nat /\ last \in Int
      /\ \A i \in 0..last : res[i] \in Int
      /\ \A i, j \in 0..last : i <= j => res[i] >= res[j]
  BY CapacityIs DEF Falling
<1>2. f = CASE z = 0 \/ res[0] <= 0 -> 0
            [] OTHER -> CASE res[last] > 0 -> z
                          [] res[last] = 0 -> 1 + Max(N)
                          [] res[last] < 0 -> search[Capacity].tail
  BY Zenon DEF FindEqOrGt, Searches
<1>3. CASE z = 0 \/ res[0] <= 0
  <2>1. f = 0
    BY <1>2, <1>3
  <2>2. \A i \in 0..last : res[i] <= 0
    <3> TAKE i \in 0..last
    <3>1. z # 0 /\ 0 \in 0..last /\ 0 <= i /\ i \in 0..last
      BY <1>1
    <3>2. res[0] <= 0 /\ res[0] \in Int /\ res[i] \in Int /\ res[0] >= res[i]
      BY <1>1, <1>3, <3>1
    <3> QED BY <3>2
  <2> QED BY <1>1, <2>1, <2>2
<1>4. CASE ~(z = 0 \/ res[0] <= 0)
  <2>1. z > 0 /\ last \in 0..last /\ 0 \in 0..last /\ last \in Nat
    BY <1>1, <1>4
  <2>2. res[0] > 0 /\ res[last] \in Int /\ res[0] \in Int
    BY <1>1, <1>4, <2>1
  <2>3. f = CASE res[last] > 0 -> z
              [] res[last] = 0 -> 1 + Max(N)
              [] res[last] < 0 -> search[Capacity].tail
    BY <1>2, <1>4
  <2>4. CASE res[last] > 0
    <3>1. f = z
      BY <2>2, <2>3, <2>4
    <3>2. \A i \in 0..last : res[i] > 0 /\ i < z
      <4> TAKE i \in 0..last
      <4>1. i <= last /\ res[i] \in Int /\ res[i] >= res[last]
        BY <1>1, <2>1
      <4> QED BY <1>1, <2>2, <2>4, <4>1
    <3> QED BY <1>1, <3>1, <3>2
  <2>5. CASE res[last] = 0
    <3> DEFINE m == Max(N)
    <3>1. f = 1 + m
      BY <2>2, <2>3, <2>5
    <3>2. 0 \in N /\ last \notin N /\ N \in SUBSET (0..last)
      BY <2>1, <2>2, <2>5
    <3>3. m \in N /\ \A i \in N : i <= m
      <4> HIDE DEF N
      <4> QED BY <2>1, <3>2, LastIndex
    <3> HIDE DEF m
    <3>4. m \in 0..last /\ m # last /\ res[m] # 0
      BY <3>2, <3>3
    <3>5. res[m] \in Int /\ res[m] >= res[last]
      BY <1>1, <2>1, <3>4
    <3>6. res[m] > 0
      BY <2>5, <3>4, <3>5
    <3>7. \A i \in 0..last : (i < f => res[i] > 0) /\ (i >= f => res[i] <= 0)
      <4> TAKE i \in 0..last
      <4>1. res[i] \in Int /\ (i <= m => res[i] >= res[m])
        BY <1>1, <3>4
      <4>2. i < f <=> i <= m
        BY <3>1, <3>4
      <4>3. ~(i <= m) => res[i] = 0
        BY <3>3
      <4> QED BY <3>1, <3>4, <3>5, <3>6, <4>1, <4>2, <4>3
    <3> QED BY <1>1, <3>1, <3>4, <3>7
  <2>6. CASE res[last] < 0
    <3>1. f = search[Capacity].tail
      BY <2>2, <2>3, <2>6
    <3>2. last \in 1..(Capacity - 1) /\ last + 1 = z
      BY <1>1, <2>1, <2>2, <2>6
    <3>3. Falling(res, last + 1)
      BY <3>2
    <3> HIDE DEF z
    <3>4. f \in 1..last /\ \A i \in 0..last : (i < f => res[i] > 0) /\ (i >= f => res[i] <= 0)
      <4> HIDE DEF last
      <4> QED BY <2>2, <2>6, <3>1, <3>2, <3>3, Searching
    <3>5. f \in 0..z
      BY <1>1, <3>2, <3>4
    <3> QED BY <3>4, <3>5 DEF z
  <2> QED BY <2>2, <2>4, <2>5, <2>6
<1> QED BY <1>3, <1>4

(* bl_oringb_insert_fifo_duplicates goes past the elements not after the   *)
(* value.                                                                  *)
LEMMA FirstAfter ==
  ASSUME NEW r, NEW res, r.size \in 0..Capacity, Falling(res, r.size),
         NEW a, a = AfterEquals(r, res)
  PROVE  /\ a \in 0..r.size
         /\ \A i \in 0..(r.size - 1) : (i < a => res[i] >= 0) /\ (i >= a => res[i] < 0)
<1> DEFINE z == r.size
           f == FindEqOrGt(r, res)
           Ends(i) == (i = z \/ res[i] # 0) /\ \A j \in f..(i - 1) : res[j] = 0
           T == {i \in f..z : i = z \/ res[i] # 0}
<1>1. /\ z \in Nat /\ \A i \in 0..(z - 1) : res[i] \in Int
      /\ \A i, j \in 0..(z - 1) : i <= j => res[i] >= res[j]
  BY CapacityIs DEF Falling
<1>2. f \in 0..z /\ \A i \in 0..(z - 1) : (i < f => res[i] > 0) /\ (i >= f => res[i] <= 0)
  BY FirstNotBefore
<1>3. a = CHOOSE i \in f..z : Ends(i)
  BY Zenon DEF AfterEquals
<1> HIDE DEF f
<1>4. z \in T /\ T \in SUBSET Nat
  BY <1>1, <1>2
<1>5. PICK m \in T : \A i \in T : m <= i
  <2> HIDE DEF T
  <2> QED BY <1>4, Smallest
<1>6. m \in f..z /\ Ends(m)
  <2>1. ASSUME NEW j \in f..(m - 1) PROVE res[j] = 0
    <3>1. j \in f..z /\ ~(m <= j) /\ j # z
      BY <1>1, <1>2, <1>5
    <3>2. j \notin T
      BY <1>5, <3>1
    <3> QED BY <3>1, <3>2
  <2> QED BY <1>5, <2>1
<1>7. a \in f..z /\ Ends(a)
  <2> HIDE DEF Ends
  <2> QED BY <1>3, <1>6
<1>8. ASSUME NEW i \in 0..(z - 1)
      PROVE  (i < a => res[i] >= 0) /\ (i >= a => res[i] < 0)
  <2>1. res[i] \in Int /\ (i < f => res[i] > 0) /\ (i >= f => res[i] <= 0)
    BY <1>1, <1>2
  <2>2. a \in Int /\ f \in Int /\ f <= a /\ a <= z
    BY <1>1, <1>2, <1>7
  <2>3. CASE i < a
    <3>1. i >= f => i \in f..(a - 1)
      BY <2>2, <2>3
    <3>2. i >= f => res[i] = 0
      BY <1>7, <3>1
    <3> QED BY <2>1, <2>2, <2>3, <3>2
  <2>4. CASE i >= a
    <3>1. a # z /\ a \in 0..(z - 1) /\ a <= i
      BY <1>1, <1>2, <2>2, <2>4
    <3>2. res[a] # 0 /\ res[a] \in Int /\ res[a] <= 0
      BY <1>1, <1>2, <1>7, <2>2, <3>1
    <3>3. res[a] >= res[i]
      BY <1>1, <3>1
    <3> QED BY <2>1, <2>2, <2>4, <3>2, <3>3
  <2> QED BY <2>2, <2>3, <2>4
<1> QED BY <1>1, <1>2, <1>7, <1>8

(* The ring r has the entries of the sequence s, with their times wrapped. *)
RingIs(r, s) ==
  /\ r \in Rings /\ s \in Seq(Entry) /\ r.size = Len(s)
  /\ \A i \in 1..Len(s) : At(r, i - 1) = Wrapped(s[i])

(* The ring holds an entry with its time wrapped.                          *)
LEMMA WrappedIs ==
  ASSUME NEW e \in Entry
  PROVE  /\ Wrapped(e) \in Entry /\ Wrapped(e) \in Cell
         /\ Wrapped(e).time = Time(e.time) /\ Wrapped(e).id = e.id
<1>1. TimeMod \in Nat /\ TimeMod >= 1
  BY TimeAssumption
<1>2. e.time % TimeMod \in Int
  BY <1>1, DivMod DEF Entry
<1>3. Wrapped(e) = [time |-> Time(e.time), id |-> e.id]
  BY DEF Wrapped, Entry
<1> QED BY <1>2, <1>3 DEF Entry, Cell, Time

(* Of a ring's entries, for the provers.                                   *)
LEMMA RingTypes ==
  ASSUME NEW r, NEW s, RingIs(r, s)
  PROVE  /\ Capacity \in Nat /\ Capacity >= 1
         /\ r \in Rings /\ r.size = Len(s) /\ Len(s) \in 0..Capacity /\ Len(s) \in Nat
         /\ s \in Seq(Entry) /\ DOMAIN s = 1..Len(s)
         /\ \A i \in 1..Len(s) : s[i] \in Entry /\ At(r, i - 1) = Wrapped(s[i])
<1>1. r \in Rings /\ s \in Seq(Entry) /\ r.size = Len(s) /\ r.size \in 0..Capacity
  BY DEF RingIs, Rings
<1> QED BY <1>1, CapacityIs, LenProperties, ElementOfSeq DEF RingIs

(* A ring holds the same sequence when its other cells are blanked.        *)
LEMMA CleanIs ==
  ASSUME NEW r, NEW s, RingIs(r, s)
  PROVE  RingIs(Clean(r), s)
<1>1. /\ r \in Rings /\ r.size = Len(s) /\ Len(s) \in Nat
      /\ \A i \in 1..Len(s) : At(r, i - 1) = Wrapped(s[i])
  BY RingTypes
<1>2. /\ Clean(r) \in Rings /\ Clean(r).size = r.size
      /\ \A k \in 0..(r.size - 1) : At(Clean(r), k) = At(r, k)
  BY <1>1, Cleaning
<1>3. \A i \in 1..Len(s) : i - 1 \in 0..(r.size - 1)
  BY <1>1
<1> QED BY <1>1, <1>2, <1>3 DEF RingIs

(* An insertion in the ring is one in the sequence it holds.               *)
LEMMA InsertIs ==
  ASSUME NEW r, NEW s, RingIs(r, s), r.size < Capacity, NEW i \in 0..r.size, NEW v \in Entry
  PROVE  RingIs(Clean(Insert(r, Wrapped(v), i)), InsertAt(s, i + 1, v))
<1> DEFINE q == Insert(r, Wrapped(v), i)
           t == InsertAt(s, i + 1, v)
<1>1. /\ r \in Rings /\ r.size = Len(s) /\ Len(s) \in Nat /\ s \in Seq(Entry)
      /\ \A j \in 1..Len(s) : At(r, j - 1) = Wrapped(s[j])
  BY RingTypes
<1>2. /\ q \in Rings /\ q.size = r.size + 1
      /\ \A k \in 0..r.size :
           At(q, k) = IF k < i THEN At(r, k) ELSE IF k = i THEN Wrapped(v) ELSE At(r, k - 1)
  <2>1. Wrapped(v) \in Cell
    BY WrappedIs
  <2> QED BY <1>1, <2>1, Inserted
<1>3. /\ t \in Seq(Entry) /\ Len(t) = Len(s) + 1
      /\ \A j \in 1..(Len(s) + 1) :
           t[j] = IF j < i + 1 THEN s[j] ELSE IF j = i + 1 THEN v ELSE s[j - 1]
  <2>1. i + 1 \in 1..(Len(s) + 1)
    BY <1>1
  <2>2. RoomMade(Entry, s, i + 1, v, t)
    BY <1>1, <2>1, Inserting
  <2> QED BY <2>2 DEF RoomMade
<1> HIDE DEF q, t
<1>4. ASSUME NEW j \in 1..(Len(s) + 1) PROVE At(q, j - 1) = Wrapped(t[j])
  <2>1. j - 1 \in 0..r.size /\ (j - 1 < i <=> j < i + 1) /\ (j - 1 = i <=> j = i + 1)
    BY <1>1
  <2>2. CASE j < i + 1
    <3>1. j \in 1..Len(s)
      BY <1>1, <2>2
    <3> QED BY <1>1, <1>2, <1>3, <2>1, <2>2, <3>1
  <2>3. CASE j = i + 1
    <3>1. j - 1 = i /\ ~(j - 1 < i) /\ ~(j < i + 1)
      BY <1>1, <2>3
    <3> QED BY <1>2, <1>3, <2>1, <2>3, <3>1
  <2>4. CASE ~(j < i + 1) /\ j # i + 1
    <3>1. j - 1 \in 1..Len(s)
      BY <1>1, <2>4
    <3> QED BY <1>1, <1>2, <1>3, <2>1, <2>4, <3>1
  <2> QED BY <2>2, <2>3, <2>4
<1>5. RingIs(q, t)
  BY <1>1, <1>2, <1>3, <1>4 DEF RingIs
<1> QED BY <1>5, CleanIs DEF q, t

(* So is a removal.                                                        *)
LEMMA DropIs ==
  ASSUME NEW r, NEW s, RingIs(r, s), NEW i \in 0..(r.size - 1)
  PROVE  RingIs(Clean(Drop(r, i)), RemoveAt(s, i + 1))
<1> DEFINE q == Drop(r, i)
           t == RemoveAt(s, i + 1)
<1>1. /\ r \in Rings /\ r.size = Len(s) /\ Len(s) \in Nat /\ s \in Seq(Entry)
      /\ \A j \in 1..Len(s) : At(r, j - 1) = Wrapped(s[j])
  BY RingTypes
<1>2. /\ q \in Rings /\ q.size = r.size - 1
      /\ \A k \in 0..(r.size - 2) : At(q, k) = IF k < i THEN At(r, k) ELSE At(r, k + 1)
  BY <1>1, Dropped
<1>3. /\ t \in Seq(Entry) /\ Len(t) = Len(s) - 1
      /\ \A j \in 1..(Len(s) - 1) : t[j] = IF j < i + 1 THEN s[j] ELSE s[j + 1]
  <2>1. i + 1 \in 1..Len(s)
    BY <1>1
  <2> QED BY <1>1, <2>1, Removing
<1> HIDE DEF q, t
<1>4. ASSUME NEW j \in 1..(Len(s) - 1) PROVE At(q, j - 1) = Wrapped(t[j])
  <2>1. /\ j - 1 \in 0..(r.size - 2) /\ (j - 1 < i <=> j < i + 1) /\ j - 1 + 1 = j + 1 - 1
        /\ j \in 1..Len(s) /\ j + 1 \in 1..Len(s)
    BY <1>1
  <2>2. At(q, j - 1) = IF j < i + 1 THEN At(r, j - 1) ELSE At(r, j + 1 - 1)
    BY ONLY <1>2, <2>1
  <2>3. t[j] = IF j < i + 1 THEN s[j] ELSE s[j + 1]
    BY <1>3
  <2>4. At(r, j - 1) = Wrapped(s[j]) /\ At(r, j + 1 - 1) = Wrapped(s[j + 1])
    BY ONLY <1>1, <2>1
  <2> QED BY ONLY <2>2, <2>3, <2>4
<1>5. RingIs(q, t)
  BY <1>1, <1>2, <1>3, <1>4 DEF RingIs
<1> QED BY <1>5, CleanIs DEF q, t

(* The entries after the first n.                                          *)
LEMMA PopHeadIs ==
  ASSUME NEW r, NEW s, RingIs(r, s), NEW n \in 1..Len(s)
  PROVE  RingIs(Clean(DropHead(r, n)), SubSeq(s, n + 1, Len(s)))
<1> DEFINE q == DropHead(r, n)
           t == SubSeq(s, n + 1, Len(s))
<1>1. /\ r \in Rings /\ r.size = Len(s) /\ Len(s) \in Nat /\ s \in Seq(Entry)
      /\ \A j \in 1..Len(s) : s[j] \in Entry /\ At(r, j - 1) = Wrapped(s[j])
  BY RingTypes
<1>2. q \in Rings /\ q.size = r.size - n /\ \A k \in Int : At(q, k) = At(r, k + n)
  BY <1>1, HeadDropped
<1>3. /\ t \in Seq(Entry) /\ Len(t) = Len(s) - n
      /\ \A j \in 1..(Len(s) - n) : t[j] = s[j + n]
  <2> DEFINE a == n + 1
             b == Len(s)
  <2>1. a \in Int /\ b \in Int /\ \A j \in a..b : s[j] \in Entry
    BY <1>1
  <2>2. /\ t \in Seq(Entry) /\ Len(t) = IF a <= b THEN b - a + 1 ELSE 0
        /\ \A j \in 1..(b - a + 1) : t[j] = s[a + j - 1]
    BY <2>1, SubSeqProperties
  <2>3. \A j \in 1..(Len(s) - n) : j \in 1..(b - a + 1) /\ a + j - 1 = j + n
    BY <1>1
  <2>4. Len(t) = Len(s) - n
    BY <1>1, <2>2
  <2> HIDE DEF a, b, t
  <2> QED BY <2>2, <2>3, <2>4
<1> HIDE DEF q, t
<1>4. ASSUME NEW j \in 1..(Len(s) - n) PROVE At(q, j - 1) = Wrapped(t[j])
  <2> DEFINE k == j - 1
             o == j + n
  <2>1. k \in Int /\ k + n = o - 1 /\ o \in 1..Len(s)
    BY <1>1
  <2>2. t[j] = s[o]
    BY <1>3
  <2> HIDE DEF k, o
  <2>3. At(q, k) = Wrapped(s[o])
    BY <1>1, <1>2, <2>1
  <2> QED BY <2>2, <2>3 DEF k
<1>5. RingIs(q, t)
  BY <1>1, <1>2, <1>3, <1>4 DEF RingIs
<1> QED BY <1>5, CleanIs DEF q, t

(* The first n entries.                                                    *)
LEMMA FirstEntries ==
  ASSUME NEW s \in Seq(Entry), NEW n \in 0..Len(s), NEW t, t = SubSeq(s, 1, n)
  PROVE  t \in Seq(Entry) /\ Len(t) = n /\ \A j \in 1..n : t[j] = s[j]
<1>1. Len(s) \in Nat /\ \A j \in 1..n : s[j] \in Entry
  <2>1. Len(s) \in Nat /\ \A j \in 1..Len(s) : s[j] \in Entry
    BY LenProperties, ElementOfSeq
  <2> QED BY <2>1
<1>2. /\ t \in Seq(Entry) /\ Len(t) = IF 1 <= n THEN n - 1 + 1 ELSE 0
      /\ \A j \in 1..(n - 1 + 1) : t[j] = s[1 + j - 1]
  BY <1>1, SubSeqProperties
<1> QED BY <1>1, <1>2

(* Elements taken off the tail.                                            *)
LEMMA PopTailIs ==
  ASSUME NEW r, NEW s, RingIs(r, s), NEW n \in 1..Len(s)
  PROVE  RingIs(Clean(DropTail(r, n)), SubSeq(s, 1, Len(s) - n))
<1> DEFINE q == DropTail(r, n)
           z == Len(s) - n
           t == SubSeq(s, 1, z)
<1>1. /\ r \in Rings /\ r.size = Len(s) /\ Len(s) \in 0..Capacity /\ s \in Seq(Entry)
      /\ Capacity \in Nat
      /\ \A j \in 1..Len(s) : s[j] \in Entry /\ At(r, j - 1) = Wrapped(s[j])
  BY RingTypes
<1>2. z \in 0..Capacity /\ z \in 0..Len(s) /\ \A j \in 1..z : j \in 1..Len(s) /\ j - 1 \in Int
  BY <1>1
<1>3. q = [r EXCEPT !.size = z]
  BY <1>1 DEF DropTail
<1> HIDE DEF z
<1>4. q \in Rings /\ q.size = z /\ \A k \in Int : At(q, k) = At(r, k)
  BY <1>1, <1>2, <1>3, Resizing
<1>5. t \in Seq(Entry) /\ Len(t) = z /\ \A j \in 1..z : t[j] = s[j]
  BY <1>1, <1>2, FirstEntries
<1> HIDE DEF q, t
<1>6. RingIs(q, t)
  BY <1>1, <1>2, <1>4, <1>5 DEF RingIs
<1> QED BY <1>6, CleanIs DEF q, t, z

(* An empty ring may start anywhere.                                       *)
LEMMA StartIs ==
  ASSUME NEW r, NEW s, RingIs(r, s), Len(s) = 0, NEW p \in Places
  PROVE  RingIs([r EXCEPT !.begin = p], s)
<1>1. r \in Rings /\ r.size = Len(s) /\ s \in Seq(Entry)
  BY RingTypes
<1>2. [r EXCEPT !.begin = p] \in Rings /\ [r EXCEPT !.begin = p].size = r.size
  BY <1>1 DEF Rings
<1>3. \A i \in 1..Len(s) : FALSE
  OBVIOUS
<1> QED BY <1>1, <1>2, <1>3 DEF RingIs

(* New entries fill the room made for them at the head.                    *)
LEMMA PushHeadIs ==
  ASSUME NEW r, NEW s, RingIs(r, s), NEW v \in Seq(Entry), r.size + Len(v) <= Capacity,
         \A k \in 1..Len(v) : Wrapped(v[k]) = v[k]
  PROVE  RingIs(Filled(ExpandHead(r, Len(v)), 0, v), v \o s)
<1> DEFINE n == Len(v)
           C == Capacity
           e == ExpandHead(r, n)
           q == Filled(e, 0, v)
           t == v \o s
<1>1. /\ r \in Rings /\ r.size = Len(s) /\ Len(s) \in Nat /\ s \in Seq(Entry) /\ C \in Nat
      /\ \A j \in 1..Len(s) : At(r, j - 1) = Wrapped(s[j])
      /\ n \in Nat /\ v \in Seq(Cell) /\ n <= C /\ n + Len(s) <= C
  <2>1. n \in Nat /\ v \in [1..n -> Cell]
    BY LenProperties DEF Cell
  <2>2. v \in Seq(Cell)
    BY <2>1
  <2>3. /\ r \in Rings /\ r.size = Len(s) /\ Len(s) \in Nat /\ s \in Seq(Entry) /\ C \in Nat
        /\ \A j \in 1..Len(s) : At(r, j - 1) = Wrapped(s[j])
    BY RingTypes
  <2>4. r.size + n <= C
    OBVIOUS
  <2>5. n <= C /\ n + Len(s) <= C
    <3> DEFINE z == Len(s)
    <3>1. z \in Nat /\ n \in Nat /\ C \in Nat /\ z + n <= C
      BY <2>1, <2>3, <2>4
    <3> HIDE DEF z, n, C
    <3> QED BY ONLY <3>1 DEF z
  <2> QED BY <2>1, <2>2, <2>3, <2>5
<1>2. e \in Rings /\ e.size = r.size + n /\ \A k \in Int : At(e, k) = At(r, k - n)
  <2>1. r \in Rings /\ n \in Nat /\ r.size + n <= Capacity
    BY <1>1
  <2>2. e = ExpandHead(r, n)
    OBVIOUS
  <2> HIDE DEF n, C, e, q, t
  <2> QED BY ONLY <2>1, <2>2, HeadExpanded
<1> HIDE DEF e
<1>3. /\ q \in Rings /\ q.size = r.size + n
      /\ \A j \in 0..(C - 1) : At(q, j) = IF j < n THEN v[j + 1] ELSE At(e, j)
  <2>1. FilledWith(q, e, 0, v)
    BY <1>1, <1>2, Filling
  <2>2. \A j \in 0..(C - 1) : j \in 0..(0 + C - 1) /\ (j < n <=> j < 0 + n) /\ j - 0 + 1 = j + 1
    BY <1>1
  <2> HIDE DEF q
  <2> QED BY <1>2, <2>1, <2>2 DEF FilledWith
<1>4. /\ t \in Seq(Entry) /\ Len(t) = n + Len(s)
      /\ \A j \in 1..(n + Len(s)) : t[j] = IF j <= n THEN v[j] ELSE s[j - n]
  BY <1>1, ConcatProperties
<1> HIDE DEF q, t, n
<1>5. ASSUME NEW j \in 1..(n + Len(s)) PROVE At(q, j - 1) = Wrapped(t[j])
  <2> DEFINE k == j - 1
  <2>1. k \in 0..(C - 1) /\ k \in Int /\ k + 1 = j /\ (k < n <=> j <= n)
    BY <1>1
  <2> HIDE DEF k
  <2>2. CASE j <= n
    <3>1. j \in 1..n
      BY <1>1, <2>2
    <3>2. At(q, k) = v[j]
      BY <1>3, <2>1, <2>2
    <3> QED BY <1>4, <2>2, <3>1, <3>2 DEF n, k
  <2>3. CASE ~(j <= n)
    <3> DEFINE o == j - n
    <3>1. o \in 1..Len(s) /\ k - n = o - 1
      BY <1>1, <2>3 DEF k
    <3>2. t[j] = s[o]
      BY <1>4, <2>3
    <3> HIDE DEF o
    <3>3. At(q, k) = At(r, k - n)
      BY <1>2, <1>3, <2>1, <2>3
    <3> QED BY <1>1, <3>1, <3>2, <3>3 DEF k
  <2> QED BY <2>2, <2>3
<1>6. q.size = Len(t)
  BY <1>1, <1>3, <1>4
<1> QED BY <1>3, <1>4, <1>5, <1>6 DEF RingIs, q, t, e, n

(* Or at the tail.                                                         *)
LEMMA PushTailIs ==
  ASSUME NEW r, NEW s, RingIs(r, s), NEW v \in Seq(Entry), r.size + Len(v) <= Capacity,
         \A k \in 1..Len(v) : Wrapped(v[k]) = v[k]
  PROVE  RingIs(Filled(ExpandTail(r, Len(v)), r.size, v), s \o v)
<1> DEFINE n == Len(v)
           C == Capacity
           z == r.size
           e == ExpandTail(r, n)
           q == Filled(e, z, v)
           t == s \o v
<1>1. /\ r \in Rings /\ z = Len(s) /\ z \in Nat /\ s \in Seq(Entry) /\ C \in Nat
      /\ \A j \in 1..Len(s) : At(r, j - 1) = Wrapped(s[j])
      /\ n \in Nat /\ v \in Seq(Cell) /\ n <= C
  <2>1. n \in Nat /\ v \in [1..n -> Cell]
    BY LenProperties DEF Cell
  <2>2. v \in Seq(Cell)
    BY <2>1
  <2> QED BY <2>1, <2>2, RingTypes
<1>2. e \in Rings /\ e.size = z + n /\ \A k \in Int : At(e, k) = At(r, k)
  <2>1. z + n \in 0..Capacity
    BY <1>1
  <2> QED BY <1>1, <2>1, Resizing DEF ExpandTail
<1> HIDE DEF e
<1>3. /\ q \in Rings /\ q.size = z + n /\ q.begin = e.begin
      /\ \A j \in z..(z + C - 1) : At(q, j) = IF j < z + n THEN v[j - z + 1] ELSE At(e, j)
  <2>1. FilledWith(q, e, z, v)
    BY <1>1, <1>2, Filling
  <2> HIDE DEF q
  <2> QED BY <1>2, <2>1 DEF FilledWith
<1>4. /\ t \in Seq(Entry) /\ Len(t) = z + n
      /\ \A j \in 1..(z + n) : t[j] = IF j <= z THEN s[j] ELSE v[j - z]
  BY <1>1, ConcatProperties
<1> HIDE DEF q, t, n, z
<1>5. ASSUME NEW j \in 1..(z + n) PROVE At(q, j - 1) = Wrapped(t[j])
  <2> DEFINE k == j - 1
  <2>1. k \in Int /\ k >= 0 /\ k < z + n
    BY <1>1
  <2>2. CASE j <= z
    <3>1. k + C \in z..(z + C - 1) /\ ~(k + C < z + n) /\ k + C \in Int
      BY <1>1, <2>2 DEF n, z
    <3> HIDE DEF k
    <3>2. At(q, k + C) = At(e, k + C)
      BY <1>3, <3>1
    <3>3. At(q, k) = At(e, k)
      BY <1>2, <1>3, <2>1, <3>2, TurnOfPlaces DEF Rings
    <3>4. j \in 1..Len(s)
      BY <1>1, <2>2
    <3> QED BY <1>1, <1>2, <1>4, <2>1, <2>2, <3>3, <3>4 DEF k
  <2>3. CASE ~(j <= z)
    <3> DEFINE o == j - z
    <3>1. k \in z..(z + C - 1) /\ k - z + 1 = o /\ o \in 1..n
      BY <1>1, <2>3
    <3>2. t[j] = v[o]
      BY <1>4, <2>3
    <3> HIDE DEF k, o
    <3>3. At(q, k) = v[o]
      BY <1>3, <2>1, <3>1
    <3> QED BY <3>1, <3>2, <3>3 DEF k, n
  <2> QED BY <2>2, <2>3
<1> QED BY <1>3, <1>4, <1>5 DEF RingIs, q, t, e, n, z

(* n entries go from the middle.                                           *)
LEMMA RangeIs ==
  ASSUME NEW r, NEW s, RingIs(r, s), NEW i \in Nat, NEW n \in Nat, i + n <= Len(s),
         RangeHandled(r, i, n)
  PROVE  RingIs(Clean(DropRange(r, i, n)), SubSeq(s, 1, i) \o SubSeq(s, i + n + 1, Len(s)))
<1> DEFINE q == DropRange(r, i, n)
           a == SubSeq(s, 1, i)
           b == SubSeq(s, i + n + 1, Len(s))
           t == a \o b
           z == Len(s) - n
<1>1. /\ r \in Rings /\ r.size = Len(s) /\ Len(s) \in Nat /\ s \in Seq(Entry)
      /\ \A j \in 1..Len(s) : s[j] \in Entry /\ At(r, j - 1) = Wrapped(s[j])
  BY RingTypes
<1>2. /\ q \in Rings /\ q.size = z
      /\ \A k \in 0..(z - 1) : At(q, k) = IF k < i THEN At(r, k) ELSE At(r, k + n)
  <2>1. RangeTaken(q, r, i, n)
    BY <1>1, RangeDropped
  <2> HIDE DEF q
  <2>2. /\ q \in Rings /\ q.size = r.size - n
        /\ \A k \in 0..(r.size - n - 1) : At(q, k) = IF k < i THEN At(r, k) ELSE At(r, k + n)
    BY <2>1 DEF RangeTaken
  <2>3. r.size - n = z
    BY <1>1
  <2>4. r.size - n - 1 = z - 1
    BY <1>1
  <2> HIDE DEF z
  <2> QED BY <2>2, <2>3, <2>4
<1>3. a \in Seq(Entry) /\ Len(a) = i /\ \A j \in 1..i : a[j] = s[j]
  <2>1. i \in 0..Len(s)
    BY <1>1
  <2> QED BY <1>1, <2>1, FirstEntries
<1>4. b \in Seq(Entry) /\ Len(b) = z - i /\ \A j \in 1..(z - i) : b[j] = s[i + n + j]
  <2> DEFINE x == i + n + 1
             y == Len(s)
  <2>1. x \in Int /\ y \in Int /\ \A j \in x..y : s[j] \in Entry
    BY <1>1
  <2>2. /\ b \in Seq(Entry) /\ Len(b) = IF x <= y THEN y - x + 1 ELSE 0
        /\ \A j \in 1..(y - x + 1) : b[j] = s[x + j - 1]
    <3> HIDE DEF x, y
    <3>1. b = SubSeq(s, x, y)
      BY DEF x, y
    <3> HIDE DEF b
    <3> QED BY <2>1, <3>1, SubSeqProperties
  <2>3. \A j \in 1..(z - i) : j \in 1..(y - x + 1) /\ x + j - 1 = i + n + j
    BY <1>1
  <2>4. Len(b) = z - i
    <3>1. x <= y => y - x + 1 = z - i
      BY <1>1
    <3>2. ~(x <= y) => 0 = z - i
      BY <1>1
    <3> HIDE DEF x, y, b, z
    <3> QED BY <2>2, <3>1, <3>2
  <2> HIDE DEF x, y, b, z
  <2> QED BY <2>2, <2>3, <2>4
<1> HIDE DEF a, b
<1>5. /\ t \in Seq(Entry) /\ Len(t) = i + (z - i)
      /\ \A j \in 1..(i + (z - i)) : t[j] = IF j <= i THEN a[j] ELSE b[j - i]
  BY <1>3, <1>4, ConcatProperties
<1>6. z \in Nat /\ i + (z - i) = z
  BY <1>1
<1> HIDE DEF q, t
<1>7. ASSUME NEW j \in 1..z PROVE At(q, j - 1) = Wrapped(t[j])
  <2> DEFINE k == j - 1
  <2>1. k \in 0..(z - 1) /\ (k < i <=> j <= i) /\ j \in 1..Len(s)
    BY <1>1
  <2> HIDE DEF k
  <2>2. CASE j <= i
    <3>1. t[j] = s[j]
      <4>1. j \in 1..i BY <2>2
      <4> QED BY <1>3, <1>5, <1>6, <2>2, <4>1
    <3>2. At(q, k) = At(r, k)
      BY <1>2, <2>1, <2>2
    <3> QED BY <1>1, <2>1, <3>1, <3>2 DEF k
  <2>3. CASE ~(j <= i)
    <3> DEFINE o == j + n
               p == j - i
    <3>1. o \in 1..Len(s) /\ p \in 1..(z - i) /\ i + n + p = o /\ k + n = o - 1
      BY <1>1, <2>3 DEF k
    <3>2. t[j] = b[p]
      BY <1>5, <1>6, <2>3
    <3> HIDE DEF o, p
    <3>3. b[p] = s[o]
      BY <1>4, <3>1
    <3>4. At(q, k) = At(r, o - 1)
      BY <1>2, <2>1, <2>3, <3>1
    <3> QED BY <1>1, <3>1, <3>2, <3>3, <3>4 DEF k
  <2> QED BY <2>2, <2>3
<1>8. RingIs(q, t)
  BY <1>2, <1>5, <1>6, <1>7 DEF RingIs
<1> QED BY <1>8, CleanIs DEF q, t, a, b

(* The entries of s come in the order of their times, which are of W.      *)
Ordered(s)  == \A i, j \in 1..Len(s) : i <= j => s[i].time <= s[j].time
Timed(s, W) == \A i \in 1..Len(s) : s[i].time \in W

(* An entry inserted between those not after it and those not before it    *)
(* keeps the order.                                                        *)
LEMMA OrderInsert ==
  ASSUME NEW s \in Seq(Entry), Ordered(s), NEW b \in 0..Len(s), NEW v \in Entry,
         \A i \in 1..Len(s) : (i <= b => s[i].time <= v.time) /\ (i > b => v.time <= s[i].time)
  PROVE  Ordered(InsertAt(s, b + 1, v))
<1> DEFINE t == InsertAt(s, b + 1, v)
<1>1. Len(s) \in Nat /\ b + 1 \in 1..(Len(s) + 1)
  BY LenProperties
<1>2. RoomMade(Entry, s, b + 1, v, t)
  BY <1>1, Inserting
<1>3. /\ Len(t) = Len(s) + 1
      /\ \A j \in 1..(Len(s) + 1) :
           t[j] = IF j < b + 1 THEN s[j] ELSE IF j = b + 1 THEN v ELSE s[j - 1]
  BY <1>2 DEF RoomMade
<1>4. \A i \in 1..Len(s) : s[i].time \in Int
  <2>1. \A i \in 1..Len(s) : s[i] \in Entry
    BY ElementOfSeq
  <2> QED BY <2>1 DEF Entry
<1>5. v.time \in Int
  BY DEF Entry
<1> HIDE DEF t
<1>6. ASSUME NEW i \in 1..Len(t), NEW j \in 1..Len(t), i <= j
      PROVE  t[i].time <= t[j].time
  <2>1. /\ i < b + 1 => i \in 1..Len(s) /\ i <= b /\ t[i] = s[i]
        /\ i > b + 1 => i - 1 \in 1..Len(s) /\ i - 1 > b /\ t[i] = s[i - 1]
        /\ i = b + 1 => t[i] = v
    BY <1>1, <1>3
  <2>2. /\ j < b + 1 => j \in 1..Len(s) /\ j <= b /\ t[j] = s[j]
        /\ j > b + 1 => j - 1 \in 1..Len(s) /\ j - 1 > b /\ t[j] = s[j - 1]
        /\ j = b + 1 => t[j] = v
    BY <1>1, <1>3
  <2>3. i \in Int /\ j \in Int /\ b \in Int
    BY <1>1, <1>3
  <2>4. CASE j < b + 1
    BY <2>1, <2>2, <2>3, <2>4, <1>6 DEF Ordered
  <2>5. CASE i > b + 1
    <3>1. i - 1 <= j - 1 /\ j > b + 1
      BY <2>3, <2>5, <1>6
    <3> QED BY <2>1, <2>2, <2>5, <3>1 DEF Ordered
  <2>6. CASE ~(j < b + 1) /\ ~(i > b + 1)
    <3>1. t[i].time <= v.time /\ t[i].time \in Int
      BY <2>1, <2>3, <2>6, <1>4, <1>5
    <3>2. v.time <= t[j].time /\ t[j].time \in Int
      BY <2>2, <2>3, <2>6, <1>4, <1>5
    <3> QED BY <1>5, <3>1, <3>2
  <2> QED BY <2>4, <2>5, <2>6
<1> QED BY <1>6 DEF Ordered, t

(* An entry inserted with a time of W.                                     *)
LEMMA TimesInsert ==
  ASSUME NEW W, NEW s \in Seq(Entry), Timed(s, W), NEW b \in 0..Len(s), NEW v \in Entry, v.time \in W
  PROVE  Timed(InsertAt(s, b + 1, v), W)
<1> DEFINE t == InsertAt(s, b + 1, v)
<1>1. Len(s) \in Nat /\ b + 1 \in 1..(Len(s) + 1)
  BY LenProperties
<1>2. RoomMade(Entry, s, b + 1, v, t)
  BY <1>1, Inserting
<1>3. /\ Len(t) = Len(s) + 1
      /\ \A j \in 1..(Len(s) + 1) :
           t[j] = IF j < b + 1 THEN s[j] ELSE IF j = b + 1 THEN v ELSE s[j - 1]
  BY <1>2 DEF RoomMade
<1> HIDE DEF t
<1>4. ASSUME NEW i \in 1..Len(t) PROVE t[i].time \in W
  <2>1. /\ i < b + 1 => i \in 1..Len(s) /\ t[i] = s[i]
        /\ i > b + 1 => i - 1 \in 1..Len(s) /\ t[i] = s[i - 1]
        /\ i = b + 1 => t[i] = v
    BY <1>1, <1>3
  <2>2. i < b + 1 \/ i > b + 1 \/ i = b + 1
    BY <1>1, <1>3
  <2> QED BY <2>1, <2>2 DEF Timed
<1> QED BY <1>4 DEF Timed, t

(* One entry less, or a part of the entries, in order as before.           *)
LEMMA RemoveKeeps ==
  ASSUME NEW W, NEW s \in Seq(Entry), NEW i \in 1..Len(s)
  PROVE  /\ RemoveAt(s, i) \in Seq(Entry)
         /\ Timed(s, W) => Timed(RemoveAt(s, i), W)
         /\ Ordered(s) => Ordered(RemoveAt(s, i))
<1> DEFINE t == RemoveAt(s, i)
<1>1. /\ Len(s) \in Nat /\ t \in Seq(Entry) /\ Len(t) = Len(s) - 1
      /\ \A j \in 1..(Len(s) - 1) : t[j] = IF j < i THEN s[j] ELSE s[j + 1]
  BY LenProperties, Removing
<1> HIDE DEF t
<1> DEFINE from(j) == IF j < i THEN j ELSE j + 1
<1>2. \A j \in 1..Len(t) : from(j) \in 1..Len(s) /\ t[j] = s[from(j)]
  BY <1>1
<1>3. \A j, k \in 1..Len(t) : j <= k => from(j) <= from(k)
  BY <1>1
<1> HIDE DEF from
<1>4. Timed(s, W) => Timed(t, W)
  BY <1>2 DEF Timed
<1>5. Ordered(s) => Ordered(t)
  BY <1>2, <1>3 DEF Ordered
<1> QED BY <1>1, <1>4, <1>5 DEF t

(* A part of the entries, in order as before.                              *)
LEMMA PartKeeps ==
  ASSUME NEW W, NEW s \in Seq(Entry), NEW a \in 1..(Len(s) + 1), NEW b \in 0..Len(s)
  PROVE  /\ SubSeq(s, a, b) \in Seq(Entry)
         /\ Timed(s, W) => Timed(SubSeq(s, a, b), W)
         /\ Ordered(s) => Ordered(SubSeq(s, a, b))
<1> DEFINE t == SubSeq(s, a, b)
<1>1. /\ Len(s) \in Nat /\ a \in Int /\ b \in Int
      /\ \A j \in a..b : s[j] \in Entry
  <2>1. Len(s) \in Nat /\ \A j \in 1..Len(s) : s[j] \in Entry
    BY LenProperties, ElementOfSeq
  <2> QED BY <2>1
<1>2. /\ t \in Seq(Entry) /\ Len(t) = IF a <= b THEN b - a + 1 ELSE 0
      /\ \A j \in 1..(b - a + 1) : t[j] = s[a + j - 1]
  BY <1>1, SubSeqProperties
<1> HIDE DEF t
<1> DEFINE from(j) == a + j - 1
<1>3. \A j \in 1..Len(t) : from(j) \in 1..Len(s) /\ t[j] = s[from(j)]
  <2> TAKE j \in 1..Len(t)
  <2>1. a <= b /\ j \in 1..(b - a + 1)
    BY <1>1, <1>2
  <2>2. t[j] = s[from(j)]
    BY <1>2, <2>1
  <2> QED BY <1>1, <2>1, <2>2
<1>4. \A j, k \in 1..Len(t) : j <= k => from(j) <= from(k)
  BY <1>1, <1>2
<1> HIDE DEF from
<1>5. Timed(s, W) => Timed(t, W)
  BY <1>3 DEF Timed
<1>6. Ordered(s) => Ordered(t)
  BY <1>3, <1>4 DEF Ordered
<1> QED BY <1>2, <1>5, <1>6 DEF t

(* Two runs of entries with times of W, joined.                            *)
LEMMA TimesConcat ==
  ASSUME NEW W, NEW s \in Seq(Entry), NEW t \in Seq(Entry), Timed(s, W), Timed(t, W)
  PROVE  Timed(s \o t, W)
<1> DEFINE u == s \o t
<1>1. /\ Len(s) \in Nat /\ Len(t) \in Nat /\ Len(u) = Len(s) + Len(t)
      /\ \A j \in 1..(Len(s) + Len(t)) : u[j] = IF j <= Len(s) THEN s[j] ELSE t[j - Len(s)]
  BY ConcatProperties, LenProperties
<1> HIDE DEF u
<1>2. ASSUME NEW j \in 1..Len(u) PROVE u[j].time \in W
  <2>1. /\ j <= Len(s) => j \in 1..Len(s) /\ u[j] = s[j]
        /\ ~(j <= Len(s)) => j - Len(s) \in 1..Len(t) /\ u[j] = t[j - Len(s)]
    BY <1>1
  <2> QED BY <2>1 DEF Timed
<1> QED BY <1>2 DEF Timed, u

(* One id stands for those not in use.                                     *)
LEMMA OtherIs ==
  ASSUME NEW used
  PROVE  Other(used) \subseteq Ids \ used
BY DEF Other

(* What users put in a ring is an entry, of a time that does not wrap.     *)
LEMMA ElementsAre ==
  ASSUME NEW v \in Elements
  PROVE  v \in Entry /\ v.time \in Values /\ Wrapped(v) = v
<1>1. PICK t \in Values, i \in Unused : v = [time |-> t, id |-> i]
  BY DEF Elements
<1>2. t \in Nat /\ t < TimeMod /\ TimeMod \in Nat
  BY ValuesAssumption, TimeAssumption
<1>3. i \in Ids
  BY OtherIs DEF Unused
<1>4. t % TimeMod = t
  BY <1>2, SmallNumber
<1>5. v \in Entry /\ v.time = t
  BY <1>1, <1>2, <1>3 DEF Entry
<1>6. Wrapped(v) = v
  BY <1>1, <1>4 DEF Wrapped, Time
<1> QED BY <1>5, <1>6

(* And so is each of the elements they push together.                      *)
LEMMA RunsAre ==
  ASSUME NEW v \in Runs
  PROVE  v \in Seq(Entry) /\ Timed(v, Values) /\ \A k \in 1..Len(v) : Wrapped(v[k]) = v[k]
<1>1. PICK e \in Elements :
        v \in {<<e>>} \cup {<<e, [e EXCEPT !.id = i]>> : i \in Other(Listed \cup {e.id})}
  BY DEF Runs
<1>2. e \in Entry /\ e.time \in Values /\ Wrapped(e) = e
  BY ElementsAre
<1>3. CASE v = <<e>>
  BY <1>2, <1>3 DEF Timed
<1>4. CASE v # <<e>>
  <2>1. PICK i \in Other(Listed \cup {e.id}) : v = <<e, [e EXCEPT !.id = i]>>
    BY <1>1, <1>4
  <2>2. i \in Ids
    BY OtherIs
  <2> DEFINE f == [e EXCEPT !.id = i]
  <2>3. f \in Entry /\ f.time = e.time
    BY <1>2, <2>2 DEF Entry
  <2>4. Wrapped(f) = f
    <3>1. Time(e.time) = e.time
      <4>1. Wrapped(e).time = Time(e.time)
        BY <1>2, WrappedIs
      <4> QED BY <1>2, <4>1
    <3> QED BY <2>3, <3>1 DEF Wrapped, Entry
  <2> HIDE DEF f
  <2>5. v = <<e, f>>
    BY <2>1 DEF f
  <2> QED BY <1>2, <2>3, <2>4, <2>5 DEF Timed
<1> QED BY <1>3, <1>4

(* When deadlines are due that were inserted from time s to time n.        *)
Dues(s, n) == {o + d : o \in s..n, d \in Delays}

(* The clock of a list of deadlines: the offset was set since the list was *)
(* made, and so were the deadlines.                                        *)
ClockInv ==
  \E s \in Starts :
    /\ now \in s..MaxNow /\ seen \in s..now /\ offset = Time(seen)
    /\ Timed(items, Dues(s, now))

RingInv ==
  /\ kind \in Kinds
  /\ RingIs(ring, items)
  /\ kind \in {"ring", "ordered"} => Timed(items, Values)
  /\ kind \in {"ordered", "deadlines"} => Ordered(items)
  /\ kind = "deadlines" => ClockInv

(* The invariant says that the ring holds what was put in it.              *)
LEMMA RingInvHolds == RingInv => RingHolds
<1> SUFFICES ASSUME RingInv PROVE RingHolds
  OBVIOUS
<1>1. /\ Capacity \in Nat /\ ring \in Rings /\ ring.size = Len(items) /\ Len(items) \in 0..Capacity
      /\ DOMAIN items = 1..Len(items)
      /\ \A i \in 1..Len(items) : At(ring, i - 1) = Wrapped(items[i])
  BY RingTypes DEF RingInv
<1>2. ring.begin \in Places
  BY <1>1 DEF Rings
<1>3. \A i \in 0..(Len(items) - 1) : i + 1 \in 1..Len(items) /\ (i + 1) - 1 = i
  BY <1>1
<1>4. \A i \in 0..(Len(items) - 1) : At(ring, i) = Wrapped(items[i + 1])
  BY <1>1, <1>3
<1>5. RingHoldsAs(Wrapped)
  BY <1>1, <1>2, <1>4 DEF RingHoldsAs, Size
<1>6. kind \in {"ordered", "deadlines"} => InOrder
  BY <1>1 DEF RingInv, Ordered, InOrder
<1> QED BY <1>5, <1>6 DEF RingHolds

(* A ring starts empty, and its clock with the list.                       *)
LEMMA RingStarts == ContInit => RingInv
<1> SUFFICES ASSUME ContInit PROVE RingInv
  OBVIOUS
<1>1. ring = [stor |-> [i \in Places |-> Blank], begin |-> 0, size |-> 0] /\ items = <<>>
  BY DEF ContInit, RingInit
<1>2. Capacity \in Nat /\ 0 \in Places /\ 0 \in 0..Capacity
  BY CapacityIs DEF Places
<1>3. RingIs(ring, items)
  BY <1>1, <1>2 DEF RingIs, Rings, Cell
<1>4. \A i \in 1..Len(items) : FALSE
  BY <1>1
<1>5. kind = "deadlines" => ClockInv
  <2> SUFFICES ASSUME kind = "deadlines" PROVE ClockInv
    OBVIOUS
  <2>1. now \in Starts /\ offset = Time(now) /\ seen = now
    BY DEF ContInit, DeadlinesInit
  <2>2. now \in 0..MaxNow /\ MaxNow \in Nat
    BY <2>1, TimeAssumption
  <2> QED BY <2>1, <2>2, <1>4 DEF ClockInv, Timed
<1> QED BY <1>3, <1>4, <1>5 DEF RingInv, ContInit, Timed, Ordered

(* A step that leaves the clock and changes the ring.                      *)
LEMMA RingInvNext ==
  ASSUME kind' = kind, kind \in Kinds, RingIs(ring', items'),
         kind \in {"ring", "ordered"} => Timed(items', Values),
         kind \in {"ordered", "deadlines"} => Ordered(items'),
         kind = "deadlines" => ClockInv'
  PROVE  RingInv'
BY DEF RingInv

(* Elements taken off the ends, whatever the kind: no time is new.         *)
LEMMA TakesStep ==
  ASSUME RingInv, Takes, kind' = kind, UNCHANGED clock
  PROVE  RingInv' /\ \A W : Timed(items, W) => Timed(items', W)
<1> DEFINE s == items
           goal == RingInv' /\ \A W : Timed(items, W) => Timed(items', W)
<1>1. /\ RingIs(ring, s) /\ s \in Seq(Entry) /\ Len(s) \in Nat /\ ring.size = Len(s)
      /\ kind \in Kinds
  BY RingTypes DEF RingInv
<1>2. ASSUME RingIs(ring', items'),
             \A W : Timed(s, W) => Timed(items', W),
             Ordered(s) => Ordered(items')
      PROVE  goal
  <2>1. kind = "deadlines" => ClockInv'
    BY <1>2 DEF RingInv, ClockInv, clock
  <2> QED BY <1>1, <1>2, <2>1, RingInvNext DEF RingInv
<1>3. ASSUME NEW n \in 1..Capacity, PopHead(n) PROVE goal
  <2>1. /\ n \in 1..Len(s)
        /\ ring' = Clean(DropHead(ring, n)) /\ items' = SubSeq(s, n + 1, Len(s))
    BY <1>3 DEF PopHead, Size
  <2>2. RingIs(ring', items')
    BY <1>1, <2>1, PopHeadIs
  <2>3. n + 1 \in 1..(Len(s) + 1) /\ Len(s) \in 0..Len(s)
    BY <1>1, <2>1
  <2> QED BY <1>1, <1>2, <2>1, <2>2, <2>3, PartKeeps
<1>4. ASSUME NEW n \in 1..Capacity, PopTail(n) PROVE goal
  <2>1. /\ n \in 1..Len(s)
        /\ ring' = Clean(DropTail(ring, n)) /\ items' = SubSeq(s, 1, Len(s) - n)
    BY <1>4 DEF PopTail, Size
  <2>2. RingIs(ring', items')
    BY <1>1, <2>1, PopTailIs
  <2>3. 1 \in 1..(Len(s) + 1) /\ Len(s) - n \in 0..Len(s)
    BY <1>1, <2>1
  <2> QED BY <1>1, <1>2, <2>1, <2>2, <2>3, PartKeeps
<1>5. ASSUME NEW p \in Places, SetStart(p) PROVE goal
  <2>1. Len(s) = 0 /\ ring' = [ring EXCEPT !.begin = p] /\ items' = s
    BY <1>5 DEF SetStart, Size
  <2>2. RingIs(ring', items')
    BY <1>1, <2>1, StartIs
  <2> QED BY <1>2, <2>1, <2>2
<1> QED BY <1>3, <1>4, <1>5 DEF Takes

(* A bl_ringb's steps.                                                     *)
LEMMA RingKindStep ==
  ASSUME RingInv, kind = "ring", RingNext, kind' = kind
  PROVE  RingInv'
<1> DEFINE s == items
           C == Capacity
<1>1. /\ RingIs(ring, s) /\ s \in Seq(Entry) /\ Len(s) \in Nat /\ ring.size = Len(s)
      /\ C \in Nat /\ kind \in Kinds /\ Timed(s, Values)
  BY RingTypes DEF RingInv
<1>2. ASSUME RingIs(ring', items'), Timed(items', Values)
      PROVE  RingInv'
  BY <1>1, <1>2, RingInvNext
<1>3. ASSUME NEW v \in Runs, PushHead(v) PROVE RingInv'
  <2>1. v \in Seq(Entry) /\ Timed(v, Values) /\ \A k \in 1..Len(v) : Wrapped(v[k]) = v[k]
    BY RunsAre
  <2>2. /\ Len(v) \in Nat /\ C >= ring.size + Len(v)
        /\ ring' = Filled(ExpandHead(ring, Len(v)), 0, v) /\ items' = v \o s
    BY <1>3, <2>1, LenProperties DEF PushHead, CanInsert
  <2>3. ring.size + Len(v) <= C
    BY <1>1, <2>2
  <2>4. RingIs(ring', items')
    BY <1>1, <2>1, <2>2, <2>3, PushHeadIs
  <2>5. Timed(items', Values)
    BY <1>1, <2>1, <2>2, TimesConcat
  <2> QED BY <1>2, <2>4, <2>5
<1>4. ASSUME NEW v \in Runs, PushTail(v) PROVE RingInv'
  <2>1. v \in Seq(Entry) /\ Timed(v, Values) /\ \A k \in 1..Len(v) : Wrapped(v[k]) = v[k]
    BY RunsAre
  <2>2. /\ Len(v) \in Nat /\ C >= ring.size + Len(v)
        /\ ring' = Filled(ExpandTail(ring, Len(v)), ring.size, v) /\ items' = s \o v
    BY <1>4, <2>1, LenProperties DEF PushTail, CanInsert
  <2>3. ring.size + Len(v) <= C
    BY <1>1, <2>2
  <2>4. RingIs(ring', items')
    BY <1>1, <2>1, <2>2, <2>3, PushTailIs
  <2>5. Timed(items', Values)
    BY <1>1, <2>1, <2>2, TimesConcat
  <2> QED BY <1>2, <2>4, <2>5
<1>5. ASSUME NEW v \in Elements, NEW i \in Indexes, PutAt(v, i) PROVE RingInv'
  <2>1. v \in Entry /\ v.time \in Values /\ Wrapped(v) = v
    BY ElementsAre
  <2>2. /\ C >= ring.size + 1 /\ i \in 0..Len(s)
        /\ ring' = Clean(Insert(ring, v, i)) /\ items' = InsertAt(s, i + 1, v)
    BY <1>5 DEF PutAt, CanInsert, Size
  <2>3. ring.size < C /\ i \in 0..ring.size
    BY <1>1, <2>2
  <2>4. RingIs(Clean(Insert(ring, Wrapped(v), i)), InsertAt(s, i + 1, v))
    BY <1>1, <2>1, <2>3, InsertIs
  <2>5. RingIs(ring', items')
    BY <2>1, <2>2, <2>4
  <2>6. Timed(items', Values)
    BY <1>1, <2>1, <2>2, TimesInsert
  <2> QED BY <1>2, <2>5, <2>6
<1>6. ASSUME NEW i \in Indexes, TakeAt(i) PROVE RingInv'
  <2>1. /\ i \in 0..(Len(s) - 1)
        /\ ring' = Clean(Drop(ring, i)) /\ items' = RemoveAt(s, i + 1)
    BY <1>6 DEF TakeAt, Size
  <2>2. i \in 0..(ring.size - 1) /\ i + 1 \in 1..Len(s)
    BY <1>1, <2>1
  <2>3. RingIs(ring', items')
    BY <1>1, <2>1, <2>2, DropIs
  <2>4. Timed(items', Values)
    BY <1>1, <2>1, <2>2, RemoveKeeps
  <2> QED BY <1>2, <2>3, <2>4
<1>7. ASSUME NEW i \in Indexes, NEW n \in Indexes, TakeRange(i, n) PROVE RingInv'
  <2>1. /\ i + n <= Len(s) /\ (i >= Len(s) - i - n \/ (ring.begin = 0 /\ i <= n))
        /\ ring' = Clean(DropRange(ring, i, n))
        /\ items' = SubSeq(s, 1, i) \o SubSeq(s, i + n + 1, Len(s))
    BY <1>7 DEF TakeRange, DropsRight, Size
  <2>2. i \in Nat /\ n \in Nat
    BY <1>1 DEF Indexes
  <2>3. RangeHandled(ring, i, n)
    BY <1>1, <2>1 DEF RangeHandled
  <2>4. RingIs(ring', items')
    BY <1>1, <2>1, <2>2, <2>3, RangeIs
  <2>5. 1 \in 1..(Len(s) + 1) /\ i \in 0..Len(s) /\ i + n + 1 \in 1..(Len(s) + 1) /\ Len(s) \in 0..Len(s)
    BY <1>1, <2>1, <2>2
  <2>6. /\ SubSeq(s, 1, i) \in Seq(Entry) /\ Timed(SubSeq(s, 1, i), Values)
        /\ SubSeq(s, i + n + 1, Len(s)) \in Seq(Entry)
        /\ Timed(SubSeq(s, i + n + 1, Len(s)), Values)
    BY <1>1, <2>5, PartKeeps
  <2>7. Timed(items', Values)
    BY <2>1, <2>6, TimesConcat
  <2> QED BY <1>2, <2>4, <2>7
<1> QED BY <1>3, <1>4, <1>5, <1>6, <1>7 DEF RingNext

(* res compares the time t with the times of the entries of s.             *)
Compares(res, s, t) == \A i \in 0..(Len(s) - 1) : res[i] = t - s[i + 1].time

(* In an ordered ring the comparisons never rise.                          *)
LEMMA ComparedFall ==
  ASSUME NEW s \in Seq(Entry), Ordered(s), NEW t \in Int, NEW res, Compares(res, s, t)
  PROVE  Falling(res, Len(s))
<1>1. Len(s) \in Nat /\ \A i \in 1..Len(s) : s[i].time \in Int
  <2>1. Len(s) \in Nat /\ \A i \in 1..Len(s) : s[i] \in Entry
    BY LenProperties, ElementOfSeq
  <2> QED BY <2>1 DEF Entry
<1>2. \A i \in 0..(Len(s) - 1) : i + 1 \in 1..Len(s) /\ s[i + 1].time \in Int
  BY <1>1
<1>3. \A i \in 0..(Len(s) - 1) : res[i] \in Int
  BY <1>2 DEF Compares
<1>4. ASSUME NEW i \in 0..(Len(s) - 1), NEW j \in 0..(Len(s) - 1), i <= j
      PROVE  res[i] >= res[j]
  <2>1. i + 1 <= j + 1
    BY <1>1, <1>4
  <2>2. s[i + 1].time <= s[j + 1].time
    BY <1>2, <2>1 DEF Ordered
  <2>3. res[i] = t - s[i + 1].time /\ res[j] = t - s[j + 1].time
    BY DEF Compares
  <2> QED BY <1>2, <2>2, <2>3
<1> QED BY <1>3, <1>4 DEF Falling

(* The entries before index f are those of the set before.                 *)
LEMMA BeforeIndex ==
  ASSUME NEW n \in Nat, NEW f \in 0..n, NEW before,
         \A i \in before : i \in 1..n,
         \A i \in 0..(n - 1) : i + 1 \in before <=> i < f
  PROVE  before = 1..f /\ Cardinality(before) = f
<1>1. ASSUME NEW i \in before PROVE i \in 1..f
  <2>1. i \in 1..n /\ i - 1 \in 0..(n - 1) /\ (i - 1) + 1 = i
    BY <1>1
  <2>2. i - 1 < f
    BY <2>1, <1>1
  <2> QED BY <2>1, <2>2
<1>2. ASSUME NEW i \in 1..f PROVE i \in before
  <2>1. i - 1 \in 0..(n - 1) /\ (i - 1) + 1 = i /\ i - 1 < f
    BY <1>2
  <2> QED BY <2>1
<1>3. before = 1..f
  BY <1>1, <1>2
<1>4. Cardinality(1..f) = f
  BY FS_Interval
<1> QED BY <1>3, <1>4

(* What the searches of an ordered ring return, of its entries s.          *)
SoonerIn(s, t) == {i \in 1..Len(s) : s[i].time < t}
EqualIn(s, t)  == {i \in 1..Len(s) : s[i].time = t}

(* bl_oringb_find_eq_or_gt returns the number of the entries before time t.*)
LEMMA FindIs ==
  ASSUME NEW r, NEW s, RingIs(r, s), Ordered(s), NEW t \in Int, NEW res, Compares(res, s, t),
         NEW f, f = FindEqOrGt(r, res)
  PROVE  /\ f \in 0..Len(s) /\ Cardinality(SoonerIn(s, t)) = f
         /\ \A i \in 1..Len(s) : (i <= f <=> s[i].time < t)
         /\ f < Len(s) => res[f] = t - s[f + 1].time
<1>1. /\ s \in Seq(Entry) /\ r.size = Len(s) /\ Len(s) \in Nat /\ r.size \in 0..Capacity
      /\ \A i \in 1..Len(s) : s[i].time \in Int
  <2>1. /\ s \in Seq(Entry) /\ r.size = Len(s) /\ Len(s) \in Nat /\ r.size \in 0..Capacity
        /\ \A i \in 1..Len(s) : s[i] \in Entry
    BY RingTypes
  <2> QED BY <2>1 DEF Entry
<1>2. Falling(res, r.size)
  BY <1>1, ComparedFall
<1>3. /\ f \in 0..Len(s)
      /\ \A i \in 0..(Len(s) - 1) : (i < f => res[i] > 0) /\ (i >= f => res[i] <= 0)
  BY <1>1, <1>2, FirstNotBefore
<1>4. ASSUME NEW i \in 0..(Len(s) - 1)
      PROVE  (s[i + 1].time < t <=> i < f) /\ i + 1 \in 1..Len(s)
  <2>1. i + 1 \in 1..Len(s)
    BY <1>1
  <2>2. res[i] = t - s[i + 1].time /\ s[i + 1].time \in Int
    BY <1>1, <2>1 DEF Compares
  <2>3. (i < f => res[i] > 0) /\ (~(i < f) => res[i] <= 0)
    BY <1>1, <1>3
  <2> QED BY <2>1, <2>2, <2>3
<1>5. Cardinality(SoonerIn(s, t)) = f
  <2>1. \A i \in SoonerIn(s, t) : i \in 1..Len(s)
    BY DEF SoonerIn
  <2>2. \A i \in 0..(Len(s) - 1) : i + 1 \in SoonerIn(s, t) <=> i < f
    BY <1>4 DEF SoonerIn
  <2> QED BY <1>1, <1>3, <2>1, <2>2, BeforeIndex
<1>6. ASSUME NEW i \in 1..Len(s) PROVE i <= f <=> s[i].time < t
  <2>1. i - 1 \in 0..(Len(s) - 1) /\ (i - 1) + 1 = i /\ (i - 1 < f <=> i <= f)
    BY <1>1, <1>3
  <2> QED BY <1>4, <2>1
<1>7. f < Len(s) => res[f] = t - s[f + 1].time
  BY <1>1, <1>3 DEF Compares
<1> QED BY <1>3, <1>5, <1>6, <1>7

(* The search for a place behind the equals returns the number of the      *)
(* entries not after time t.                                               *)
LEMMA AfterIs ==
  ASSUME NEW r, NEW s, RingIs(r, s), Ordered(s), NEW t \in Int, NEW res, Compares(res, s, t),
         NEW f, f = AfterEquals(r, res)
  PROVE  /\ f \in 0..Len(s) /\ Cardinality(SoonerIn(s, t) \cup EqualIn(s, t)) = f
         /\ \A i \in 1..Len(s) : (i <= f <=> s[i].time <= t)
<1>1. /\ s \in Seq(Entry) /\ r.size = Len(s) /\ Len(s) \in Nat /\ r.size \in 0..Capacity
      /\ \A i \in 1..Len(s) : s[i].time \in Int
  <2>1. /\ s \in Seq(Entry) /\ r.size = Len(s) /\ Len(s) \in Nat /\ r.size \in 0..Capacity
        /\ \A i \in 1..Len(s) : s[i] \in Entry
    BY RingTypes
  <2> QED BY <2>1 DEF Entry
<1>2. Falling(res, r.size)
  BY <1>1, ComparedFall
<1>3. /\ f \in 0..Len(s)
      /\ \A i \in 0..(Len(s) - 1) : (i < f => res[i] >= 0) /\ (i >= f => res[i] < 0)
  BY <1>1, <1>2, FirstAfter
<1>4. ASSUME NEW i \in 0..(Len(s) - 1)
      PROVE  (s[i + 1].time <= t <=> i < f) /\ i + 1 \in 1..Len(s) /\ s[i + 1].time \in Int
  <2>1. i + 1 \in 1..Len(s)
    BY <1>1
  <2>2. res[i] = t - s[i + 1].time /\ s[i + 1].time \in Int
    BY <1>1, <2>1 DEF Compares
  <2>3. (i < f => res[i] >= 0) /\ (~(i < f) => res[i] < 0)
    BY <1>1, <1>3
  <2> QED BY <2>1, <2>2, <2>3
<1>5. Cardinality(SoonerIn(s, t) \cup EqualIn(s, t)) = f
  <2> DEFINE before == SoonerIn(s, t) \cup EqualIn(s, t)
  <2>1. \A i \in before : i \in 1..Len(s)
    BY DEF SoonerIn, EqualIn
  <2>2. \A i \in 0..(Len(s) - 1) : i + 1 \in before <=> i < f
    BY <1>4 DEF SoonerIn, EqualIn
  <2> HIDE DEF before
  <2> QED BY <1>1, <1>3, <2>1, <2>2, BeforeIndex DEF before
<1>6. ASSUME NEW i \in 1..Len(s) PROVE i <= f <=> s[i].time <= t
  <2>1. i - 1 \in 0..(Len(s) - 1) /\ (i - 1) + 1 = i /\ (i - 1 < f <=> i <= f)
    BY <1>1, <1>3
  <2> QED BY <1>4, <2>1
<1> QED BY <1>3, <1>5, <1>6

(* A ring's times do not wrap.                                             *)
LEMMA ValueIs ==
  ASSUME NEW t \in Values
  PROVE  Time(t) = t
<1>1. t \in Nat /\ t < TimeMod /\ TimeMod \in Nat
  BY ValuesAssumption, TimeAssumption
<1> QED BY <1>1, SmallNumber DEF Time

(* The comparisons of an ordered ring.                                     *)
LEMMA ComparedIs ==
  ASSUME NEW v \in Elements, RingIs(ring, items), Timed(items, Values)
  PROVE  Compares(Compared(v), items, v.time)
<1>1. /\ ring.size = Len(items) /\ Len(items) \in Nat
      /\ \A i \in 1..Len(items) : items[i] \in Entry /\ At(ring, i - 1) = Wrapped(items[i])
  BY RingTypes
<1>2. ASSUME NEW i \in 0..(Len(items) - 1)
      PROVE  Compared(v)[i] = v.time - items[i + 1].time
  <2> DEFINE k == i + 1
  <2>1. k \in 1..Len(items) /\ k - 1 = i /\ i \in 0..(ring.size - 1)
    BY <1>1
  <2>2. items[k].time \in Values /\ items[k] \in Entry /\ At(ring, i) = Wrapped(items[k])
    BY <1>1, <2>1 DEF Timed
  <2>3. Time(items[k].time) = items[k].time
    BY <2>2, ValueIs
  <2> HIDE DEF k
  <2>4. At(ring, i).time = items[k].time
    BY <2>2, <2>3, WrappedIs
  <2> QED BY <2>1, <2>4 DEF Compared, k
<1> QED BY <1>2 DEF Compares

(* An ordered ring, its searches for v, and what is put in it for v.       *)
OrderedFacts(v) ==
  LET s   == items
      f   == FindEqOrGt(ring, Compared(v))
      a   == AfterEquals(ring, Compared(v))
      new == f = ring.size \/ Compared(v)[f] # 0
  IN  /\ s \in Seq(Entry) /\ Len(s) \in Nat /\ ring.size = Len(s) /\ Capacity \in Nat
      /\ v \in Entry /\ v.time \in Values /\ v.time \in Int /\ Wrapped(v) = v
      /\ \A i \in 1..Len(s) : s[i].time \in Int
      /\ f \in 0..Len(s) /\ Cardinality(Sooner(v)) = f
      /\ \A i \in 1..Len(s) : (i <= f <=> s[i].time < v.time)
      /\ a \in 0..Len(s) /\ Cardinality(Sooner(v) \cup Equal(v)) = a
      /\ \A i \in 1..Len(s) : (i <= a <=> s[i].time <= v.time)
      /\ new <=> Equal(v) = {}
      /\ ~new => f < Len(s) /\ s[f + 1].time = v.time

(* These hold of every value users look for or put in.                     *)
LEMMA OrderedFactsHold ==
  ASSUME RingInv, kind = "ordered", NEW v \in Elements
  PROVE  OrderedFacts(v)
<1> DEFINE s == items
           t == v.time
           res == Compared(v)
           f == FindEqOrGt(ring, res)
           a == AfterEquals(ring, res)
           new == f = ring.size \/ res[f] # 0
<1>1. /\ RingIs(ring, s) /\ s \in Seq(Entry) /\ Len(s) \in Nat /\ ring.size = Len(s)
      /\ DOMAIN s = 1..Len(s) /\ Capacity \in Nat
      /\ Ordered(s)
      /\ \A i \in 1..Len(s) : s[i] \in Entry
  BY RingTypes DEF RingInv
<1>2. Timed(s, Values)
  <2>1. \A i \in 1..Len(s) : s[i].time \in Values
    BY DEF RingInv, Timed
  <2> QED BY <2>1 DEF Timed
<1>3. v \in Entry /\ t \in Values /\ t \in Int /\ Wrapped(v) = v
  <2>1. v \in Entry /\ t \in Values /\ Wrapped(v) = v
    BY ElementsAre
  <2> QED BY <2>1 DEF Entry
<1>4. Compares(res, s, t)
  BY <1>1, <1>2, ComparedIs
<1>5. Sooner(v) = SoonerIn(s, t) /\ Equal(v) = EqualIn(s, t)
  BY <1>1 DEF Sooner, SoonerIn, Equal, EqualIn
<1>6. /\ f \in 0..Len(s) /\ Cardinality(Sooner(v)) = f
      /\ \A i \in 1..Len(s) : (i <= f <=> s[i].time < t)
      /\ f < Len(s) => res[f] = t - s[f + 1].time
  BY <1>1, <1>3, <1>4, <1>5, FindIs
<1>7. /\ a \in 0..Len(s) /\ Cardinality(Sooner(v) \cup Equal(v)) = a
      /\ \A i \in 1..Len(s) : (i <= a <=> s[i].time <= t)
  <2>1. /\ a \in 0..Len(s) /\ Cardinality(SoonerIn(s, t) \cup EqualIn(s, t)) = a
        /\ \A i \in 1..Len(s) : (i <= a <=> s[i].time <= t)
    <3> HIDE DEF res, t
    <3> QED BY <1>1, <1>3, <1>4, AfterIs
  <2> QED BY <1>5, <2>1
<1>8. \A i \in 1..Len(s) : s[i].time \in Int
  BY <1>1 DEF Entry
<1> HIDE DEF res, f, a, t
<1>9. ASSUME new PROVE Equal(v) = {}
  <2> SUFFICES ASSUME NEW i \in EqualIn(s, t) PROVE FALSE
    BY <1>5
  <2>1. i \in 1..Len(s) /\ s[i].time = t
    BY DEF EqualIn
  <2>2. i > f /\ f < Len(s)
    BY <1>1, <1>3, <1>6, <2>1
  <2>3. f + 1 \in 1..Len(s) /\ f + 1 <= i /\ ~(f + 1 <= f)
    BY <1>1, <1>6, <2>1, <2>2
  <2>4. s[f + 1].time <= s[i].time /\ ~(s[f + 1].time < t) /\ s[f + 1].time \in Int
    BY <1>1, <1>6, <1>8, <2>1, <2>3 DEF Ordered
  <2>5. s[f + 1].time = t
    BY <1>3, <2>1, <2>4
  <2>6. res[f] # 0
    <3>1. f # Len(s)
      BY <1>1, <2>2
    <3> QED BY <1>1, <1>9, <3>1
  <2> QED BY <1>3, <1>6, <2>2, <2>5, <2>6
<1>10. ASSUME ~new PROVE f < Len(s) /\ s[f + 1].time = t /\ Equal(v) # {}
  <2>1. f < Len(s) /\ res[f] = 0
    <3>1. f # Len(s) /\ res[f] = 0
      BY <1>1, <1>10
    <3>2. f \in 0..Len(s) /\ Len(s) \in Nat
      BY <1>1, <1>6
    <3> QED BY <3>1, <3>2
  <2>2. f + 1 \in 1..Len(s) /\ s[f + 1].time \in Int
    BY <1>1, <1>6, <1>8, <2>1
  <2>3. s[f + 1].time = t
    BY <1>3, <1>6, <2>1, <2>2
  <2>4. f + 1 \in EqualIn(s, t)
    BY <2>2, <2>3 DEF EqualIn
  <2> QED BY <1>5, <2>1, <2>3, <2>4
<1>11. new <=> Equal(v) = {}
  BY <1>9, <1>10
<1> QED BY <1>1, <1>3, <1>6, <1>7, <1>8, <1>10, <1>11 DEF OrderedFacts, res, f, a, t

(* An entry put in at index b, behind the entries not after it.            *)
LEMMA PutKeeps ==
  ASSUME RingInv, kind = "ordered", kind' = kind, ring.size < Capacity,
         NEW v \in Elements, NEW b \in 0..Len(items),
         \A i \in 1..Len(items) :
           (i <= b => items[i].time <= v.time) /\ (i > b => v.time <= items[i].time),
         ring' = Clean(Insert(ring, v, b)), items' = InsertAt(items, b + 1, v)
  PROVE  RingInv'
<1>1. RingIs(ring, items) /\ Timed(items, Values) /\ Ordered(items) /\ kind \in Kinds
  BY DEF RingInv
<1>2. items \in Seq(Entry) /\ ring.size = Len(items)
  BY <1>1, RingTypes
<1>3. v \in Entry /\ v.time \in Values /\ Wrapped(v) = v
  BY ElementsAre
<1>4. RingIs(Clean(Insert(ring, Wrapped(v), b)), InsertAt(items, b + 1, v))
  BY <1>1, <1>2, <1>3, InsertIs
<1>5. RingIs(ring', items')
  BY <1>3, <1>4
<1>6. Timed(items', Values)
  BY <1>1, <1>2, <1>3, TimesInsert
<1>7. Ordered(items')
  BY <1>1, <1>2, <1>3, OrderInsert
<1> QED BY <1>1, <1>5, <1>6, <1>7, RingInvNext

(* A bl_oringb's steps.                                                    *)
LEMMA OrderedKindStep ==
  ASSUME RingInv, kind = "ordered", OrderedNext, kind' = kind
  PROVE  RingInv'
<1>1. RingIs(ring, items) /\ Timed(items, Values) /\ Ordered(items) /\ kind \in Kinds
  BY DEF RingInv
<1>2. ASSUME NEW v \in Elements, PutNew(v) \/ PutFirst(v) \/ PutLast(v) \/ Seek(v)
      PROVE  RingInv'
  <2> DEFINE s == items
             f == FindEqOrGt(ring, Compared(v))
             a == AfterEquals(ring, Compared(v))
             new == f = ring.size \/ Compared(v)[f] # 0
  <2>1. OrderedFacts(v)
    BY OrderedFactsHold
  <2>2. /\ s \in Seq(Entry) /\ Len(s) \in Nat /\ ring.size = Len(s) /\ Capacity \in Nat
        /\ v.time \in Int /\ \A i \in 1..Len(s) : s[i].time \in Int
        /\ f \in 0..Len(s) /\ Cardinality(Sooner(v)) = f
        /\ \A i \in 1..Len(s) : (i <= f <=> s[i].time < v.time)
        /\ a \in 0..Len(s) /\ Cardinality(Sooner(v) \cup Equal(v)) = a
        /\ \A i \in 1..Len(s) : (i <= a <=> s[i].time <= v.time)
        /\ new <=> Equal(v) = {}
    BY <2>1 DEF OrderedFacts
  <2> HIDE DEF f, a
  <2>3. \A i \in 1..Len(s) :
          /\ (i <= f => s[i].time <= v.time) /\ (i > f => v.time <= s[i].time)
          /\ (i <= a => s[i].time <= v.time) /\ (i > a => v.time <= s[i].time)
    <3> TAKE i \in 1..Len(s)
    <3>1. s[i].time \in Int /\ v.time \in Int /\ f \in Int /\ a \in Int /\ i \in Int
      BY <2>2
    <3>2. (i <= f <=> s[i].time < v.time) /\ (i <= a <=> s[i].time <= v.time)
      BY <2>2
    <3> QED BY <3>1, <3>2
  <2>4. ASSUME UNCHANGED <<ring, items>> PROVE RingInv'
    BY <1>1, <2>4, RingInvNext
  <2>5. ASSUME Capacity >= ring.size + 1, ring' = Clean(Insert(ring, v, f)),
               items' = InsertAt(items, f + 1, v)
        PROVE  RingInv'
    <3>1. ring.size < Capacity
      BY <2>2, <2>5
    <3> QED BY <2>2, <2>3, <2>5, <3>1, PutKeeps
  <2>6. CASE PutNew(v)
    <3>1. /\ Capacity >= ring.size + 1
          /\ ring' = IF new THEN Clean(Insert(ring, v, f)) ELSE ring
          /\ items' = IF Equal(v) = {} THEN InsertAt(items, f + 1, v) ELSE items
      BY <2>2, <2>6, Zenon DEF PutNew, CanInsert, Behind, f
    <3>2. CASE new
      BY <2>2, <2>5, <3>1, <3>2
    <3>3. CASE ~new
      BY <2>2, <2>4, <3>1, <3>3
    <3> QED BY <3>2, <3>3
  <2>7. CASE PutFirst(v)
    <3>1. /\ Capacity >= ring.size + 1 /\ ring' = Clean(Insert(ring, v, f))
          /\ items' = InsertAt(items, f + 1, v)
      BY <2>2, <2>7 DEF PutFirst, CanInsert, Behind, f
    <3> QED BY <2>5, <3>1
  <2>8. CASE PutLast(v)
    <3>1. /\ Capacity >= ring.size + 1 /\ ring' = Clean(Insert(ring, v, a))
          /\ items' = InsertAt(items, a + 1, v)
      BY <2>2, <2>8 DEF PutLast, CanInsert, Behind, a
    <3>2. ring.size < Capacity
      BY <2>2, <3>1
    <3> QED BY <2>2, <2>3, <3>1, <3>2, PutKeeps
  <2>9. CASE Seek(v)
    BY <2>4, <2>9 DEF Seek
  <2> QED BY <1>2, <2>6, <2>7, <2>8, <2>9
<1> QED BY <1>2 DEF OrderedNext

(* The indexes an ordered ring tells are right.                            *)
LEMMA OrderedTells ==
  ASSUME RingInv, kind = "ordered", NEW v \in Elements
  PROVE  IndexIsTrue(v)
<1> DEFINE s == items
           f == FindEqOrGt(ring, Compared(v))
           a == AfterEquals(ring, Compared(v))
           new == f = ring.size \/ Compared(v)[f] # 0
<1>1. OrderedFacts(v)
  BY OrderedFactsHold
<1>2. /\ s \in Seq(Entry) /\ Len(s) \in Nat /\ ring.size = Len(s) /\ v \in Entry
      /\ f \in 0..Len(s) /\ Cardinality(Sooner(v)) = f
      /\ a \in 0..Len(s) /\ Cardinality(Sooner(v) \cup Equal(v)) = a
      /\ new <=> Equal(v) = {}
      /\ ~new => f < Len(s) /\ s[f + 1].time = v.time
  BY <1>1 DEF OrderedFacts
<1> HIDE DEF f, a
<1>3. \A b \in 0..Len(s) : InsertAt(s, b + 1, v)[b + 1] = v
  <2> TAKE b \in 0..Len(s)
  <2>1. b + 1 \in 1..(Len(s) + 1)
    BY <1>2
  <2>2. RoomMade(Entry, s, b + 1, v, InsertAt(s, b + 1, v))
    BY <1>2, <2>1, Inserting
  <2> QED BY <2>1, <2>2 DEF RoomMade
<1>4. ASSUME PutNew(v)
      PROVE  /\ items'[answer'.idx + 1].time = v.time
             /\ answer'.new <=> Equal(v) = {}
  <2>1. /\ answer' = [idx |-> f, new |-> new]
        /\ items' = IF Equal(v) = {} THEN InsertAt(items, f + 1, v) ELSE items
    BY <1>2, <1>4, Zenon DEF PutNew, Behind, f
  <2> HIDE DEF new
  <2>2. answer'.idx = f /\ answer'.new = new
    BY <2>1
  <2>3. CASE new
    <3>1. items' = InsertAt(items, f + 1, v)
      BY <1>2, <2>1, <2>3
    <3> QED BY <1>2, <1>3, <2>2, <2>3, <3>1
  <2>4. CASE ~new
    <3>1. items' = items
      BY <1>2, <2>1, <2>4
    <3> QED BY <1>2, <2>2, <2>4, <3>1
  <2> QED BY <2>3, <2>4
<1>5. ASSUME PutFirst(v) \/ PutLast(v)
      PROVE  items'[answer'.idx + 1] = v
  <2>1. CASE PutFirst(v)
    <3>1. answer' = [idx |-> f] /\ items' = InsertAt(items, f + 1, v)
      BY <1>2, <2>1 DEF PutFirst, Behind, f
    <3> QED BY <1>2, <1>3, <3>1
  <2>2. CASE PutLast(v)
    <3>1. answer' = [idx |-> a] /\ items' = InsertAt(items, a + 1, v)
      BY <1>2, <2>2 DEF PutLast, Behind, a
    <3> QED BY <1>2, <1>3, <3>1
  <2> QED BY <1>5, <2>1, <2>2
<1>6. ASSUME Seek(v)
      PROVE  answer'.idx = IF Equal(v) = {} THEN Size ELSE Cardinality(Sooner(v))
  <2>1. answer' = [idx |-> IF f < ring.size /\ Compared(v)[f] = 0 THEN f ELSE ring.size]
    BY <1>6 DEF Seek, Find, f
  <2>2. f < ring.size /\ Compared(v)[f] = 0 <=> ~new
    BY <1>2
  <2> HIDE DEF new
  <2>3. answer'.idx = IF new THEN ring.size ELSE f
    BY <2>1, <2>2
  <2> QED BY <1>2, <2>3 DEF Size
<1> QED BY <1>4, <1>5, <1>6 DEF IndexIsTrue

Half == TimeMod \div 2

(* Half a turn of the clock.                                               *)
LEMMA HalfIs == /\ TimeMod \in Nat /\ TimeMod >= 1 /\ Half \in Nat /\ TimeMod = Half + Half
<1>1. TimeMod \in Nat /\ TimeMod >= 1 /\ TimeMod % 2 = 0
  BY TimeAssumption
<1>2. TimeMod = 2 * (TimeMod \div 2) + (TimeMod % 2) /\ TimeMod \div 2 \in Int
  BY <1>1
<1> QED BY <1>1, <1>2 DEF Half

(* A time point and what it was before it wrapped are whole turns apart.   *)
LEMMA TimeIs ==
  ASSUME NEW x \in Int
  PROVE  Time(x) \in Int /\ \E q \in Int : x = Time(x) + Laps(q, TimeMod)
<1>1. /\ x % TimeMod \in 0..(TimeMod - 1) /\ x \div TimeMod \in Int
      /\ x = TimeMod * (x \div TimeMod) + (x % TimeMod)
  BY HalfIs, DivMod
<1> DEFINE q == x \div TimeMod
<1> HIDE DEF q
<1>2. q \in Int /\ x = TimeMod * q + Time(x) /\ Time(x) \in Int
  BY <1>1 DEF q, Time
<1>3. TimeMod * q \in Int
  BY <1>2, HalfIs
<1>4. x = Time(x) + Laps(q, TimeMod)
  BY <1>2, <1>3 DEF Laps
<1> QED BY <1>2, <1>4

(* Differences of time points are those of the times, turned alike.        *)
LEMMA Turning ==
  ASSUME NEW x \in Int, NEW y \in Int, NEW c \in Int
  PROVE  Time(Time(x) - Time(y) + c) = Time(x - y + c)
<1>1. Time(x) \in Int /\ Time(y) \in Int /\ TimeMod \in Nat /\ TimeMod >= 1
  BY TimeIs, HalfIs
<1>2. PICK p \in Int : x = Time(x) + Laps(p, TimeMod)
  BY TimeIs
<1>3. PICK q \in Int : y = Time(y) + Laps(q, TimeMod)
  BY TimeIs
<1> DEFINE a == Time(x) - Time(y) + c
           b == x - y + c
           k == p - q
<1>4. Laps(p, TimeMod) \in Int /\ Laps(q, TimeMod) \in Int
  BY <1>1, <1>2, <1>3 DEF Laps
<1>5. Laps(k, TimeMod) = Laps(p, TimeMod) - Laps(q, TimeMod)
  BY <1>1, <1>2, <1>3 DEF Laps
<1>6. b = a + Laps(k, TimeMod) /\ a \in Int /\ b \in Int /\ k \in Int
  <2> DEFINE X == Time(x)
             Y == Time(y)
             P == Laps(p, TimeMod)
             Q == Laps(q, TimeMod)
  <2>1. X \in Int /\ Y \in Int /\ P \in Int /\ Q \in Int /\ x = X + P /\ y = Y + Q
    BY <1>1, <1>2, <1>3, <1>4
  <2>2. a = X - Y + c /\ b = x - y + c /\ Laps(k, TimeMod) = P - Q
    BY <1>5
  <2> HIDE DEF X, Y, P, Q, a, b
  <2>3. b = a + Laps(k, TimeMod) /\ a \in Int /\ b \in Int
    BY <2>1, <2>2
  <2> QED BY <2>3
<1> HIDE DEF a, b, k
<1>7. b % TimeMod = a % TimeMod
  BY <1>1, <1>6, LapsVanish
<1> QED BY <1>7 DEF Time, a, b

(* bl_timept32_deadline_compare tells times apart that are near.           *)
LEMMA Comparing ==
  ASSUME NEW x \in Int, NEW y \in Int, x - y < Half, y - x < Half
  PROVE  Compare(Time(x), Time(y)) = x - y
<1>1. TimeMod \in Nat /\ TimeMod >= 1 /\ Half \in Nat /\ TimeMod = Half + Half
  BY HalfIs
<1>2. Time(Time(x) - Time(y) + Half) = Time(x - y + Half)
  <2>1. Half \in Int BY <1>1
  <2> QED BY <2>1, Turning
<1> DEFINE k == x - y + Half
<1>3. k \in Nat /\ k < TimeMod /\ k - Half = x - y
  BY <1>1
<1> HIDE DEF k
<1>4. k % TimeMod = k
  BY <1>1, <1>3, SmallNumber
<1>5. Compare(Time(x), Time(y)) = k - Half
  BY <1>2, <1>4 DEF Compare, Time, Half, k
<1> QED BY <1>3, <1>5

(* The offset turns time points alike.                                     *)
LEMMA Offsetting ==
  ASSUME NEW x \in Int, NEW y \in Int
  PROVE  /\ Time(x - Time(y)) = Time(x - y)
         /\ Time(Time(x) - Time(y)) = Time(x - y)
<1>1. Time(x) \in Int /\ Time(y) \in Int
  BY TimeIs
<1>2. Time(Time(x) - Time(y)) = Time(x - y)
  <2>1. Time(Time(x) - Time(y) + 0) = Time(x - y + 0)
    BY Turning
  <2>2. Time(x) - Time(y) + 0 = Time(x) - Time(y) /\ x - y + 0 = x - y
    BY <1>1
  <2> QED BY <2>1, <2>2
<1>3. Time(x - Time(y)) = Time(x - y)
  <2>1. PICK p \in Int : x = Time(x) + Laps(p, TimeMod)
    BY TimeIs
  <2> DEFINE a == Time(x) - Time(y)
             b == x - Time(y)
  <2>2. TimeMod \in Nat /\ TimeMod >= 1 /\ Laps(p, TimeMod) \in Int
    BY HalfIs, <2>1 DEF Laps
  <2>3. a \in Int /\ b \in Int /\ b = a + Laps(p, TimeMod)
    BY <1>1, <2>1, <2>2
  <2> HIDE DEF a, b
  <2>4. b % TimeMod = a % TimeMod
    BY <2>1, <2>2, <2>3, LapsVanish
  <2> QED BY <1>2, <2>4 DEF Time, a, b
<1> QED BY <1>2, <1>3

(* The times that a list of deadlines compares.                            *)
Reach == Times \cup {now, seen}

(* They are less than half a turn of the clock apart: users drop what is   *)
(* due, and poll.  The comparison of time points asks for that.            *)
Near == kind = "deadlines" => \A x, y \in Reach : x - y < Half

(* The clock, and the entries of a list of deadlines.                      *)
DueFacts ==
  /\ now \in Int /\ seen \in Int /\ offset = Time(seen) /\ Capacity \in Nat
  /\ items \in Seq(Entry) /\ Len(items) \in Nat /\ ring.size = Len(items)
  /\ RingIs(ring, items) /\ Ordered(items)
  /\ DOMAIN items = 1..Len(items)
  /\ \A i \in 1..Len(items) : /\ items[i] \in Entry /\ items[i].time \in Times
                              /\ At(ring, i - 1) = Wrapped(items[i])
  /\ \A d \in Delays : now + d \in Times
  /\ \A x \in Reach : x \in Int
  /\ \A x, y \in Reach : x - y < Half /\ y - x < Half

(* These hold of every list of deadlines that compares near times.         *)
LEMMA DueFactsHold ==
  ASSUME Near, RingInv, kind = "deadlines"
  PROVE  DueFacts
<1>1. PICK s \in Starts : now \in s..MaxNow /\ seen \in s..now /\ offset = Time(seen)
  BY DEF RingInv, ClockInv
<1>2. /\ items \in Seq(Entry) /\ Len(items) \in Nat /\ ring.size = Len(items)
      /\ DOMAIN items = 1..Len(items) /\ Capacity \in Nat
      /\ RingIs(ring, items) /\ Ordered(items)
      /\ \A i \in 1..Len(items) : items[i] \in Entry /\ At(ring, i - 1) = Wrapped(items[i])
  BY RingTypes DEF RingInv
<1>3. now \in Int /\ seen \in Int /\ \A d \in Delays : d \in Int
  <2>1. s \in 0..MaxNow /\ MaxNow \in Nat /\ Delays \subseteq Int
    BY TimeAssumption
  <2> QED BY <1>1, <2>1
<1>4. \A i \in 1..Len(items) : items[i].time \in Times /\ items[i].time \in Int
  <2>1. \A i \in 1..Len(items) : items[i].time \in Int
    BY <1>2 DEF Entry
  <2> QED BY <1>2, <2>1 DEF Times
<1>5. \A d \in Delays : now + d \in Times /\ now + d \in Int
  BY <1>3 DEF Times
<1>6. \A x \in Reach : x \in Int
  <2>1. \A x \in Times : x \in Int
    BY <1>2, <1>4, <1>5 DEF Times
  <2> QED BY <1>3, <2>1 DEF Reach
<1>7. \A x, y \in Reach : x - y < Half /\ y - x < Half
  BY DEF Near
<1> QED BY <1>1, <1>2, <1>3, <1>4, <1>5, <1>6, <1>7 DEF DueFacts

(* The list's comparisons are those of the times that have not wrapped.    *)
LEMMA RotatedIs ==
  ASSUME DueFacts, NEW t \in Times
  PROVE  Compares(Rotated(t), items, t) /\ t \in Int
<1>1. /\ Len(items) \in Nat /\ ring.size = Len(items) /\ seen \in Int /\ t \in Int
      /\ offset = Time(seen)
  BY DEF DueFacts, Reach
<1>2. ASSUME NEW i \in 0..(Len(items) - 1)
      PROVE  Rotated(t)[i] = t - items[i + 1].time
  <2> DEFINE k == i + 1
             x == items[k].time
  <2>1. k \in 1..Len(items) /\ k - 1 = i /\ i \in 0..(ring.size - 1)
    BY <1>1
  <2> HIDE DEF k
  <2>2. /\ items[k] \in Entry /\ x \in Times /\ At(ring, i) = Wrapped(items[k])
        /\ x \in Int /\ t - x < Half /\ x - t < Half
    BY <2>1 DEF DueFacts, Reach
  <2>3. At(ring, i).time = Time(x)
    BY <2>2, WrappedIs
  <2> HIDE DEF x
  <2>4. Rotated(t)[i] = Compare(Time(t - Time(seen)), Time(Time(x) - Time(seen)))
    BY <1>1, <2>1, <2>3 DEF Rotated
  <2>5. /\ Time(t - Time(seen)) = Time(t - seen)
        /\ Time(Time(x) - Time(seen)) = Time(x - seen)
    BY <1>1, <2>2, Offsetting
  <2> DEFINE a == t - seen
             b == x - seen
  <2>6. a \in Int /\ b \in Int /\ a - b = t - x /\ b - a = x - t
    BY <1>1, <2>2
  <2> HIDE DEF a, b
  <2>7. Compare(Time(a), Time(b)) = a - b
    BY <2>2, <2>6, Comparing
  <2> QED BY <2>4, <2>5, <2>6, <2>7 DEF a, b, x, k
<1> QED BY <1>1, <1>2 DEF Compares

(* A nonempty set of indexes has a first one.                              *)
LEMMA FirstIndex ==
  ASSUME NEW T \in SUBSET Nat, T # {}
  PROVE  Min(T) \in T /\ \A i \in T : Min(T) <= i
<1>1. PICK m \in T : \A n \in T : m <= n
  BY Smallest
<1> QED BY <1>1 DEF Min

(* What try_get_and_drop's loop stops at, from index f.                    *)
Hits(id, t, f) ==
  {i \in f..(ring.size - 1) :
     /\ id \in {AnyId, At(ring, i).id}
     /\ \A j \in f..(i - 1) : ~(id \in {AnyId, At(ring, j).id}) /\ At(ring, j).time = Time(t)}

(* The search of an id under its own time finds the first that matches.    *)
LEMMA TargetIs ==
  ASSUME DueFacts, NEW t \in Times, NEW id,
         \A k \in DOMAIN items : items[k].id = id => items[k].time = t,
         NEW g, g = Target(id, t)
  PROVE  /\ Matching(id, t) = {} => g = ring.size
         /\ Matching(id, t) # {} => /\ Min(Matching(id, t)) \in Matching(id, t)
                                    /\ Min(Matching(id, t)) \in 1..Len(items)
                                    /\ g = Min(Matching(id, t)) - 1
<1> DEFINE s == items
           z == ring.size
           res == Rotated(t)
           f == FindEqOrGt(ring, res)
           M == Matching(id, t)
           H(k) == Hits(id, t, k)
<1>1. /\ s \in Seq(Entry) /\ Len(s) \in Nat /\ z = Len(s) /\ DOMAIN s = 1..Len(s)
      /\ RingIs(ring, s) /\ Ordered(s)
      /\ \A i \in 1..Len(s) : s[i] \in Entry /\ At(ring, i - 1) = Wrapped(s[i])
  BY DEF DueFacts
<1>2. Compares(res, s, t) /\ t \in Int
  BY RotatedIs
<1>3. /\ f \in 0..Len(s)
      /\ \A i \in 1..Len(s) : (i <= f <=> s[i].time < t)
      /\ f < Len(s) => res[f] = t - s[f + 1].time
  <2> HIDE DEF res
  <2> QED BY <1>1, <1>2, FindIs
<1>4. g = LET found == IF f < z /\ res[f] = 0 THEN f ELSE z
          IN  IF H(found) = {} THEN z ELSE Min(H(found))
  BY DEF Target, Find, Hits
<1>5. \A i \in 1..Len(s) : s[i].time \in Int
  BY <1>1 DEF Entry
<1>6. M = {i \in 1..Len(s) : s[i].time = t /\ id \in {AnyId, s[i].id}}
  BY <1>1 DEF Matching
<1>7. \A i \in 0..(z - 1) : /\ i + 1 \in 1..Len(s) /\ At(ring, i).id = s[i + 1].id
                            /\ At(ring, i).time = Time(s[i + 1].time)
  <2> TAKE i \in 0..(z - 1)
  <2> DEFINE k == i + 1
  <2>1. k \in 1..Len(s) /\ k - 1 = i
    BY <1>1
  <2> HIDE DEF k
  <2>2. s[k] \in Entry /\ At(ring, i) = Wrapped(s[k])
    BY <1>1, <2>1
  <2> QED BY <2>1, <2>2, WrappedIs DEF k
<1> HIDE DEF f, res, M, z
<1>8. ASSUME ~(f < z /\ res[f] = 0)
      PROVE  g = z /\ M = {}
  <2>1. H(z) = {}
    <3>1. z..(z - 1) = {}
      BY <1>1
    <3> QED BY <3>1 DEF Hits, z
  <2>2. g = z
    BY <1>4, <1>8, <2>1
  <2>3. ASSUME NEW i \in 1..Len(s), s[i].time = t PROVE FALSE
    <3>1. i > f /\ f < Len(s)
      BY <1>1, <1>2, <1>3, <2>3
    <3>2. f + 1 \in 1..Len(s) /\ f + 1 <= i /\ ~(f + 1 <= f)
      BY <1>1, <1>3, <3>1
    <3>3. s[f + 1].time <= s[i].time /\ ~(s[f + 1].time < t) /\ s[f + 1].time \in Int
      BY <1>1, <1>3, <1>5, <3>2 DEF Ordered
    <3>4. s[f + 1].time = t
      BY <1>2, <2>3, <3>3
    <3> QED BY <1>1, <1>2, <1>3, <1>8, <3>1, <3>4
  <2> QED BY <1>6, <2>2, <2>3
<1>9. ASSUME f < z, res[f] = 0
      PROVE  /\ g = IF H(f) = {} THEN z ELSE Min(H(f))
             /\ f + 1 \in 1..Len(s) /\ s[f + 1].time = t
  <2>1. f + 1 \in 1..Len(s) /\ s[f + 1].time \in Int
    BY <1>1, <1>3, <1>5, <1>9
  <2>2. s[f + 1].time = t
    BY <1>1, <1>2, <1>3, <1>9, <2>1
  <2> QED BY <1>4, <1>9, <2>1, <2>2
<1>10. ASSUME f < z, res[f] = 0, NEW i \in H(f)
       PROVE  i + 1 \in M /\ i \in f..(z - 1)
  <2>1. /\ i \in f..(z - 1) /\ id \in {AnyId, At(ring, i).id}
        /\ \A j \in f..(i - 1) : ~(id \in {AnyId, At(ring, j).id})
    BY DEF Hits, z
  <2>2. i \in 0..(z - 1) /\ i + 1 \in 1..Len(s) /\ At(ring, i).id = s[i + 1].id
    BY <1>1, <1>3, <1>7, <2>1
  <2>3. CASE id = AnyId
    <3>1. i = f
      <4>1. ~(f \in f..(i - 1))
        BY <2>1, <2>3
      <4> QED BY <1>3, <2>1, <4>1
    <3> QED BY <1>6, <1>9, <1>10, <2>1, <2>2, <2>3, <3>1
  <2>4. CASE id # AnyId
    <3>1. s[i + 1].id = id
      BY <2>1, <2>2, <2>4
    <3>2. s[i + 1].time = t
      BY <1>1, <2>2, <3>1
    <3> QED BY <1>6, <2>1, <2>2, <3>1, <3>2
  <2> QED BY <2>3, <2>4
<1>11. ASSUME M # {}
       PROVE  /\ f < z /\ res[f] = 0 /\ Min(M) \in M /\ Min(M) \in 1..Len(s)
              /\ Min(M) - 1 \in H(f) /\ \A i \in M : Min(M) <= i
  <2>1. M \in SUBSET Nat
    BY <1>6
  <2>2. Min(M) \in M /\ \A i \in M : Min(M) <= i
    BY <1>11, <2>1, FirstIndex
  <2> DEFINE m == Min(M)
             i == m - 1
  <2> HIDE DEF m
  <2>3. m \in 1..Len(s) /\ s[m].time = t /\ id \in {AnyId, s[m].id}
    BY <1>6, <2>2 DEF m
  <2>4. f < z /\ res[f] = 0
    BY <1>8, <1>11
  <2>5. i \in f..(z - 1) /\ i + 1 = m /\ i \in 0..(z - 1)
    <3>1. ~(m <= f)
      BY <1>2, <1>3, <2>3
    <3> QED BY <1>1, <1>3, <2>3, <3>1
  <2>6. ASSUME NEW j \in f..(i - 1)
        PROVE  ~(id \in {AnyId, At(ring, j).id}) /\ At(ring, j).time = Time(t)
    <3>1. /\ j \in 0..(z - 1) /\ j + 1 \in 1..Len(s) /\ j + 1 < m /\ f + 1 <= j + 1
          /\ f + 1 \in 1..Len(s)
      BY <1>1, <1>3, <2>3, <2>4, <2>5
    <3>2. At(ring, j).id = s[j + 1].id /\ At(ring, j).time = Time(s[j + 1].time)
      BY <1>7, <3>1
    <3>3. s[j + 1].time <= t /\ s[f + 1].time <= s[j + 1].time /\ s[f + 1].time = t
      BY <1>1, <1>9, <2>3, <2>4, <3>1 DEF Ordered
    <3>4. s[j + 1].time = t
      BY <1>2, <1>5, <3>1, <3>3
    <3>5. ASSUME id \in {AnyId, At(ring, j).id} PROVE FALSE
      <4>1. j + 1 \in M
        BY <1>6, <3>1, <3>2, <3>4, <3>5
      <4>2. m <= j + 1
        BY <2>2, <4>1 DEF m
      <4> QED BY <2>3, <3>1, <4>2
    <3> QED BY <3>2, <3>4, <3>5
  <2>7. At(ring, i).id = s[m].id
    BY <1>7, <2>5
  <2>8. i \in H(f)
    BY <2>3, <2>5, <2>6, <2>7 DEF Hits, z
  <2> QED BY <2>2, <2>3, <2>4, <2>8 DEF m
<1>12. ASSUME M = {} PROVE g = z
  <2>1. CASE f < z /\ res[f] = 0
    <3>1. H(f) = {}
      BY <1>10, <1>12, <2>1
    <3> QED BY <1>9, <2>1, <3>1
  <2> QED BY <1>8, <2>1
<1>13. ASSUME M # {} PROVE g = Min(M) - 1
  <2>1. H(f) # {} /\ f < z /\ res[f] = 0
    BY <1>11, <1>13
  <2>2. g = Min(H(f))
    BY <1>9, <2>1
  <2>3. H(f) \in SUBSET Nat
    BY <1>3, <1>10, <2>1
  <2>4. g \in H(f) /\ g <= Min(M) - 1 /\ g \in Nat
    BY <1>11, <1>13, <2>1, <2>2, <2>3, FirstIndex
  <2>5. Min(M) <= g + 1 /\ Min(M) \in Int
    BY <1>10, <1>11, <1>13, <2>1, <2>4
  <2> QED BY <2>4, <2>5
<1> QED BY <1>11, <1>12, <1>13 DEF M, z

(* A deadline is inserted where it keeps the order.                        *)
LEMMA InsertStep ==
  ASSUME Near, RingInv, kind = "deadlines", kind' = kind,
         NEW id \in Ids, NEW d \in Delays, InsertDeadline(id, now + d)
  PROVE  RingInv' /\ \A W : Timed(items, W) /\ now + d \in W => Timed(items', W)
<1> DEFINE t == now + d
           v == [time |-> t, id |-> id]
           s == items
           a == AfterEquals(ring, Rotated(t))
<1>1. DueFacts
  BY DueFactsHold
<1>2. /\ s \in Seq(Entry) /\ Len(s) \in Nat /\ ring.size = Len(s) /\ DOMAIN s = 1..Len(s)
      /\ RingIs(ring, s) /\ Ordered(s) /\ Capacity \in Nat
      /\ t \in Times /\ t \in Int /\ \A i \in 1..Len(s) : s[i].time \in Int
  BY <1>1 DEF DueFacts, Reach
<1>3. v \in Entry /\ v.time = t
  BY <1>2 DEF Entry
<1>4. PICK s0 \in Starts :
        /\ now \in s0..MaxNow /\ seen \in s0..now /\ offset = Time(seen)
        /\ Timed(items, Dues(s0, now))
  BY DEF RingInv, ClockInv
<1>5. t \in Dues(s0, now)
  <2>1. s0 \in 0..MaxNow /\ MaxNow \in Nat
    BY TimeAssumption
  <2>2. now \in s0..now
    BY <1>4, <2>1
  <2> QED BY <2>2 DEF Dues
<1>6. UNCHANGED <<offset, now, seen>>
  BY DEF InsertDeadline, clock
<1>7. kind \in Kinds
  BY DEF RingInv
<1>8. ASSUME RingIs(ring', items'), Ordered(items'),
             \A W : Timed(s, W) /\ t \in W => Timed(items', W)
      PROVE  RingInv' /\ \A W : Timed(s, W) /\ t \in W => Timed(items', W)
  <2>1. Timed(items', Dues(s0, now))
    BY <1>4, <1>5, <1>8
  <2>2. ClockInv'
    BY <1>4, <1>6, <2>1 DEF ClockInv
  <2> QED BY <1>7, <1>8, <2>2, RingInvNext
<1>9. CASE CanInsert(ring, 1)
  <2>1. Sooner(v) = SoonerIn(s, t) /\ Equal(v) = EqualIn(s, t)
    BY <1>2, <1>3 DEF Sooner, SoonerIn, Equal, EqualIn
  <2>2. /\ a \in 0..Len(s) /\ Cardinality(Sooner(v) \cup Equal(v)) = a
        /\ \A i \in 1..Len(s) : (i <= a <=> s[i].time <= t)
    <3>1. Compares(Rotated(t), s, t)
      BY <1>1, <1>2, RotatedIs
    <3>2. /\ a \in 0..Len(s) /\ Cardinality(SoonerIn(s, t) \cup EqualIn(s, t)) = a
          /\ \A i \in 1..Len(s) : (i <= a <=> s[i].time <= t)
      <4> HIDE DEF t
      <4> QED BY <1>2, <3>1, AfterIs
    <3> QED BY <2>1, <3>2
  <2>3. /\ ring' = Clean(Insert(ring, Wrapped(v), a))
        /\ items' = InsertAt(s, a + 1, v) /\ ring.size < Capacity
    <3>1. /\ ring' = Clean(Insert(ring, Wrapped(v), a))
          /\ items' = InsertAt(s, Cardinality(Sooner(v) \cup Equal(v)) + 1, v)
      BY <1>9 DEF InsertDeadline, Behind
    <3>2. ring.size < Capacity
      BY <1>2, <1>9 DEF CanInsert
    <3> QED BY <2>2, <3>1, <3>2
  <2> HIDE DEF v, t, a
  <2>4. RingIs(ring', items')
    BY <1>2, <1>3, <2>2, <2>3, InsertIs
  <2>5. \A i \in 1..Len(s) :
          (i <= a => s[i].time <= v.time) /\ (i > a => v.time <= s[i].time)
    <3> TAKE i \in 1..Len(s)
    <3>1. s[i].time \in Int /\ t \in Int /\ a \in Int /\ i \in Int /\ (i <= a <=> s[i].time <= t)
      BY <1>2, <2>2
    <3> QED BY <1>3, <3>1
  <2>6. Ordered(items')
    BY <1>2, <1>3, <2>2, <2>3, <2>5, OrderInsert
  <2>7. ASSUME NEW W, Timed(s, W), t \in W PROVE Timed(items', W)
    BY <1>2, <1>3, <2>2, <2>3, <2>7, TimesInsert
  <2> QED BY <1>8, <2>4, <2>6, <2>7 DEF t
<1>10. CASE ~CanInsert(ring, 1)
  <2>1. UNCHANGED <<ring, items>>
    BY <1>10 DEF InsertDeadline
  <2> QED BY <1>2, <1>8, <2>1
<1> QED BY <1>9, <1>10

(* The entry dropped is the one removed.                                   *)
LEMMA DropStep ==
  ASSUME Near, RingInv, kind = "deadlines", kind' = kind,
         NEW id, NEW t \in Times, TryGetAndDrop(id, t)
  PROVE  RingInv' /\ \A W : Timed(items, W) => Timed(items', W)
<1> DEFINE s == items
           g == Target(id, t)
           M == Matching(id, t)
           m == Min(M)
<1>1. DueFacts
  BY DueFactsHold
<1>2. /\ s \in Seq(Entry) /\ Len(s) \in Nat /\ ring.size = Len(s)
      /\ RingIs(ring, s) /\ Ordered(s)
  BY <1>1 DEF DueFacts
<1>3. \A k \in DOMAIN items : items[k].id = id => items[k].time = t
  BY DEF TryGetAndDrop
<1>4. /\ M = {} => g = ring.size
      /\ M # {} => m \in M /\ m \in 1..Len(s) /\ g = m - 1
  BY <1>1, <1>3, TargetIs
<1>5. /\ ring' = IF g < ring.size THEN Clean(Drop(ring, g)) ELSE ring
      /\ items' = IF M = {} THEN s ELSE RemoveAt(s, m)
      /\ UNCHANGED <<offset, now, seen>> /\ kind \in Kinds
  <2>1. /\ g < ring.size => ring' = Clean(Drop(ring, g))
        /\ ~(g < ring.size) => ring' = ring
    BY DEF TryGetAndDrop
  <2>2. items' = IF M = {} THEN s ELSE RemoveAt(s, m)
    BY DEF TryGetAndDrop
  <2> QED BY <2>1, <2>2 DEF TryGetAndDrop, clock, RingInv
<1> HIDE DEF g, M, m
<1>6. /\ RingIs(ring', items') /\ Ordered(items')
      /\ \A W : Timed(s, W) => Timed(items', W)
  <2>1. CASE M = {}
    <3>1. ring' = ring /\ items' = s
      BY <1>2, <1>4, <1>5, <2>1
    <3> QED BY <1>2, <3>1
  <2>2. CASE M # {}
    <3>1. m \in 1..Len(s) /\ g = m - 1 /\ g \in 0..(ring.size - 1) /\ g + 1 = m /\ g < ring.size
      BY <1>2, <1>4, <2>2
    <3>2. ring' = Clean(Drop(ring, g)) /\ items' = RemoveAt(s, g + 1)
      BY <1>5, <2>2, <3>1
    <3>3. RingIs(ring', items')
      BY <1>2, <3>1, <3>2, DropIs
    <3> QED BY <1>2, <3>1, <3>2, <3>3, RemoveKeeps
  <2> QED BY <2>1, <2>2
<1>7. ClockInv'
  BY <1>5, <1>6 DEF RingInv, ClockInv
<1> QED BY <1>5, <1>6, <1>7, RingInvNext

(* A deadline list's steps.                                                *)
LEMMA DeadlinesKindStep ==
  ASSUME Near, RingInv, kind = "deadlines", DeadlinesNext, kind' = kind
  PROVE  RingInv'
<1>1. /\ kind \in Kinds /\ RingIs(ring, items) /\ Ordered(items)
  BY DEF RingInv
<1>2. PICK s \in Starts :
        /\ now \in s..MaxNow /\ seen \in s..now /\ offset = Time(seen)
        /\ Timed(items, Dues(s, now))
  BY DEF RingInv, ClockInv
<1>3. s \in Nat /\ MaxNow \in Nat /\ now \in Int /\ seen \in Int
  <2>1. s \in 0..MaxNow /\ MaxNow \in Nat
    BY TimeAssumption
  <2> QED BY <1>2, <2>1
<1>4. CASE GetHeadIfExpired
  <2>1. /\ UNCHANGED <<ring, items, now>>
        /\ \/ UNCHANGED <<offset, seen>>
           \/ offset' = Time(now) /\ seen' = now
    BY <1>4 DEF GetHeadIfExpired
  <2>2. seen' \in s..now' /\ offset' = Time(seen')
    BY <1>2, <1>3, <2>1
  <2>3. ClockInv'
    BY <1>2, <2>1, <2>2 DEF ClockInv
  <2> QED BY <1>1, <2>1, <2>3, RingInvNext
<1>5. CASE Tick
  <2>1. now < MaxNow /\ now' = now + 1 /\ UNCHANGED <<ring, items, offset, seen>>
    BY <1>5 DEF Tick
  <2>2. now' \in s..MaxNow /\ seen' \in s..now'
    BY <1>2, <1>3, <2>1
  <2>3. s..now \subseteq s..now'
    BY <1>3, <2>1
  <2>4. Dues(s, now) \subseteq Dues(s, now')
    BY <2>3 DEF Dues
  <2>5. Timed(items', Dues(s, now'))
    BY <1>2, <2>1, <2>4 DEF Timed
  <2>6. ClockInv'
    BY <1>2, <2>1, <2>2, <2>5 DEF ClockInv
  <2> QED BY <1>1, <2>1, <2>6, RingInvNext
<1>6. ASSUME NEW id \in IF CanInsert(ring, 1) THEN Unused ELSE Ids, NEW d \in Delays,
             InsertDeadline(id, now + d)
      PROVE  RingInv'
  <2>1. id \in Ids
    BY OtherIs DEF Unused
  <2> QED BY <1>6, <2>1, InsertStep
<1>7. ASSUME NEW id \in Sought, NEW t \in Times, TryGetAndDrop(id, t)
      PROVE  RingInv'
  BY <1>7, DropStep
<1> QED BY <1>4, <1>5, <1>6, <1>7 DEF DeadlinesNext

(* The head's time against the offset and the clock.                       *)
LEMMA HeadCompared ==
  ASSUME DueFacts, ring.size # 0
  PROVE  /\ items # <<>> /\ 1 \in 1..Len(items) /\ ring.size > 0
         /\ At(ring, 0) = Wrapped(items[1])
         /\ Expired(At(ring, 0).time, offset) <=> items[1].time <= seen
         /\ Expired(At(ring, 0).time, Time(now)) <=> items[1].time <= now
<1> DEFINE x == items[1].time
           h == At(ring, 0)
<1>1. /\ items \in Seq(Entry) /\ Len(items) \in Nat /\ ring.size = Len(items)
      /\ now \in Int /\ seen \in Int /\ offset = Time(seen)
      /\ \A i \in 1..Len(items) : /\ items[i] \in Entry /\ At(ring, i - 1) = Wrapped(items[i])
                                  /\ items[i].time \in Reach
      /\ \A p, q \in Reach : p \in Int /\ p - q < Half /\ q - p < Half
  BY DEF DueFacts, Reach
<1>2. items # <<>> /\ 1 \in 1..Len(items) /\ ring.size > 0
  BY <1>1
<1>3. now \in Reach /\ seen \in Reach /\ x \in Reach /\ items[1] \in Entry
      /\ At(ring, 1 - 1) = Wrapped(items[1])
  BY <1>1, <1>2 DEF Reach
<1>4. h = Wrapped(items[1])
  BY <1>3
<1>5. h.time = Time(x)
  BY <1>3, <1>4, WrappedIs
<1>6. x \in Int /\ x - now < Half /\ now - x < Half /\ seen - x < Half /\ x - seen < Half
  BY <1>1, <1>3
<1> HIDE DEF x, h
<1>7. Expired(h.time, Time(now)) <=> x <= now
  <2>1. Compare(Time(x), Time(now)) = x - now
    BY <1>1, <1>6, Comparing
  <2> QED BY <1>1, <1>5, <1>6, <2>1 DEF Expired
<1>8. Expired(h.time, offset) <=> x <= seen
  <2>1. Compare(Time(x), Time(seen)) = x - seen
    BY <1>1, <1>6, Comparing
  <2> QED BY <1>1, <1>5, <1>6, <2>1 DEF Expired
<1> QED BY <1>2, <1>4, <1>7, <1>8 DEF x, h

(* get_head_if_expired gives the head if it is due.                         *)
LEMMA HeadGiven ==
  ASSUME Near, RingInv, kind = "deadlines", GetHeadIfExpired
  PROVE  answer' = IF items # <<>> /\ items[1].time <= now THEN Wrapped(items[1]) ELSE Blank
<1> DEFINE s == items
<1>1. DueFacts
  BY DueFactsHold
<1>2. /\ s \in Seq(Entry) /\ Len(s) \in Nat /\ ring.size = Len(s)
      /\ now \in Int /\ seen \in Int
      /\ \A i \in 1..Len(s) : s[i].time \in Int
  BY <1>1 DEF DueFacts, Reach
<1>3. CASE ring.size = 0
  <2>1. s = <<>>
    BY <1>2, <1>3, EmptySeq
  <2>2. answer' = Blank
    BY <1>3 DEF GetHeadIfExpired
  <2> QED BY <2>1, <2>2
<1>4. CASE ring.size # 0
  <2> DEFINE x == s[1].time
             h == At(ring, 0)
  <2>1. /\ s # <<>> /\ x \in Int /\ h = Wrapped(s[1])
        /\ Expired(h.time, offset) <=> x <= seen
        /\ Expired(h.time, Time(now)) <=> x <= now
    BY <1>1, <1>2, <1>4, HeadCompared
  <2>2. seen <= now
    <3>1. PICK s0 \in Starts : now \in s0..MaxNow /\ seen \in s0..now
      BY DEF RingInv, ClockInv
    <3> QED BY <1>2, <3>1, TimeAssumption
  <2>3. \/ Expired(h.time, offset) /\ answer' = h
        \/ /\ ~Expired(h.time, offset)
           /\ answer' = IF Expired(h.time, Time(now)) THEN h ELSE Blank
    BY <1>4 DEF GetHeadIfExpired
  <2> HIDE DEF x, h
  <2>4. answer' = IF x <= now THEN h ELSE Blank
    BY <1>2, <2>1, <2>2, <2>3
  <2> QED BY <2>1, <2>4 DEF x
<1> QED BY <1>3, <1>4

(* The head is given when it is due, and the entry sought is given.        *)
LEMMA DeadlineTells ==
  ASSUME Near, RingInv, kind = "deadlines", NEW id \in Sought, NEW t \in Times
  PROVE  DeadlineIsTrue(id, t)
<1> DEFINE s == items
<1>1. DueFacts
  BY DueFactsHold
<1>2. /\ s \in Seq(Entry) /\ Len(s) \in Nat /\ ring.size = Len(s) /\ DOMAIN s = 1..Len(s)
      /\ now \in Int /\ seen \in Int /\ offset = Time(seen)
      /\ \A i \in 1..Len(s) : s[i] \in Entry /\ At(ring, i - 1) = Wrapped(s[i])
  BY <1>1 DEF DueFacts
<1>3. ASSUME GetHeadIfExpired
      PROVE  answer' = IF s # <<>> /\ s[1].time <= now THEN Wrapped(s[1]) ELSE Blank
  BY <1>3, HeadGiven
<1>4. ASSUME TryGetAndDrop(id, t)
      PROVE  answer' = IF Matching(id, t) = {} THEN Blank
                       ELSE Wrapped(s[Min(Matching(id, t))])
  <2> DEFINE g == Target(id, t)
             M == Matching(id, t)
             m == Min(M)
  <2>1. \A k \in DOMAIN items : items[k].id = id => items[k].time = t
    BY <1>4 DEF TryGetAndDrop
  <2>2. /\ M = {} => g = ring.size
        /\ M # {} => m \in M /\ m \in 1..Len(s) /\ g = m - 1
    BY <1>1, <2>1, TargetIs
  <2>3. answer' = IF g < ring.size THEN At(ring, g) ELSE Blank
    <3>1. /\ g < ring.size => answer' = At(ring, g)
          /\ ~(g < ring.size) => answer' = Blank
      BY <1>4 DEF TryGetAndDrop
    <3> QED BY <3>1
  <2> HIDE DEF g, M, m
  <2>4. CASE M = {}
    BY <1>2, <2>2, <2>3, <2>4 DEF M
  <2>5. CASE M # {}
    <3>1. m \in 1..Len(s) /\ g = m - 1 /\ g < ring.size
      BY <1>2, <2>2, <2>5
    <3>2. answer' = Wrapped(s[m])
      BY <1>2, <2>3, <3>1
    <3> QED BY <2>5, <3>2 DEF M, m
  <2> QED BY <2>4, <2>5
<1> QED BY <1>3, <1>4, Zenon DEF DeadlineIsTrue

(* No entry is given before its time.                                      *)
LEMMA HeadIsDue ==
  ASSUME Near, RingInv, kind = "deadlines"
  PROVE  NotEarly
<1> SUFFICES ASSUME GetHeadIfExpired, answer' # Blank PROVE items[1].time <= now
  BY DEF NotEarly
<1>1. items # <<>> /\ items[1].time <= now
  BY HeadGiven
<1> QED BY <1>1

(* A ring is as it was, and so is its invariant.                           *)
LEMMA RingKept == RingInv /\ UNCHANGED <<kind, ring, items, clock>> => RingInv'
<1> SUFFICES ASSUME RingInv, UNCHANGED <<kind, ring, items, clock>> PROVE RingInv'
  OBVIOUS
<1>1. kind = "deadlines" => ClockInv'
  BY DEF RingInv, ClockInv, clock
<1> QED BY <1>1 DEF RingInv

(* Every step keeps a ring's invariant, if the deadlines are near.         *)
LEMMA RingStep == RingInv /\ Near /\ [ContNext]_contVars => RingInv'
<1> SUFFICES ASSUME RingInv, Near, [ContNext]_contVars PROVE RingInv'
  OBVIOUS
<1>1. CASE UNCHANGED contVars
  BY <1>1, RingKept DEF contVars, rings
<1>2. CASE ContNext
  <2>1. kind' = kind
    BY <1>2, KindStays
  <2>2. CASE Takes /\ UNCHANGED clock
    BY <2>1, <2>2, TakesStep
  <2>3. CASE kind = "ring" /\ RingNext
    BY <2>1, <2>3, RingKindStep
  <2>4. CASE kind = "ordered" /\ OrderedNext
    BY <2>1, <2>4, OrderedKindStep
  <2>5. CASE kind = "deadlines" /\ DeadlinesNext
    BY <2>1, <2>5, DeadlinesKindStep
  <2>6. CASE UNCHANGED rings
    BY <2>1, <2>6, RingKept DEF rings
  <2> QED BY <1>2, <2>2, <2>3, <2>4, <2>5, <2>6 DEF ContNext
<1> QED BY <1>1, <1>2

(* The rings hold what was put in them, the ordered ones in order, whatever*)
(* is pushed, put in and taken off, and wherever the storage wraps.        *)
THEOREM RingsHold == ContSpec /\ []Near => []RingHolds
<1>1. ContSpec /\ []Near => []RingInv
  BY RingStarts, RingStep, PTL DEF ContSpec
<1> QED BY <1>1, RingInvHolds, PTL

(* An ordered ring's searches, and the lists' answers, are right.          *)
THEOREM AnswersAreRight == ContSpec => AnswersAreTrue
<1> DEFINE J == kind # "deadlines" => RingInv
           A == /\ kind = "ordered" => \A v \in Elements : IndexIsTrue(v)
                /\ kind = "single" => \A n \in Single!Nodes : Single!ListIsTrue(n)
                /\ kind = "double" => \A n \in Double!Nodes : Double!ListIsTrue(n)
<1>1. ContInit => J
  BY RingStarts
<1>2. J /\ [ContNext]_contVars => J'
  <2> SUFFICES ASSUME J, [ContNext]_contVars, kind' # "deadlines" PROVE RingInv'
    OBVIOUS
  <2>1. kind' = kind
    BY KindStays DEF contVars
  <2>2. RingInv /\ Near
    BY <2>1 DEF Near
  <2> QED BY <2>2, RingStep
<1>3. ListInv /\ J => A
  <2> SUFFICES ASSUME ListInv, J PROVE A
    OBVIOUS
  <2>1. kind = "ordered" => \A v \in Elements : IndexIsTrue(v)
    BY OrderedTells
  <2>2. kind = "single" => \A n \in Single!Nodes : Single!ListIsTrue(n)
    BY SingleTells DEF ListInv, Single!Nodes
  <2>3. kind = "double" => \A n \in Double!Nodes : Double!ListIsTrue(n)
    BY DoubleTells DEF ListInv, Double!Nodes
  <2> QED BY <2>1, <2>2, <2>3
<1> HIDE DEF J, A
<1>4. ContSpec => [](ListInv /\ J)
  BY <1>1, <1>2, ListStarts, ListStep, PTL DEF ContSpec
<1>5. ContSpec => [][A]_contVars
  BY <1>3, <1>4, PTL
<1> QED BY <1>5 DEF AnswersAreTrue, A

(* A list of deadlines gives its head when it is due and not before, and   *)
(* drops the entry it is asked to, wherever the clock wraps.               *)
THEOREM DeadlinesAreRight == ContSpec /\ []Near => DeadlinesAreTrue
<1> DEFINE A == kind = "deadlines" =>
                  \A id \in Sought, t \in Times : DeadlineIsTrue(id, t)
<1>1. RingInv /\ Near => A
  <2> SUFFICES ASSUME RingInv, Near, kind = "deadlines", NEW id \in Sought, NEW t \in Times
               PROVE  DeadlineIsTrue(id, t)
    OBVIOUS
  <2> QED BY DeadlineTells
<1> HIDE DEF A
<1>2. ContSpec /\ []Near => [][A]_contVars
  BY <1>1, RingStarts, RingStep, PTL DEF ContSpec
<1> QED BY <1>2 DEF DeadlinesAreTrue, A

(* No deadline is given before its time, while the users keep what the     *)
(* list compares near: a list left empty for half a turn does not.         *)
THEOREM NoneIsEarly == ContSpec /\ []Near => NeverEarly
<1> DEFINE A == kind = "deadlines" => NotEarly
<1>1. RingInv /\ Near => A
  BY HeadIsDue
<1> HIDE DEF A
<1>2. ContSpec /\ []Near => [][A]_contVars
  BY <1>1, RingStarts, RingStep, PTL DEF ContSpec
<1> QED BY <1>2 DEF NeverEarly, A

(* How far behind the offset a deadline may be that is still listed: that  *)
(* of an entry the offset has passed, or that of one inserted since.       *)
Lags == Delays \cup {0, 1 - MaxStale}

(* Half a turn of the clock is enough for the delays and a stale offset.   *)
TurnSuffices == \A d \in Delays \cup {0}, e \in Lags : MaxStale + d - e < Half

(* The times that a list may have if its user keeps the offset fresh.      *)
Recent == {t \in Int : (\E e \in Lags : seen + e <= t) /\ \E d \in Delays : t <= now + d}

FreshInv == kind = "deadlines" => now - seen <= MaxStale /\ Timed(items, Recent)

(* Then what is compared is near.                                          *)
LEMMA FreshIsNear == TurnSuffices /\ RingInv /\ FreshInv => Near
<1> SUFFICES ASSUME TurnSuffices, RingInv, FreshInv, kind = "deadlines",
                    NEW x \in Reach, NEW y \in Reach
             PROVE  x - y < Half
  BY DEF Near
<1>1. PICK s \in Starts : now \in s..MaxNow /\ seen \in s..now
  BY DEF RingInv, ClockInv
<1>2. /\ now \in Int /\ seen \in Int /\ seen <= now /\ now - seen <= MaxStale
      /\ MaxStale \in Int /\ Half \in Int /\ \A d \in Lags : d \in Int
  <2>1. s \in 0..MaxNow /\ MaxNow \in Nat /\ MaxStale \in Nat /\ Delays \subseteq Int
    BY TimeAssumption
  <2> QED BY <1>1, <2>1, HalfIs DEF FreshInv, Lags
<1>3. ASSUME NEW z \in Reach
      PROVE  z \in Int /\ (\E e \in Lags : seen + e <= z)
             /\ \E d \in Delays \cup {0} : z <= now + d
  <2>1. CASE z \in {now, seen}
    <3>1. 0 \in Lags /\ 0 \in Delays \cup {0}
      BY DEF Lags
    <3>2. z \in Int /\ seen + 0 <= z /\ z <= now + 0
      BY <1>2, <2>1
    <3> QED BY <3>1, <3>2
  <2>2. CASE z \in {items[i].time : i \in DOMAIN items}
    <3>1. DOMAIN items = 1..Len(items)
      BY RingTypes DEF RingInv
    <3>2. z \in Recent
      BY <2>2, <3>1 DEF FreshInv, Timed
    <3> QED BY <3>2 DEF Recent
  <2>3. CASE z \in {now + d : d \in Delays}
    <3>1. PICK d \in Delays : z = now + d
      BY <2>3
    <3>2. d \in Lags /\ d \in Int
      BY <1>2 DEF Lags
    <3>3. z \in Int /\ seen + d <= z /\ z <= now + d
      BY <1>2, <3>1, <3>2
    <3> QED BY <3>2, <3>3
  <2> QED BY <2>1, <2>2, <2>3 DEF Reach, Times
<1>4. PICK d \in Delays \cup {0} : x <= now + d
  BY <1>3
<1>5. PICK e \in Lags : seen + e <= y
  BY <1>3
<1>6. MaxStale + d - e < Half
  BY DEF TurnSuffices
<1>7. d \in Int /\ e \in Int /\ x \in Int /\ y \in Int
  BY <1>2, <1>3 DEF Lags
<1> QED BY ONLY <1>2, <1>4, <1>5, <1>6, <1>7

(* The head was not yet due when the offset was set, nor is any entry      *)
(* behind it: a new offset passes none by more than it was stale.          *)
LEMMA FreshHead ==
  ASSUME Near, RingInv, FreshInv, kind = "deadlines", GetHeadIfExpired, seen' # seen
  PROVE  \A i \in 1..Len(items) : seen' + (1 - MaxStale) <= items[i].time
<1>1. DueFacts
  BY DueFactsHold
<1>2. /\ now \in Int /\ seen \in Int /\ MaxStale \in Int /\ now - seen <= MaxStale
      /\ Ordered(items) /\ \A i \in 1..Len(items) : items[i].time \in Int
  BY <1>1, TimeAssumption DEF DueFacts, Reach, FreshInv
<1>3. ring.size # 0 /\ ~Expired(At(ring, 0).time, offset) /\ seen' = now
  BY DEF GetHeadIfExpired
<1>4. 1 \in 1..Len(items) /\ ~(items[1].time <= seen)
  BY <1>1, <1>3, HeadCompared
<1>5. TAKE i \in 1..Len(items)
<1>6. items[1].time <= items[i].time
  <2>1. 1 <= i
    OBVIOUS
  <2> QED BY <1>2, <1>4, <2>1 DEF Ordered
<1>7. items[1].time \in Int /\ items[i].time \in Int
  BY <1>2, <1>4
<1> QED BY ONLY <1>2, <1>3, <1>4, <1>6, <1>7

(* Every step keeps the times recent.                                      *)
LEMMA FreshStep ==
  TurnSuffices /\ RingInv /\ FreshInv /\ [ContNext]_contVars => FreshInv'
<1> SUFFICES ASSUME TurnSuffices, RingInv, FreshInv, [ContNext]_contVars, kind' = "deadlines"
             PROVE  now' - seen' <= MaxStale /\ Timed(items', Recent')
  BY DEF FreshInv
<1>1. kind = "deadlines" /\ kind' = kind /\ Near
  BY KindStays, FreshIsNear DEF contVars
<1>2. PICK s \in Starts : now \in s..MaxNow /\ seen \in s..now
  BY <1>1 DEF RingInv, ClockInv
<1>3. /\ now \in Int /\ seen \in Int /\ seen <= now /\ now - seen <= MaxStale
      /\ MaxStale \in Nat /\ \A d \in Lags : d \in Int
      /\ Timed(items, Recent)
  <2>1. s \in 0..MaxNow /\ MaxNow \in Nat /\ MaxStale \in Nat /\ Delays \subseteq Int
    BY TimeAssumption
  <2> QED BY <1>1, <1>2, <2>1 DEF FreshInv, Lags
<1>4. ASSUME UNCHANGED <<now, seen>>, Timed(items', Recent)
      PROVE  now' - seen' <= MaxStale /\ Timed(items', Recent')
  BY <1>3, <1>4 DEF Recent
<1>5. ASSUME NEW d \in Delays PROVE now + d \in Recent
  <2>1. d \in Lags /\ d \in Int
    BY <1>3 DEF Lags
  <2>2. now + d \in Int /\ seen + d <= now + d /\ now + d <= now + d
    BY <1>3, <2>1
  <2> QED BY <2>1, <2>2 DEF Recent
<1>6. CASE UNCHANGED <<items, clock>>
  BY <1>3, <1>4, <1>6 DEF clock
<1>7. CASE Takes /\ UNCHANGED clock
  <2>1. Timed(items', Recent)
    BY <1>1, <1>3, <1>7, TakesStep
  <2> QED BY <1>4, <1>7, <2>1 DEF clock
<1>8. CASE GetHeadIfExpired
  <2>1. items' = items /\ now' = now /\ (seen' = seen \/ seen' = now)
    BY <1>8 DEF GetHeadIfExpired
  <2>2. CASE seen' = seen
    BY <1>3, <1>4, <2>1, <2>2
  <2>3. CASE seen' # seen
    <3>1. seen' = now /\ now' - seen' <= MaxStale
      BY <1>3, <2>1, <2>3
    <3>2. 1 - MaxStale \in Lags
      BY DEF Lags
    <3>3. \A i \in 1..Len(items) : seen' + (1 - MaxStale) <= items[i].time
      BY <1>1, <1>8, <2>3, FreshHead
    <3>4. \A i \in 1..Len(items) : items[i].time \in Recent'
      BY <1>3, <2>1, <3>2, <3>3 DEF Timed, Recent
    <3> QED BY <2>1, <3>1, <3>4 DEF Timed
  <2> QED BY <2>2, <2>3
<1>9. CASE Tick
  <2>1. now - seen < MaxStale /\ now' = now + 1 /\ UNCHANGED <<items, seen>>
    BY <1>9 DEF Tick
  <2>2. now' - seen' <= MaxStale
    BY <1>3, <2>1
  <2>3. ASSUME NEW t \in Recent PROVE t \in Recent'
    <3>1. PICK e \in Lags : seen + e <= t
      BY DEF Recent
    <3>2. PICK d \in Delays : t <= now + d
      BY DEF Recent
    <3>3. t \in Int /\ d \in Int
      BY <1>3 DEF Recent, Lags
    <3>4. t <= now' + d
      BY <1>3, <2>1, <3>2, <3>3
    <3> QED BY <2>1, <3>1, <3>3, <3>4 DEF Recent
  <2> QED BY <1>3, <2>1, <2>2, <2>3 DEF Timed
<1>10. ASSUME NEW id \in IF CanInsert(ring, 1) THEN Unused ELSE Ids, NEW d \in Delays,
              InsertDeadline(id, now + d)
       PROVE  now' - seen' <= MaxStale /\ Timed(items', Recent')
  <2>1. id \in Ids
    BY OtherIs DEF Unused
  <2>2. Timed(items', Recent)
    BY <1>1, <1>3, <1>5, <1>10, <2>1, InsertStep
  <2> QED BY <1>4, <1>10, <2>2 DEF InsertDeadline, clock
<1>11. ASSUME NEW id \in Sought, NEW t \in Times, TryGetAndDrop(id, t)
       PROVE  now' - seen' <= MaxStale /\ Timed(items', Recent')
  <2>1. Timed(items', Recent)
    BY <1>1, <1>3, <1>11, DropStep
  <2> QED BY <1>4, <1>11, <2>1 DEF TryGetAndDrop, clock
<1>12. CASE DeadlinesNext
  BY <1>8, <1>9, <1>10, <1>11, <1>12 DEF DeadlinesNext
<1> QED BY <1>1, <1>6, <1>7, <1>12 DEF ContNext, contVars, rings

(* A new list is empty, and its offset is the time.                        *)
LEMMA FreshStarts == ContInit => FreshInv
<1> SUFFICES ASSUME ContInit, kind = "deadlines" PROVE FreshInv
  BY DEF FreshInv
<1>1. items = <<>> /\ seen = now /\ now \in Starts
  BY DEF ContInit, RingInit, DeadlinesInit
<1>2. now \in 0..MaxNow /\ MaxNow \in Nat /\ MaxStale \in Nat
  BY <1>1, TimeAssumption
<1>3. now - seen <= MaxStale
  BY <1>1, <1>2
<1> QED BY <1>1, <1>3 DEF FreshInv, Timed

(* While users keep the offset fresh, as the model's clock asks of them,   *)
(* and half a turn is enough for that, the times compared are near: however*)
(* often the clock wraps.                                                  *)
THEOREM FreshRunsAreNear == TurnSuffices => (ContSpec => []Near)
<1> SUFFICES ASSUME TurnSuffices PROVE ContSpec => []Near
  OBVIOUS
<1> DEFINE I == RingInv /\ FreshInv
<1>1. ContInit => I
  BY RingStarts, FreshStarts
<1>2. I /\ [ContNext]_contVars => I'
  BY FreshIsNear, FreshStep, RingStep
<1>3. I => Near
  BY FreshIsNear
<1> HIDE DEF I
<1> QED BY <1>1, <1>2, <1>3, PTL DEF ContSpec

(* So a list of deadlines whose users do their duty keeps its promises     *)
(* with no further hypothesis.                                             *)
THEOREM DutyIsEnough ==
  TurnSuffices => (ContSpec => []RingHolds /\ DeadlinesAreTrue /\ NeverEarly)
BY FreshRunsAreNear, RingsHold, DeadlinesAreRight, NoneIsEarly
=============================================================================
