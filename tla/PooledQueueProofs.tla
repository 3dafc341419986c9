-------------------------- MODULE PooledQueueProofs --------------------------
(***************************************************************************)
(* Proofs about MpmcBpm, as a queue and as an allocator, for any number of *)
(* threads, slots and slots of a chunk, while the ticket field has not     *)
(* wrapped; and then about PooledQueue: the proofs about the allocator and *)
(* about the list carry over to the list whose nodes the allocator gives   *)
(* out, if the ticket field is large enough not to wrap.                   *)
(***************************************************************************)
EXTENDS PooledQueue, Lemmas, TLAPS

---------------------------------------------------------------------------
(* The inductive invariant.                                                *)

(* What the proofs need of the ticket field: it has not wrapped.           *)
BelowWrap == tkt["push"] + SlotCount <= TicketMod

(* A chunk is held from its reservation until its first slot is free; a    *)
(* producer's is open until it is committed.                               *)
Held       == live \cup {own[c] : c \in {d \in Consumers : pc[d] = "free"}}
Open(p)    == p \in Producers /\ pc[p] \in {"own", "used"}

(* Where a thread can be, in which use, and what it holds there.           *)
PlaceOK(t) ==
  /\ pc[t] \in {"tail", "recheck", "used", "got"} => t \in Producers
  /\ pc[t] \in {"reload", "head", "cas", "own"} => t \in Producers \cup Consumers
  /\ pc[t] = "free" => t \in Consumers
  /\ pc[t] # "trap"
  /\ pc[t] = "used" => use = "queue"
  /\ pc[t] = "got" => use = "allocator"
  /\ t \in Consumers /\ pc[t] \in {"reload", "head", "cas", "own"} => use = "queue"
  /\ own[t] = NoChunk <=> pc[t] \notin {"own", "used", "got", "free"}
  /\ pc[t] \in {"head", "tail", "recheck", "cas"} =>
       now[t] \in Nat /\ now[t] <= tkt[Side(t)]
  /\ t \in Producers /\ pc[t] = "tail" => at[t] \in 1..(Ceil(now[t], arg[t].slots) - 1)
  /\ t \in Producers /\ pc[t] = "cas" => at[t] = Ceil(now[t], arg[t].slots)
  /\ t \in Consumers /\ pc[t] = "cas" => at[t] \in 1..(SlotCount - 1)

(* What a thread has found in the slots it looked at still holds if its    *)
(* word has not changed.                                                   *)
CheckOK(t) ==
  /\ t \in Producers /\ pc[t] \in {"tail", "cas"} /\ now[t] = tkt["push"] =>
       \A j \in 0..(at[t] - 1) : ver[Slot(now[t] + j)] = now[t] + j
  /\ t \in Consumers /\ pc[t] = "cas" /\ now[t] = tkt["pop"] =>
       /\ [tk |-> now[t], n |-> at[t]] \in live
       /\ ver[Slot(now[t])] = now[t] + at[t]

(* The chunks held are of the last lap of tickets, share no memory, and    *)
(* the first slot's version tells whether a chunk is committed.            *)
HeldOK ==
  /\ \A h \in Held :
       /\ h.tk + Ceil(h.tk, h.n) <= tkt["push"] /\ tkt["push"] <= h.tk + SlotCount
       /\ ver[Slot(h.tk)] \in {h.tk, h.tk + h.n}
       /\ (\A p \in Producers : Open(p) => own[p] # h)
            => ver[Slot(h.tk)] = h.tk + h.n
  /\ \A a, b \in Held : a # b => Mem(a) \cap Mem(b) = {}

(* Who has which chunk.                                                    *)
OwnersOK ==
  /\ \A t \in Threads : Using(t) => own[t] \in live
  /\ \A t \in Threads : pc[t] = "free" => own[t] \notin live
  /\ \A t, u \in Threads : own[t] # NoChunk /\ t # u => own[t] # own[u]
  /\ \A p \in Producers : Open(p) => ver[Slot(own[p].tk)] = own[p].tk
  /\ \A c \in Consumers :
       use = "queue" /\ own[c] # NoChunk => own[c].tk < tkt["pop"]

(* A release frees the slots after the first, one by one.                  *)
FreeOK(c) ==
  pc[c] = "free" =>
    /\ at[c] \in 1..Ceil(own[c].tk, own[c].n)
    /\ \A j \in 1..(at[c] - 1) :
         ver[Slot(own[c].tk) + j] = own[c].tk + j + SlotCount

(* Is slot i after the first of a held chunk, and not free yet?            *)
Covered(i) ==
  \/ \E h \in live : i \in Interior(h)
  \/ \E c \in Consumers : /\ pc[c] = "free" /\ i \in Interior(own[c])
                          /\ i >= Slot(own[c].tk) + at[c]

(* A slot's version is that of the next lap or the slot is held; payloads  *)
(* lie only in slots after the first of a chunk.                           *)
VersionsOK ==
  /\ \A i \in Slots : ver[i] = Junk => Covered(i)
  /\ \A i \in Slots : ver[i] # Junk => ver[i] < tkt["push"] + SlotCount
  /\ \A k \in (tkt["push"] - SlotCount)..(tkt["push"] - 1) :
       ver[Slot(k)] = k + SlotCount \/ \E h \in Held : Slot(k) \in Mem(h)

(* Every chunk has its payload once its producer has filled it.            *)
DataOK ==
  \A ch \in live :
    (\A p \in Producers : own[p] = ch => pc[p] = "used")
      => \A i \in Mem(ch) : data[i] = ch.tk

(* In a queue the chunks not taken by a consumer follow one another from   *)
(* the one word to the other.                                              *)
QueueOK ==
  /\ tkt["pop"] <= tkt["push"]
  /\ use = "queue" =>
       \A k \in tkt["pop"]..(tkt["push"] - 1) :
         \E ch \in live : /\ tkt["pop"] <= ch.tk /\ ch.tk <= k
                          /\ k < ch.tk + Ceil(ch.tk, ch.n)

Inv ==
  /\ TypeOK /\ \A t \in Threads : PlaceOK(t) /\ CheckOK(t)
  /\ HeldOK /\ OwnersOK /\ \A c \in Consumers : FreeOK(c)
  /\ VersionsOK /\ DataOK /\ QueueOK

---------------------------------------------------------------------------
(* Tickets, slots and chunks.                                              *)

(* The sizes, as facts to cite.                                            *)
LEMMA Sizes ==
  /\ SlotCount \in Nat /\ SlotCount >= 2
  /\ SlotMax \in Nat /\ SlotMax >= 1 /\ SlotMax < SlotCount
  /\ TicketMod \in Nat /\ SigMod \in Nat /\ SigMod >= 1 /\ 0 \in Sigs
  /\ Slots = 0..(SlotCount - 1) /\ Junk \notin Nat /\ NoChunk \notin Chunk
<1>1. SlotCount \in Nat /\ SlotMax \in 1..(SlotCount - 1) /\ TicketMod \in Nat
      /\ SigMod \in Nat \ {0}
  BY PoolAssumption DEF PoolAssumption
<1>2. NoChunk \notin Chunk
  BY DEF NoChunk, Chunk, None
<1> QED BY <1>1, <1>2 DEF Sigs, Slots, Junk

LEMMA Classes ==
  /\ \A p \in Producers : p \in Threads /\ p \notin Consumers /\ p \notin Signallers
  /\ \A c \in Consumers : c \in Threads /\ c \notin Producers /\ c \notin Signallers
  /\ \A s \in Signallers : s \in Threads /\ s \notin Producers /\ s \notin Consumers
BY PoolAssumption DEF PoolAssumption, Threads

LEMMA SlotRange ==
  ASSUME NEW k \in Int
  PROVE  Slot(k) \in Slots /\ Slot(k) \in 0..(SlotCount - 1)
BY DivMod, Sizes DEF Slot

LEMMA FirstLap ==
  ASSUME NEW k \in Slots
  PROVE  Slot(k) = k
<1>1. k \in Nat /\ k < SlotCount /\ SlotCount \in Nat
  BY Sizes
<1>2. k % SlotCount = k
  BY <1>1, SmallNumber
<1> QED BY <1>2 DEF Slot

(* Before the wrap a ticket is what the code sees.                         *)
LEMMA TicketSeen ==
  ASSUME NEW k \in Nat, k < TicketMod
  PROVE  Tk(k) = k
<1>1. TicketMod \in Nat
  BY Sizes
<1>2. k % TicketMod = k
  BY <1>1, SmallNumber
<1> QED BY <1>2 DEF Tk

(* Tickets of one slot that are less than a lap apart are the same.        *)
LEMMA SlotOnce ==
  ASSUME NEW k \in Int, NEW j \in Int, Slot(k) = Slot(j),
         k - j < SlotCount, j - k < SlotCount
  PROVE  k = j
<1>1. k % SlotCount = j % SlotCount
  BY DEF Slot
<1>2. SlotCount \in Nat /\ SlotCount >= 1
  BY Sizes
<1> QED BY <1>1, <1>2, SameWrapped

LEMMA SlotLap ==
  ASSUME NEW k \in Int
  PROVE  Slot(k + SlotCount) = Slot(k) /\ Slot(k - SlotCount) = Slot(k)
<1>1. /\ k + SlotCount = k + Laps(1, SlotCount)
      /\ k - SlotCount = k + Laps(-1, SlotCount)
  BY Sizes DEF Laps
<1>2. /\ (k + SlotCount) % SlotCount = k % SlotCount
      /\ (k - SlotCount) % SlotCount = k % SlotCount
  BY <1>1, LapsVanish, Sizes
<1> QED BY <1>2 DEF Slot

(* Every slot has one ticket in each lap that starts at n.                 *)
LEMMA SlotInLap ==
  ASSUME NEW k \in Int, NEW n \in Int
  PROVE  \E j \in n..(n + SlotCount - 1) : Slot(j) = Slot(k)
<1> DEFINE q == (k - n) \div SlotCount
           r == (k - n) % SlotCount
<1>0. k - n \in Int /\ SlotCount \in Nat /\ SlotCount >= 1
  BY Sizes
<1>1. q \in Int /\ r \in 0..(SlotCount - 1) /\ k - n = SlotCount * q + r
  BY ONLY <1>0, DivMod
<1> HIDE DEF q, r
<1>2. k = (n + r) + Laps(q, SlotCount)
  BY <1>1, Sizes DEF Laps
<1>3. k % SlotCount = (n + r) % SlotCount
  BY <1>1, <1>2, LapsVanish, Sizes
<1>4. Slot(n + r) = Slot(k)
  BY <1>3 DEF Slot
<1>5. n + r \in n..(n + SlotCount - 1)
  BY <1>1, Sizes
<1> QED BY <1>4, <1>5

(* Up to the end of the array the tickets after k have the slots after its.*)
LEMMA SlotPlus ==
  ASSUME NEW k \in Int, NEW j \in Nat, Slot(k) + j < SlotCount
  PROVE  Slot(k + j) = Slot(k) + j
<1> DEFINE q == k \div SlotCount
           r == k % SlotCount
<1>1. q \in Int /\ r \in 0..(SlotCount - 1) /\ k = SlotCount * q + r
  BY DivMod, Sizes
<1>2. Slot(k) = r
  BY DEF Slot
<1> HIDE DEF q, r
<1>3. r + j \in Nat /\ r + j < SlotCount
  BY <1>1, <1>2
<1>4. k + j = (r + j) + Laps(q, SlotCount)
  BY <1>1, Sizes DEF Laps
<1>5. (k + j) % SlotCount = (r + j) % SlotCount
  BY <1>1, <1>3, <1>4, LapsVanish, Sizes
<1>6. (r + j) % SlotCount = r + j
  BY <1>3, Sizes, SmallNumber
<1> QED BY <1>2, <1>5, <1>6 DEF Slot

LEMMA CeilIs ==
  ASSUME NEW k \in Nat, NEW n \in 1..SlotMax
  PROVE  /\ Ceil(k, n) \in Nat /\ Ceil(k, n) >= 1
         /\ Ceil(k, n) < SlotCount /\ Ceil(k, n) <= n
<1>1. Slot(k) \in 0..(SlotCount - 1)
  BY SlotRange
<1> QED BY <1>1, Sizes DEF Ceil, AtMost

(* A chunk ends at the end of the array, or has all its slots before it.   *)
LEMMA CeilHas ==
  ASSUME NEW k \in Int, NEW n \in Nat, n >= 1
  PROVE  /\ Ceil(k, n) \in 1..n /\ Slot(k) + Ceil(k, n) <= SlotCount
         /\ Ceil(k, n) \in Nat /\ Ceil(k, n) >= 1
         /\ Ceil(k, n) = n \/ Slot(k) + Ceil(k, n) = SlotCount
<1>1. Slot(k) \in 0..(SlotCount - 1) /\ SlotCount \in Nat
  BY SlotRange, Sizes
<1> QED BY <1>1 DEF Ceil, AtMost

LEMMA ChunkIs ==
  ASSUME NEW ch \in Chunk
  PROVE  /\ ch.tk \in Nat /\ ch.tk \in Int /\ ch.n \in Nat /\ ch.n >= 1
         /\ ch.n < SlotCount /\ ch.n <= SlotMax
         /\ ch = [tk |-> ch.tk, n |-> ch.n]
BY Sizes DEF Chunk

(* The memory of a chunk, by its tickets.                                  *)
LEMMA MemHas ==
  ASSUME NEW ch \in Chunk
  PROVE  /\ ch.tk \in Nat /\ ch.n \in Nat /\ ch.n >= 1 /\ ch.n < SlotCount
         /\ ch.n <= SlotMax /\ Slot(ch.tk) \in Slots
         /\ Ceil(ch.tk, ch.n) \in 1..ch.n /\ Ceil(ch.tk, ch.n) \in Nat
         /\ Ceil(ch.tk, ch.n) >= 1 /\ Ceil(ch.tk, ch.n) < SlotCount
         /\ \A i \in Slots : i \in Mem(ch) <=>
              \E j \in 0..(Ceil(ch.tk, ch.n) - 1) :
                i = Slot(ch.tk) + j /\ i = Slot(ch.tk + j)
         /\ \A i \in Slots : i \in Interior(ch) <=>
              \E j \in 1..(Ceil(ch.tk, ch.n) - 1) :
                i = Slot(ch.tk) + j /\ i = Slot(ch.tk + j)
         /\ Slot(ch.tk) \in Mem(ch) /\ Interior(ch) \subseteq Slots \cap Mem(ch)
         /\ \A i \in Mem(ch) : i \in Slots \/ SlotCount - 1 \in Mem(ch)
<1>1. /\ ch.tk \in Nat /\ ch.n \in Nat /\ ch.n >= 1 /\ ch.n < SlotCount
      /\ ch.n <= SlotMax /\ SlotCount \in Nat /\ Slots = 0..(SlotCount - 1)
  BY Sizes DEF Chunk
<1>0. ch.tk \in Int
  BY <1>1
<1>a. Slot(ch.tk) \in 0..(SlotCount - 1)
  BY <1>0, SlotRange, Zenon
<1>2. PICK s \in 0..(SlotCount - 1) : s = Slot(ch.tk)
  BY <1>a
<1>b. /\ Ceil(ch.tk, ch.n) \in 1..ch.n
      /\ Slot(ch.tk) + Ceil(ch.tk, ch.n) <= SlotCount
      /\ (Ceil(ch.tk, ch.n) = ch.n \/ Slot(ch.tk) + Ceil(ch.tk, ch.n) = SlotCount)
  BY <1>0, <1>1, CeilHas, Zenon
<1>3. PICK m \in 1..ch.n : /\ m = Ceil(ch.tk, ch.n) /\ s + m <= SlotCount
                            /\ (m = ch.n \/ s + m = SlotCount)
  BY <1>b, <1>2
<1>4. \A j \in 0..(m - 1) : Slot(ch.tk + j) = s + j
  <2>1. ASSUME NEW j \in 0..(m - 1)
        PROVE  Slot(ch.tk + j) = s + j
    <3>1. j \in Nat /\ Slot(ch.tk) + j < SlotCount
      BY <1>1, <1>2, <1>3
    <3> QED BY <3>1, <1>1, <1>2, SlotPlus
  <2> QED BY <2>1
<1>5. Mem(ch) = s..(s + ch.n - 1)
  BY <1>2 DEF Mem
<1>6. \A i \in Slots : i \in Mem(ch) <=> \E j \in 0..(m - 1) : i = s + j
  <2>1. ASSUME NEW i \in Slots, i \in Mem(ch)
        PROVE  \E j \in 0..(m - 1) : i = s + j
    <3>1. i - s \in 0..(m - 1) /\ i = s + (i - s)
      BY <2>1, <1>1, <1>2, <1>3, <1>5, SMTT(30)
    <3> QED BY <3>1
  <2>2. ASSUME NEW i \in Slots, NEW j \in 0..(m - 1), i = s + j
        PROVE  i \in Mem(ch)
    BY <2>2, <1>1, <1>2, <1>3, <1>5, SMTT(30)
  <2> QED BY <2>1, <2>2
<1>7. ASSUME NEW i \in Slots
      PROVE  i \in Interior(ch) <=> \E j \in 1..(m - 1) : i = s + j
  <2>1. ASSUME i \in Interior(ch)
        PROVE  \E j \in 1..(m - 1) : i = s + j
    <3>1. i \in Slots /\ i \in Mem(ch) /\ i # s
      BY <2>1, <1>2 DEF Interior
    <3>2. PICK j \in 0..(m - 1) : i = s + j
      BY <3>1, <1>6
    <3>3. j # 0
      BY <3>1, <3>2
    <3> QED BY <3>2, <3>3
  <2>2. ASSUME NEW j \in 1..(m - 1), i = s + j
        PROVE  i \in Interior(ch)
    <3>1. i \in Slots /\ j \in 0..(m - 1) /\ i # s
      BY <2>2, <1>1, <1>2, <1>3
    <3>2. i \in Mem(ch)
      BY <3>1, <2>2, <1>6
    <3> QED BY <3>1, <3>2, <1>2 DEF Interior
  <2> QED BY <2>1, <2>2
<1>8. \A i \in Mem(ch) : i \in Slots \/ SlotCount - 1 \in Mem(ch)
  BY <1>1, <1>2, <1>5
<1>9. Slot(ch.tk) \in Mem(ch)
  BY <1>1, <1>2, <1>5
<1>10. Interior(ch) \subseteq Slots \cap Mem(ch)
  BY DEF Interior
<1>11. \A j \in 1..(m - 1) : j \in 0..(m - 1)
  OBVIOUS
<1>12. \A i \in Slots : i \in Mem(ch) <=>
         \E j \in 0..(Ceil(ch.tk, ch.n) - 1) :
           i = Slot(ch.tk) + j /\ i = Slot(ch.tk + j)
  <2>1. \A i : \A j \in 0..(m - 1) : i = s + j =>
          i = Slot(ch.tk) + j /\ i = Slot(ch.tk + j)
    BY <1>2, <1>4
  <2>2. \A i : \A j \in 0..(m - 1) : i = Slot(ch.tk) + j => i = s + j
    BY <1>2
  <2>3. \A i \in Slots : i \in Mem(ch) <=>
           \E j \in 0..(m - 1) : i = Slot(ch.tk) + j /\ i = Slot(ch.tk + j)
    BY ONLY <2>1, <2>2, <1>6, ZenonT(30)
  <2> QED BY ONLY <2>3, <1>3
<1>13. \A i \in Slots : i \in Interior(ch) <=>
         \E j \in 1..(Ceil(ch.tk, ch.n) - 1) :
           i = Slot(ch.tk) + j /\ i = Slot(ch.tk + j)
  <2>1. \A i : \A j \in 1..(m - 1) : i = s + j =>
          i = Slot(ch.tk) + j /\ i = Slot(ch.tk + j)
    BY <1>2, <1>4, <1>11
  <2>2. \A i : \A j \in 1..(m - 1) : i = Slot(ch.tk) + j => i = s + j
    BY <1>2
  <2>3. \A i \in Slots : i \in Interior(ch) <=>
           \E j \in 1..(m - 1) : i = Slot(ch.tk) + j /\ i = Slot(ch.tk + j)
    <3>1. \A i \in Slots : i \in Interior(ch) <=> \E j \in 1..(m - 1) : i = s + j
      BY <1>7
    <3> QED BY ONLY <2>1, <2>2, <3>1, ZenonT(30)
  <2> QED BY ONLY <2>3, <1>3
<1>14. /\ Ceil(ch.tk, ch.n) \in 1..ch.n /\ Ceil(ch.tk, ch.n) \in Nat
       /\ Ceil(ch.tk, ch.n) >= 1 /\ Ceil(ch.tk, ch.n) < SlotCount
  <2>1. m \in 1..ch.n /\ m \in Nat /\ m >= 1 /\ m < SlotCount
    BY <1>1
  <2> QED BY <2>1, <1>3
<1>15. Slot(ch.tk) \in Slots
  BY <1>1, <1>a
<1> QED BY <1>1, <1>8, <1>9, <1>10, <1>12, <1>13, <1>14, <1>15

(* No chunk's memory ends past the tail of the array.                      *)
LEMMA MemInside ==
  ASSUME NEW ch \in Chunk
  PROVE  Mem(ch) \subseteq Memory
<1>1. /\ ch.tk \in Int /\ ch.n \in Nat /\ ch.n <= SlotMax
      /\ SlotCount \in Nat /\ SlotMax \in Nat
  BY ChunkIs, Sizes
<1>2. Slot(ch.tk) \in 0..(SlotCount - 1)
  BY <1>1, SlotRange, Zenon
<1>3. PICK s \in 0..(SlotCount - 1) : s = Slot(ch.tk)
  BY <1>2
<1>4. \A i \in s..(s + ch.n - 1) : i \in 0..(SlotCount + SlotMax - 2)
  BY <1>1
<1> QED BY <1>3, <1>4 DEF Mem, Memory

(* A slot of a held chunk comes up again a lap after the chunk's ticket.   *)
LEMMA Above ==
  ASSUME NEW h \in Chunk, NEW P \in Nat,
         h.tk + Ceil(h.tk, h.n) <= P, P <= h.tk + SlotCount,
         NEW k \in Int, P <= k, k < P + SlotCount, Slot(k) \in Mem(h)
  PROVE  \E j \in 0..(Ceil(h.tk, h.n) - 1) :
           k = h.tk + j + SlotCount /\ Slot(k) = Slot(h.tk) + j
<1>1. h.tk \in Nat /\ h.n \in Nat /\ h.n >= 1 /\ SlotCount \in Nat
      /\ Ceil(h.tk, h.n) \in Nat
  BY MemHas, Sizes
<1>2. Slot(k) \in Slots
  BY SlotRange
<1>3. PICK j \in 0..(Ceil(h.tk, h.n) - 1) :
        Slot(k) = Slot(h.tk) + j /\ Slot(k) = Slot(h.tk + j)
  BY <1>2, MemHas
<1>4. PICK e \in Int : e = h.tk + j + SlotCount
  BY <1>1
<1>5. Slot(e) = Slot(k)
  <2>1. h.tk + j \in Int /\ e = (h.tk + j) + SlotCount
    BY <1>1, <1>4
  <2> QED BY <2>1, <1>3, SlotLap
<1>6. k - e < SlotCount /\ e - k < SlotCount
  BY <1>1, <1>4
<1>7. k = e
  BY <1>5, <1>6, SlotOnce
<1> QED BY <1>3, <1>4, <1>7

---------------------------------------------------------------------------
(* What the invariant says of the chunks held.                             *)

LEMMA HeldAre ==
  ASSUME Inv
  PROVE  /\ tkt["push"] \in Nat /\ tkt["pop"] \in Nat
         /\ Held \subseteq Chunk /\ live \subseteq Held
         /\ \A c \in Consumers : pc[c] = "free" => own[c] \in Held
         /\ \A t \in Threads : own[t] # NoChunk => own[t] \in Held
         /\ NoChunk \notin Held
<1>1. tkt["push"] \in Nat /\ tkt["pop"] \in Nat
  BY DEF Inv, TypeOK, Sides
<1>2. \A t \in Threads : own[t] # NoChunk =>
        own[t] \in Chunk /\ (Using(t) \/ (t \in Consumers /\ pc[t] = "free"))
  BY DEF Inv, TypeOK, PlaceOK, Using
<1>3. \A c \in Consumers : pc[c] = "free" =>
        own[c] \in Held /\ own[c] \in Chunk
  <2>1. \A c \in Consumers : pc[c] = "free" => own[c] # NoChunk
    BY Classes DEF Inv, PlaceOK
  <2> QED BY <2>1, <1>2, Classes DEF Held
<1>4. live \subseteq Held /\ live \subseteq Chunk
  BY DEF Held, Inv, TypeOK
<1>5. Held \subseteq Chunk
  BY <1>3, <1>4 DEF Held
<1>6. \A t \in Threads : own[t] # NoChunk => own[t] \in Held
  BY <1>2, <1>3, <1>4 DEF Inv, OwnersOK
<1> QED BY <1>1, <1>3, <1>4, <1>5, <1>6, Sizes

(* Slots that hold the versions of the next tickets are free, up to the    *)
(* first chunk that is still held; the next slot then holds a version.     *)
LEMMA FreeRun ==
  ASSUME Inv, NEW m \in Nat, m <= SlotCount,
         \A j \in 0..(m - 1) : ver[Slot(tkt["push"] + j)] = tkt["push"] + j
  PROVE  /\ \A h \in Held : /\ tkt["push"] + m <= h.tk + SlotCount
                            /\ \A j \in 0..(m - 1) :
                                 Slot(tkt["push"] + j) \notin Mem(h)
         /\ m < SlotCount => ver[Slot(tkt["push"] + m)] # Junk
<1>1. PICK P \in Nat : P = tkt["push"]
  BY HeldAre
<1>2. \A j \in 0..(m - 1) : ver[Slot(P + j)] = P + j
  BY <1>1
<1>3. ASSUME NEW h \in Held
      PROVE  /\ h \in Chunk /\ h.tk + Ceil(h.tk, h.n) <= P
             /\ P <= h.tk + SlotCount
             /\ ver[Slot(h.tk)] \in {h.tk, h.tk + h.n}
             /\ h.tk \in Nat /\ h.n \in Nat /\ h.n < SlotCount
             /\ Ceil(h.tk, h.n) \in Nat
  <2>1. h \in Chunk
    BY <1>3, HeldAre
  <2>2. h.tk \in Nat /\ h.n \in Nat /\ h.n < SlotCount /\ h.n >= 1
    BY <2>1, MemHas
  <2>3. Ceil(h.tk, h.n) \in Nat
    BY <2>1, MemHas
  <2> QED BY <2>1, <2>2, <2>3, <1>1, <1>3 DEF Inv, HeldOK
<1>4. SlotCount \in Nat
  BY Sizes
<1>5. ASSUME NEW h \in Held
      PROVE  P + m <= h.tk + SlotCount
  <2>1. SUFFICES ASSUME ~(P + m <= h.tk + SlotCount) PROVE FALSE
    OBVIOUS
  <2>2. PICK k \in Nat : k = h.tk
    BY <1>3, <1>5
  <2>3. PICK j \in 0..(m - 1) : j = k + SlotCount - P
    BY <1>3, <1>4, <1>5, <2>1, <2>2
  <2>4. P + j = k + SlotCount
    BY <1>4, <2>3
  <2>5. ver[Slot(k + SlotCount)] = k + SlotCount
    BY <1>2, <2>4
  <2>6. Slot(k + SlotCount) = Slot(k)
    BY SlotLap
  <2>7. ver[Slot(k)] \in {k, k + h.n}
    BY <1>3, <1>5, <2>2
  <2> QED BY <1>3, <1>4, <1>5, <2>2, <2>5, <2>6, <2>7, Sizes
<1>6. ASSUME NEW h \in Held, NEW j \in 0..(m - 1)
      PROVE  Slot(P + j) \notin Mem(h)
  <2>1. SUFFICES ASSUME Slot(P + j) \in Mem(h) PROVE FALSE
    OBVIOUS
  <2>2. /\ P + j \in Int /\ P <= P + j /\ P + j < P + SlotCount
    BY <1>4
  <2>3. PICK i \in 0..(Ceil(h.tk, h.n) - 1) : P + j = h.tk + i + SlotCount
    BY <1>3, <1>6, <2>1, <2>2, Above
  <2> QED BY <1>3, <1>4, <1>5, <1>6, <2>3
<1>7. ASSUME m < SlotCount, ver[Slot(P + m)] = Junk
      PROVE  FALSE
  <2>1. P + m \in Int /\ P <= P + m /\ P + m < P + SlotCount
    BY <1>4, <1>7
  <2>2. Slot(P + m) \in Slots
    BY <2>1, SlotRange
  <2>3. Covered(Slot(P + m))
    BY <2>2, <1>7 DEF Inv, VersionsOK
  <2>4. PICK h \in Held : Slot(P + m) \in Interior(h)
    BY <2>3, HeldAre DEF Covered
  <2>5. Slot(P + m) \in Mem(h) /\ Slot(P + m) # Slot(h.tk)
    BY <2>4 DEF Interior
  <2>6. PICK i \in 0..(Ceil(h.tk, h.n) - 1) :
          P + m = h.tk + i + SlotCount /\ Slot(P + m) = Slot(h.tk) + i
    BY <1>3, <2>1, <2>5, Above
  <2>7. i = 0
    BY <1>3, <1>4, <1>5, <2>6
  <2>8. Slot(h.tk) \in Int
    BY <1>3, SlotRange
  <2> QED BY <2>5, <2>6, <2>7, <2>8
<1> QED BY <1>1, <1>5, <1>6, <1>7

---------------------------------------------------------------------------
(* Steps that only move one thread.                                        *)

LocalsOK ==
  /\ pc \in [Threads -> Places]
  /\ now \in [Threads -> Nat \cup {None}] /\ sg \in [Threads -> Sigs]
  /\ arg \in [Threads -> Call]
  /\ at \in [Threads -> 0..SlotCount]
  /\ own \in [Threads -> Chunk \cup {NoChunk}]
  /\ res \in [Threads -> Results]

Same(u) == /\ pc'[u] = pc[u] /\ now'[u] = now[u] /\ arg'[u] = arg[u]
           /\ at'[u] = at[u] /\ own'[u] = own[u]

OnlyMoves(t) == \A u \in Threads \ {t} : Same(u)

LEMMA Returned ==
  ASSUME TypeOK, NEW t \in Threads, NEW why \in Results, Return(t, why)
  PROVE  LocalsOK' /\ OnlyMoves(t) /\ pc'[t] = "idle" /\ own'[t] = NoChunk
<1>1. /\ 0 \in Sigs /\ 0 \in 0..SlotCount /\ "idle" \in Places
      /\ NoCall \in Call
  BY Sizes DEF Places, NoCall, Call, Sigs
<1>2. /\ pc' \in [Threads -> Places] /\ now' \in [Threads -> Nat \cup {None}]
      /\ sg' \in [Threads -> Sigs] /\ arg' \in [Threads -> Call]
      /\ at' \in [Threads -> 0..SlotCount]
      /\ own' \in [Threads -> Chunk \cup {NoChunk}]
      /\ res' \in [Threads -> Results]
  BY <1>1 DEF TypeOK, Return
<1>3. OnlyMoves(t) /\ pc'[t] = "idle" /\ own'[t] = NoChunk
  BY DEF TypeOK, Return, OnlyMoves, Same
<1> QED BY <1>2, <1>3 DEF LocalsOK

LEMMA LoadedIs ==
  ASSUME TypeOK, NEW t \in Threads, NEW a \in Call, Loaded(t, a),
         own[t] = NoChunk
  PROVE  /\ LocalsOK' /\ OnlyMoves(t) /\ own'[t] = NoChunk
         /\ \/ pc'[t] = "idle"
            \/ pc'[t] = "head" /\ now'[t] = tkt[Side(t)]
<1>1. CASE sig[Side(t)] \in a.fallback
  <2>1. Return(t, "preconditions") /\ "preconditions" \in Results
    BY <1>1 DEF Loaded, Results
  <2> QED BY <2>1, Returned
<1>2. CASE sig[Side(t)] \notin a.fallback
  <2>1. /\ Side(t) \in Sides /\ "head" \in Places /\ "ok" \in Results
        /\ 0 \in 0..SlotCount
    BY Sizes DEF Side, Sides, Places, Results
  <2>2. /\ pc' = [pc EXCEPT ![t] = "head"]
        /\ now' = [now EXCEPT ![t] = tkt[Side(t)]]
        /\ sg' = [sg EXCEPT ![t] = sig[Side(t)]]
        /\ arg' = [arg EXCEPT ![t] = a]
        /\ at' = [at EXCEPT ![t] = 0]
        /\ res' = [res EXCEPT ![t] = "ok"]
        /\ own' = own
    BY <1>2 DEF Loaded, Goto
  <2>3. LocalsOK'
    BY <2>1, <2>2 DEF TypeOK, LocalsOK
  <2> QED BY <2>2, <2>3 DEF TypeOK, OnlyMoves, Same
<1> QED BY <1>1, <1>2

(* A thread that moves nothing but the words does not disturb the others.  *)
LEMMA PlaceStays ==
  ASSUME NEW u \in Threads, PlaceOK(u), Same(u), use' = use,
         tkt' \in [Sides -> Nat], TypeOK,
         \A s \in Sides : tkt[s] <= tkt'[s]
  PROVE  PlaceOK(u)'
<1>1. Side(u) \in Sides
  BY DEF Side, Sides
<1>2. tkt[Side(u)] \in Nat /\ tkt'[Side(u)] \in Nat
      /\ tkt[Side(u)] <= tkt'[Side(u)]
  BY <1>1 DEF TypeOK
<1>3. now[u] \in Nat /\ now[u] <= tkt[Side(u)] => now[u] <= tkt'[Side(u)]
  BY <1>2
<1> QED BY <1>3 DEF PlaceOK, Same

LEMMA LocalStep ==
  ASSUME Inv, NEW t \in Threads, UNCHANGED shared, LocalsOK', OnlyMoves(t),
         own[t] = NoChunk, own'[t] = NoChunk, PlaceOK(t)', CheckOK(t)'
  PROVE  Inv'
<1>1. /\ use' = use /\ tkt' = tkt /\ sig' = sig /\ ver' = ver /\ data' = data
      /\ live' = live
  BY DEF shared
<1>2. TypeOK'
  BY <1>1 DEF Inv, TypeOK, LocalsOK
<1>3. \A u \in Threads : own'[u] = own[u] /\ (u # t => Same(u))
  BY DEF OnlyMoves, Same
<1>4. \A u \in Threads : PlaceOK(u)'
  <2>1. ASSUME NEW u \in Threads, u # t
        PROVE  PlaceOK(u)'
    <3>1. \A s \in Sides : tkt[s] <= tkt'[s]
      BY <1>1 DEF Inv, TypeOK
    <3> QED BY <2>1, <3>1, <1>1, <1>2, <1>3, PlaceStays DEF Inv, TypeOK
  <2> QED BY <2>1
<1>5. \A u \in Threads : CheckOK(u)'
  <2>1. ASSUME NEW u \in Threads, u # t
        PROVE  CheckOK(u)'
    BY <2>1, <1>1, <1>3 DEF Inv, CheckOK, Same
  <2> QED BY <2>1
<1>6. /\ pc[t] \notin {"own", "used", "got", "free"}
      /\ pc'[t] \notin {"own", "used", "got", "free"}
  BY DEF Inv, PlaceOK
<1>7. /\ \A u \in Threads : Using(u)' <=> Using(u)
      /\ \A p \in Producers : Open(p)' <=> Open(p)
      /\ \A u \in Threads : pc'[u] = "free" <=> pc[u] = "free"
      /\ \A u \in Threads : pc[u] = "free" => u # t
      /\ \A u \in Threads : pc'[u] = "used" <=> pc[u] = "used"
  BY <1>3, <1>6, Classes DEF Using, Open, Same
<1>8. Held' = Held
  BY <1>1, <1>3, <1>7, Classes DEF Held
<1>9. HeldOK'
  BY <1>1, <1>3, <1>7, <1>8, Classes DEF Inv, HeldOK
<1>10. OwnersOK'
  BY <1>1, <1>3, <1>7, Classes DEF Inv, OwnersOK
<1>11. \A c \in Consumers : FreeOK(c)'
  BY <1>1, <1>3, <1>7, Classes DEF Inv, FreeOK, Same
<1>12. \A i \in Slots : Covered(i) => Covered(i)'
  BY <1>1, <1>3, <1>7, Classes DEF Covered, Same
<1>13. VersionsOK'
  BY <1>1, <1>8, <1>12 DEF Inv, VersionsOK
<1>14. DataOK'
  BY <1>1, <1>3, <1>7, Classes DEF Inv, DataOK
<1>15. QueueOK'
  BY <1>1 DEF Inv, QueueOK
<1> QED BY <1>2, <1>4, <1>5, <1>9, <1>10, <1>11, <1>13, <1>14, <1>15 DEF Inv

(* Back to the start of the loop, or out of it.                            *)
LEMMA LoadStep ==
  ASSUME Inv, NEW t \in Producers \cup Consumers, NEW a \in Call,
         Loaded(t, a), UNCHANGED shared, own[t] = NoChunk,
         t \in Consumers => use = "queue"
  PROVE  Inv'
<1>1. t \in Threads /\ TypeOK
  BY DEF Threads, Inv
<1>2. /\ LocalsOK' /\ OnlyMoves(t) /\ own'[t] = NoChunk
      /\ \/ pc'[t] = "idle"
         \/ pc'[t] = "head" /\ now'[t] = tkt[Side(t)]
  BY <1>1, LoadedIs
<1>3. use' = use /\ tkt' = tkt /\ tkt[Side(t)] \in Nat
  BY DEF shared, Inv, TypeOK, Side, Sides
<1>4. PlaceOK(t)'
  BY <1>2, <1>3 DEF PlaceOK
<1>5. CheckOK(t)'
  BY <1>2 DEF CheckOK
<1> QED BY <1>1, <1>2, <1>4, <1>5, LocalStep

LEMMA ReturnStep ==
  ASSUME Inv, NEW t \in Threads, NEW why \in Results, Return(t, why),
         UNCHANGED shared, own[t] = NoChunk
  PROVE  Inv'
<1>1. TypeOK
  BY DEF Inv
<1>2. LocalsOK' /\ OnlyMoves(t) /\ pc'[t] = "idle" /\ own'[t] = NoChunk
  BY <1>1, Returned
<1>3. PlaceOK(t)' /\ CheckOK(t)'
  BY <1>2 DEF PlaceOK, CheckOK
<1> QED BY <1>2, <1>3, LocalStep

LEMMA LoopStep ==
  ASSUME Inv, NEW t \in Producers \cup Consumers, Loop(t)
  PROVE  Inv'
<1>1. t \in Threads
  BY DEF Threads
<1>2. arg[t] \in Call /\ (pc[t] \in {"idle", "reload", "cas"} => own[t] = NoChunk)
  BY <1>1 DEF Inv, TypeOK, PlaceOK
<1>3. ASSUME NEW a \in Calls[use], Prepare(t, a)
      PROVE  Inv'
  <2>1. a \in Call
    BY <1>3, PoolAssumption DEF PoolAssumption, Inv, TypeOK
  <2>2. Loaded(t, a) /\ UNCHANGED shared /\ own[t] = NoChunk
        /\ (t \in Consumers => use = "queue")
    BY <1>2, <1>3 DEF Prepare
  <2> QED BY <2>1, <2>2, LoadStep
<1>4. CASE Reload(t)
  <2>1. Loaded(t, arg[t]) /\ UNCHANGED shared /\ own[t] = NoChunk
        /\ (t \in Consumers => use = "queue")
    BY <1>1, <1>2, <1>4 DEF Reload, Inv, PlaceOK
  <2> QED BY <2>1, <1>2, LoadStep
<1>5. CASE CasFails(t)
  <2>1. Loaded(t, arg[t]) /\ UNCHANGED shared /\ own[t] = NoChunk
        /\ (t \in Consumers => use = "queue")
    BY <1>1, <1>2, <1>5 DEF CasFails, Inv, PlaceOK
  <2> QED BY <2>1, <1>2, LoadStep
<1> QED BY <1>3, <1>4, <1>5 DEF Loop

LEMMA RecheckStep ==
  ASSUME Inv, NEW p \in Producers, Recheck(p)
  PROVE  Inv'
<1>1. p \in Threads /\ p \in Producers \cup Consumers /\ p \notin Consumers
  BY Classes
<1>2. arg[p] \in Call /\ own[p] = NoChunk /\ UNCHANGED shared
  BY <1>1 DEF Inv, TypeOK, PlaceOK, Recheck
<1>3. CASE Return(p, "would_overflow")
  BY <1>1, <1>2, <1>3, ReturnStep DEF Results
<1>4. CASE Loaded(p, arg[p])
  BY <1>1, <1>2, <1>4, LoadStep
<1> QED BY <1>3, <1>4 DEF Recheck

(* What a thread reads off a version, before the wrap.                     *)
LEMMA DiffIs ==
  ASSUME Inv, BelowWrap, NEW i \in Slots, ver[i] # Junk,
         NEW k \in Nat, k < tkt["push"] + SlotCount,
         NEW diff \in Diffs(ver[i], k)
  PROVE  diff = ver[i] - k /\ ver[i] \in Nat
<1>1. ver[i] \in Nat /\ tkt["push"] \in Nat /\ SlotCount \in Nat /\ TicketMod \in Nat
  BY Sizes, HeldAre DEF Inv, TypeOK
<1>2. ver[i] < TicketMod /\ k < TicketMod
  BY <1>1 DEF BelowWrap, Inv, VersionsOK
<1>3. Tk(ver[i]) = ver[i] /\ Tk(k) = k
  BY <1>1, <1>2, TicketSeen
<1> QED BY <1>1, <1>3 DEF Diffs

(* The slot a producer finds free, after those it has found free already.  *)
LEMMA FindsFree ==
  ASSUME Inv, BelowWrap, NEW m \in Nat, m < SlotCount,
         \A j \in 0..(m - 1) : ver[Slot(tkt["push"] + j)] = tkt["push"] + j,
         0 \in Diffs(ver[Slot(tkt["push"] + m)], tkt["push"] + m)
  PROVE  \A j \in 0..m : ver[Slot(tkt["push"] + j)] = tkt["push"] + j
<1>1. PICK P \in Nat : P = tkt["push"]
  BY HeldAre
<1>2. SlotCount \in Nat
  BY Sizes
<1>3. P + m \in Nat /\ P + m < P + SlotCount /\ P + m \in Int
  BY <1>2
<1>4. ver[Slot(P + m)] # Junk
  BY <1>1, <1>2, FreeRun
<1>5. Slot(P + m) \in Slots
  BY <1>3, SlotRange
<1>6. PICK v : v = ver[Slot(P + m)]
  OBVIOUS
<1>7. 0 = v - (P + m) /\ v \in Nat
  BY <1>1, <1>3, <1>4, <1>5, <1>6, DiffIs
<1>8. ver[Slot(P + m)] = P + m
  BY <1>3, <1>6, <1>7
<1>9. \A j \in 0..m : j \in 0..(m - 1) \/ j = m
  OBVIOUS
<1> QED BY <1>1, <1>8, <1>9

(* A thread that goes to a place inside the loop.                          *)
LEMMA GotoStep ==
  ASSUME Inv, NEW t \in Threads,
         NEW spot \in {"reload", "tail", "recheck", "cas"},
         NEW i \in 0..SlotCount,
         Goto(t, spot), at' = [at EXCEPT ![t] = i],
         UNCHANGED <<shared, now, sg, arg, own, res>>,
         own[t] = NoChunk, PlaceOK(t)', CheckOK(t)'
  PROVE  Inv'
<1>1. pc' = [pc EXCEPT ![t] = spot] /\ now' = now /\ sg' = sg /\ arg' = arg
      /\ own' = own /\ res' = res
  BY DEF Goto
<1>2. spot \in Places
  BY DEF Places
<1>3. LocalsOK'
  BY <1>1, <1>2 DEF Inv, TypeOK, LocalsOK
<1>4. OnlyMoves(t) /\ own'[t] = NoChunk
  BY <1>1 DEF OnlyMoves, Same, Inv, TypeOK
<1> QED BY <1>3, <1>4, LocalStep

LEMMA CheckHeadStep ==
  ASSUME Inv, BelowWrap, NEW p \in Producers, CheckHead(p)
  PROVE  Inv'
<1>1. p \in Threads /\ p \notin Consumers
  BY Classes
<1>2. /\ pc[p] = "head" /\ UNCHANGED shared
      /\ now[p] \in Nat /\ now[p] <= tkt["push"] /\ own[p] = NoChunk
      /\ arg[p] \in Call /\ at[p] \in 0..SlotCount
  BY <1>1 DEF CheckHead, Inv, TypeOK, PlaceOK, Side
<1>3. PICK diff \in Diffs(ver[Slot(now[p])], now[p]) :
        \/ diff < 0 /\ Return(p, "would_overflow")
        \/ diff > 0 /\ Goto(p, "reload") /\ UNCHANGED <<now, sg, arg, at, own, res>>
        \/ /\ diff = 0
           /\ at' = [at EXCEPT ![p] = 1]
           /\ Goto(p, IF Ceil(now[p], arg[p].slots) = 1 THEN "cas" ELSE "tail")
           /\ UNCHANGED <<now, sg, arg, own, res>>
  BY DEF CheckHead
<1>4. CASE Return(p, "would_overflow")
  BY <1>1, <1>2, <1>4, ReturnStep DEF Results
<1>5. CASE Goto(p, "reload") /\ UNCHANGED <<now, sg, arg, at, own, res>>
  <2>1. pc'[p] = "reload" /\ own'[p] = NoChunk
    BY <1>1, <1>2, <1>5 DEF Goto, Inv, TypeOK
  <2>2. PlaceOK(p)' /\ CheckOK(p)'
    BY <1>1, <2>1 DEF PlaceOK, CheckOK
  <2>3. at' = [at EXCEPT ![p] = at[p]]
    BY <1>1, <1>5 DEF Inv, TypeOK
  <2> QED BY <1>1, <1>2, <1>5, <2>2, <2>3, GotoStep
<1>6. CASE /\ diff = 0
           /\ at' = [at EXCEPT ![p] = 1]
           /\ Goto(p, IF Ceil(now[p], arg[p].slots) = 1 THEN "cas" ELSE "tail")
           /\ UNCHANGED <<now, sg, arg, own, res>>
  <2>1. PICK n \in 1..SlotMax : n = arg[p].slots
    BY <1>2 DEF Call
  <2>2. PICK k \in Nat : k = now[p]
    BY <1>2
  <2>3. PICK m \in Nat : m = Ceil(k, n) /\ m >= 1
    BY CeilIs
  <2>4. PICK spot \in {"cas", "tail"} :
          spot = IF m = 1 THEN "cas" ELSE "tail"
    OBVIOUS
  <2>5. /\ Goto(p, spot) /\ at'[p] = 1 /\ pc'[p] = spot
        /\ own'[p] = NoChunk /\ now'[p] = k /\ arg'[p].slots = n
    BY <1>1, <1>2, <1>6, <2>1, <2>2, <2>3, <2>4 DEF Goto, Inv, TypeOK
  <2>6. use' = use /\ tkt' = tkt /\ ver' = ver
    BY <1>2 DEF shared
  <2>7. PlaceOK(p)'
    <3>1. pc'[p] = "tail" => at'[p] \in 1..(Ceil(k, n) - 1)
      BY <2>3, <2>4, <2>5
    <3>2. pc'[p] = "cas" => at'[p] = Ceil(k, n)
      BY <2>3, <2>4, <2>5
    <3> QED BY <1>1, <1>2, <2>2, <2>5, <2>6, <3>1, <3>2 DEF PlaceOK, Side
  <2>8. ASSUME k = tkt["push"]
        PROVE  \A j \in 0..0 : ver[Slot(k + j)] = k + j
    <3>1. 0 \in Diffs(ver[Slot(k)], k) /\ k + 0 = k
      BY <1>3, <1>6, <2>2
    <3>2. 0 \in Nat /\ 0 < SlotCount /\ 0..(0 - 1) = {}
      BY Sizes
    <3> QED BY <2>8, <3>1, <3>2, FindsFree
  <2>9. CheckOK(p)'
    <3>1. 0..(1 - 1) = 0..0
      OBVIOUS
    <3> QED BY <1>1, <2>5, <2>6, <2>8, <3>1 DEF CheckOK
  <2>10. 1 \in 0..SlotCount
    BY Sizes
  <2> QED BY <1>1, <1>2, <1>6, <2>4, <2>5, <2>7, <2>9, <2>10, GotoStep
<1> QED BY <1>3, <1>4, <1>5, <1>6

LEMMA CheckTailStep ==
  ASSUME Inv, BelowWrap, NEW p \in Producers, CheckTail(p)
  PROVE  Inv'
<1>1. p \in Threads /\ p \notin Consumers
  BY Classes
<1>2. /\ pc[p] = "tail" /\ UNCHANGED <<shared, now, sg, arg, own, res>>
      /\ now[p] \in Nat /\ now[p] <= tkt["push"] /\ own[p] = NoChunk
      /\ arg[p] \in Call /\ at[p] \in 1..(Ceil(now[p], arg[p].slots) - 1)
  BY <1>1 DEF CheckTail, Inv, TypeOK, PlaceOK, Side
<1>3. PICK n \in 1..SlotMax : n = arg[p].slots
  BY <1>2 DEF Call
<1>4. PICK k \in Nat : k = now[p]
  BY <1>2
<1>5. PICK m \in Nat : m = Ceil(k, n) /\ m < SlotCount
  BY CeilIs
<1>6. PICK i \in 1..(m - 1) : i = at[p]
  BY <1>2, <1>3, <1>4, <1>5
<1>7. PICK diff \in Diffs(ver[Slot(k + i)], k + i) :
        IF diff # 0
          THEN Goto(p, "recheck") /\ UNCHANGED at
          ELSE /\ at' = [at EXCEPT ![p] = @ + 1]
               /\ Goto(p, IF i + 1 = m THEN "cas" ELSE "tail")
  BY <1>3, <1>4, <1>5, <1>6 DEF CheckTail
<1>8. use' = use /\ tkt' = tkt /\ ver' = ver /\ now'[p] = k /\ arg'[p].slots = n
      /\ own'[p] = NoChunk
  BY <1>2, <1>3, <1>4 DEF shared
<1>9. CASE diff # 0
  <2>1. Goto(p, "recheck") /\ at' = at
    BY <1>7, <1>9
  <2>2. pc'[p] = "recheck" /\ at' = [at EXCEPT ![p] = at[p]] /\ at[p] \in 0..SlotCount
    BY <1>1, <2>1 DEF Goto, Inv, TypeOK
  <2>3. PlaceOK(p)' /\ CheckOK(p)'
    BY <1>1, <1>2, <1>4, <1>8, <2>2 DEF PlaceOK, CheckOK, Side
  <2> QED BY <1>1, <1>2, <2>1, <2>2, <2>3, GotoStep
<1>10. CASE diff = 0
  <2>1. PICK spot \in {"cas", "tail"} :
          spot = IF i + 1 = m THEN "cas" ELSE "tail"
    OBVIOUS
  <2>2. Goto(p, spot) /\ at' = [at EXCEPT ![p] = i + 1]
    BY <1>6, <1>7, <1>10, <2>1
  <2>3. pc'[p] = spot /\ at'[p] = i + 1
    BY <1>1, <2>2 DEF Goto, Inv, TypeOK
  <2>4. i \in Nat /\ i < SlotCount /\ i + 1 \in 0..SlotCount /\ i + 1 <= m
    BY <1>5, Sizes
  <2>5. PlaceOK(p)'
    <3>1. spot = "tail" => i + 1 \in 1..(Ceil(k, n) - 1)
      BY <1>5, <2>1, <2>4
    <3>2. spot = "cas" => i + 1 = Ceil(k, n)
      BY <1>5, <2>1
    <3> QED BY <1>1, <1>2, <1>4, <1>8, <2>3, <3>1, <3>2 DEF PlaceOK, Side
  <2>6. ASSUME k = tkt["push"]
        PROVE  \A j \in 0..i : ver[Slot(k + j)] = k + j
    <3>1. \A j \in 0..(i - 1) : ver[Slot(k + j)] = k + j
      BY <1>1, <1>2, <1>4, <1>6, <2>6 DEF Inv, CheckOK
    <3>2. 0 \in Diffs(ver[Slot(k + i)], k + i)
      BY <1>7, <1>10
    <3> QED BY <2>4, <2>6, <3>1, <3>2, FindsFree
  <2>7. CheckOK(p)'
    <3>1. 0..((i + 1) - 1) = 0..i
      BY <2>4
    <3> QED BY <1>1, <1>8, <2>3, <2>6, <3>1 DEF CheckOK
  <2> QED BY <1>1, <1>2, <2>2, <2>4, <2>5, <2>7, GotoStep
<1> QED BY <1>9, <1>10

(* What a consumer whose word is current finds is a chunk, all of it.      *)
LEMMA FindsChunk ==
  ASSUME Inv, BelowWrap, use = "queue",
         NEW diff \in Diffs(ver[Slot(tkt["pop"])], tkt["pop"]),
         diff \in 1..(SlotCount - 1)
  PROVE  /\ [tk |-> tkt["pop"], n |-> diff] \in live
         /\ ver[Slot(tkt["pop"])] = tkt["pop"] + diff
<1>1. PICK P \in Nat : P = tkt["push"]
  BY HeldAre
<1>2. PICK q \in Nat : q = tkt["pop"]
  BY HeldAre
<1>3. q <= P /\ SlotCount \in Nat /\ SlotCount >= 2 /\ q \in Int
  BY <1>1, <1>2, Sizes DEF Inv, QueueOK
<1>4. Slot(q) \in Slots
  BY <1>3, SlotRange
<1>5. ASSUME ver[Slot(q)] # Junk
      PROVE  diff = ver[Slot(q)] - q /\ ver[Slot(q)] \in Nat
  <2>1. q < tkt["push"] + SlotCount
    BY <1>1, <1>3
  <2> QED BY <1>2, <1>4, <1>5, <2>1, DiffIs
<1>6. ASSUME NEW h \in Held
      PROVE  /\ h \in Chunk /\ h.tk \in Nat /\ h.n \in Nat /\ h.n < SlotCount
             /\ h.tk + Ceil(h.tk, h.n) <= P /\ P <= h.tk + SlotCount
             /\ ver[Slot(h.tk)] \in {h.tk, h.tk + h.n}
             /\ h = [tk |-> h.tk, n |-> h.n]
  <2>1. h \in Chunk
    BY <1>6, HeldAre
  <2>2. /\ h.tk + Ceil(h.tk, h.n) <= P /\ P <= h.tk + SlotCount
        /\ ver[Slot(h.tk)] \in {h.tk, h.tk + h.n}
    BY <1>1, <1>6 DEF Inv, HeldOK
  <2> QED BY <2>1, <2>2, ChunkIs
<1>7. CASE q < P
  <2>1. q \in q..(P - 1)
    BY <1>7
  <2>2. PICK ch \in live : q <= ch.tk /\ ch.tk <= q
    BY <1>1, <1>2, <2>1 DEF Inv, QueueOK
  <2>3. ch \in Held
    BY HeldAre
  <2>4. PICK n \in Nat : n = ch.n
    BY <1>6, <2>3
  <2>5. ch.tk = q
    BY <1>6, <2>2, <2>3
  <2>6. ch = [tk |-> q, n |-> n]
    BY <1>6, <2>3, <2>4, <2>5
  <2>7. ver[Slot(q)] = q \/ ver[Slot(q)] = q + n
    BY <1>6, <2>3, <2>4, <2>5
  <2>8. ver[Slot(q)] # Junk
    BY <2>7, Sizes
  <2>9. diff = ver[Slot(q)] - q
    BY <1>5, <2>8
  <2>10. diff = n /\ ver[Slot(q)] = q + n
    BY <2>7, <2>9
  <2> QED BY <1>2, <2>2, <2>6, <2>10
<1>8. CASE q = P
  <2>1. ver[Slot(P + 0)] # Junk
    BY <1>1, <1>3, FreeRun
  <2>2. ver[Slot(q)] # Junk
    BY <1>8, <2>1
  <2>3. ver[Slot(P)] > P
    BY <1>5, <1>8, <2>2
  <2>4. /\ P - SlotCount \in (P - SlotCount)..(P - 1)
        /\ (P - SlotCount) + SlotCount = P
        /\ Slot(P - SlotCount) = Slot(P)
    BY <1>3, SlotLap
  <2>5. ver[Slot(P)] = P \/ \E h \in Held : Slot(P) \in Mem(h)
    BY <1>1, <2>4 DEF Inv, VersionsOK
  <2>6. PICK h \in Held : Slot(P) \in Mem(h)
    BY <2>3, <2>5
  <2>7. PICK j \in 0..(Ceil(h.tk, h.n) - 1) :
          P = h.tk + j + SlotCount /\ Slot(P) = Slot(h.tk) + j
    BY <1>3, <1>6, <2>6, Above
  <2>8. j = 0 /\ P = h.tk + SlotCount
    BY <1>3, <1>6, <2>7
  <2>9. Slot(P) = Slot(h.tk)
    BY <1>6, <2>8, SlotLap
  <2>10. ver[Slot(P)] = h.tk \/ ver[Slot(P)] = h.tk + h.n
    BY <1>6, <2>9
  <2> QED BY <1>3, <1>6, <2>3, <2>8, <2>10
<1> QED BY <1>3, <1>7, <1>8

LEMMA CheckConsumeStep ==
  ASSUME Inv, BelowWrap, NEW c \in Consumers, CheckConsume(c)
  PROVE  Inv'
<1>1. c \in Threads /\ c \notin Producers
  BY Classes
<1>2. /\ pc[c] = "head" /\ UNCHANGED shared
      /\ now[c] \in Nat /\ now[c] <= tkt["pop"] /\ own[c] = NoChunk
      /\ use = "queue" /\ at[c] \in 0..SlotCount
  BY <1>1 DEF CheckConsume, Inv, TypeOK, PlaceOK, Side
<1>3. PICK diff \in Diffs(ver[Slot(now[c])], now[c]) :
        \/ Return(c, "empty")
        \/ Goto(c, "reload") /\ UNCHANGED <<now, sg, arg, at, own, res>>
        \/ /\ diff \in 1..(SlotCount - 1) /\ Goto(c, "cas")
           /\ at' = [at EXCEPT ![c] = diff]
           /\ UNCHANGED <<now, sg, arg, own, res>>
  BY DEF CheckConsume
<1>4. CASE Return(c, "empty")
  BY <1>1, <1>2, <1>4, ReturnStep DEF Results
<1>5. CASE Goto(c, "reload") /\ UNCHANGED <<now, sg, arg, at, own, res>>
  <2>1. pc'[c] = "reload" /\ own'[c] = NoChunk /\ use' = use
    BY <1>1, <1>2, <1>5 DEF Goto, Inv, TypeOK, shared
  <2>2. PlaceOK(c)' /\ CheckOK(c)'
    BY <1>1, <1>2, <2>1 DEF PlaceOK, CheckOK
  <2>3. at' = [at EXCEPT ![c] = at[c]]
    BY <1>1, <1>5 DEF Inv, TypeOK
  <2> QED BY <1>1, <1>2, <1>5, <2>2, <2>3, GotoStep
<1>6. CASE /\ diff \in 1..(SlotCount - 1) /\ Goto(c, "cas")
           /\ at' = [at EXCEPT ![c] = diff]
           /\ UNCHANGED <<now, sg, arg, own, res>>
  <2>1. PICK d \in 1..(SlotCount - 1) : d = diff
    BY <1>6
  <2>2. PICK k \in Nat : k = now[c]
    BY <1>2
  <2>3. /\ use' = use /\ tkt' = tkt /\ ver' = ver /\ live' = live
        /\ pc'[c] = "cas" /\ at'[c] = d /\ own'[c] = NoChunk /\ now'[c] = k
    BY <1>1, <1>2, <1>6, <2>1, <2>2 DEF Goto, Inv, TypeOK, shared
  <2>4. PlaceOK(c)'
    BY <1>1, <1>2, <2>2, <2>3 DEF PlaceOK, Side
  <2>5. k = tkt["pop"] => [tk |-> k, n |-> d] \in live /\ ver[Slot(k)] = k + d
    BY <1>2, <2>1, <2>2, FindsChunk
  <2>6. CheckOK(c)'
    BY <1>1, <2>3, <2>5 DEF CheckOK
  <2>7. d \in 0..SlotCount
    BY Sizes
  <2> QED BY <1>1, <1>2, <1>6, <2>1, <2>4, <2>6, <2>7, GotoStep
<1> QED BY <1>3, <1>4, <1>5, <1>6

---------------------------------------------------------------------------
(* Steps that take or give back chunks, or write versions.                 *)

(* Before the wrap equal words have the same ticket.                       *)
LEMMA MatchesIs ==
  ASSUME Inv, BelowWrap, NEW t \in Producers \cup Consumers, pc[t] = "cas",
         Matches(t)
  PROVE  now[t] = tkt[Side(t)]
<1>1. /\ tkt["push"] \in Nat /\ tkt["pop"] \in Nat /\ tkt["pop"] <= tkt["push"]
      /\ SlotCount \in Nat /\ SlotCount >= 2 /\ TicketMod \in Nat
  BY HeldAre, Sizes DEF Inv, QueueOK
<1>2. Side(t) \in {"push", "pop"}
  BY DEF Side
<1>3. now[t] \in Nat /\ now[t] <= tkt[Side(t)]
  BY DEF Inv, PlaceOK, Threads
<1>4. tkt[Side(t)] \in Nat /\ tkt[Side(t)] < TicketMod /\ now[t] < TicketMod
  BY <1>1, <1>2, <1>3 DEF BelowWrap
<1>5. Tk(tkt[Side(t)]) = tkt[Side(t)] /\ Tk(now[t]) = now[t]
  BY <1>3, <1>4, TicketSeen
<1> QED BY <1>5 DEF Matches

(* The facts about one held chunk the steps keep needing.                  *)
LEMMA HeldHas ==
  ASSUME Inv, NEW h \in Held
  PROVE  /\ h \in Chunk /\ h.tk \in Nat /\ h.n \in Nat /\ h.n >= 1
         /\ h.n < SlotCount /\ h # NoChunk
         /\ Ceil(h.tk, h.n) \in Nat /\ Ceil(h.tk, h.n) >= 1
         /\ Slot(h.tk) \in Slots /\ Slot(h.tk) \in Mem(h)
         /\ h.tk + Ceil(h.tk, h.n) <= tkt["push"] /\ h.tk < tkt["push"]
         /\ tkt["push"] <= h.tk + SlotCount
         /\ ver[Slot(h.tk)] \in {h.tk, h.tk + h.n} /\ ver[Slot(h.tk)] # Junk
<1>1. h \in Chunk /\ h # NoChunk /\ tkt["push"] \in Nat
  BY HeldAre, Sizes
<1>2. /\ h.tk + Ceil(h.tk, h.n) <= tkt["push"]
      /\ tkt["push"] <= h.tk + SlotCount
      /\ ver[Slot(h.tk)] \in {h.tk, h.tk + h.n}
  BY DEF Inv, HeldOK
<1>3. h.tk \in Nat /\ h.n \in Nat /\ h.n >= 1 /\ h.n < SlotCount
  BY <1>1, ChunkIs
<1>4. /\ Ceil(h.tk, h.n) \in Nat /\ Ceil(h.tk, h.n) >= 1
      /\ Slot(h.tk) \in Slots /\ Slot(h.tk) \in Mem(h)
  BY <1>1, MemHas
<1>5. h.tk < tkt["push"]
  BY <1>1, <1>2, <1>3, <1>4
<1>6. ver[Slot(h.tk)] # Junk
  <2>1. h.tk + h.n \in Nat
    BY <1>3
  <2> QED BY <1>2, <1>3, <2>1, Sizes
<1> QED BY <1>1, <1>2, <1>3, <1>4, <1>5, <1>6

LEMMA ProduceTakesStep ==
  ASSUME Inv, BelowWrap, NEW p \in Producers, ProduceTakes(p)
  PROVE  Inv'
<1>1. p \in Threads /\ p \notin Consumers
  BY Classes
<1>2. PICK P \in Nat : P = tkt["push"]
  BY HeldAre
<1>3. PICK n \in 1..SlotMax : n = arg[p].slots
  BY <1>1 DEF Inv, TypeOK, Call
<1>4. PICK ch : ch = [tk |-> P, n |-> n]
  OBVIOUS
<1>5. PICK C \in Nat : C = Ceil(P, n) /\ C >= 1 /\ C < SlotCount
  BY CeilIs
<1>6. /\ ch \in Chunk /\ ch.tk = P /\ ch.n = n /\ ch # NoChunk
  BY <1>4, Sizes DEF Chunk
<1>7. /\ pc[p] = "cas" /\ Matches(p) /\ now[p] = P /\ at[p] = C
      /\ own[p] = NoChunk
  <2>1. pc[p] = "cas" /\ Matches(p)
    BY DEF ProduceTakes, TakeWord
  <2>2. now[p] = P
    BY <1>2, <2>1, MatchesIs DEF Side
  <2> QED BY <1>1, <1>3, <1>5, <2>1, <2>2 DEF Inv, PlaceOK
<1>8. /\ tkt' = [tkt EXCEPT !["push"] = P + C]
      /\ own' = [own EXCEPT ![p] = ch]
      /\ pc' = [pc EXCEPT ![p] = "own"]
      /\ live' = live \cup {ch}
      /\ use' = use /\ ver' = ver /\ data' = data /\ now' = now /\ sg' = sg
      /\ arg' = arg /\ at' = at /\ res' = res
      /\ sig' = [sig EXCEPT !["push"] = IF arg[p].replace THEN arg[p].sig ELSE @]
  BY <1>2, <1>3, <1>4, <1>5, <1>6 DEF ProduceTakes, TakeWord, Goto, Side
<1>9. /\ tkt'["push"] = P + C /\ tkt'["pop"] = tkt["pop"]
      /\ own'[p] = ch /\ pc'[p] = "own"
      /\ \A u \in Threads \ {p} : own'[u] = own[u] /\ pc'[u] = pc[u]
      /\ \A u \in Threads \ {p} : Same(u)
  BY <1>1, <1>8 DEF Inv, TypeOK, Sides, Same
<1>10. TypeOK'
  <2>1. tkt' \in [Sides -> Nat]
    <3>1. P + C \in Nat /\ tkt \in [Sides -> Nat]
      BY DEF Inv, TypeOK
    <3> QED BY <1>8, <3>1
  <2>2. sig' \in [Sides -> Sigs]
    BY <1>1, <1>8 DEF Inv, TypeOK, Call
  <2>3. own' \in [Threads -> Chunk \cup {NoChunk}] /\ live' \subseteq Chunk
    BY <1>6, <1>8 DEF Inv, TypeOK
  <2>4. pc' \in [Threads -> Places]
    BY <1>8 DEF Inv, TypeOK, Places
  <2> QED BY <1>8, <2>1, <2>2, <2>3, <2>4 DEF Inv, TypeOK
<1>11. /\ SlotCount \in Nat /\ \A j \in 0..(C - 1) : ver[Slot(P + j)] = P + j
  BY <1>1, <1>2, <1>7, Sizes DEF Inv, CheckOK
<1>12. \A h \in Held : /\ P + C <= h.tk + SlotCount
                       /\ \A j \in 0..(C - 1) : Slot(P + j) \notin Mem(h)
  BY <1>2, <1>5, <1>11, FreeRun
<1>13. Held' = Held \cup {ch}
  <2>1. {own'[c] : c \in {d \in Consumers : pc'[d] = "free"}}
          = {own[c] : c \in {d \in Consumers : pc[d] = "free"}}
    BY <1>1, <1>9, Classes
  <2> QED BY <1>8, <2>1 DEF Held
<1>14. \A h \in Held : h # ch
  BY <1>2, <1>6, HeldHas
<1>15. \A h \in Held : Mem(h) \cap Mem(ch) = {}
  <2>1. ASSUME NEW h \in Held, NEW i \in Slots, i \in Mem(h), i \in Mem(ch)
        PROVE  FALSE
    <3>1. PICK j \in 0..(C - 1) : i = Slot(P + j)
      BY <1>5, <1>6, <2>1, MemHas
    <3> QED BY <1>12, <2>1, <3>1
  <2>2. ASSUME NEW h \in Held, NEW i \in Mem(h), i \in Mem(ch)
        PROVE  FALSE
    <3>1. h \in Chunk
      BY <2>2, HeldHas
    <3>2. (i \in Slots \/ SlotCount - 1 \in Mem(h))
          /\ (i \in Slots \/ SlotCount - 1 \in Mem(ch))
      BY <1>6, <2>2, <3>1, MemHas
    <3>3. SlotCount - 1 \in Slots
      BY Sizes
    <3> QED BY <2>1, <2>2, <3>2, <3>3
  <2> QED BY <2>2
<1>16. \A u \in Threads : PlaceOK(u)'
  <2>1. ASSUME NEW u \in Threads, u # p
        PROVE  PlaceOK(u)'
    <3>1. \A s \in Sides : tkt[s] <= tkt'[s]
      BY <1>2, <1>5, <1>9, HeldAre DEF Sides
    <3> QED BY <1>8, <1>9, <1>10, <2>1, <3>1, PlaceStays DEF Inv, TypeOK
  <2>2. PlaceOK(p)'
    BY <1>1, <1>6, <1>9 DEF PlaceOK
  <2> QED BY <2>1, <2>2
<1>17. \A u \in Threads : CheckOK(u)'
  <2>1. ASSUME NEW u \in Threads, u # p, u \in Producers,
               pc[u] \in {"tail", "cas"}
        PROVE  now[u] # tkt'["push"]
    <3>1. now[u] \in Nat /\ now[u] <= P
      BY <1>2, <2>1 DEF Inv, PlaceOK, Side
    <3> QED BY <1>5, <1>9, <3>1
  <2>2. ASSUME NEW u \in Threads, u # p
        PROVE  CheckOK(u)'
    BY <1>8, <1>9, <2>1, <2>2 DEF Inv, CheckOK
  <2>3. CheckOK(p)'
    BY <1>1, <1>9 DEF CheckOK
  <2> QED BY <2>2, <2>3
<1>18. \A q \in Producers : (Open(q) => Open(q)' /\ q # p) /\ Open(p)'
  BY <1>1, <1>7, <1>9, Classes DEF Open
<1>19. HeldOK'
  <2>1. ASSUME NEW h \in Held
        PROVE  /\ h.tk + Ceil(h.tk, h.n) <= tkt'["push"]
               /\ tkt'["push"] <= h.tk + SlotCount
    <3>1. /\ h.tk + Ceil(h.tk, h.n) <= P /\ h.tk \in Nat
          /\ Ceil(h.tk, h.n) \in Nat
      BY <1>2, <2>1, HeldHas
    <3> QED BY <1>9, <1>12, <2>1, <3>1
  <2>2. ASSUME NEW h \in Held
        PROVE  /\ ver'[Slot(h.tk)] \in {h.tk, h.tk + h.n}
               /\ (\A q \in Producers : Open(q)' => own'[q] # h)
                    => ver'[Slot(h.tk)] = h.tk + h.n
    BY <1>8, <1>9, <1>18, <2>2, Classes DEF Inv, HeldOK
  <2>3. /\ ch.tk + Ceil(ch.tk, ch.n) <= tkt'["push"]
        /\ tkt'["push"] <= ch.tk + SlotCount
    BY <1>5, <1>6, <1>9, <1>11
  <2>4. ver'[Slot(ch.tk)] = ch.tk
    <3>1. 0 \in 0..(C - 1) /\ P + 0 = P
      BY <1>5
    <3>2. ver[Slot(P)] = P
      BY <1>11, <3>1
    <3> QED BY <1>6, <1>8, <3>2
  <2>5. ~ \A q \in Producers : Open(q)' => own'[q] # ch
    BY <1>9, <1>18
  <2>6. \A a, b \in Held' : a # b => Mem(a) \cap Mem(b) = {}
    BY <1>13, <1>15 DEF Inv, HeldOK
  <2> QED BY <1>13, <2>1, <2>2, <2>3, <2>4, <2>5, <2>6 DEF HeldOK
<1>20. OwnersOK'
  <2>1. \A u \in Threads : own[u] # NoChunk => own[u] # ch
    BY <1>14, HeldAre
  <2>2. \A u \in Threads : Using(u)' => own'[u] \in live'
    BY <1>8, <1>9 DEF Inv, OwnersOK, Using
  <2>3. \A u \in Threads : pc'[u] = "free" => own'[u] \notin live'
    <3>1. ASSUME NEW u \in Threads, pc'[u] = "free"
          PROVE  own'[u] \notin live'
      <4>1. u # p /\ pc[u] = "free" /\ own[u] # NoChunk
        BY <1>9, <3>1 DEF Inv, PlaceOK
      <4> QED BY <1>8, <1>9, <2>1, <4>1 DEF Inv, OwnersOK
    <3> QED BY <3>1
  <2>4. \A u, v \in Threads : own'[u] # NoChunk /\ u # v => own'[u] # own'[v]
    BY <1>6, <1>9, <2>1 DEF Inv, OwnersOK
  <2>5. ASSUME NEW q \in Producers, Open(q)'
        PROVE  ver'[Slot(own'[q].tk)] = own'[q].tk
    <3>1. CASE q = p
      <4>1. 0 \in 0..(C - 1) /\ P + 0 = P
        BY <1>5
      <4>2. ver[Slot(P)] = P
        BY <1>11, <4>1
      <4> QED BY <1>6, <1>8, <1>9, <3>1, <4>2
    <3>2. CASE q # p
      <4>1. Open(q) /\ own'[q] = own[q]
        BY <1>9, <2>5, <3>2, Classes DEF Open
      <4> QED BY <1>8, <4>1 DEF Inv, OwnersOK
    <3> QED BY <3>1, <3>2
  <2>6. ASSUME NEW c \in Consumers
        PROVE  use' = "queue" /\ own'[c] # NoChunk => own'[c].tk < tkt'["pop"]
    <3>1. c # p /\ c \in Threads
      BY <1>1, Classes
    <3> QED BY <1>8, <1>9, <3>1 DEF Inv, OwnersOK
  <2> QED BY <2>2, <2>3, <2>4, <2>5, <2>6 DEF OwnersOK
<1>21. \A c \in Consumers : FreeOK(c)'
  BY <1>1, <1>8, <1>9, Classes DEF Inv, FreeOK
<1>22. VersionsOK'
  <2>1. \A i \in Slots : Covered(i) => Covered(i)'
    BY <1>1, <1>8, <1>9, Classes DEF Covered
  <2>2. ASSUME NEW i \in Slots, ver[i] # Junk
        PROVE  ver[i] < tkt'["push"] + SlotCount
    <3>1. ver[i] < P + SlotCount /\ ver[i] \in Nat
      BY <1>2, <2>2 DEF Inv, VersionsOK, TypeOK
    <3> QED BY <1>9, <1>11, <3>1
  <2>3. ASSUME NEW k \in (tkt'["push"] - SlotCount)..(tkt'["push"] - 1)
        PROVE  ver[Slot(k)] = k + SlotCount \/ \E h \in Held' : Slot(k) \in Mem(h)
    <3>1. CASE k < P
      <4>1. k \in (P - SlotCount)..(P - 1)
        BY <1>9, <1>11, <2>3, <3>1
      <4> QED BY <1>2, <1>13, <4>1 DEF Inv, VersionsOK
    <3>2. CASE k >= P
      <4>1. PICK j \in 0..(C - 1) : k = P + j
        <5>1. k - P \in 0..(C - 1) /\ k = P + (k - P)
          BY <1>9, <1>11, <2>3, <3>2
        <5> QED BY <5>1
      <4>2. Slot(k) \in Slots
        <5>1. k \in Int
          BY <4>1
        <5> QED BY <5>1, SlotRange
      <4>3. Slot(ch.tk) + j = Slot(ch.tk + j)
        <5>1. Slot(P) \in 0..(SlotCount - 1) /\ Slot(P) + C <= SlotCount
          BY <1>5, CeilHas, SlotRange
        <5>2. Slot(P) + j < SlotCount /\ j \in Nat /\ P \in Int
          BY <1>11, <5>1
        <5> QED BY <1>6, <5>2, SlotPlus
      <4>4. Slot(k) \in Mem(ch)
        BY <1>5, <1>6, <4>1, <4>2, <4>3, MemHas
      <4> QED BY <1>13, <4>4
    <3>3. k \in Int
      BY <1>9, <1>11, <2>3
    <3> QED BY <3>1, <3>2, <3>3
  <2> QED BY <1>8, <2>1, <2>2, <2>3 DEF Inv, VersionsOK
<1>23. DataOK'
  <2>1. ASSUME NEW h \in live', \A q \in Producers : own'[q] = h => pc'[q] = "used"
        PROVE  \A i \in Mem(h) : data'[i] = h.tk
    <3>1. h # ch
      BY <1>9, <2>1
    <3>2. h \in live /\ \A q \in Producers : own[q] = h => pc[q] = "used"
      <4>1. h # NoChunk
        BY <1>8, <2>1, <3>1, HeldAre
      <4> QED BY <1>7, <1>8, <1>9, <2>1, <3>1, <4>1, Classes
    <3> QED BY <1>8, <3>2 DEF Inv, DataOK
  <2> QED BY <2>1 DEF DataOK
<1>24. QueueOK'
  <2>1. tkt["pop"] \in Nat /\ tkt["pop"] <= P
    BY <1>2, HeldAre DEF Inv, QueueOK
  <2>2. ASSUME use = "queue", NEW k \in tkt["pop"]..(P + C - 1)
        PROVE  \E h \in live' : /\ tkt["pop"] <= h.tk /\ h.tk <= k
                                /\ k < h.tk + Ceil(h.tk, h.n)
    <3>1. CASE k < P
      <4>1. k \in tkt["pop"]..(P - 1)
        BY <2>1, <2>2, <3>1
      <4> QED BY <1>2, <1>8, <2>2, <4>1 DEF Inv, QueueOK
    <3>2. CASE k >= P
      BY <1>5, <1>6, <1>8, <2>1, <2>2, <3>2
    <3>3. k \in Int
      BY <2>1, <2>2
    <3> QED BY <3>1, <3>2, <3>3
  <2>3. tkt'["pop"] <= tkt'["push"]
    BY <1>9, <2>1
  <2> QED BY <1>8, <1>9, <2>2, <2>3 DEF QueueOK
<1> QED BY <1>10, <1>16, <1>17, <1>19, <1>20, <1>21, <1>22, <1>23, <1>24 DEF Inv

(* A version written in the memory of a held chunk disturbs neither the    *)
(* other chunks nor what producers have seen of the next tickets.          *)
LEMMA Elsewhere ==
  ASSUME Inv, NEW h \in Held, tkt' = tkt,
         \A i \in Slots : i \notin Mem(h) => ver'[i] = ver[i]
  PROVE  /\ \A g \in Held : g # h =>
              \A i \in Slots : i \in Mem(g) => ver'[i] = ver[i]
         /\ \A g \in Held : g # h => ver'[Slot(g.tk)] = ver[Slot(g.tk)]
         /\ \A u \in Producers :
              pc[u] \in {"tail", "cas"} /\ now[u] = tkt["push"] =>
                \A j \in 0..(at[u] - 1) : ver'[Slot(now[u] + j)] = now[u] + j
<1>1. ASSUME NEW g \in Held, g # h, NEW i \in Slots, i \in Mem(g)
      PROVE  ver'[i] = ver[i]
  BY <1>1 DEF Inv, HeldOK
<1>2. ASSUME NEW g \in Held, g # h
      PROVE  ver'[Slot(g.tk)] = ver[Slot(g.tk)]
  BY <1>1, <1>2, HeldHas
<1>3. ASSUME NEW u \in Producers, pc[u] \in {"tail", "cas"},
             now[u] = tkt["push"], NEW j \in 0..(at[u] - 1)
      PROVE  ver'[Slot(now[u] + j)] = now[u] + j
  <2>1. PICK P \in Nat : P = tkt["push"]
    BY HeldAre
  <2>2. PICK m \in 0..SlotCount : m = at[u]
    BY Classes DEF Inv, TypeOK
  <2>a. \A i \in 0..(at[u] - 1) : ver[Slot(now[u] + i)] = now[u] + i
    BY <1>3, Classes DEF Inv, CheckOK
  <2>3. \A i \in 0..(m - 1) : ver[Slot(P + i)] = P + i
    BY <1>3, <2>1, <2>2, <2>a
  <2>4. m \in Nat /\ m <= SlotCount
    BY <2>2, Sizes
  <2>5. Slot(P + j) \notin Mem(h)
    BY <1>3, <2>1, <2>2, <2>3, <2>4, FreeRun
  <2>6. P + j \in Int /\ j \in 0..(m - 1)
    BY <1>3, <2>2
  <2>7. Slot(P + j) \in Slots
    BY <2>6, SlotRange
  <2> QED BY <1>3, <2>1, <2>3, <2>5, <2>6, <2>7
<1> QED BY <1>1, <1>2, <1>3

(* The slots after the first of a chunk, by their place in it.             *)
LEMMA FreedIs ==
  ASSUME NEW h \in Chunk, NEW m \in 1..Ceil(h.tk, h.n), NEW j \in 1..(m - 1)
  PROVE  Slot(h.tk) + j \in Interior(h)
<1>1. PICK C \in Nat : C = Ceil(h.tk, h.n)
  BY MemHas
<1>2. PICK s \in 0..(SlotCount - 1) : s = Slot(h.tk)
  <2>1. Slot(h.tk) \in Slots
    BY MemHas
  <2> QED BY <2>1, Sizes
<1>3. h.tk \in Int /\ h.n \in Nat /\ h.n >= 1
  BY ChunkIs
<1>a. Ceil(h.tk, h.n) \in 1..h.n /\ Slot(h.tk) + Ceil(h.tk, h.n) <= SlotCount
  BY <1>3, CeilHas, Zenon
<1>4. s + C <= SlotCount /\ C <= h.n
  BY <1>1, <1>2, <1>3, <1>a
<1>5. s + j \in s..(s + h.n - 1) /\ s + j \in 0..(SlotCount - 1) /\ s + j # s
  BY <1>1, <1>3, <1>4, Sizes
<1> QED BY <1>2, <1>5, Sizes DEF Interior, Mem

LEMMA FillStep ==
  ASSUME Inv, NEW p \in Producers, Fill(p)
  PROVE  Inv'
<1>1. p \in Threads /\ p \notin Consumers
  BY Classes
<1>2. PICK ch : ch = own[p]
  OBVIOUS
<1>3. /\ data' = [i \in Memory |-> IF i \in Mem(ch) THEN ch.tk ELSE data[i]]
      /\ ver' = [i \in Slots |-> IF i \in Interior(ch) THEN Junk ELSE ver[i]]
      /\ use' = use /\ tkt' = tkt /\ sig' = sig /\ live' = live
  BY <1>2 DEF Fill
<1>4. \/ /\ use = "queue" /\ pc[p] = "own" /\ Goto(p, "used")
         /\ UNCHANGED <<now, sg, arg, at, own, res>>
      \/ use = "allocator" /\ pc[p] = "got" /\ Return(p, "ok")
  BY DEF Fill
<1>5. Using(p) /\ ch \in live /\ ch \in Held /\ ch \in Chunk /\ ch # NoChunk
  <2>1. Using(p)
    BY <1>4 DEF Using
  <2>2. ch \in live
    BY <1>1, <1>2, <2>1 DEF Inv, OwnersOK
  <2> QED BY <2>1, <2>2, HeldAre
<1>6. LocalsOK' /\ \A u \in Threads \ {p} : Same(u)
  <2>1. CASE use = "allocator" /\ pc[p] = "got" /\ Return(p, "ok")
    BY <1>1, <2>1, Returned DEF Inv, Results, OnlyMoves
  <2>2. CASE Goto(p, "used") /\ UNCHANGED <<now, sg, arg, at, own, res>>
    <3>1. pc' = [pc EXCEPT ![p] = "used"] /\ "used" \in Places
      BY <2>2 DEF Goto, Places
    <3> QED BY <2>2, <3>1 DEF Inv, TypeOK, LocalsOK, Same
  <2> QED BY <1>4, <2>1, <2>2
<1>7. \/ use = "queue" /\ pc[p] = "own" /\ pc'[p] = "used" /\ own'[p] = ch
      \/ use = "allocator" /\ pc[p] = "got" /\ pc'[p] = "idle" /\ own'[p] = NoChunk
  BY <1>1, <1>2, <1>4 DEF Goto, Return, Inv, TypeOK
<1>8. TypeOK'
  <2>1. ver' \in [Slots -> Nat \cup {Junk}]
    BY <1>3 DEF Inv, TypeOK
  <2>2. data' \in [Memory -> Nat \cup {None}]
    <3>1. ch.tk \in Nat
      BY <1>5, ChunkIs
    <3> QED BY <1>3, <3>1 DEF Inv, TypeOK
  <2> QED BY <1>3, <1>6, <2>1, <2>2 DEF Inv, TypeOK, LocalsOK
<1>9. /\ Interior(ch) \subseteq Mem(ch) /\ Interior(ch) \subseteq Slots
      /\ \A i \in Slots : i \notin Mem(ch) => ver'[i] = ver[i]
      /\ ver'[Slot(ch.tk)] = ver[Slot(ch.tk)]
      /\ \A i \in Slots : ver'[i] = ver[i] \/ (i \in Interior(ch) /\ ver'[i] = Junk)
  <2>1. Interior(ch) \subseteq Mem(ch) /\ Slot(ch.tk) \notin Interior(ch)
        /\ Interior(ch) \subseteq Slots
    BY DEF Interior
  <2>2. Slot(ch.tk) \in Slots
    BY <1>5, HeldHas
  <2> QED BY <1>3, <2>1, <2>2
<1>10. \A g \in Held : ver'[Slot(g.tk)] = ver[Slot(g.tk)]
  BY <1>3, <1>5, <1>9, Elsewhere
<1>11. Held' = Held
  <2>1. {own'[c] : c \in {d \in Consumers : pc'[d] = "free"}}
          = {own[c] : c \in {d \in Consumers : pc[d] = "free"}}
    BY <1>1, <1>6, Classes DEF Same
  <2> QED BY <1>3, <2>1 DEF Held
<1>12. /\ \A q \in Producers : (Open(q)' <=> Open(q)) /\ (Open(q) => own'[q] = own[q])
       /\ \A u \in Threads : Using(u)' => Using(u) /\ own'[u] = own[u]
       /\ \A c \in Consumers : c # p /\ c \in Threads /\ Same(c)
  BY <1>1, <1>2, <1>6, <1>7, Classes DEF Open, Using, Same
<1>13. \A u \in Threads : PlaceOK(u)'
  <2>1. ASSUME NEW u \in Threads, u # p
        PROVE  PlaceOK(u)'
    <3>1. \A s \in Sides : tkt[s] <= tkt'[s]
      BY <1>3 DEF Inv, TypeOK
    <3> QED BY <1>3, <1>6, <1>8, <2>1, <3>1, PlaceStays DEF Inv, TypeOK
  <2>2. PlaceOK(p)'
    BY <1>1, <1>3, <1>5, <1>7 DEF PlaceOK
  <2> QED BY <2>1, <2>2
<1>14. \A u \in Threads : CheckOK(u)'
  <2>1. ASSUME NEW u \in Producers
        PROVE  CheckOK(u)'
    <3>1. CASE u = p
      BY <1>1, <1>7, <3>1 DEF CheckOK
    <3>2. CASE u # p
      <4>1. \A v \in Producers :
              pc[v] \in {"tail", "cas"} /\ now[v] = tkt["push"] =>
                \A j \in 0..(at[v] - 1) : ver'[Slot(now[v] + j)] = now[v] + j
        BY <1>3, <1>5, <1>9, Elsewhere
      <4>2. u \notin Consumers /\ Same(u)
        BY <1>6, <2>1, <3>2, Classes
      <4> QED BY <1>3, <2>1, <4>1, <4>2 DEF CheckOK, Same
    <3> QED BY <3>1, <3>2
  <2>2. ASSUME NEW u \in Threads, u \notin Producers
        PROVE  CheckOK(u)'
    <3>1. Same(u) /\ live' = live /\ tkt' = tkt
      BY <1>3, <1>6, <2>2
    <3>2. ASSUME u \in Consumers, pc[u] = "cas", now[u] = tkt["pop"]
          PROVE  /\ [tk |-> now[u], n |-> at[u]] \in live
                 /\ ver'[Slot(now[u])] = now[u] + at[u]
      <4>1. PICK g : g = [tk |-> now[u], n |-> at[u]]
        OBVIOUS
      <4>2. g \in live /\ ver[Slot(now[u])] = now[u] + at[u]
        BY <2>2, <3>2, <4>1 DEF Inv, CheckOK
      <4>3. g \in Held /\ g.tk = now[u]
        BY <4>1, <4>2, HeldAre
      <4> QED BY <1>10, <4>1, <4>2, <4>3
    <3> QED BY <2>2, <3>1, <3>2 DEF CheckOK, Same
  <2> QED BY <2>1, <2>2
<1>15. HeldOK'
  BY <1>3, <1>10, <1>11, <1>12 DEF Inv, HeldOK
<1>16. OwnersOK'
  <2>1. \A u \in Threads : Using(u)' => own'[u] \in live'
    BY <1>3, <1>12 DEF Inv, OwnersOK
  <2>2. \A u \in Threads : pc'[u] = "free" => own'[u] \notin live'
    BY <1>3, <1>6, <1>7 DEF Inv, OwnersOK, Same
  <2>3. \A u, v \in Threads : own'[u] # NoChunk /\ u # v => own'[u] # own'[v]
    BY <1>2, <1>5, <1>6, <1>7 DEF Inv, OwnersOK, Same
  <2>4. \A q \in Producers : Open(q)' => ver'[Slot(own'[q].tk)] = own'[q].tk
    <3>1. ASSUME NEW q \in Producers, Open(q)'
          PROVE  ver'[Slot(own'[q].tk)] = own'[q].tk
      <4>1. Open(q) /\ own'[q] = own[q] /\ Using(q)
        BY <1>12, <3>1 DEF Open, Using
      <4>2. own[q] \in Held
        BY <4>1, Classes, HeldAre DEF Inv, OwnersOK
      <4> QED BY <1>10, <4>1, <4>2 DEF Inv, OwnersOK
    <3> QED BY <3>1
  <2>5. \A c \in Consumers :
          use' = "queue" /\ own'[c] # NoChunk => own'[c].tk < tkt'["pop"]
    BY <1>3, <1>12 DEF Inv, OwnersOK, Same
  <2> QED BY <2>1, <2>2, <2>3, <2>4, <2>5 DEF OwnersOK
<1>17. \A c \in Consumers : FreeOK(c)'
  <2>1. ASSUME NEW c \in Consumers, pc[c] = "free",
               NEW j \in 1..(at[c] - 1)
        PROVE  ver'[Slot(own[c].tk) + j] = ver[Slot(own[c].tk) + j]
    <3>1. own[c] \in Held /\ own[c] # ch /\ own[c] \in Chunk
      BY <1>5, <1>12, <2>1, HeldAre DEF Inv, OwnersOK
    <3>2. at[c] \in 1..Ceil(own[c].tk, own[c].n)
      BY <2>1 DEF Inv, FreeOK
    <3>3. PICK i : i = Slot(own[c].tk) + j
      OBVIOUS
    <3>4. i \in Interior(own[c])
      BY <2>1, <3>1, <3>2, <3>3, FreedIs
    <3>5. i \in Slots /\ i \in Mem(own[c])
      BY <3>4 DEF Interior
    <3> QED BY <1>3, <1>5, <1>9, <3>1, <3>3, <3>5, Elsewhere
  <2> QED BY <1>12, <2>1 DEF Inv, FreeOK, Same
<1>18. VersionsOK'
  <2>1. \A i \in Slots : Covered(i) => Covered(i)'
    BY <1>3, <1>12 DEF Covered, Same
  <2>2. \A i \in Interior(ch) : Covered(i)'
    BY <1>3, <1>5 DEF Covered
  <2>3. \A i \in Slots : ver'[i] = Junk => Covered(i)'
    BY <1>9, <2>1, <2>2 DEF Inv, VersionsOK
  <2>4. \A i \in Slots : ver'[i] # Junk => ver'[i] < tkt'["push"] + SlotCount
    BY <1>3, <1>9 DEF Inv, VersionsOK
  <2>5. ASSUME NEW k \in (tkt["push"] - SlotCount)..(tkt["push"] - 1)
        PROVE  ver'[Slot(k)] = k + SlotCount \/ \E h \in Held' : Slot(k) \in Mem(h)
    <3>1. k \in Int
      BY <2>5, Sizes, HeldAre
    <3>2. Slot(k) \in Slots
      BY <3>1, SlotRange
    <3>3. ver'[Slot(k)] = ver[Slot(k)] \/ Slot(k) \in Mem(ch)
      BY <1>9, <3>2
    <3> QED BY <1>5, <1>11, <2>5, <3>3 DEF Inv, VersionsOK
  <2> QED BY <1>3, <2>3, <2>4, <2>5 DEF VersionsOK
<1>19. DataOK'
  <2>1. ASSUME NEW h \in live, \A q \in Producers : own'[q] = h => pc'[q] = "used",
               NEW i \in Mem(h)
        PROVE  data'[i] = h.tk
    <3>1. h \in Held /\ h \in Chunk
      BY HeldAre
    <3>2. i \in Memory
      BY <2>1, <3>1, MemInside
    <3>3. CASE h = ch
      BY <1>3, <2>1, <3>2, <3>3
    <3>4. CASE h # ch
      <4>1. i \notin Mem(ch)
        BY <1>5, <2>1, <3>1, <3>4 DEF Inv, HeldOK
      <4>2. \A q \in Producers : own[q] = h => pc[q] = "used"
        BY <1>2, <1>6, <2>1, <3>4, Classes DEF Same
      <4> QED BY <1>3, <2>1, <3>2, <4>1, <4>2 DEF Inv, DataOK
    <3> QED BY <3>3, <3>4
  <2> QED BY <1>3, <2>1 DEF DataOK
<1>20. QueueOK'
  BY <1>3 DEF Inv, QueueOK
<1> QED BY <1>8, <1>13, <1>14, <1>15, <1>16, <1>17, <1>18, <1>19, <1>20 DEF Inv

LEMMA ProduceCommitStep ==
  ASSUME Inv, NEW p \in Producers, ProduceCommit(p)
  PROVE  Inv'
<1>1. p \in Threads /\ p \notin Consumers
  BY Classes
<1>2. PICK ch : ch = own[p]
  OBVIOUS
<1>3. /\ ver' = [ver EXCEPT ![Slot(ch.tk)] = ch.tk + ch.n]
      /\ use' = use /\ tkt' = tkt /\ sig' = sig /\ live' = live /\ data' = data
  BY <1>2 DEF ProduceCommit
<1>4. \/ use = "queue" /\ pc[p] = "used" /\ Return(p, "ok")
      \/ /\ use = "allocator" /\ pc[p] = "own" /\ Goto(p, "got")
         /\ UNCHANGED <<now, sg, arg, at, own, res>>
  BY DEF ProduceCommit
<1>5. Open(p) /\ Using(p) /\ ch \in live /\ ch \in Held
  <2>1. Using(p) /\ Open(p)
    BY <1>4 DEF Using, Open
  <2>2. ch \in live
    BY <1>1, <1>2, <2>1 DEF Inv, OwnersOK
  <2> QED BY <2>1, <2>2, HeldAre
<1>6. LocalsOK' /\ \A u \in Threads \ {p} : Same(u)
  <2>1. CASE use = "queue" /\ pc[p] = "used" /\ Return(p, "ok")
    BY <1>1, <2>1, Returned DEF Inv, Results, OnlyMoves
  <2>2. CASE Goto(p, "got") /\ UNCHANGED <<now, sg, arg, at, own, res>>
    <3>1. pc' = [pc EXCEPT ![p] = "got"] /\ "got" \in Places
      BY <2>2 DEF Goto, Places
    <3> QED BY <2>2, <3>1 DEF Inv, TypeOK, LocalsOK, Same
  <2> QED BY <1>4, <2>1, <2>2
<1>7. \/ use = "queue" /\ pc[p] = "used" /\ pc'[p] = "idle" /\ own'[p] = NoChunk
      \/ use = "allocator" /\ pc[p] = "own" /\ pc'[p] = "got" /\ own'[p] = ch
  BY <1>1, <1>2, <1>4 DEF Goto, Return, Inv, TypeOK
<1>8. /\ ch \in Chunk /\ ch.tk \in Nat /\ ch.n \in Nat /\ ch.n < SlotCount
      /\ ch # NoChunk /\ Slot(ch.tk) \in Slots /\ Slot(ch.tk) \in Mem(ch)
      /\ ch.tk < tkt["push"] /\ ch.tk + ch.n \in Nat /\ ch.tk + ch.n # Junk
  <2>1. /\ ch \in Chunk /\ ch.tk \in Nat /\ ch.n \in Nat /\ ch.n < SlotCount
        /\ ch # NoChunk /\ Slot(ch.tk) \in Slots /\ Slot(ch.tk) \in Mem(ch)
        /\ ch.tk < tkt["push"]
    BY <1>5, HeldHas
  <2>2. ch.tk + ch.n \in Nat
    BY <2>1
  <2> QED BY <2>1, <2>2, Sizes
<1>9. TypeOK'
  <2>1. ver' \in [Slots -> Nat \cup {Junk}]
    BY <1>3, <1>8 DEF Inv, TypeOK
  <2> QED BY <1>3, <1>6, <2>1 DEF Inv, TypeOK, LocalsOK
<1>10. /\ \A i \in Slots : i # Slot(ch.tk) => ver'[i] = ver[i]
       /\ ver'[Slot(ch.tk)] = ch.tk + ch.n
       /\ \A i \in Slots : i \notin Mem(ch) => ver'[i] = ver[i]
  BY <1>3, <1>8 DEF Inv, TypeOK
<1>11. \A g \in Held : g # ch => ver'[Slot(g.tk)] = ver[Slot(g.tk)]
  BY <1>3, <1>5, <1>10, Elsewhere
<1>12. Held' = Held
  <2>1. {own'[c] : c \in {d \in Consumers : pc'[d] = "free"}}
          = {own[c] : c \in {d \in Consumers : pc[d] = "free"}}
    BY <1>1, <1>6, Classes DEF Same
  <2> QED BY <1>3, <2>1 DEF Held
<1>13. /\ \A q \in Producers : q # p =>
            (Open(q)' <=> Open(q)) /\ own'[q] = own[q] /\ own[q] # ch
       /\ ~Open(p)'
       /\ \A u \in Threads : Using(u)' => Using(u) /\ own'[u] = own[u]
       /\ \A c \in Consumers : c # p /\ c \in Threads /\ Same(c) /\ own[c] # ch
  BY <1>1, <1>2, <1>6, <1>7, <1>8, Classes DEF Open, Using, Same, Inv, OwnersOK
<1>14. \A u \in Threads : PlaceOK(u)'
  <2>1. ASSUME NEW u \in Threads, u # p
        PROVE  PlaceOK(u)'
    <3>1. \A s \in Sides : tkt[s] <= tkt'[s]
      BY <1>3 DEF Inv, TypeOK
    <3> QED BY <1>3, <1>6, <1>9, <2>1, <3>1, PlaceStays DEF Inv, TypeOK
  <2>2. PlaceOK(p)'
    BY <1>1, <1>3, <1>7, <1>8 DEF PlaceOK
  <2> QED BY <2>1, <2>2
<1>15. \A u \in Threads : CheckOK(u)'
  <2>1. ASSUME NEW u \in Producers
        PROVE  CheckOK(u)'
    <3>1. CASE u = p
      BY <1>1, <1>7, <3>1 DEF CheckOK
    <3>2. CASE u # p
      <4>1. \A v \in Producers :
              pc[v] \in {"tail", "cas"} /\ now[v] = tkt["push"] =>
                \A j \in 0..(at[v] - 1) : ver'[Slot(now[v] + j)] = now[v] + j
        BY <1>3, <1>5, <1>10, Elsewhere
      <4>2. u \notin Consumers /\ Same(u)
        BY <1>6, <2>1, <3>2, Classes
      <4> QED BY <1>3, <2>1, <4>1, <4>2 DEF CheckOK, Same
    <3> QED BY <3>1, <3>2
  <2>2. ASSUME NEW u \in Threads, u \notin Producers
        PROVE  CheckOK(u)'
    <3>1. Same(u) /\ live' = live /\ tkt' = tkt
      BY <1>1, <1>3, <1>6, <2>2
    <3>2. ASSUME u \in Consumers, pc[u] = "cas", now[u] = tkt["pop"]
          PROVE  /\ [tk |-> now[u], n |-> at[u]] \in live
                 /\ ver'[Slot(now[u])] = now[u] + at[u]
      <4>1. PICK g : g = [tk |-> now[u], n |-> at[u]]
        OBVIOUS
      <4>2. g \in live /\ ver[Slot(now[u])] = now[u] + at[u]
        BY <2>2, <3>2, <4>1 DEF Inv, CheckOK
      <4>3. g \in Held /\ g.tk = now[u] /\ g.n = at[u]
        BY <4>1, <4>2, HeldAre
      <4> QED BY <1>10, <1>11, <4>1, <4>2, <4>3
    <3> QED BY <2>2, <3>1, <3>2 DEF CheckOK, Same
  <2> QED BY <2>1, <2>2
<1>16. HeldOK'
  <2>1. ASSUME NEW h \in Held
        PROVE  /\ ver'[Slot(h.tk)] \in {h.tk, h.tk + h.n}
               /\ (\A q \in Producers : Open(q)' => own'[q] # h)
                    => ver'[Slot(h.tk)] = h.tk + h.n
    <3>1. CASE h = ch
      BY <1>10, <3>1
    <3>2. CASE h # ch
      <4>1. ASSUME \A q \in Producers : Open(q)' => own'[q] # h
            PROVE  \A q \in Producers : Open(q) => own[q] # h
        BY <1>2, <1>13, <3>2, <4>1
      <4> QED BY <1>11, <2>1, <3>2, <4>1 DEF Inv, HeldOK
    <3> QED BY <3>1, <3>2
  <2> QED BY <1>3, <1>12, <2>1 DEF Inv, HeldOK
<1>17. OwnersOK'
  <2>1. \A u \in Threads : Using(u)' => own'[u] \in live'
    BY <1>3, <1>13 DEF Inv, OwnersOK
  <2>2. \A u \in Threads : pc'[u] = "free" => own'[u] \notin live'
    BY <1>3, <1>6, <1>7 DEF Inv, OwnersOK, Same
  <2>3. \A u, v \in Threads : own'[u] # NoChunk /\ u # v => own'[u] # own'[v]
    BY <1>2, <1>8, <1>6, <1>7 DEF Inv, OwnersOK, Same
  <2>4. \A q \in Producers : Open(q)' => ver'[Slot(own'[q].tk)] = own'[q].tk
    <3>1. ASSUME NEW q \in Producers, Open(q)'
          PROVE  ver'[Slot(own'[q].tk)] = own'[q].tk
      <4>1. q # p /\ Open(q) /\ own'[q] = own[q] /\ own[q] # ch
        BY <1>13, <3>1
      <4>2. own[q] \in Held
        BY <4>1, Classes, HeldAre DEF Inv, OwnersOK, Open, Using
      <4> QED BY <1>11, <4>1, <4>2 DEF Inv, OwnersOK
    <3> QED BY <3>1
  <2>5. \A c \in Consumers :
          use' = "queue" /\ own'[c] # NoChunk => own'[c].tk < tkt'["pop"]
    BY <1>3, <1>13 DEF Inv, OwnersOK, Same
  <2> QED BY <2>1, <2>2, <2>3, <2>4, <2>5 DEF OwnersOK
<1>18. \A c \in Consumers : FreeOK(c)'
  <2>1. ASSUME NEW c \in Consumers, pc[c] = "free",
               NEW j \in 1..(at[c] - 1)
        PROVE  ver'[Slot(own[c].tk) + j] = ver[Slot(own[c].tk) + j]
    <3>1. own[c] \in Held /\ own[c] # ch /\ own[c] \in Chunk
      BY <1>5, <1>13, <2>1, HeldAre DEF Inv, OwnersOK
    <3>2. at[c] \in 1..Ceil(own[c].tk, own[c].n)
      BY <2>1 DEF Inv, FreeOK
    <3>3. PICK i : i = Slot(own[c].tk) + j
      OBVIOUS
    <3>4. i \in Interior(own[c])
      BY <2>1, <3>1, <3>2, <3>3, FreedIs
    <3>5. i \in Slots /\ i \in Mem(own[c])
      BY <3>4 DEF Interior
    <3> QED BY <1>3, <1>5, <1>10, <3>1, <3>3, <3>5, Elsewhere
  <2> QED BY <1>13, <2>1 DEF Inv, FreeOK, Same
<1>19. VersionsOK'
  <2>1. \A i \in Slots : Covered(i) => Covered(i)'
    BY <1>3, <1>13 DEF Covered, Same
  <2>2. \A i \in Slots : ver'[i] = Junk => Covered(i)'
    BY <1>8, <1>10, <2>1 DEF Inv, VersionsOK
  <2>3. ch.tk + ch.n < tkt["push"] + SlotCount
    BY <1>8, Sizes, HeldAre
  <2>4. \A i \in Slots : ver'[i] # Junk => ver'[i] < tkt'["push"] + SlotCount
    BY <1>3, <1>10, <2>3 DEF Inv, VersionsOK
  <2>5. ASSUME NEW k \in (tkt["push"] - SlotCount)..(tkt["push"] - 1)
        PROVE  ver'[Slot(k)] = k + SlotCount \/ \E h \in Held' : Slot(k) \in Mem(h)
    <3>1. k \in Int
      BY <2>5, Sizes, HeldAre
    <3>2. Slot(k) \in Slots
      BY <3>1, SlotRange
    <3>3. ver'[Slot(k)] = ver[Slot(k)] \/ Slot(k) \in Mem(ch)
      BY <1>10, <3>2
    <3> QED BY <1>5, <1>12, <2>5, <3>3 DEF Inv, VersionsOK
  <2> QED BY <1>3, <2>2, <2>4, <2>5 DEF VersionsOK
<1>20. DataOK'
  <2>1. ASSUME NEW h \in live, \A q \in Producers : own'[q] = h => pc'[q] = "used"
        PROVE  \A q \in Producers : own[q] = h => pc[q] = "used"
    <3>1. CASE h = ch
      <4>1. pc[p] = "used"
        BY <1>7, <2>1, <3>1
      <4> QED BY <1>13, <3>1, <4>1
    <3>2. CASE h # ch
      BY <1>2, <1>6, <2>1, <3>2, Classes DEF Same
    <3> QED BY <3>1, <3>2
  <2> QED BY <1>3, <2>1 DEF Inv, DataOK
<1>21. QueueOK'
  BY <1>3 DEF Inv, QueueOK
<1> QED BY <1>9, <1>14, <1>15, <1>16, <1>17, <1>18, <1>19, <1>20, <1>21 DEF Inv

LEMMA ConsumeTakesStep ==
  ASSUME Inv, BelowWrap, NEW c \in Consumers, ConsumeTakes(c)
  PROVE  Inv'
<1>1. c \in Threads /\ c \notin Producers
  BY Classes
<1>2. PICK q \in Nat : q = tkt["pop"]
  BY HeldAre
<1>3. PICK ch : ch = [tk |-> q, n |-> at[c]]
  OBVIOUS
<1>4. /\ pc[c] = "cas" /\ Matches(c) /\ now[c] = q /\ use = "queue"
      /\ own[c] = NoChunk
  <2>1. pc[c] = "cas" /\ Matches(c)
    BY DEF ConsumeTakes, TakeWord
  <2>2. now[c] = q
    BY <1>1, <1>2, <2>1, MatchesIs DEF Side
  <2> QED BY <1>1, <2>1, <2>2 DEF Inv, PlaceOK
<1>5. /\ ch \in live /\ ch \in Held /\ ch.tk = q /\ ch.n = at[c]
      /\ ver[Slot(ch.tk)] = ch.tk + ch.n
  <2>1. ch \in live /\ ver[Slot(q)] = q + at[c]
    BY <1>1, <1>2, <1>3, <1>4 DEF Inv, CheckOK
  <2> QED BY <1>3, <2>1, HeldAre
<1>6. PICK C \in Nat : C = Ceil(q, ch.n) /\ C >= 1
  BY <1>5, HeldHas
<1>7. /\ ch \in Chunk /\ ch # NoChunk /\ ch.n >= 1 /\ ch.n \in Nat
      /\ q + C <= tkt["push"]
  BY <1>5, <1>6, HeldHas
<1>8. /\ tkt' = [tkt EXCEPT !["pop"] = q + C]
      /\ own' = [own EXCEPT ![c] = ch]
      /\ pc' = [pc EXCEPT ![c] = "own"]
      /\ sig' = [sig EXCEPT !["pop"] = IF arg[c].replace THEN arg[c].sig ELSE @]
      /\ live' = live
      /\ use' = use /\ ver' = ver /\ data' = data /\ now' = now /\ sg' = sg
      /\ arg' = arg /\ at' = at /\ res' = res
  BY <1>1, <1>2, <1>3, <1>5, <1>6 DEF ConsumeTakes, TakeWord, Goto, Side
<1>9. /\ tkt'["push"] = tkt["push"] /\ tkt'["pop"] = q + C
      /\ own'[c] = ch /\ pc'[c] = "own"
      /\ \A u \in Threads \ {c} : Same(u)
  BY <1>1, <1>8 DEF Inv, TypeOK, Sides, Same
<1>10. TypeOK'
  <2>1. tkt' \in [Sides -> Nat]
    <3>1. q + C \in Nat /\ tkt \in [Sides -> Nat]
      BY DEF Inv, TypeOK
    <3> QED BY <1>8, <3>1
  <2>2. sig' \in [Sides -> Sigs]
    BY <1>1, <1>8 DEF Inv, TypeOK, Call
  <2>3. own' \in [Threads -> Chunk \cup {NoChunk}]
    BY <1>7, <1>8 DEF Inv, TypeOK
  <2>4. pc' \in [Threads -> Places]
    BY <1>8 DEF Inv, TypeOK, Places
  <2> QED BY <1>8, <2>1, <2>2, <2>3, <2>4 DEF Inv, TypeOK
<1>11. Held' = Held
  <2>1. {own'[d] : d \in {e \in Consumers : pc'[e] = "free"}}
          = {own[d] : d \in {e \in Consumers : pc[e] = "free"}}
    BY <1>1, <1>4, <1>9, Classes DEF Same
  <2> QED BY <1>8, <2>1 DEF Held
<1>12. \A u \in Threads \ {c} : own[u] # ch
  <2>1. ASSUME NEW u \in Threads, u # c, own[u] = ch
        PROVE  FALSE
    <3>1. pc[u] \in {"own", "used", "got", "free"}
      BY <1>7, <2>1 DEF Inv, PlaceOK
    <3>2. u \in Producers \/ u \in Consumers
      BY <3>1 DEF Inv, PlaceOK
    <3>3. CASE u \in Producers
      <4>1. Open(u)
        BY <1>1, <1>4, <3>1, <3>3, Classes DEF Open, Inv, PlaceOK
      <4>2. ver[Slot(ch.tk)] = ch.tk
        BY <2>1, <3>3, <4>1 DEF Inv, OwnersOK
      <4> QED BY <1>5, <1>7, <4>2
    <3>4. CASE u \in Consumers
      <4>1. ch.tk < tkt["pop"]
        BY <1>4, <1>7, <2>1, <3>4 DEF Inv, OwnersOK
      <4> QED BY <1>2, <1>5, <4>1
    <3> QED BY <3>2, <3>3, <3>4
  <2> QED BY <2>1
<1>13. /\ \A p \in Producers : Same(p) /\ (Open(p)' <=> Open(p))
       /\ \A u \in Threads : pc'[u] = "free" => u # c /\ pc[u] = "free"
       /\ \A u \in Threads : pc[u] = "free" => u # c /\ pc'[u] = "free"
  BY <1>1, <1>4, <1>9, Classes DEF Open, Same
<1>14. \A u \in Threads : PlaceOK(u)'
  <2>1. ASSUME NEW u \in Threads, u # c
        PROVE  PlaceOK(u)'
    <3>1. \A s \in Sides : tkt[s] <= tkt'[s]
      BY <1>2, <1>6, <1>9, HeldAre DEF Sides
    <3> QED BY <1>8, <1>9, <1>10, <2>1, <3>1, PlaceStays DEF Inv, TypeOK
  <2>2. PlaceOK(c)'
    BY <1>1, <1>4, <1>7, <1>8, <1>9 DEF PlaceOK
  <2> QED BY <2>1, <2>2
<1>15. \A u \in Threads : CheckOK(u)'
  <2>1. ASSUME NEW u \in Threads, u # c, u \in Consumers, pc[u] = "cas"
        PROVE  now[u] # tkt'["pop"]
    <3>1. now[u] \in Nat /\ now[u] <= q
      BY <1>2, <2>1, Classes DEF Inv, PlaceOK, Side
    <3> QED BY <1>6, <1>9, <3>1
  <2>2. ASSUME NEW u \in Threads, u # c
        PROVE  CheckOK(u)'
    BY <1>8, <1>9, <2>1, <2>2 DEF Inv, CheckOK, Same
  <2>3. CheckOK(c)'
    BY <1>1, <1>9 DEF CheckOK
  <2> QED BY <2>2, <2>3
<1>16. HeldOK'
  BY <1>8, <1>9, <1>11, <1>13 DEF Inv, HeldOK, Same
<1>17. OwnersOK'
  <2>1. \A u \in Threads : Using(u)' => own'[u] \in live'
    BY <1>5, <1>8, <1>9 DEF Inv, OwnersOK, Using, Same
  <2>2. \A u \in Threads : pc'[u] = "free" => own'[u] \notin live'
    BY <1>8, <1>9, <1>13 DEF Inv, OwnersOK, Same
  <2>3. \A u, v \in Threads : own'[u] # NoChunk /\ u # v => own'[u] # own'[v]
    BY <1>9, <1>12 DEF Inv, OwnersOK, Same
  <2>4. \A p \in Producers : Open(p)' => ver'[Slot(own'[p].tk)] = own'[p].tk
    BY <1>8, <1>13 DEF Inv, OwnersOK, Same
  <2>5. ASSUME NEW d \in Consumers, own'[d] # NoChunk
        PROVE  own'[d].tk < tkt'["pop"]
    <3>1. CASE d = c
      BY <1>5, <1>6, <1>9, <3>1
    <3>2. CASE d # c
      <4>1. own'[d] = own[d] /\ own[d] # NoChunk
        BY <1>9, <2>5, <3>2, Classes DEF Same
      <4>2. own[d].tk < q /\ own[d].tk \in Nat
        BY <1>2, <1>4, <2>5, <4>1, Classes, HeldAre, ChunkIs DEF Inv, OwnersOK
      <4> QED BY <1>6, <1>9, <4>1, <4>2
    <3> QED BY <3>1, <3>2
  <2> QED BY <2>1, <2>2, <2>3, <2>4, <2>5 DEF OwnersOK
<1>18. \A d \in Consumers : FreeOK(d)'
  BY <1>8, <1>9, <1>13, Classes DEF Inv, FreeOK, Same
<1>19. VersionsOK'
  <2>1. \A i \in Slots : Covered(i) => Covered(i)'
    BY <1>8, <1>9, <1>13, Classes DEF Covered, Same
  <2> QED BY <1>8, <1>9, <1>11, <2>1 DEF Inv, VersionsOK
<1>20. DataOK'
  BY <1>8, <1>13 DEF Inv, DataOK, Same
<1>21. QueueOK'
  <2>1. ASSUME NEW k \in (q + C)..(tkt["push"] - 1)
        PROVE  \E h \in live : /\ q + C <= h.tk /\ h.tk <= k
                               /\ k < h.tk + Ceil(h.tk, h.n)
    <3>1. k \in q..(tkt["push"] - 1) /\ k >= q + C /\ k \in Int
      BY <1>6, <2>1, HeldAre
    <3>2. PICK h \in live : q <= h.tk /\ h.tk <= k /\ k < h.tk + Ceil(h.tk, h.n)
      BY <1>2, <1>4, <3>1 DEF Inv, QueueOK
    <3>3. h \in Held
      BY HeldAre
    <3>4. h.tk \in Nat /\ Slot(h.tk) \in Mem(h) /\ Slot(h.tk) \in Slots
      BY <3>3, HeldHas
    <3>5. h # ch
      BY <1>5, <1>6, <3>1, <3>2
    <3>6. ASSUME ~(q + C <= h.tk)
          PROVE  FALSE
      <4>1. PICK j \in 0..(C - 1) : h.tk = q + j
        <5>1. h.tk - q \in 0..(C - 1) /\ h.tk = q + (h.tk - q)
          BY <3>2, <3>4, <3>6
        <5> QED BY <5>1
      <4>2. Slot(q + j) = Slot(q) + j
        <5>1. Slot(q) \in 0..(SlotCount - 1) /\ Slot(q) + C <= SlotCount
          <6>1. q \in Int
            OBVIOUS
          <6>2. Slot(q) + Ceil(q, ch.n) <= SlotCount
            BY <1>7, <6>1, CeilHas, Zenon
          <6> QED BY <1>6, <6>1, <6>2, SlotRange
        <5>2. Slot(q) + j < SlotCount /\ j \in Nat /\ q \in Int
          BY <5>1, Sizes
        <5> QED BY <5>2, SlotPlus
      <4>3. Slot(h.tk) \in Mem(ch)
        BY <1>5, <1>6, <1>7, <3>4, <4>1, <4>2, MemHas
      <4> QED BY <1>5, <3>3, <3>4, <3>5, <4>3 DEF Inv, HeldOK
    <3> QED BY <3>2, <3>6
  <2> QED BY <1>7, <1>8, <1>9, <2>1 DEF QueueOK
<1> QED BY <1>10, <1>14, <1>15, <1>16, <1>17, <1>18, <1>19, <1>20, <1>21 DEF Inv

(* A consumer begins to release a chunk that no other thread has.          *)
LEMMA ReleaseStep ==
  ASSUME Inv, NEW c \in Consumers, NEW ch \in live, LeaveUse(ch),
         \/ pc[c] = "own" /\ own[c] = ch
         \/ pc[c] = "idle" /\ use = "allocator" /\ \A u \in Threads : own[u] # ch,
         own' = [own EXCEPT ![c] = ch], at' = [at EXCEPT ![c] = 1],
         pc' = [pc EXCEPT ![c] = "free"],
         UNCHANGED <<use, tkt, sig, ver, now, sg, arg, res>>
  PROVE  Inv'
<1>1. c \in Threads /\ c \notin Producers
  BY Classes
<1>2. /\ use' = use /\ tkt' = tkt /\ sig' = sig /\ ver' = ver
      /\ live' = live \ {ch}
      /\ data' = [i \in Memory |-> IF i \in Mem(ch) THEN None ELSE data[i]]
  BY DEF LeaveUse
<1>3. /\ ch \in Held /\ ch \in Chunk /\ ch # NoChunk
  BY HeldAre
<1>4. /\ own'[c] = ch /\ pc'[c] = "free" /\ at'[c] = 1
      /\ \A u \in Threads \ {c} : Same(u)
  BY <1>1 DEF Inv, TypeOK, Same
<1>5. /\ \A u \in Threads \ {c} : own[u] # ch
      /\ own[c] = ch \/ own[c] = NoChunk
      /\ pc[c] # "free"
  <2>1. CASE pc[c] = "own" /\ own[c] = ch
    BY <1>1, <1>3, <2>1 DEF Inv, OwnersOK
  <2>2. CASE pc[c] = "idle" /\ \A u \in Threads : own[u] # ch
    BY <1>1, <2>2 DEF Inv, PlaceOK
  <2> QED BY <2>1, <2>2
<1>6. use = "queue" => own[c] = ch /\ ch.tk < tkt["pop"]
  <2>1. use = "queue" => pc[c] = "own" /\ own[c] = ch
    OBVIOUS
  <2> QED BY <1>3, <2>1 DEF Inv, OwnersOK
<1>7. TypeOK'
  <2>1. data' \in [Memory -> Nat \cup {None}]
    BY <1>2 DEF Inv, TypeOK
  <2>2. /\ own' \in [Threads -> Chunk \cup {NoChunk}]
        /\ at' \in [Threads -> 0..SlotCount]
        /\ pc' \in [Threads -> Places]
    <3>1. 1 \in 0..SlotCount /\ "free" \in Places
      BY Sizes DEF Places
    <3> QED BY <1>3, <3>1 DEF Inv, TypeOK
  <2> QED BY <1>2, <2>1, <2>2 DEF Inv, TypeOK
<1>8. Held' = Held
  <2>1. {own'[d] : d \in {e \in Consumers : pc'[e] = "free"}}
          = {own[d] : d \in {e \in Consumers : pc[e] = "free"}} \cup {ch}
    <3>1. \A d \in Consumers : d # c => (pc'[d] = "free" <=> pc[d] = "free")
                                        /\ own'[d] = own[d]
      BY <1>4, Classes DEF Same
    <3> QED BY <1>4, <1>5, <3>1
  <2> QED BY <1>2, <2>1 DEF Held
<1>9. /\ \A p \in Producers : Same(p) /\ (Open(p)' <=> Open(p)) /\ p # c
      /\ \A u \in Threads : Using(u)' => Using(u) /\ u # c
  BY <1>1, <1>4, Classes DEF Open, Using, Same
<1>10. \A u \in Threads : PlaceOK(u)'
  <2>1. ASSUME NEW u \in Threads, u # c
        PROVE  PlaceOK(u)'
    <3>1. \A s \in Sides : tkt[s] <= tkt'[s]
      BY <1>2 DEF Inv, TypeOK
    <3> QED BY <1>2, <1>4, <1>7, <2>1, <3>1, PlaceStays DEF Inv, TypeOK
  <2>2. PlaceOK(c)'
    BY <1>1, <1>3, <1>4 DEF PlaceOK
  <2> QED BY <2>1, <2>2
<1>11. \A u \in Threads : CheckOK(u)'
  <2>1. ASSUME NEW u \in Threads, u # c
        PROVE  CheckOK(u)'
    <3>1. ASSUME u \in Consumers, pc[u] = "cas", now[u] = tkt["pop"]
          PROVE  [tk |-> now[u], n |-> at[u]] # ch
      <4>1. use = "queue"
        BY <2>1, <3>1 DEF Inv, PlaceOK
      <4>2. ch.tk < tkt["pop"] /\ ch.tk \in Nat
        BY <1>3, <1>6, <4>1, ChunkIs
      <4>3. tkt["pop"] \in Nat
        BY HeldAre
      <4> QED BY <3>1, <4>2, <4>3
    <3>2. Same(u)
      BY <1>4, <2>1
    <3> QED BY <1>2, <2>1, <3>1, <3>2 DEF Inv, CheckOK, Same
  <2>2. CheckOK(c)'
    BY <1>1, <1>4 DEF CheckOK
  <2> QED BY <2>1, <2>2
<1>12. HeldOK'
  BY <1>2, <1>8, <1>9 DEF Inv, HeldOK, Same
<1>13. OwnersOK'
  <2>1. \A u \in Threads : Using(u)' => own'[u] \in live'
    BY <1>2, <1>4, <1>5, <1>9 DEF Inv, OwnersOK, Same
  <2>2. \A u \in Threads : pc'[u] = "free" => own'[u] \notin live'
    BY <1>2, <1>4 DEF Inv, OwnersOK, Same
  <2>3. \A u, v \in Threads : own'[u] # NoChunk /\ u # v => own'[u] # own'[v]
    BY <1>4, <1>5 DEF Inv, OwnersOK, Same
  <2>4. \A p \in Producers : Open(p)' => ver'[Slot(own'[p].tk)] = own'[p].tk
    BY <1>2, <1>9 DEF Inv, OwnersOK, Same
  <2>5. \A d \in Consumers :
          use' = "queue" /\ own'[d] # NoChunk => own'[d].tk < tkt'["pop"]
    BY <1>2, <1>4, <1>6, Classes DEF Inv, OwnersOK, Same
  <2> QED BY <2>1, <2>2, <2>3, <2>4, <2>5 DEF OwnersOK
<1>14. \A d \in Consumers : FreeOK(d)'
  <2>1. ASSUME NEW d \in Consumers, d # c
        PROVE  FreeOK(d)'
    BY <1>2, <1>4, <2>1, Classes DEF Inv, FreeOK, Same
  <2>2. FreeOK(c)'
    <3>1. PICK C \in Nat : C = Ceil(ch.tk, ch.n) /\ C >= 1
      BY <1>3, HeldHas
    <3>2. 1 \in 1..C /\ 1..(1 - 1) = {}
      BY <3>1
    <3> QED BY <1>4, <3>1, <3>2 DEF FreeOK
  <2> QED BY <2>1, <2>2
<1>15. VersionsOK'
  <2>1. ASSUME NEW i \in Slots, Covered(i)
        PROVE  Covered(i)'
    <3>1. CASE i \in Interior(ch)
      <4>1. PICK j \in 1..(Ceil(ch.tk, ch.n) - 1) : i = Slot(ch.tk) + j
        BY <1>3, <3>1, MemHas
      <4>2. PICK s \in Slots : s = Slot(ch.tk)
        BY <1>3, HeldHas
      <4>3. i >= s + 1
        BY <4>1, <4>2, Sizes
      <4>4. i >= Slot(own'[c].tk) + at'[c]
        BY <1>4, <4>2, <4>3
      <4> QED BY <1>4, <3>1, <4>4 DEF Covered
    <3>2. CASE \E h \in live : h # ch /\ i \in Interior(h)
      BY <1>2, <3>2 DEF Covered
    <3>3. CASE \E d \in Consumers : /\ pc[d] = "free" /\ i \in Interior(own[d])
                                    /\ i >= Slot(own[d].tk) + at[d]
      BY <1>4, <1>5, <3>3, Classes DEF Covered, Same
    <3> QED BY <2>1, <3>1, <3>2, <3>3 DEF Covered
  <2> QED BY <1>2, <1>8, <2>1 DEF Inv, VersionsOK
<1>16. DataOK'
  <2>1. ASSUME NEW h \in live, h # ch,
               \A p \in Producers : own'[p] = h => pc'[p] = "used",
               NEW i \in Mem(h)
        PROVE  data'[i] = h.tk
    <3>1. h \in Held /\ h \in Chunk
      BY HeldAre
    <3>2. i \in Memory /\ i \notin Mem(ch)
      BY <1>3, <2>1, <3>1, MemInside DEF Inv, HeldOK
    <3>3. \A p \in Producers : own[p] = h => pc[p] = "used"
      BY <1>9, <2>1 DEF Same
    <3> QED BY <1>2, <2>1, <3>2, <3>3 DEF Inv, DataOK
  <2> QED BY <1>2, <2>1 DEF DataOK
<1>17. QueueOK'
  <2>1. ASSUME use = "queue", NEW h \in live, tkt["pop"] <= h.tk
        PROVE  h # ch
    <3>1. ch.tk < tkt["pop"] /\ ch.tk \in Nat /\ tkt["pop"] \in Nat
      BY <1>3, <1>6, <2>1, HeldAre, ChunkIs
    <3> QED BY <2>1, <3>1
  <2> QED BY <1>2, <2>1 DEF Inv, QueueOK
<1> QED BY <1>7, <1>10, <1>11, <1>12, <1>13, <1>14, <1>15, <1>16, <1>17 DEF Inv

LEMMA GiveBackStep ==
  ASSUME Inv, NEW c \in Consumers, GiveBack(c)
  PROVE  Inv'
<1>1. PICK ch : ch = own[c]
  OBVIOUS
<1>2. pc[c] = "own" /\ ch \in live
  BY <1>1, Classes DEF GiveBack, Inv, OwnersOK, Using
<1>3. /\ LeaveUse(ch) /\ at' = [at EXCEPT ![c] = 1]
      /\ pc' = [pc EXCEPT ![c] = "free"]
      /\ UNCHANGED <<use, tkt, sig, ver, now, sg, arg, own, res>>
  BY <1>1 DEF GiveBack, Goto
<1>4. own' = [own EXCEPT ![c] = ch]
  BY <1>1, <1>3, Classes DEF Inv, TypeOK
<1> QED BY <1>1, <1>2, <1>3, <1>4, ReleaseStep

(* dealloc computes from the version the number of slots alloc was asked.  *)
LEMMA DeallocStep ==
  ASSUME Inv, BelowWrap, NEW c \in Consumers, NEW ch \in InUse, Dealloc(c, ch)
  PROVE  Inv'
<1>1. ch \in live /\ ch \in Held /\ \A u \in Threads : own[u] # ch
  BY HeldAre DEF InUse
<1>2. /\ ch \in Chunk /\ ch.tk \in Nat /\ ch.n \in Nat /\ ch.n < SlotCount
      /\ ch.tk < tkt["push"] /\ Slot(ch.tk) \in Slots
      /\ ch = [tk |-> ch.tk, n |-> ch.n] /\ tkt["push"] \in Nat
  BY <1>1, HeldHas, ChunkIs, HeldAre
<1>3. PICK k \in Nat : k = ch.tk
  BY <1>2
<1>4. PICK n \in Nat : n = ch.n /\ n < SlotCount
  BY <1>2
<1>5. ver[Slot(k)] = k + n
  <2>1. \A p \in Producers : own[p] # ch
    BY <1>1, Classes
  <2> QED BY <1>1, <1>3, <1>4, <2>1 DEF Inv, HeldOK
<1>6. SlotCount \in Nat /\ SlotCount >= 1 /\ TicketMod \in Nat /\ SlotCount \in Int
  BY Sizes
<1>7. k + n < TicketMod
  BY <1>2, <1>3, <1>4, <1>6 DEF BelowWrap
<1>8. Tk(k + n) = k + n
  BY <1>7, TicketSeen
<1>9. (k + n - Slot(k)) % SlotCount = n
  <2> DEFINE q == k \div SlotCount
             r == k % SlotCount
  <2>1. q \in Int /\ r \in 0..(SlotCount - 1) /\ k = SlotCount * q + r
    BY <1>6, DivMod
  <2>2. Slot(k) = r
    BY DEF Slot
  <2> HIDE DEF q, r
  <2>3. /\ k + n - r \in Int /\ k + n - r = n + SlotCount * q
    BY <1>6, <2>1
  <2>4. k + n - r = n + Laps(q, SlotCount)
    BY <2>3 DEF Laps
  <2>5. (k + n - r) % SlotCount = n % SlotCount
    <3>1. PICK x \in Int : x = k + n - r
      BY <2>3
    <3>2. q \in Int /\ n \in Int /\ x = n + Laps(q, SlotCount)
      BY <2>1, <2>4, <3>1
    <3>3. x % SlotCount = n % SlotCount
      BY ONLY <1>6, <3>1, <3>2, LapsVanish
    <3> QED BY <3>1, <3>3
  <2>6. n % SlotCount = n
    BY <1>4, <1>6, SmallNumber
  <2> QED BY <2>2, <2>5, <2>6
<1>10. PICK v, m : v = ver[Slot(ch.tk)] /\ m = (Tk(v) - Slot(ch.tk)) % SlotCount
  OBVIOUS
<1>11. m = n
  <2>1. v = k + n /\ ch.tk = k
    BY <1>3, <1>5, <1>10
  <2>2. m = (Tk(k + n) - Slot(k)) % SlotCount
    BY <1>10, <2>1
  <2>3. PICK w : w = Tk(k + n)
    OBVIOUS
  <2>4. w = k + n /\ m = (w - Slot(k)) % SlotCount
    BY <1>8, <2>2, <2>3
  <2>5. PICK s \in Int : s = Slot(k)
    BY SlotRange
  <2>6. (k + n - s) % SlotCount = n /\ m = (k + n - s) % SlotCount
    BY <1>9, <2>4, <2>5
  <2> QED BY <2>6
<1>12. /\ pc[c] = "idle" /\ use = "allocator" /\ LeaveUse(ch)
       /\ own' = [own EXCEPT ![c] = [tk |-> v - m, n |-> m]]
       /\ at' = [at EXCEPT ![c] = 1]
       /\ Goto(c, IF m = ch.n THEN "free" ELSE "trap")
       /\ UNCHANGED <<use, tkt, sig, ver, now, sg, arg, res>>
  BY <1>10 DEF Dealloc
<1>13. k + n - n = k
  OBVIOUS
<1>14. [tk |-> v - m, n |-> m] = ch
  BY <1>2, <1>3, <1>4, <1>5, <1>10, <1>11, <1>13
<1>15. own' = [own EXCEPT ![c] = ch] /\ pc' = [pc EXCEPT ![c] = "free"]
  BY <1>4, <1>11, <1>12, <1>14 DEF Goto
<1> QED BY <1>1, <1>12, <1>15, ReleaseStep

LEMMA FreeTailStep ==
  ASSUME Inv, NEW c \in Consumers, FreeTail(c)
  PROVE  Inv'
<1>1. c \in Threads /\ c \notin Producers
  BY Classes
<1>2. PICK ch : ch = own[c]
  OBVIOUS
<1>3. /\ pc[c] = "free" /\ ch \in Held /\ ch \notin live /\ ch \in Chunk
      /\ ch # NoChunk
  <2>1. pc[c] = "free"
    BY DEF FreeTail
  <2>2. ch \in Held /\ ch \notin live
    BY <1>1, <1>2, <2>1, HeldAre DEF Inv, OwnersOK
  <2> QED BY <2>1, <2>2, HeldAre
<1>4. PICK C \in Nat : C = Ceil(ch.tk, ch.n) /\ C <= SlotCount
  <2>1. ch.tk \in Nat /\ ch.n \in 1..SlotMax
    BY <1>3, ChunkIs, Sizes
  <2>2. Ceil(ch.tk, ch.n) \in Nat /\ Ceil(ch.tk, ch.n) < SlotCount
    BY <2>1, CeilIs, Zenon
  <2> QED BY <2>2, Sizes
<1>5. PICK m \in 1..C : m = at[c] /\ m < C
  BY <1>1, <1>2, <1>4 DEF FreeTail, Inv, FreeOK
<1>6. PICK tk \in Nat : tk = ch.tk
  BY <1>3, ChunkIs
<1>7. PICK s \in Slots : s = Slot(ch.tk)
  BY <1>3, HeldHas
<1>8. Slot(tk + m) = s + m /\ s + m \in Slots /\ s + m \in Mem(ch) /\ s + m # s
  <2>1. m \in 1..(Ceil(ch.tk, ch.n) - 1) /\ m \in 0..(Ceil(ch.tk, ch.n) - 1)
    BY <1>4, <1>5
  <2>2. m + 1 \in 1..Ceil(ch.tk, ch.n) /\ m \in 1..((m + 1) - 1)
    BY <1>4, <1>5
  <2>3. s + m \in Interior(ch)
    BY <1>3, <1>7, <2>2, FreedIs
  <2>4. s + m \in Slots /\ s + m \in Mem(ch) /\ s + m # s
    BY <1>7, <2>3 DEF Interior
  <2>5. Slot(tk) + m < SlotCount
    BY <1>6, <1>7, <2>4, Sizes
  <2>6. Slot(tk + m) = Slot(tk) + m
    BY <2>5, SlotPlus
  <2> QED BY <1>6, <1>7, <2>4, <2>6
<1>9. /\ ver' = [ver EXCEPT ![s + m] = tk + m + SlotCount]
      /\ at' = [at EXCEPT ![c] = m + 1]
      /\ UNCHANGED <<use, tkt, sig, data, live, pc, now, sg, arg, own, res>>
  BY <1>2, <1>5, <1>6, <1>8 DEF FreeTail
<1>10. /\ \A i \in Slots : i # s + m => ver'[i] = ver[i]
       /\ ver'[s + m] = tk + m + SlotCount
       /\ \A i \in Slots : i \notin Mem(ch) => ver'[i] = ver[i]
       /\ at'[c] = m + 1 /\ \A u \in Threads \ {c} : at'[u] = at[u]
  BY <1>1, <1>8, <1>9 DEF Inv, TypeOK
<1>11. tk + m + SlotCount \in Nat /\ tk + m + SlotCount # Junk
       /\ tk + m < tkt["push"] /\ SlotCount \in Nat /\ tkt["push"] \in Nat
  <2>1. tk + m + SlotCount \in Nat /\ SlotCount \in Nat
    BY Sizes
  <2>2. tk + C <= tkt["push"] /\ tkt["push"] \in Nat
    BY <1>3, <1>4, <1>6, HeldHas, HeldAre
  <2> QED BY <1>5, <2>1, <2>2, Sizes, SMTT(30)
<1>12. TypeOK'
  <2>1. ver' \in [Slots -> Nat \cup {Junk}]
    BY <1>9, <1>11 DEF Inv, TypeOK
  <2>2. at' \in [Threads -> 0..SlotCount]
    <3>1. m + 1 \in 0..SlotCount
      BY <1>4, <1>5, Sizes
    <3> QED BY <1>9, <3>1 DEF Inv, TypeOK
  <2> QED BY <1>9, <2>1, <2>2 DEF Inv, TypeOK
<1>13. \A g \in Held : ver'[Slot(g.tk)] = ver[Slot(g.tk)]
  <2>1. \A g \in Held : g # ch => ver'[Slot(g.tk)] = ver[Slot(g.tk)]
    BY <1>3, <1>9, <1>10, Elsewhere
  <2>2. ver'[Slot(ch.tk)] = ver[Slot(ch.tk)]
    BY <1>7, <1>8, <1>10
  <2> QED BY <2>1, <2>2
<1>14. Held' = Held
  BY <1>9 DEF Held
<1>15. \A u \in Threads \ {c} : Same(u)
  BY <1>9, <1>10 DEF Same
<1>16. \A u \in Threads : PlaceOK(u)'
  <2>1. ASSUME NEW u \in Threads, u # c
        PROVE  PlaceOK(u)'
    <3>1. \A d \in Sides : tkt[d] <= tkt'[d]
      BY <1>9 DEF Inv, TypeOK
    <3> QED BY <1>9, <1>12, <1>15, <2>1, <3>1, PlaceStays DEF Inv, TypeOK
  <2>2. PlaceOK(c)'
    BY <1>1, <1>2, <1>3, <1>9 DEF PlaceOK
  <2> QED BY <2>1, <2>2
<1>17. \A u \in Threads : CheckOK(u)'
  <2>1. ASSUME NEW u \in Producers
        PROVE  CheckOK(u)'
    <3>1. \A v \in Producers :
            pc[v] \in {"tail", "cas"} /\ now[v] = tkt["push"] =>
              \A j \in 0..(at[v] - 1) : ver'[Slot(now[v] + j)] = now[v] + j
      BY <1>3, <1>9, <1>10, Elsewhere
    <3>2. u \notin Consumers /\ Same(u)
      BY <1>1, <1>15, <2>1, Classes
    <3> QED BY <1>9, <2>1, <3>1, <3>2 DEF CheckOK, Same
  <2>2. ASSUME NEW u \in Threads, u \notin Producers, u # c
        PROVE  CheckOK(u)'
    <3>1. Same(u) /\ live' = live /\ tkt' = tkt
      BY <1>9, <1>15, <2>2
    <3>2. ASSUME u \in Consumers, pc[u] = "cas", now[u] = tkt["pop"]
          PROVE  /\ [tk |-> now[u], n |-> at[u]] \in live
                 /\ ver'[Slot(now[u])] = now[u] + at[u]
      <4>1. PICK g : g = [tk |-> now[u], n |-> at[u]]
        OBVIOUS
      <4>2. g \in live /\ ver[Slot(now[u])] = now[u] + at[u]
        BY <2>2, <3>2, <4>1 DEF Inv, CheckOK
      <4>3. g \in Held /\ g.tk = now[u]
        BY <4>1, <4>2, HeldAre
      <4> QED BY <1>13, <4>1, <4>2, <4>3
    <3> QED BY <2>2, <3>1, <3>2 DEF CheckOK, Same
  <2>3. CheckOK(c)'
    BY <1>1, <1>3, <1>9 DEF CheckOK
  <2> QED BY <2>1, <2>2, <2>3
<1>18. HeldOK'
  BY <1>9, <1>13, <1>14 DEF Inv, HeldOK, Open
<1>19. OwnersOK'
  <2>1. \A q \in Producers : Open(q)' => ver'[Slot(own'[q].tk)] = own'[q].tk
    <3>1. ASSUME NEW q \in Producers, Open(q)
          PROVE  ver'[Slot(own[q].tk)] = own[q].tk
      <4>1. own[q] \in Held
        BY <3>1, Classes, HeldAre DEF Inv, OwnersOK, Open, Using
      <4> QED BY <1>13, <3>1, <4>1 DEF Inv, OwnersOK
    <3> QED BY <1>9, <3>1 DEF Open
  <2> QED BY <1>9, <2>1 DEF Inv, OwnersOK, Using
<1>20. \A d \in Consumers : FreeOK(d)'
  <2>1. ASSUME NEW d \in Consumers, d # c
        PROVE  FreeOK(d)'
    <3>1. ASSUME pc[d] = "free", NEW j \in 1..(at[d] - 1)
          PROVE  ver'[Slot(own[d].tk) + j] = ver[Slot(own[d].tk) + j]
      <4>1. own[d] \in Held /\ own[d] # ch /\ own[d] \in Chunk
        BY <1>1, <1>2, <1>3, <2>1, <3>1, Classes, HeldAre DEF Inv, OwnersOK
      <4>2. at[d] \in 1..Ceil(own[d].tk, own[d].n)
        BY <2>1, <3>1 DEF Inv, FreeOK
      <4>3. PICK i : i = Slot(own[d].tk) + j
        OBVIOUS
      <4>4. i \in Interior(own[d])
        BY <3>1, <4>1, <4>2, <4>3, FreedIs
      <4>5. i \in Slots /\ i \in Mem(own[d])
        BY <4>4 DEF Interior
      <4> QED BY <1>3, <1>9, <1>10, <4>1, <4>3, <4>5, Elsewhere
    <3>2. pc'[d] = pc[d] /\ own'[d] = own[d] /\ at'[d] = at[d]
      BY <1>15, <2>1, Classes DEF Same
    <3> QED BY <2>1, <3>1, <3>2 DEF Inv, FreeOK
  <2>2. FreeOK(c)'
    <3>1. m + 1 \in 1..C
      BY <1>5
    <3>2. ASSUME NEW j \in 1..((m + 1) - 1)
          PROVE  ver'[s + j] = tk + j + SlotCount
      <4>1. CASE j = m
        BY <1>10, <4>1
      <4>2. CASE j # m
        <5>1. j \in 1..(m - 1) /\ j \in 1..(C - 1)
          BY <1>5, <3>2, <4>2
        <5>2. ver[s + j] = tk + j + SlotCount
          BY <1>1, <1>2, <1>3, <1>5, <1>6, <1>7, <5>1 DEF Inv, FreeOK
        <5>3. s + j \in Slots /\ s + j # s + m
          <6>1. m \in 1..Ceil(ch.tk, ch.n)
            BY <1>4
          <6>2. s + j \in Interior(ch)
            BY <1>3, <1>7, <5>1, <6>1, FreedIs
          <6>3. s \in Int
            BY Sizes
          <6> QED BY <4>2, <6>2, <6>3 DEF Interior
        <5> QED BY <1>10, <5>2, <5>3
      <4> QED BY <4>1, <4>2
    <3>3. own'[c] = ch /\ at'[c] = m + 1
      BY <1>2, <1>9, <1>10
    <3> QED BY <1>4, <1>6, <1>7, <3>1, <3>2, <3>3 DEF FreeOK
  <2> QED BY <2>1, <2>2
<1>21. VersionsOK'
  <2>1. ASSUME NEW i \in Slots, Covered(i), i # s + m
        PROVE  Covered(i)'
    <3>1. CASE \E h \in live : i \in Interior(h)
      BY <1>9, <3>1 DEF Covered
    <3>2. CASE i \in Interior(ch) /\ i >= s + m
      <4>1. i >= s + (m + 1)
        BY <2>1, <3>2, Sizes
      <4>2. i >= Slot(own'[c].tk) + at'[c]
        BY <1>2, <1>7, <1>9, <1>10, <4>1
      <4> QED BY <1>2, <1>3, <1>9, <3>2, <4>2 DEF Covered
    <3>3. CASE \E d \in Consumers : /\ d # c /\ pc[d] = "free"
                                    /\ i \in Interior(own[d])
                                    /\ i >= Slot(own[d].tk) + at[d]
      BY <1>15, <3>3, Classes DEF Covered, Same
    <3> QED BY <1>2, <1>5, <1>7, <2>1, <3>1, <3>2, <3>3 DEF Covered
  <2>2. \A i \in Slots : ver'[i] = Junk => Covered(i)'
    BY <1>10, <1>11, <2>1 DEF Inv, VersionsOK
  <2>3. tk + m + SlotCount < tkt["push"] + SlotCount
    BY <1>11
  <2>4. \A i \in Slots : ver'[i] # Junk => ver'[i] < tkt'["push"] + SlotCount
    BY <1>9, <1>10, <2>3 DEF Inv, VersionsOK
  <2>5. ASSUME NEW k \in (tkt["push"] - SlotCount)..(tkt["push"] - 1)
        PROVE  ver'[Slot(k)] = k + SlotCount \/ \E h \in Held' : Slot(k) \in Mem(h)
    <3>1. k \in Int
      BY <2>5, Sizes, HeldAre
    <3>2. Slot(k) \in Slots
      BY <3>1, SlotRange
    <3>3. ver'[Slot(k)] = ver[Slot(k)] \/ Slot(k) \in Mem(ch)
      BY <1>10, <3>2
    <3> QED BY <1>3, <1>14, <2>5, <3>3 DEF Inv, VersionsOK
  <2> QED BY <1>9, <2>2, <2>4, <2>5 DEF VersionsOK
<1>22. DataOK'
  BY <1>9 DEF Inv, DataOK
<1>23. QueueOK'
  BY <1>9 DEF Inv, QueueOK
<1> QED BY <1>12, <1>16, <1>17, <1>18, <1>19, <1>20, <1>21, <1>22, <1>23 DEF Inv

(* The release ends: every slot has the version of the next lap.           *)
LEMMA FreeHeadStep ==
  ASSUME Inv, NEW c \in Consumers, FreeHead(c)
  PROVE  Inv'
<1>1. c \in Threads /\ c \notin Producers
  BY Classes
<1>2. PICK ch : ch = own[c]
  OBVIOUS
<1>3. /\ pc[c] = "free" /\ ch \in Held /\ ch \notin live /\ ch \in Chunk
      /\ ch # NoChunk
  <2>1. pc[c] = "free"
    BY DEF FreeHead
  <2>2. ch \in Held /\ ch \notin live
    BY <1>1, <1>2, <2>1, HeldAre DEF Inv, OwnersOK
  <2> QED BY <2>1, <2>2, HeldAre
<1>4. PICK C \in Nat : C = Ceil(ch.tk, ch.n) /\ C >= 1
  BY <1>3, HeldHas
<1>5. at[c] = C
  <2>1. at[c] \in 1..C /\ at[c] >= C
    BY <1>1, <1>2, <1>4 DEF FreeHead, Inv, FreeOK
  <2> QED BY <2>1
<1>6. PICK tk \in Nat : tk = ch.tk
  BY <1>3, ChunkIs
<1>7. PICK s \in Slots : s = Slot(tk)
  BY <1>3, <1>6, HeldHas
<1>8. /\ s \in Mem(ch) /\ tk + C <= tkt["push"] /\ tkt["push"] <= tk + SlotCount
      /\ tk < tkt["push"] /\ tkt["push"] \in Nat /\ SlotCount \in Nat
      /\ SlotCount >= 2
  BY <1>3, <1>4, <1>6, <1>7, HeldHas, HeldAre, Sizes
<1>9. /\ ver' = [ver EXCEPT ![s] = tk + SlotCount] /\ Return(c, "ok")
      /\ use' = use /\ tkt' = tkt /\ sig' = sig /\ data' = data /\ live' = live
  BY <1>2, <1>6, <1>7 DEF FreeHead
<1>10. /\ \A i \in Slots : i # s => ver'[i] = ver[i]
       /\ ver'[s] = tk + SlotCount
       /\ \A i \in Slots : i \notin Mem(ch) => ver'[i] = ver[i]
  BY <1>8, <1>9 DEF Inv, TypeOK
<1>11. /\ LocalsOK' /\ \A u \in Threads \ {c} : Same(u)
       /\ pc'[c] = "idle" /\ own'[c] = NoChunk
  BY <1>1, <1>9, Returned DEF Inv, Results, OnlyMoves
<1>12. tk + SlotCount \in Nat /\ tk + SlotCount # Junk
       /\ tk + SlotCount < tkt["push"] + SlotCount
  BY <1>8, Sizes
<1>13. TypeOK'
  <2>1. ver' \in [Slots -> Nat \cup {Junk}]
    BY <1>9, <1>12 DEF Inv, TypeOK
  <2> QED BY <1>9, <1>11, <2>1 DEF Inv, TypeOK, LocalsOK
<1>14. \A g \in Held : g # ch => ver'[Slot(g.tk)] = ver[Slot(g.tk)]
  BY <1>3, <1>9, <1>10, Elsewhere
<1>15. /\ \A u \in Threads \ {c} : own[u] # ch
       /\ \A q \in Producers : Same(q) /\ (Open(q)' <=> Open(q)) /\ q # c
       /\ \A u \in Threads : Using(u)' => Using(u) /\ u # c
  BY <1>1, <1>2, <1>3, <1>11, Classes DEF Inv, OwnersOK, Open, Using, Same
<1>16. Held' = Held \ {ch}
  <2>1. {own'[d] : d \in {e \in Consumers : pc'[e] = "free"}}
          = {own[d] : d \in {e \in Consumers : pc[e] = "free"}} \ {ch}
    <3>1. \A d \in Consumers : d # c =>
            (pc'[d] = "free" <=> pc[d] = "free") /\ own'[d] = own[d] /\ own[d] # ch
      BY <1>11, <1>15, Classes DEF Same
    <3> QED BY <1>2, <1>11, <3>1
  <2> QED BY <1>3, <1>9, <2>1 DEF Held
<1>17. \A u \in Threads : PlaceOK(u)'
  <2>1. ASSUME NEW u \in Threads, u # c
        PROVE  PlaceOK(u)'
    <3>1. \A d \in Sides : tkt[d] <= tkt'[d]
      BY <1>9 DEF Inv, TypeOK
    <3> QED BY <1>9, <1>11, <1>13, <2>1, <3>1, PlaceStays DEF Inv, TypeOK
  <2>2. PlaceOK(c)'
    BY <1>11 DEF PlaceOK
  <2> QED BY <2>1, <2>2
<1>18. \A u \in Threads : CheckOK(u)'
  <2>1. ASSUME NEW u \in Producers
        PROVE  CheckOK(u)'
    <3>1. \A v \in Producers :
            pc[v] \in {"tail", "cas"} /\ now[v] = tkt["push"] =>
              \A j \in 0..(at[v] - 1) : ver'[Slot(now[v] + j)] = now[v] + j
      BY <1>3, <1>9, <1>10, Elsewhere
    <3>2. u \notin Consumers /\ Same(u)
      BY <1>15, <2>1, Classes
    <3> QED BY <1>9, <2>1, <3>1, <3>2 DEF CheckOK, Same
  <2>2. ASSUME NEW u \in Threads, u \notin Producers, u # c
        PROVE  CheckOK(u)'
    <3>1. Same(u) /\ live' = live /\ tkt' = tkt
      BY <1>9, <1>11, <2>2
    <3>2. ASSUME u \in Consumers, pc[u] = "cas", now[u] = tkt["pop"]
          PROVE  /\ [tk |-> now[u], n |-> at[u]] \in live
                 /\ ver'[Slot(now[u])] = now[u] + at[u]
      <4>1. PICK g : g = [tk |-> now[u], n |-> at[u]]
        OBVIOUS
      <4>2. g \in live /\ ver[Slot(now[u])] = now[u] + at[u]
        BY <2>2, <3>2, <4>1 DEF Inv, CheckOK
      <4>3. g \in Held /\ g # ch /\ g.tk = now[u]
        BY <1>3, <4>1, <4>2, HeldAre
      <4> QED BY <1>14, <4>1, <4>2, <4>3
    <3> QED BY <2>2, <3>1, <3>2 DEF CheckOK, Same
  <2>3. CheckOK(c)'
    BY <1>11 DEF CheckOK
  <2> QED BY <2>1, <2>2, <2>3
<1>19. HeldOK'
  BY <1>9, <1>14, <1>15, <1>16 DEF Inv, HeldOK, Same
<1>20. OwnersOK'
  <2>1. \A u \in Threads : Using(u)' => own'[u] \in live'
    BY <1>9, <1>11, <1>15 DEF Inv, OwnersOK, Same
  <2>2. \A u \in Threads : pc'[u] = "free" => own'[u] \notin live'
    BY <1>9, <1>11 DEF Inv, OwnersOK, Same
  <2>3. \A u, v \in Threads : own'[u] # NoChunk /\ u # v => own'[u] # own'[v]
    BY <1>11 DEF Inv, OwnersOK, Same
  <2>4. \A q \in Producers : Open(q)' => ver'[Slot(own'[q].tk)] = own'[q].tk
    <3>1. ASSUME NEW q \in Producers, Open(q)
          PROVE  ver'[Slot(own[q].tk)] = own[q].tk
      <4>1. own[q] \in Held /\ own[q] # ch
        BY <1>3, <3>1, Classes, HeldAre DEF Inv, OwnersOK, Open, Using
      <4> QED BY <1>14, <3>1, <4>1 DEF Inv, OwnersOK
    <3> QED BY <1>15, <3>1 DEF Same
  <2>5. \A d \in Consumers :
          use' = "queue" /\ own'[d] # NoChunk => own'[d].tk < tkt'["pop"]
    BY <1>9, <1>11, Classes DEF Inv, OwnersOK, Same
  <2> QED BY <2>1, <2>2, <2>3, <2>4, <2>5 DEF OwnersOK
<1>21. \A d \in Consumers : FreeOK(d)'
  <2>1. ASSUME NEW d \in Consumers, d # c
        PROVE  FreeOK(d)'
    <3>1. ASSUME pc[d] = "free", NEW j \in 1..(at[d] - 1)
          PROVE  ver'[Slot(own[d].tk) + j] = ver[Slot(own[d].tk) + j]
      <4>1. own[d] \in Held /\ own[d] # ch /\ own[d] \in Chunk
        BY <1>15, <2>1, <3>1, Classes, HeldAre
      <4>2. at[d] \in 1..Ceil(own[d].tk, own[d].n)
        BY <2>1, <3>1 DEF Inv, FreeOK
      <4>3. PICK i : i = Slot(own[d].tk) + j
        OBVIOUS
      <4>4. i \in Interior(own[d])
        BY <3>1, <4>1, <4>2, <4>3, FreedIs
      <4>5. i \in Slots /\ i \in Mem(own[d])
        BY <4>4 DEF Interior
      <4> QED BY <1>3, <1>9, <1>10, <4>1, <4>3, <4>5, Elsewhere
    <3>2. pc'[d] = pc[d] /\ own'[d] = own[d] /\ at'[d] = at[d]
      BY <1>11, <2>1, Classes DEF Same
    <3> QED BY <2>1, <3>1, <3>2 DEF Inv, FreeOK
  <2>2. FreeOK(c)'
    BY <1>11 DEF FreeOK
  <2> QED BY <2>1, <2>2
<1>22. VersionsOK'
  <2>1. ASSUME NEW i \in Slots, Covered(i)
        PROVE  Covered(i)'
    <3>1. CASE \E h \in live : i \in Interior(h)
      BY <1>9, <3>1 DEF Covered
    <3>2. CASE i \in Interior(ch) /\ i >= s + C
      <4>1. PICK j \in 1..(C - 1) : i = s + j
        BY <1>3, <1>4, <1>6, <1>7, <2>1, <3>2, MemHas
      <4> QED BY <1>4, <3>2, <4>1, Sizes
    <3>3. CASE \E d \in Consumers : /\ d # c /\ pc[d] = "free"
                                    /\ i \in Interior(own[d])
                                    /\ i >= Slot(own[d].tk) + at[d]
      BY <1>11, <3>3, Classes DEF Covered, Same
    <3> QED BY <1>2, <1>5, <1>6, <1>7, <2>1, <3>1, <3>2, <3>3 DEF Covered
  <2>2. \A i \in Slots : ver'[i] = Junk => Covered(i)'
    BY <1>10, <1>12, <2>1 DEF Inv, VersionsOK
  <2>3. \A i \in Slots : ver'[i] # Junk => ver'[i] < tkt'["push"] + SlotCount
    BY <1>9, <1>10, <1>12 DEF Inv, VersionsOK
  <2>4. ASSUME NEW k \in (tkt["push"] - SlotCount)..(tkt["push"] - 1)
        PROVE  ver'[Slot(k)] = k + SlotCount \/ \E h \in Held' : Slot(k) \in Mem(h)
    <3>1. k \in Int
      BY <1>8, <2>4
    <3>2. Slot(k) \in Slots
      BY <3>1, SlotRange
    <3>3. CASE Slot(k) \in Mem(ch)
      <4>1. PICK j \in 0..(C - 1) : Slot(k) = s + j /\ Slot(k) = Slot(tk + j)
        BY <1>3, <1>4, <1>6, <1>7, <3>2, <3>3, MemHas
      <4>2. k - (tk + j) < SlotCount /\ (tk + j) - k < SlotCount /\ tk + j \in Int
        BY <1>4, <1>8, <2>4, <4>1
      <4>3. k = tk + j
        BY <3>1, <4>1, <4>2, SlotOnce
      <4>4. ver'[Slot(k)] = tk + j + SlotCount
        <5>1. CASE j = 0
          BY <1>8, <1>10, <4>1, <5>1, Sizes
        <5>2. CASE j # 0
          <6>1. j \in 1..(C - 1)
            BY <4>1, <5>2
          <6>2. ver[s + j] = tk + j + SlotCount
            BY <1>1, <1>2, <1>3, <1>5, <1>6, <1>7, <6>1 DEF Inv, FreeOK
          <6>3. s + j # s
            BY <5>2, Sizes
          <6> QED BY <1>10, <3>2, <4>1, <6>2, <6>3
        <5> QED BY <5>1, <5>2
      <4> QED BY <4>3, <4>4
    <3>4. CASE Slot(k) \notin Mem(ch)
      <4>1. ver'[Slot(k)] = ver[Slot(k)]
        BY <1>10, <3>2, <3>4
      <4>2. ver[Slot(k)] = k + SlotCount \/ \E h \in Held : Slot(k) \in Mem(h)
        BY <2>4 DEF Inv, VersionsOK
      <4> QED BY <1>16, <3>4, <4>1, <4>2
    <3> QED BY <3>3, <3>4
  <2> QED BY <1>9, <2>2, <2>3, <2>4 DEF VersionsOK
<1>23. DataOK'
  BY <1>9, <1>15 DEF Inv, DataOK, Same
<1>24. QueueOK'
  BY <1>9 DEF Inv, QueueOK
<1> QED BY <1>13, <1>17, <1>18, <1>19, <1>20, <1>21, <1>22, <1>23, <1>24 DEF Inv

LEMMA SignalStep ==
  ASSUME Inv, NEW t \in Signallers, Signal(t)
  PROVE  Inv'
<1>1. t \in Threads
  BY Classes
<1>2. PICK a \in SigCalls : SignalTrySet(t, a)
  BY DEF Signal
<1>3. /\ UNCHANGED <<use, tkt, ver, data, pc, now, sg, arg, at, own, live>>
      /\ \/ sig' = [sig EXCEPT ![a.side] = a.desired]
         \/ sig' = sig
      /\ \/ res' = [res EXCEPT ![t] = "ok"]
         \/ res' = [res EXCEPT ![t] = "preconditions"]
  BY <1>2 DEF SignalTrySet
<1>4. a.desired \in Sigs
  BY PoolAssumption DEF PoolAssumption, SigCall
<1>5. TypeOK'
  <2>1. sig' \in [Sides -> Sigs]
    BY <1>3, <1>4 DEF Inv, TypeOK
  <2>2. res' \in [Threads -> Results]
    <3>1. "ok" \in Results /\ "preconditions" \in Results
      BY DEF Results
    <3> QED BY <1>3, <3>1 DEF Inv, TypeOK
  <2> QED BY <1>3, <2>1, <2>2 DEF Inv, TypeOK
<1>6. \A u \in Threads : PlaceOK(u)' /\ CheckOK(u)'
  BY <1>3 DEF Inv, PlaceOK, CheckOK
<1>7. Held' = Held
  BY <1>3 DEF Held
<1>8. HeldOK' /\ OwnersOK'
  BY <1>3, <1>7 DEF Inv, HeldOK, OwnersOK, Open, Using
<1>9. \A d \in Consumers : FreeOK(d)'
  BY <1>3 DEF Inv, FreeOK
<1>10. \A i \in Slots : Covered(i)' <=> Covered(i)
  BY <1>3 DEF Covered
<1>11. VersionsOK'
  BY <1>3, <1>7, <1>10 DEF Inv, VersionsOK
<1>12. DataOK' /\ QueueOK'
  BY <1>3 DEF Inv, DataOK, QueueOK
<1> QED BY <1>5, <1>6, <1>8, <1>9, <1>11, <1>12 DEF Inv

---------------------------------------------------------------------------
(* The invariant holds initially and every step before the wrap keeps it.  *)

LEMMA InitHolds ==
  ASSUME Init
  PROVE  Inv
<1>1. /\ tkt["push"] = 0 /\ tkt["pop"] = 0 /\ live = {}
      /\ \A i \in Slots : ver[i] = i
      /\ \A t \in Threads : pc[t] = "idle" /\ own[t] = NoChunk
  BY DEF Init, Sides
<1>2. TypeOK
  <2>1. NoCall \in Call
    BY Sizes DEF NoCall, Call
  <2>2. /\ ver \in [Slots -> Nat \cup {Junk}]
        /\ data \in [Memory -> Nat \cup {None}]
    BY Sizes DEF Init
  <2>3. /\ tkt \in [Sides -> Nat] /\ sig \in [Sides -> Sigs]
        /\ sg \in [Threads -> Sigs] /\ at \in [Threads -> 0..SlotCount]
    BY Sizes DEF Init
  <2>4. /\ pc \in [Threads -> Places] /\ now \in [Threads -> Nat \cup {None}]
        /\ arg \in [Threads -> Call] /\ own \in [Threads -> Chunk \cup {NoChunk}]
        /\ res \in [Threads -> Results] /\ use \in Uses /\ live \subseteq Chunk
    BY <2>1 DEF Init, Places, Results
  <2> QED BY <2>2, <2>3, <2>4 DEF TypeOK
<1>3. \A t \in Threads : PlaceOK(t) /\ CheckOK(t)
  BY <1>1 DEF PlaceOK, CheckOK
<1>4. Held = {}
  BY <1>1, Classes DEF Held
<1>5. HeldOK /\ OwnersOK
  BY <1>1, <1>4, Classes DEF HeldOK, OwnersOK, Using, Open
<1>6. \A c \in Consumers : FreeOK(c)
  BY <1>1, Classes DEF FreeOK
<1>7. VersionsOK
  <2>1. \A i \in Slots : i \in Nat /\ i < SlotCount
    BY Sizes
  <2>2. \A i \in Slots : ver[i] # Junk /\ ver[i] < tkt["push"] + SlotCount
    BY <1>1, <2>1, Sizes
  <2>3. ASSUME NEW k \in (0 - SlotCount)..(0 - 1)
        PROVE  ver[Slot(k)] = k + SlotCount
    <3>1. k + SlotCount \in Slots /\ k \in Int
      BY <2>3, Sizes
    <3>2. Slot(k) = k + SlotCount
      BY <3>1, SlotLap, FirstLap
    <3> QED BY <1>1, <3>1, <3>2
  <2> QED BY <1>1, <2>2, <2>3 DEF VersionsOK
<1>8. DataOK /\ QueueOK
  <2>1. 0..(0 - 1) = {}
    OBVIOUS
  <2> QED BY <1>1, <2>1 DEF DataOK, QueueOK
<1> QED BY <1>2, <1>3, <1>5, <1>6, <1>7, <1>8 DEF Inv

(* The parts of the invariant survive every step taken while the ticket    *)
(* field has not wrapped.                                                  *)
THEOREM Inductive ==
  Inv /\ BelowWrap /\ [Next]_vars => Inv'
<1> SUFFICES ASSUME Inv, BelowWrap, [Next]_vars PROVE Inv'
  OBVIOUS
<1>1. ASSUME NEW t \in Producers \cup Consumers, Loop(t)
      PROVE  Inv'
  BY <1>1, LoopStep
<1>2. ASSUME NEW p \in Producers, Produce(p)
      PROVE  Inv'
  BY <1>2, CheckHeadStep, CheckTailStep, RecheckStep, ProduceTakesStep,
     FillStep, ProduceCommitStep DEF Produce
<1>3. ASSUME NEW c \in Consumers, Consume(c)
      PROVE  Inv'
  BY <1>3, CheckConsumeStep, ConsumeTakesStep, GiveBackStep DEF Consume
<1>4. ASSUME NEW c \in Consumers, Free(c)
      PROVE  Inv'
  BY <1>4, FreeTailStep, FreeHeadStep DEF Free
<1>5. ASSUME NEW c \in Consumers, NEW ch \in InUse, Dealloc(c, ch)
      PROVE  Inv'
  BY <1>5, DeallocStep
<1>6. ASSUME NEW t \in Signallers, Signal(t)
      PROVE  Inv'
  BY <1>6, SignalStep
<1>7. CASE UNCHANGED vars
  <2>1. /\ use' = use /\ tkt' = tkt /\ sig' = sig /\ ver' = ver /\ data' = data
        /\ pc' = pc /\ now' = now /\ sg' = sg /\ arg' = arg /\ at' = at
        /\ own' = own /\ res' = res /\ live' = live
    BY <1>7 DEF vars
  <2>2. TypeOK' /\ Held' = Held
    BY <2>1 DEF Inv, TypeOK, Held
  <2>3. \A u \in Threads : PlaceOK(u)' /\ CheckOK(u)'
    BY <2>1 DEF Inv, PlaceOK, CheckOK
  <2>4. HeldOK' /\ OwnersOK'
    BY <2>1, <2>2 DEF Inv, HeldOK, OwnersOK, Open, Using
  <2>5. \A d \in Consumers : FreeOK(d)'
    BY <2>1 DEF Inv, FreeOK
  <2>6. \A i \in Slots : Covered(i)' <=> Covered(i)
    BY <2>1 DEF Covered
  <2>7. VersionsOK' /\ DataOK' /\ QueueOK'
    BY <2>1, <2>2, <2>6 DEF Inv, VersionsOK, DataOK, QueueOK
  <2> QED BY <2>2, <2>3, <2>4, <2>5, <2>7 DEF Inv
<1> QED BY <1>1, <1>2, <1>3, <1>4, <1>5, <1>6, <1>7 DEF Next

(* Until the ticket field wraps the invariant holds.                       *)
THEOREM Invariance ==
  Spec /\ []BelowWrap => []Inv
<1>1. Inv /\ BelowWrap /\ [Next]_vars => Inv'
  BY Inductive
<1> QED BY <1>1, InitHolds, PTL DEF Spec

(* Every variable keeps its type; the arithmetic on versions of dealloc    *)
(* never yields a chunk of another size.                                   *)
THEOREM TypeCorrect ==
  Spec /\ []BelowWrap => []TypeOK
<1>1. Inv => TypeOK
  BY DEF Inv
<1> QED BY <1>1, Invariance, PTL

(* No two chunks reserved and not released share a slot or a byte of the   *)
(* tail, and no two threads have the same chunk.                           *)
THEOREM ChunksNeverShare ==
  Spec /\ []BelowWrap => []ChunksApart
<1>1. Inv => ChunksApart
  <2> SUFFICES ASSUME Inv PROVE ChunksApart
    OBVIOUS
  <2>1. \A a, b \in live : a # b => Mem(a) \cap Mem(b) = {}
    BY HeldAre DEF Inv, HeldOK
  <2>2. ASSUME NEW t \in Threads, NEW u \in Threads, Using(t), t # u
        PROVE  own[t] # own[u]
    <3>1. own[t] # NoChunk
      BY <2>2 DEF Using, Inv, PlaceOK
    <3> QED BY <2>2, <3>1 DEF Inv, OwnersOK
  <2> QED BY <2>1, <2>2 DEF ChunksApart
<1> QED BY <1>1, Invariance, PTL

(* Chunks keep their payload until they are released, consumers get them   *)
(* as they were reserved and dealloc never traps.                          *)
THEOREM PayloadStays ==
  Spec /\ []BelowWrap => []PayloadKept
<1>1. Inv => PayloadKept
  <2> SUFFICES ASSUME Inv PROVE PayloadKept
    OBVIOUS
  <2>1. ASSUME NEW ch \in live, \A p \in Producers : own[p] # ch
        PROVE  \A i \in Mem(ch) : data[i] = ch.tk
    BY <2>1 DEF Inv, DataOK
  <2>2. \A c \in Consumers : pc[c] = "own" => own[c] \in live
    BY Classes DEF Inv, OwnersOK, Using
  <2>3. \A t \in Threads : pc[t] # "trap"
    BY DEF Inv, PlaceOK
  <2> QED BY <2>1, <2>2, <2>3 DEF PayloadKept
<1> QED BY <1>1, Invariance, PTL

---------------------------------------------------------------------------
(* What the invariant leaves open and the answers rest on: versions never  *)
(* lag behind the last lap of tickets, chunks not committed are not passed *)
(* by the consumers' word, and that word never points inside a chunk.      *)
VersionsGrow ==
  \A k \in (tkt["push"] - SlotCount)..(tkt["push"] - 1) :
    ver[Slot(k)] = Junk \/ ver[Slot(k)] >= k

OpenAhead ==
  use = "queue" => \A p \in Producers : Open(p) => tkt["pop"] <= own[p].tk

WordsBetween ==
  \A c \in Consumers : pc[c] = "head" =>
    \A h \in Held : now[c] <= h.tk \/ h.tk + Ceil(h.tk, h.n) <= now[c]

Passed == VersionsGrow /\ OpenAhead /\ WordsBetween

(* The steps of one thread.                                                *)
Step(t) ==
  \/ t \in Producers \cup Consumers /\ Loop(t)
  \/ t \in Producers /\ Produce(t)
  \/ t \in Consumers /\ (Consume(t) \/ Free(t) \/ \E ch \in InUse : Dealloc(t, ch))
  \/ t \in Signallers /\ Signal(t)

LEMMA NextIsStep ==
  ASSUME Next
  PROVE  \E t \in Threads : Step(t)
BY DEF Next, Step, Threads

LEMMA LoadedMoves ==
  ASSUME TypeOK, NEW t \in Threads, NEW a, Loaded(t, a)
  PROVE  /\ OnlyMoves(t)
         /\ \/ pc'[t] = "idle" /\ res'[t] = "preconditions"
            \/ pc'[t] = "head" /\ now'[t] = tkt[Side(t)]
<1>1. CASE Return(t, "preconditions")
  BY <1>1 DEF Return, OnlyMoves, Same, TypeOK
<1>2. CASE /\ Goto(t, "head")
           /\ now' = [now EXCEPT ![t] = tkt[Side(t)]]
           /\ arg' = [arg EXCEPT ![t] = a]
           /\ at' = [at EXCEPT ![t] = 0]
           /\ UNCHANGED own
  BY <1>2 DEF Goto, OnlyMoves, Same, TypeOK
<1> QED BY <1>1, <1>2 DEF Loaded

(* A step of a thread leaves the others where they are, with what they     *)
(* hold.                                                                   *)
LEMMA OneMoves ==
  ASSUME TypeOK, NEW t \in Threads, Step(t)
  PROVE  OnlyMoves(t) /\ use' = use
<1>1. CASE t \in Producers \cup Consumers /\ Loop(t)
  <2>1. (\E a : Loaded(t, a)) /\ use' = use
    BY <1>1 DEF Loop, Prepare, Reload, CasFails, shared
  <2> QED BY <2>1, LoadedMoves
<1>2. CASE t \in Producers /\ Produce(t)
  <2>1. CASE CheckHead(t)
    BY <2>1 DEF CheckHead, Return, Goto, OnlyMoves, Same, TypeOK, shared
  <2>2. CASE CheckTail(t)
    BY <2>2 DEF CheckTail, Goto, OnlyMoves, Same, TypeOK, shared
  <2>3. CASE Recheck(t)
    <3>1. CASE Return(t, "would_overflow")
      BY <2>3, <3>1 DEF Recheck, Return, OnlyMoves, Same, TypeOK, shared
    <3>2. CASE Loaded(t, arg[t])
      BY <2>3, <3>2, LoadedMoves DEF Recheck, shared
    <3> QED BY <2>3, <3>1, <3>2 DEF Recheck
  <2>4. CASE ProduceTakes(t)
    BY <2>4 DEF ProduceTakes, TakeWord, Goto, OnlyMoves, Same, TypeOK
  <2>5. CASE Fill(t)
    BY <2>5 DEF Fill, Return, Goto, OnlyMoves, Same, TypeOK
  <2>6. CASE ProduceCommit(t)
    BY <2>6 DEF ProduceCommit, Return, Goto, OnlyMoves, Same, TypeOK
  <2> QED BY <1>2, <2>1, <2>2, <2>3, <2>4, <2>5, <2>6 DEF Produce
<1>3. CASE t \in Consumers /\ Consume(t)
  <2>1. CASE CheckConsume(t)
    BY <2>1 DEF CheckConsume, Return, Goto, OnlyMoves, Same, TypeOK, shared
  <2>2. CASE ConsumeTakes(t)
    BY <2>2 DEF ConsumeTakes, TakeWord, Goto, OnlyMoves, Same, TypeOK
  <2>3. CASE GiveBack(t)
    BY <2>3 DEF GiveBack, Goto, OnlyMoves, Same, TypeOK
  <2> QED BY <1>3, <2>1, <2>2, <2>3 DEF Consume
<1>4. CASE t \in Consumers /\ Free(t)
  BY <1>4 DEF Free, FreeTail, FreeHead, Return, OnlyMoves, Same, TypeOK
<1>5. ASSUME NEW ch \in InUse, Dealloc(t, ch)
      PROVE  OnlyMoves(t) /\ use' = use
  BY <1>5 DEF Dealloc, Goto, OnlyMoves, Same, TypeOK
<1>6. CASE t \in Signallers /\ Signal(t)
  BY <1>6 DEF Signal, SignalTrySet, OnlyMoves, Same
<1> QED BY <1>1, <1>2, <1>3, <1>4, <1>5, <1>6 DEF Step

(* Chunks held lie one after the other.                                    *)
LEMMA OneAfterOther ==
  ASSUME Inv, NEW a \in Held, NEW b \in Held, a # b, a.tk <= b.tk
  PROVE  a.tk + Ceil(a.tk, a.n) <= b.tk
<1>1. /\ a \in Chunk /\ a.tk \in Nat /\ a.n \in Nat /\ a.n >= 1
      /\ b.tk \in Nat /\ Slot(b.tk) \in Slots /\ Slot(b.tk) \in Mem(b)
  BY HeldHas
<1>2. PICK C \in Nat : C = Ceil(a.tk, a.n)
  BY HeldHas
<1>3. PICK q \in Nat : q = a.tk
  BY <1>1
<1>4. SUFFICES ASSUME ~(q + C <= b.tk) PROVE FALSE
  BY <1>2, <1>3
<1>5. PICK j \in 0..(C - 1) : b.tk = q + j
  <2>1. b.tk - q \in 0..(C - 1) /\ b.tk = q + (b.tk - q)
    BY <1>1, <1>3, <1>4
  <2> QED BY <2>1
<1>6. Slot(q + j) = Slot(q) + j
  <2>1. q \in Int
    OBVIOUS
  <2>2. Slot(q) + Ceil(q, a.n) <= SlotCount
    BY <1>1, <2>1, CeilHas, Zenon
  <2>3. Slot(q) \in 0..(SlotCount - 1)
    BY <2>1, SlotRange
  <2>4. Slot(q) + j < SlotCount /\ j \in Nat
    BY <1>2, <1>3, <2>2, <2>3, Sizes
  <2> QED BY <2>1, <2>4, SlotPlus
<1>7. Slot(b.tk) \in Mem(a)
  BY <1>1, <1>2, <1>3, <1>5, <1>6, MemHas
<1> QED BY <1>1, <1>7 DEF Inv, HeldOK

(* The word of the consumers is at the start of a chunk.                   *)
LEMMA WordBetween ==
  ASSUME Inv, use = "queue", NEW h \in Held
  PROVE  tkt["pop"] <= h.tk \/ h.tk + Ceil(h.tk, h.n) <= tkt["pop"]
<1>1. /\ tkt["pop"] \in Nat /\ tkt["push"] \in Nat /\ tkt["pop"] <= tkt["push"]
      /\ h.tk \in Nat /\ h.tk + Ceil(h.tk, h.n) <= tkt["push"]
  BY HeldAre, HeldHas DEF Inv, QueueOK
<1>2. CASE tkt["pop"] = tkt["push"]
  BY <1>1, <1>2
<1>3. CASE tkt["pop"] # tkt["push"] /\ h.tk < tkt["pop"]
  <2>1. tkt["pop"] \in tkt["pop"]..(tkt["push"] - 1)
    BY <1>1, <1>3
  <2>2. PICK g \in live : tkt["pop"] <= g.tk /\ g.tk <= tkt["pop"]
    BY <2>1 DEF Inv, QueueOK
  <2>3. g \in Held /\ g.tk \in Nat
    BY HeldAre, HeldHas
  <2>4. g.tk = tkt["pop"] /\ g # h /\ h.tk <= g.tk
    BY <1>1, <1>3, <2>2, <2>3
  <2> QED BY <2>3, <2>4, OneAfterOther
<1> QED BY <1>1, <1>2, <1>3

LEMMA GrowsOn ==
  ASSUME Inv, VersionsGrow, tkt' = tkt, NEW e \in Int,
         tkt["push"] - SlotCount <= e, e < tkt["push"],
         \A i \in Slots : i # Slot(e) => ver'[i] = ver[i], ver'[Slot(e)] >= e
  PROVE  VersionsGrow'
<1>1. PICK P \in Nat : P = tkt["push"]
  BY HeldAre
<1>2. SlotCount \in Nat
  BY Sizes
<1>3. ASSUME NEW k \in (P - SlotCount)..(P - 1)
      PROVE  ver'[Slot(k)] = Junk \/ ver'[Slot(k)] >= k
  <2>1. k \in Int
    BY <1>2
  <2>2. Slot(k) \in Slots
    BY <2>1, SlotRange
  <2>3. CASE Slot(k) = Slot(e)
    <3>1. k - e < SlotCount /\ e - k < SlotCount
      BY <1>1, <1>2, <1>3
    <3>2. k = e
      BY <2>1, <2>3, <3>1, SlotOnce
    <3> QED BY <3>2
  <2>4. CASE Slot(k) # Slot(e)
    BY <1>1, <1>3, <2>2, <2>4 DEF VersionsGrow
  <2> QED BY <2>3, <2>4
<1> QED BY <1>1, <1>3 DEF VersionsGrow

LEMMA GrowsStep ==
  ASSUME Inv, BelowWrap, VersionsGrow, NEW t \in Threads, Step(t)
  PROVE  VersionsGrow'
<1>1. PICK P \in Nat : P = tkt["push"]
  BY HeldAre
<1>2. SlotCount \in Nat /\ SlotCount >= 2
  BY Sizes
<1>3. ASSUME ver' = ver, tkt'["push"] = tkt["push"]
      PROVE  VersionsGrow'
  BY <1>3 DEF VersionsGrow
<1>4. CASE t \in Producers \cup Consumers /\ Loop(t)
  BY <1>3, <1>4 DEF Loop, Prepare, Reload, CasFails, shared
<1>5. CASE t \in Producers /\ Produce(t)
  <2>1. CASE CheckHead(t) \/ CheckTail(t) \/ Recheck(t)
    BY <1>3, <2>1 DEF CheckHead, CheckTail, Recheck, shared
  <2>2. CASE ProduceTakes(t)
    <3>1. PICK n \in 1..SlotMax : n = arg[t].slots
      BY <1>5, Classes DEF Inv, TypeOK, Call
    <3>2. PICK C \in Nat : C = Ceil(P, n)
      BY CeilIs
    <3>3. pc[t] = "cas" /\ Matches(t) /\ ver' = ver
      BY <2>2 DEF ProduceTakes, TakeWord
    <3>4. now[t] = P /\ at[t] = C
      <4>1. now[t] = P
        BY <1>1, <1>5, <3>3, MatchesIs DEF Side
      <4> QED BY <1>5, <3>1, <3>2, <3>3, <4>1, Classes DEF Inv, PlaceOK
    <3>5. \A j \in 0..(C - 1) : ver[Slot(P + j)] = P + j
      BY <1>1, <1>5, <3>3, <3>4, Classes DEF Inv, CheckOK
    <3>6. tkt'["push"] = P + C
      BY <1>1, <1>5, <2>2, <3>1, <3>2, Classes
      DEF ProduceTakes, TakeWord, Side, Inv, TypeOK, Sides
    <3>a. PICK Q \in Nat : Q = P + C
      OBVIOUS
    <3>7. ASSUME NEW k \in (Q - SlotCount)..(Q - 1)
          PROVE  ver[Slot(k)] = Junk \/ ver[Slot(k)] >= k
      <4>1. CASE k < P
        <5>1. k \in (P - SlotCount)..(P - 1)
          BY <1>2, <3>a, <3>7, <4>1
        <5> QED BY <1>1, <5>1 DEF VersionsGrow
      <4>2. CASE k >= P
        <5>1. PICK j \in 0..(C - 1) : k = P + j
          <6>1. k - P \in 0..(C - 1) /\ k = P + (k - P)
            BY <1>2, <3>a, <3>7, <4>2
          <6> QED BY <6>1
        <5>2. ver[Slot(k)] = k /\ k \in Int
          BY <3>5, <5>1
        <5> QED BY <5>2
      <4>3. k \in Int
        BY <1>2, <3>7
      <4> QED BY <4>1, <4>2, <4>3
    <3> QED BY <3>a, <3>3, <3>6, <3>7 DEF VersionsGrow
  <2>3. CASE Fill(t)
    <3>1. tkt' = tkt /\ \A i \in Slots : ver'[i] = ver[i] \/ ver'[i] = Junk
      BY <2>3 DEF Fill
    <3>2. \A k \in (P - SlotCount)..(P - 1) : Slot(k) \in Slots
      <4>1. \A k \in (P - SlotCount)..(P - 1) : k \in Int
        BY <1>2
      <4> QED BY <4>1, SlotRange
    <3> QED BY <1>1, <3>1, <3>2 DEF VersionsGrow
  <2>4. CASE ProduceCommit(t)
    <3>1. PICK ch : ch = own[t]
      OBVIOUS
    <3>2. Using(t) /\ ver' = [ver EXCEPT ![Slot(ch.tk)] = ch.tk + ch.n] /\ tkt' = tkt
      BY <2>4, <3>1 DEF ProduceCommit, Using
    <3>3. ch \in Held
      BY <3>1, <3>2, HeldAre DEF Inv, OwnersOK
    <3>4. /\ ch.tk \in Nat /\ ch.n \in Nat /\ Slot(ch.tk) \in Slots
          /\ ch.tk < P /\ P <= ch.tk + SlotCount
      BY <1>1, <3>3, HeldHas
    <3>5. /\ \A i \in Slots : i # Slot(ch.tk) => ver'[i] = ver[i]
          /\ ver'[Slot(ch.tk)] = ch.tk + ch.n
      BY <3>2, <3>4 DEF Inv, TypeOK
    <3>6. ch.tk \in Int /\ P - SlotCount <= ch.tk /\ ch.tk + ch.n >= ch.tk
      BY <1>2, <3>4
    <3> QED BY <1>1, <3>2, <3>4, <3>5, <3>6, GrowsOn
  <2> QED BY <1>5, <2>1, <2>2, <2>3, <2>4 DEF Produce
<1>6. CASE t \in Consumers /\ Consume(t)
  <2>1. CASE CheckConsume(t) \/ GiveBack(t)
    BY <1>3, <2>1 DEF CheckConsume, GiveBack, shared
  <2>2. CASE ConsumeTakes(t)
    <3>1. ver' = ver /\ tkt'["push"] = tkt["push"]
      BY <1>6, <2>2, Classes DEF ConsumeTakes, TakeWord, Side, Inv, TypeOK, Sides
    <3> QED BY <1>3, <3>1
  <2> QED BY <1>6, <2>1, <2>2 DEF Consume
<1>7. CASE t \in Consumers /\ Free(t)
  <2>1. PICK ch : ch = own[t]
    OBVIOUS
  <2>2. pc[t] = "free" /\ tkt' = tkt
    BY <1>7 DEF Free, FreeTail, FreeHead
  <2>3. ch \in Held
    BY <1>7, <2>1, <2>2, HeldAre
  <2>4. PICK tk \in Nat : tk = ch.tk
    BY <2>3, HeldHas
  <2>5. PICK C \in Nat : C = Ceil(ch.tk, ch.n)
    BY <2>3, HeldHas
  <2>6. tk + C <= P /\ P <= tk + SlotCount /\ C >= 1
    BY <1>1, <2>3, <2>4, <2>5, HeldHas
  <2>7. PICK j \in 0..(C - 1) :
          ver' = [ver EXCEPT ![Slot(tk + j)] = tk + j + SlotCount]
    <3>1. CASE FreeTail(t)
      <4>1. /\ at[t] < C
            /\ ver' = [ver EXCEPT ![Slot(tk + at[t])] = tk + at[t] + SlotCount]
        BY <2>1, <2>4, <2>5, <3>1 DEF FreeTail
      <4>2. at[t] \in 1..C
        BY <1>7, <2>1, <2>2, <2>5 DEF Inv, FreeOK
      <4>3. at[t] \in 0..(C - 1)
        BY <4>1, <4>2
      <4> QED BY <4>1, <4>3
    <3>2. CASE FreeHead(t)
      <4>1. ver' = [ver EXCEPT ![Slot(tk)] = tk + SlotCount]
        BY <2>1, <2>4, <3>2 DEF FreeHead
      <4>2. 0 \in 0..(C - 1) /\ tk + 0 = tk
        BY <2>6
      <4>3. ver' = [ver EXCEPT ![Slot(tk + 0)] = tk + 0 + SlotCount]
        BY <4>1, <4>2
      <4> QED BY <4>2, <4>3
    <3> QED BY <1>7, <3>1, <3>2 DEF Free
  <2>8. PICK e \in Nat : e = tk + j
    OBVIOUS
  <2>9. e \in Int /\ P - SlotCount <= e /\ e < P /\ e + SlotCount >= e
    BY <1>2, <2>6, <2>8
  <2>10. Slot(e) \in Slots
    BY <2>9, SlotRange
  <2>11. /\ \A i \in Slots : i # Slot(e) => ver'[i] = ver[i]
         /\ ver'[Slot(e)] = e + SlotCount
    BY <2>7, <2>8, <2>10 DEF Inv, TypeOK
  <2> QED BY <1>1, <2>2, <2>9, <2>11, GrowsOn
<1>8. ASSUME NEW ch \in InUse, Dealloc(t, ch)
      PROVE  VersionsGrow'
  BY <1>3, <1>8 DEF Dealloc
<1>9. CASE t \in Signallers /\ Signal(t)
  BY <1>3, <1>9 DEF Signal, SignalTrySet
<1> QED BY <1>4, <1>5, <1>6, <1>7, <1>8, <1>9 DEF Step

LEMMA AheadStep ==
  ASSUME Inv, BelowWrap, OpenAhead, NEW t \in Threads, Step(t)
  PROVE  OpenAhead'
<1>1. OnlyMoves(t) /\ use' = use
  BY OneMoves DEF Inv
<1>2. SUFFICES ASSUME use = "queue", NEW p \in Producers, Open(p)'
               PROVE  tkt'["pop"] <= own'[p].tk
  BY <1>1 DEF OpenAhead
<1>3. ASSUME Open(p), own'[p] = own[p], tkt'["pop"] = tkt["pop"]
      PROVE  tkt'["pop"] <= own'[p].tk
  BY <1>2, <1>3 DEF OpenAhead
<1>4. p # t => Open(p) /\ own'[p] = own[p]
  BY <1>1, <1>2, Classes DEF OnlyMoves, Same, Open
<1>5. p = t => t \notin Consumers /\ t \notin Signallers
  BY Classes
<1>6. pc'[p] \in {"own", "used"}
  BY <1>2 DEF Open
<1>7. CASE t \in Producers \cup Consumers /\ Loop(t)
  <2>1. tkt' = tkt /\ \E a : Loaded(t, a)
    BY <1>7 DEF Loop, Prepare, Reload, CasFails, shared
  <2>2. p # t
    BY <1>6, <2>1, LoadedMoves DEF Inv
  <2> QED BY <1>3, <1>4, <2>1, <2>2
<1>8. CASE t \in Producers /\ Produce(t)
  <2>1. CASE CheckHead(t) \/ CheckTail(t) \/ Recheck(t)
    <3>1. tkt' = tkt
      BY <2>1 DEF CheckHead, CheckTail, Recheck, shared
    <3>2. pc'[t] \notin {"own", "used"}
      <4>1. CASE CheckHead(t)
        BY <4>1 DEF CheckHead, Return, Goto, Inv, TypeOK
      <4>2. CASE CheckTail(t)
        BY <4>2 DEF CheckTail, Goto, Inv, TypeOK
      <4>3. CASE Recheck(t) /\ Return(t, "would_overflow")
        BY <4>3 DEF Recheck, Return, Inv, TypeOK
      <4>4. CASE Recheck(t) /\ Loaded(t, arg[t])
        BY <4>4, LoadedMoves DEF Inv
      <4> QED BY <2>1, <4>1, <4>2, <4>3, <4>4 DEF Recheck
    <3> QED BY <1>3, <1>4, <1>6, <3>1, <3>2
  <2>2. CASE ProduceTakes(t)
    <3>1. tkt'["pop"] = tkt["pop"] /\ own'[t] = [tk |-> tkt["push"], n |-> arg[t].slots]
      BY <1>8, <2>2 DEF ProduceTakes, TakeWord, Side, Inv, TypeOK, Sides
    <3>2. own'[t].tk = tkt["push"]
      BY <3>1
    <3>3. tkt["pop"] <= tkt["push"]
      BY DEF Inv, QueueOK
    <3> QED BY <1>3, <1>4, <3>1, <3>2, <3>3
  <2>3. CASE Fill(t)
    <3>1. tkt' = tkt
      BY <2>3 DEF Fill
    <3>2. p = t => Open(p) /\ own'[p] = own[p]
      BY <1>2, <1>6, <1>8, <2>3 DEF Fill, Goto, Return, Open, Inv, TypeOK
    <3> QED BY <1>3, <1>4, <3>1, <3>2
  <2>4. CASE ProduceCommit(t)
    <3>1. tkt' = tkt
      BY <2>4 DEF ProduceCommit
    <3>2. pc'[t] \notin {"own", "used"}
      BY <2>4 DEF ProduceCommit, Goto, Return, Inv, TypeOK
    <3> QED BY <1>3, <1>4, <1>6, <3>1, <3>2
  <2> QED BY <1>8, <2>1, <2>2, <2>3, <2>4 DEF Produce
<1>9. CASE t \in Consumers /\ Consume(t)
  <2>1. p # t /\ Open(p) /\ own'[p] = own[p]
    BY <1>4, <1>5, <1>9
  <2>2. CASE CheckConsume(t) \/ GiveBack(t)
    BY <1>3, <2>1, <2>2 DEF CheckConsume, GiveBack, shared
  <2>3. CASE ConsumeTakes(t)
    <3>1. PICK ch : ch = [tk |-> tkt["pop"], n |-> at[t]]
      OBVIOUS
    <3>2. pc[t] = "cas" /\ Matches(t)
      BY <2>3 DEF ConsumeTakes, TakeWord
    <3>3. now[t] = tkt["pop"]
      BY <1>9, <3>2, Classes, MatchesIs DEF Side
    <3>4. ch \in live /\ ver[Slot(tkt["pop"])] = tkt["pop"] + at[t]
      BY <1>9, <3>1, <3>2, <3>3, Classes DEF Inv, CheckOK
    <3>5. ch \in Held /\ ch.tk = tkt["pop"] /\ ch.n = at[t]
      BY <3>1, <3>4, HeldAre
    <3>6. own[p] \in Held /\ ver[Slot(own[p].tk)] = own[p].tk
          /\ tkt["pop"] <= own[p].tk
      BY <1>2, <2>1, Classes, HeldAre DEF Inv, OwnersOK, Open, Using, OpenAhead
    <3>7. own[p] # ch
      <4>1. ch.tk \in Nat /\ ch.n \in Nat /\ ch.n >= 1
        BY <3>5, HeldHas
      <4> QED BY <3>4, <3>5, <3>6, <4>1
    <3>8. ch.tk + Ceil(ch.tk, ch.n) <= own[p].tk
      BY <3>5, <3>6, <3>7, OneAfterOther
    <3>9. tkt'["pop"] = tkt["pop"] + Ceil(ch.tk, ch.n)
      BY <1>9, <2>3, <3>1, Classes
      DEF ConsumeTakes, TakeWord, Side, Inv, TypeOK, Sides
    <3> QED BY <2>1, <3>5, <3>8, <3>9
  <2> QED BY <1>9, <2>2, <2>3 DEF Consume
<1>10. CASE t \in Consumers /\ Free(t)
  BY <1>3, <1>4, <1>5, <1>10 DEF Free, FreeTail, FreeHead
<1>11. ASSUME t \in Consumers, NEW ch \in InUse, Dealloc(t, ch)
       PROVE  tkt'["pop"] <= own'[p].tk
  BY <1>3, <1>4, <1>5, <1>11 DEF Dealloc
<1>12. CASE t \in Signallers /\ Signal(t)
  BY <1>3, <1>4, <1>5, <1>12 DEF Signal, SignalTrySet
<1> QED BY <1>7, <1>8, <1>9, <1>10, <1>11, <1>12 DEF Step

(* In a queue the only chunk that becomes held is the next one.            *)
LEMMA HeldNext ==
  ASSUME Inv, use = "queue", NEW t \in Threads, Step(t)
  PROVE  \A h \in Held' : h \in Held \/ h.tk = tkt["push"]
<1>1. OnlyMoves(t)
  BY OneMoves DEF Inv
<1>2. \A h \in live' : h \in live \/ h.tk = tkt["push"]
  <2>1. CASE live' = live
    BY <2>1
  <2>2. CASE t \in Producers /\ ProduceTakes(t)
    <3>1. live' = live \cup {[tk |-> tkt["push"], n |-> arg[t].slots]}
      BY <2>2 DEF ProduceTakes
    <3> QED BY <3>1
  <2>3. CASE t \in Consumers /\ GiveBack(t)
    BY <2>3 DEF GiveBack, LeaveUse
  <2>4. \/ live' = live
        \/ t \in Producers /\ ProduceTakes(t)
        \/ t \in Consumers /\ GiveBack(t)
    <3>1. CASE Loop(t)
      BY <3>1 DEF Loop, Prepare, Reload, CasFails, shared
    <3>2. CASE t \in Producers /\ Produce(t)
      BY <3>2 DEF Produce, CheckHead, CheckTail, Recheck, Fill, ProduceCommit, shared
    <3>3. CASE t \in Consumers /\ Consume(t)
      BY <3>3 DEF Consume, CheckConsume, ConsumeTakes, shared
    <3>4. CASE Free(t)
      BY <3>4 DEF Free, FreeTail, FreeHead
    <3>5. CASE Signal(t)
      BY <3>5 DEF Signal, SignalTrySet
    <3> QED BY <3>1, <3>2, <3>3, <3>4, <3>5 DEF Step, Dealloc
  <2> QED BY <2>1, <2>2, <2>3, <2>4
<1>3. ASSUME NEW c \in Consumers, pc'[c] = "free"
      PROVE  own'[c] \in Held
  <2>1. CASE c # t
    BY <1>1, <1>3, <2>1, Classes, HeldAre DEF OnlyMoves, Same
  <2>2. CASE c = t
    <3>1. t \in Consumers /\ t \notin Producers /\ t \notin Signallers
      BY <2>2, Classes
    <3>2. CASE Loop(t)
      <4>1. \E a : Loaded(t, a)
        BY <3>2 DEF Loop, Prepare, Reload, CasFails
      <4> QED BY <1>3, <2>2, <4>1, LoadedMoves DEF Inv
    <3>3. CASE Consume(t)
      <4>1. CASE CheckConsume(t)
        BY <1>3, <2>2, <4>1 DEF CheckConsume, Return, Goto, Inv, TypeOK
      <4>2. CASE ConsumeTakes(t)
        BY <1>3, <2>2, <4>2 DEF ConsumeTakes, TakeWord, Goto, Inv, TypeOK
      <4>3. CASE GiveBack(t)
        <5>1. Using(t) /\ own'[t] = own[t]
          BY <4>3 DEF GiveBack, Using
        <5> QED BY <2>2, <5>1, HeldAre DEF Inv, OwnersOK
      <4> QED BY <3>3, <4>1, <4>2, <4>3 DEF Consume
    <3>4. CASE FreeTail(t)
      BY <2>2, <3>4, HeldAre DEF FreeTail
    <3>5. CASE FreeHead(t)
      BY <1>3, <2>2, <3>5 DEF FreeHead, Return, Inv, TypeOK
    <3> QED BY <3>1, <3>2, <3>3, <3>4, <3>5 DEF Step, Free, Dealloc
  <2> QED BY <2>1, <2>2
<1>4. live \subseteq Held
  BY HeldAre
<1> QED BY <1>2, <1>3, <1>4 DEF Held

LEMMA BetweenStep ==
  ASSUME Inv, WordsBetween, NEW t \in Threads, Step(t)
  PROVE  WordsBetween'
<1>1. OnlyMoves(t) /\ use' = use
  BY OneMoves DEF Inv
<1>2. SUFFICES ASSUME NEW c \in Consumers, pc'[c] = "head", NEW h \in Held'
               PROVE  now'[c] <= h.tk \/ h.tk + Ceil(h.tk, h.n) <= now'[c]
  BY DEF WordsBetween
<1>3. c \in Threads /\ c \notin Producers /\ c \notin Signallers
  BY Classes
<1>4. \/ pc[c] = "head" /\ now'[c] = now[c] /\ now[c] \in Nat /\ now[c] <= tkt["pop"]
      \/ now'[c] = tkt["pop"] /\ c = t /\ Loop(t)
  <2>1. CASE c # t
    <3>1. pc[c] = "head" /\ now'[c] = now[c]
      BY <1>1, <1>2, <1>3, <2>1 DEF OnlyMoves, Same
    <3> QED BY <1>3, <3>1 DEF Inv, PlaceOK, Side
  <2>2. CASE c = t /\ Loop(t)
    <3>1. \E a : Loaded(t, a)
      BY <2>2 DEF Loop, Prepare, Reload, CasFails
    <3> QED BY <1>2, <1>3, <2>2, <3>1, LoadedMoves DEF Side, Inv
  <2>3. CASE c = t /\ Consume(t)
    <3>1. CASE CheckConsume(t)
      BY <1>2, <2>3, <3>1 DEF CheckConsume, Return, Goto, Inv, TypeOK
    <3>2. CASE ConsumeTakes(t)
      BY <1>2, <2>3, <3>2 DEF ConsumeTakes, TakeWord, Goto, Inv, TypeOK
    <3>3. CASE GiveBack(t)
      BY <1>2, <2>3, <3>3 DEF GiveBack, Goto, Inv, TypeOK
    <3> QED BY <2>3, <3>1, <3>2, <3>3 DEF Consume
  <2>4. CASE c = t /\ Free(t)
    BY <1>2, <2>4 DEF Free, FreeTail, FreeHead, Return, Inv, TypeOK
  <2>5. ASSUME c = t, NEW ch \in InUse, Dealloc(t, ch)
        PROVE  FALSE
    BY <1>2, <2>5 DEF Dealloc, Goto, Inv, TypeOK
  <2> QED BY <1>3, <2>1, <2>2, <2>3, <2>4, <2>5 DEF Step
<1>5. use = "queue"
  <2>1. CASE pc[c] = "head"
    BY <1>3, <2>1 DEF Inv, PlaceOK
  <2>2. CASE c = t /\ Loop(t)
    BY <1>3, <2>2 DEF Loop, Prepare, Reload, CasFails, Inv, PlaceOK
  <2> QED BY <1>4, <2>1, <2>2
<1>6. h \in Held \/ h.tk = tkt["push"]
  BY <1>5, HeldNext
<1>7. CASE h \in Held
  BY <1>2, <1>4, <1>5, <1>7, WordBetween DEF WordsBetween
<1>8. CASE h.tk = tkt["push"]
  <2>1. tkt["pop"] <= tkt["push"] /\ tkt["pop"] \in Nat /\ tkt["push"] \in Nat
    BY HeldAre DEF Inv, QueueOK
  <2> QED BY <1>4, <1>8, <2>1
<1> QED BY <1>6, <1>7, <1>8

LEMMA PassedInit ==
  ASSUME Init
  PROVE  Passed
<1>1. /\ tkt["push"] = 0 /\ live = {} /\ \A i \in Slots : ver[i] = i
      /\ \A t \in Threads : pc[t] = "idle"
  BY DEF Init, Sides
<1>2. VersionsGrow
  <2>1. ASSUME NEW k \in (0 - SlotCount)..(0 - 1)
        PROVE  ver[Slot(k)] >= k
    <3>1. k \in Int /\ k < 0
      BY <2>1, Sizes
    <3>2. Slot(k) \in Slots /\ Slot(k) \in 0..(SlotCount - 1)
      BY <3>1, SlotRange
    <3>3. Slot(k) \in Nat
      BY <3>2, Sizes
    <3> QED BY <1>1, <3>1, <3>2, <3>3
  <2> QED BY <1>1, <2>1 DEF VersionsGrow
<1>3. OpenAhead /\ WordsBetween
  BY <1>1, Classes DEF OpenAhead, WordsBetween, Open
<1> QED BY <1>2, <1>3 DEF Passed

LEMMA PassedStep ==
  ASSUME Inv, Passed, BelowWrap, [Next]_vars
  PROVE  Passed'
<1>1. CASE Next
  <2>1. PICK t \in Threads : Step(t)
    BY <1>1, NextIsStep
  <2> QED BY <2>1, GrowsStep, AheadStep, BetweenStep DEF Passed
<1>2. CASE UNCHANGED vars
  <2>1. Held' = Held
    BY <1>2 DEF Held, vars
  <2>2. VersionsGrow' /\ OpenAhead' /\ WordsBetween'
    BY <1>2, <2>1 DEF vars, Passed, VersionsGrow, OpenAhead, WordsBetween, Open
  <2> QED BY <2>2 DEF Passed
<1> QED BY <1>1, <1>2

(* A thread that has moved has taken a step.                               *)
LEMMA MoverIs ==
  ASSUME TypeOK, [Next]_vars, NEW u \in Threads, pc'[u] # pc[u]
  PROVE  Step(u)
<1>1. Next
  BY DEF vars
<1>2. PICK t \in Threads : Step(t)
  BY <1>1, NextIsStep
<1>3. OnlyMoves(t)
  BY <1>2, OneMoves
<1>4. t = u
  BY <1>3 DEF OnlyMoves, Same
<1> QED BY <1>2, <1>4

(* A slot of the next lap whose version is another is in use.              *)
LEMMA SlotInUse ==
  ASSUME Inv, NEW k \in Int, tkt["push"] <= k, k < tkt["push"] + SlotCount,
         ver[Slot(k)] # k
  PROVE  Occupied(Slot(k))
<1>1. SlotCount \in Nat /\ tkt["push"] \in Nat
  BY Sizes, HeldAre
<1>2. /\ k - SlotCount \in (tkt["push"] - SlotCount)..(tkt["push"] - 1)
      /\ (k - SlotCount) + SlotCount = k
  BY <1>1
<1>3. Slot(k - SlotCount) = Slot(k)
  BY SlotLap
<1>4. \E h \in Held : Slot(k) \in Mem(h)
  BY <1>2, <1>3 DEF Inv, VersionsOK
<1> QED BY <1>4 DEF Occupied, Held

(* Where the producers' steps out of the loop come from.                   *)
LEMMA ProducerLeaves ==
  ASSUME Inv, [Next]_vars, NEW p \in Producers, pc'[p] # pc[p],
         pc'[p] = "recheck" \/ (pc'[p] = "idle" /\ res'[p] = "would_overflow")
  PROVE  CheckHead(p) \/ CheckTail(p) \/ Recheck(p)
<1>1. p \in Threads /\ p \notin Consumers /\ p \notin Signallers /\ TypeOK
  BY Classes DEF Inv
<1>2. Step(p)
  BY <1>1, MoverIs
<1>3. ~Loop(p)
  <2>1. SUFFICES ASSUME Loop(p) PROVE FALSE
    OBVIOUS
  <2>2. \E a : Loaded(p, a)
    BY <2>1 DEF Loop, Prepare, Reload, CasFails
  <2> QED BY <1>1, <2>2, LoadedMoves
<1>4. ~ProduceTakes(p)
  BY <1>1 DEF ProduceTakes, TakeWord, Goto, TypeOK
<1>5. ~Fill(p)
  BY <1>1 DEF Fill, Return, Goto, TypeOK
<1>6. ~ProduceCommit(p)
  BY <1>1 DEF ProduceCommit, Return, Goto, TypeOK
<1> QED BY <1>1, <1>2, <1>3, <1>4, <1>5, <1>6 DEF Step, Produce

LEMMA NoRoomIsTrue ==
  ASSUME Inv, BelowWrap, [Next]_vars, NEW p \in Producers, FindsNoRoom(p),
         now[p] = tkt["push"]
  PROVE  \E k \in now[p]..(now[p] + Ceil(now[p], arg[p].slots) - 1) :
           Occupied(Slot(k))
<1>1. p \in Threads /\ p \notin Consumers /\ TypeOK
  BY Classes DEF Inv
<1>2. PICK P \in Nat : P = tkt["push"]
  BY HeldAre
<1>3. PICK n \in 1..SlotMax : n = arg[p].slots
  BY <1>1 DEF TypeOK, Call
<1>4. PICK C \in Nat : C = Ceil(P, n) /\ C >= 1 /\ C < SlotCount
  BY CeilIs
<1>5. SlotCount \in Nat
  BY Sizes
<1>6. SUFFICES \E j \in 0..(C - 1) : Occupied(Slot(P + j))
  <2>1. ASSUME NEW j \in 0..(C - 1), Occupied(Slot(P + j))
        PROVE  \E k \in P..(P + C - 1) : Occupied(Slot(k))
    <3>1. P + j \in P..(P + C - 1)
      OBVIOUS
    <3> QED BY <2>1, <3>1
  <2> QED BY <1>2, <1>3, <1>4, <2>1
<1>7. CASE pc[p] = "head"
  <2>1. CheckHead(p)
    <3>1. pc'[p] # pc[p] /\ pc'[p] = "idle" /\ res'[p] = "would_overflow"
      BY <1>7 DEF FindsNoRoom, Fails
    <3> QED BY <1>7, <3>1, ProducerLeaves DEF CheckTail, Recheck
  <2>2. PICK diff \in Diffs(ver[Slot(P)], P) : diff < 0
    BY <1>2, <1>7, <1>1, <2>1 DEF CheckHead, FindsNoRoom, Fails, Goto, TypeOK
  <2>3. P + 0 = P /\ 0 \in 0..(C - 1) /\ 0 \in Nat /\ 0..(0 - 1) = {}
    BY <1>4
  <2>4. ver[Slot(P)] # Junk
    BY <1>2, <1>4, <1>5, <2>3, FreeRun
  <2>5. P \in Int /\ P < P + SlotCount
    BY <1>4, <1>5
  <2>6. Slot(P) \in Slots
    BY <2>5, SlotRange
  <2>7. PICK v : v = ver[Slot(P)]
    OBVIOUS
  <2>8. diff = v - P /\ v \in Nat
    BY <1>2, <2>4, <2>5, <2>6, <2>7, DiffIs
  <2>9. ver[Slot(P)] # P
    BY <2>2, <2>7, <2>8
  <2>10. Occupied(Slot(P))
    BY <1>2, <2>5, <2>9, SlotInUse
  <2> QED BY <2>3, <2>10
<1>8. CASE pc[p] = "tail"
  <2>1. CheckTail(p)
    <3>1. pc'[p] # pc[p] /\ pc'[p] = "recheck"
      BY <1>8 DEF FindsNoRoom
    <3> QED BY <1>8, <3>1, ProducerLeaves DEF CheckHead, Recheck
  <2>2. PICK m \in 1..(C - 1) : m = at[p]
    BY <1>1, <1>2, <1>3, <1>4, <1>8 DEF Inv, PlaceOK
  <2>3. PICK diff \in Diffs(ver[Slot(P + m)], P + m) : diff # 0
    <3>1. pc'[p] = "recheck"
      BY <1>8 DEF FindsNoRoom
    <3> QED BY <1>1, <1>2, <2>1, <2>2, <3>1 DEF CheckTail, Goto, TypeOK
  <2>4. \A j \in 0..(m - 1) : ver[Slot(P + j)] = P + j
    <3>1. \A j \in 0..(at[p] - 1) : ver[Slot(now[p] + j)] = now[p] + j
      BY <1>1, <1>2, <1>8 DEF Inv, CheckOK
    <3> QED BY <1>2, <2>2, <3>1
  <2>5. m \in Nat /\ m < SlotCount /\ m <= SlotCount /\ m \in 0..(C - 1)
    BY <1>4, <1>5
  <2>6. ver[Slot(P + m)] # Junk
    BY <1>2, <2>4, <2>5, FreeRun
  <2>7. P + m \in Int /\ P + m \in Nat /\ P <= P + m /\ P + m < P + SlotCount
    BY <1>5, <2>5
  <2>8. Slot(P + m) \in Slots
    BY <2>7, SlotRange
  <2>9. PICK v : v = ver[Slot(P + m)]
    OBVIOUS
  <2>10. diff = v - (P + m) /\ v \in Nat
    BY <1>2, <2>6, <2>7, <2>8, <2>9, DiffIs
  <2>11. ver[Slot(P + m)] # P + m
    BY <2>3, <2>9, <2>10
  <2>12. Occupied(Slot(P + m))
    BY <1>2, <2>7, <2>11, SlotInUse
  <2> QED BY <2>5, <2>12
<1> QED BY <1>7, <1>8 DEF FindsNoRoom

(* A version never lags behind a ticket of its slot that has been given.   *)
LEMMA NoneLags ==
  ASSUME Inv, VersionsGrow, NEW k \in Nat, k < tkt["push"],
         ver[Slot(k)] # Junk
  PROVE  ver[Slot(k)] \in Nat /\ ver[Slot(k)] >= k
<1>1. PICK P \in Nat : P = tkt["push"]
  BY HeldAre
<1>2. SlotCount \in Nat /\ SlotCount >= 2
  BY Sizes
<1>3. P - SlotCount \in Int /\ k \in Int /\ (P - SlotCount) + SlotCount - 1 = P - 1
  BY <1>2
<1>4. PICK n \in Int : n = P - SlotCount
  BY <1>3
<1>5. PICK j \in n..(n + SlotCount - 1) : Slot(j) = Slot(k)
  BY <1>3, SlotInLap
<1>6. j \in (P - SlotCount)..(P - 1) /\ j \in Int
  BY <1>2, <1>4, <1>5
<1>7. ver[Slot(k)] >= j
  BY <1>1, <1>5, <1>6 DEF VersionsGrow
<1>8. Slot(k) \in Slots
  BY <1>3, SlotRange
<1>9. PICK v \in Nat : v = ver[Slot(k)]
  BY <1>8 DEF Inv, TypeOK
<1>10. SUFFICES ASSUME v < k PROVE FALSE
  BY <1>9
<1>11. j < k /\ k - j < SlotCount /\ j - k < SlotCount
  BY <1>1, <1>2, <1>4, <1>5, <1>6, <1>7, <1>9, <1>10
<1>12. k = j
  BY <1>3, <1>5, <1>6, <1>11, SlotOnce
<1> QED BY <1>11, <1>12

(* Only a payload makes an old word say that there is no room.             *)
LEMMA OverflowIsTold ==
  ASSUME Inv, Passed, BelowWrap, [Next]_vars, NEW p \in Producers,
         Fails(p, "would_overflow")
  PROVE  \/ now[p] = tkt["push"]
         \/ pc[p] = "head" /\ ver[Slot(now[p])] = Junk
<1>1. p \in Threads /\ TypeOK /\ Side(p) = "push"
  BY Classes DEF Inv, Side
<1>2. pc'[p] = "idle" /\ pc[p] # "idle" /\ res'[p] = "would_overflow"
  BY DEF Fails
<1>3. CheckHead(p) \/ CheckTail(p) \/ Recheck(p)
  BY <1>2, ProducerLeaves
<1>4. ~CheckTail(p)
  BY <1>1, <1>2 DEF CheckTail, Goto, TypeOK
<1>5. CASE Recheck(p)
  <2>1. ~Loaded(p, arg[p])
    BY <1>1, <1>2, LoadedMoves
  <2> QED BY <1>5, <2>1 DEF Recheck
<1>6. CASE CheckHead(p)
  <2>1. PICK k \in Nat : k = now[p] /\ k <= tkt["push"]
    BY <1>1, <1>6 DEF CheckHead, Inv, PlaceOK
  <2>2. PICK diff \in Diffs(ver[Slot(k)], k) : diff < 0
    BY <1>1, <1>2, <1>6, <2>1 DEF CheckHead, Goto, TypeOK
  <2>3. SUFFICES ASSUME k # tkt["push"], ver[Slot(k)] # Junk PROVE FALSE
    BY <1>6, <2>1 DEF CheckHead
  <2>4. tkt["push"] \in Nat /\ SlotCount \in Nat /\ k \in Int
    BY HeldAre, Sizes
  <2>5. k < tkt["push"] /\ k < tkt["push"] + SlotCount
    BY <2>1, <2>3, <2>4
  <2>6. ver[Slot(k)] \in Nat /\ ver[Slot(k)] >= k
    BY <2>3, <2>5, NoneLags DEF Passed
  <2>7. Slot(k) \in Slots
    BY <2>4, SlotRange
  <2>8. diff = ver[Slot(k)] - k
    BY <2>2, <2>3, <2>5, <2>7, DiffIs
  <2> QED BY <2>2, <2>6, <2>8
<1> QED BY <1>3, <1>4, <1>5, <1>6

(* Where the consumers' answer comes from.                                 *)
LEMMA ConsumerLeaves ==
  ASSUME Inv, [Next]_vars, NEW c \in Consumers, Fails(c, "empty")
  PROVE  CheckConsume(c)
<1>1. c \in Threads /\ c \notin Producers /\ c \notin Signallers /\ TypeOK
  BY Classes DEF Inv
<1>2. pc'[c] = "idle" /\ pc[c] # "idle" /\ res'[c] = "empty"
  BY DEF Fails
<1>3. Step(c)
  BY <1>1, <1>2, MoverIs
<1>4. ~Loop(c)
  <2>1. SUFFICES ASSUME Loop(c) PROVE FALSE
    OBVIOUS
  <2>2. \E a : Loaded(c, a)
    BY <2>1 DEF Loop, Prepare, Reload, CasFails
  <2> QED BY <1>1, <1>2, <2>2, LoadedMoves
<1>5. ~ConsumeTakes(c) /\ ~GiveBack(c)
  BY <1>1, <1>2 DEF ConsumeTakes, GiveBack, TakeWord, Goto, TypeOK
<1>6. ~FreeTail(c)
  BY <1>2 DEF FreeTail
<1>7. ~FreeHead(c)
  BY <1>1, <1>2 DEF FreeHead, Return, TypeOK
<1>8. \A ch \in InUse : ~Dealloc(c, ch)
  BY <1>2 DEF Dealloc
<1> QED BY <1>1, <1>3, <1>4, <1>5, <1>6, <1>7, <1>8 DEF Step, Consume, Free

(* A consumer that sees no committed chunk has an old word and looks at a  *)
(* payload, or there is none or the next one is not committed.             *)
LEMMA EmptyIsTold ==
  ASSUME Inv, Passed, BelowWrap, [Next]_vars, NEW c \in Consumers,
         Fails(c, "empty")
  PROVE  \/ now[c] < tkt["pop"] /\ ver[Slot(now[c])] = Junk
         \/ /\ now[c] = tkt["pop"]
            /\ \/ tkt["pop"] = tkt["push"]
               \/ \E p \in Producers : Using(p) /\ own[p].tk = now[c]
<1>1. c \in Threads /\ c \notin Producers /\ TypeOK /\ Side(c) = "pop"
  BY Classes DEF Inv, Side
<1>2. pc'[c] = "idle" /\ pc[c] # "idle" /\ res'[c] = "empty"
  BY DEF Fails
<1>3. CheckConsume(c)
  BY ConsumerLeaves
<1>4. pc[c] = "head" /\ use = "queue"
  BY <1>1, <1>3 DEF CheckConsume, Inv, PlaceOK
<1>5. PICK k \in Nat : k = now[c] /\ k <= tkt["pop"]
  BY <1>1, <1>4 DEF Inv, PlaceOK
<1>6. PICK diff \in Diffs(ver[Slot(k)], k) : diff <= 0
  BY <1>1, <1>2, <1>3, <1>5 DEF CheckConsume, Goto, TypeOK
<1>7. /\ tkt["push"] \in Nat /\ tkt["pop"] \in Nat /\ tkt["pop"] <= tkt["push"]
      /\ SlotCount \in Nat /\ SlotCount >= 2 /\ k \in Int
  BY HeldAre, Sizes DEF Inv, QueueOK
<1>8. Slot(k) \in Slots
  BY <1>7, SlotRange
<1>9. CASE k = tkt["pop"] /\ k # tkt["push"]
  <2>1. PICK ch \in live : k <= ch.tk /\ ch.tk <= k
    <3>1. k \in tkt["pop"]..(tkt["push"] - 1)
      BY <1>7, <1>9
    <3> QED BY <1>4, <1>9, <3>1 DEF Inv, QueueOK
  <2>2. ch \in Held /\ ch.tk \in Nat /\ ch.n \in Nat /\ ch.n >= 1
    BY HeldAre, HeldHas
  <2>3. ch.tk = k
    BY <2>1, <2>2
  <2>4. ver[Slot(k)] \in {k, k + ch.n}
    BY <2>2, <2>3 DEF Inv, HeldOK
  <2>5. ver[Slot(k)] # Junk /\ k < tkt["push"] + SlotCount
    BY <1>7, <1>9, <2>2, <2>4, Sizes
  <2>6. diff = ver[Slot(k)] - k
    BY <1>6, <1>8, <2>5, DiffIs
  <2>7. ver[Slot(ch.tk)] # ch.tk + ch.n
    BY <1>6, <2>2, <2>3, <2>6
  <2>8. PICK p \in Producers : Open(p) /\ own[p] = ch
    BY <2>2, <2>7 DEF Inv, HeldOK
  <2> QED BY <1>5, <1>9, <2>3, <2>8 DEF Open, Using
<1>10. CASE k < tkt["pop"] /\ ver[Slot(k)] # Junk
  <2>1. k < tkt["push"] /\ k < tkt["push"] + SlotCount
    BY <1>7, <1>10
  <2>2. ver[Slot(k)] \in Nat /\ ver[Slot(k)] >= k
    BY <1>10, <2>1, NoneLags DEF Passed
  <2>3. diff = ver[Slot(k)] - k
    BY <1>6, <1>8, <1>10, <2>1, DiffIs
  <2>4. ver[Slot(k)] = k
    BY <1>6, <2>2, <2>3
  <2>5. PICK h \in Held : Slot(k) \in Mem(h)
    <3>1. PICK P \in Nat : P = tkt["push"]
      BY <1>7
    <3>2. PICK n \in Int : n = P - SlotCount
      BY <1>7
    <3>3. PICK j \in n..(n + SlotCount - 1) : Slot(j) = Slot(k)
      BY <1>7, SlotInLap
    <3>4. j \in (P - SlotCount)..(P - 1) /\ j \in Int
      BY <1>7, <3>2, <3>3
    <3>5. j <= k
      BY <1>10, <2>4, <3>1, <3>3, <3>4 DEF Passed, VersionsGrow
    <3>6. ver[Slot(j)] # j + SlotCount
      <4>1. k - j < SlotCount /\ j - k < SlotCount
        BY <1>7, <2>1, <3>1, <3>4, <3>5
      <4>2. j = k
        BY <1>7, <3>3, <3>4, <4>1, SlotOnce
      <4> QED BY <1>7, <2>4, <4>2
    <3> QED BY <3>1, <3>3, <3>4, <3>6 DEF Inv, VersionsOK
  <2>6. /\ h \in Chunk /\ h.tk \in Nat /\ h.n \in Nat /\ h.n >= 1
        /\ Ceil(h.tk, h.n) \in Nat
    BY HeldHas
  <2>7. PICK C \in Nat : C = Ceil(h.tk, h.n)
    BY <2>6
  <2>8. h.tk + C <= tkt["push"] /\ tkt["push"] <= h.tk + SlotCount
    BY <2>7, HeldHas
  <2>9. PICK j \in 0..(C - 1) : Slot(k) = Slot(h.tk + j)
    BY <1>8, <2>5, <2>6, <2>7, MemHas
  <2>10. PICK e \in Nat : e = h.tk + j
    BY <2>6
  <2>11. k <= h.tk \/ h.tk + C <= k
    BY <1>4, <1>5, <2>7 DEF Passed, WordsBetween
  <2>12. e \in Int /\ h.tk <= e /\ e < h.tk + C
    BY <2>6, <2>10
  <2>13. CASE k >= tkt["push"] - SlotCount
    <3>1. k - e < SlotCount /\ e - k < SlotCount
      BY <1>7, <2>1, <2>6, <2>8, <2>12, <2>13
    <3>2. k = e
      BY <1>7, <2>9, <2>10, <2>12, <3>1, SlotOnce
    <3>3. k = h.tk
      BY <2>6, <2>11, <2>12, <3>2
    <3>4. ver[Slot(h.tk)] # h.tk + h.n
      BY <2>4, <2>6, <3>3
    <3>5. PICK p \in Producers : Open(p) /\ own[p] = h
      BY <3>4 DEF Inv, HeldOK
    <3> QED BY <1>4, <1>7, <1>10, <3>3, <3>5 DEF Passed, OpenAhead
  <2>14. CASE ~(k >= tkt["push"] - SlotCount)
    <3>1. PICK P \in Nat : P = tkt["push"]
      BY <1>7
    <3>2. PICK n \in Int : n = P - SlotCount
      BY <1>7
    <3>3. PICK i \in n..(n + SlotCount - 1) : Slot(i) = Slot(k)
      BY <1>7, SlotInLap
    <3>4. i \in (P - SlotCount)..(P - 1) /\ i \in Int
      BY <1>7, <3>2, <3>3
    <3>5. i <= k
      BY <1>10, <2>4, <3>1, <3>3, <3>4 DEF Passed, VersionsGrow
    <3> QED BY <1>7, <2>14, <3>1, <3>4, <3>5
  <2> QED BY <1>7, <2>13, <2>14
<1> QED BY <1>5, <1>7, <1>9, <1>10

(* "would_overflow" and "empty" are told with reason: a slot that was      *)
(* needed was in use or the next chunk not committed, by a current word.   *)
THEOREM AnswersTrue ==
  Spec /\ []BelowWrap => AnswersAreTrue
<1> DEFINE
  Truthful ==
    /\ \A p \in Producers :
         /\ FindsNoRoom(p) /\ now[p] = tkt["push"] =>
              \E k \in now[p]..(now[p] + Ceil(now[p], arg[p].slots) - 1) :
                Occupied(Slot(k))
         /\ Fails(p, "would_overflow") =>
              \/ now[p] = tkt["push"]
              \/ pc[p] = "head" /\ ver[Slot(now[p])] = Junk
    /\ \A c \in Consumers : Fails(c, "empty") =>
         \/ now[c] < tkt["pop"] /\ ver[Slot(now[c])] = Junk
         \/ /\ now[c] = tkt["pop"]
            /\ \/ tkt["pop"] = tkt["push"]
               \/ \E p \in Producers : Using(p) /\ own[p].tk = now[c]
<1>1. Inv /\ Passed /\ BelowWrap /\ [Next]_vars => Truthful
  <2> SUFFICES ASSUME Inv, Passed, BelowWrap, [Next]_vars
               PROVE  Truthful
    OBVIOUS
  <2> QED BY NoRoomIsTrue, OverflowIsTold, EmptyIsTold
<1>2. Spec /\ []BelowWrap => []Inv
  BY Invariance
<1>3. Init => Passed
  BY PassedInit
<1>4. Inv /\ Passed /\ BelowWrap /\ [Next]_vars => Passed'
  BY PassedStep
<1>5. Spec /\ []BelowWrap => [][Truthful]_vars
  <2> HIDE DEF Truthful
  <2>1. Inv /\ Passed /\ BelowWrap /\ [Next]_vars => [Truthful]_vars
    BY <1>1
  <2> QED BY <1>2, <1>3, <1>4, <2>1, PTL DEF Spec
<1> QED BY <1>5 DEF AnswersAreTrue

---------------------------------------------------------------------------
(* The ticket field never wraps if it has room for the chunks that         *)
(* producers who began before the bound may still reserve.                 *)
FieldSuffices ==
  /\ IsFiniteSet(Producers)
  /\ \A u \in Uses :
       MaxTicket[u] + SlotMax * Cardinality(Producers) + SlotCount <= TicketMod

Trying   == {"reload", "head", "tail", "recheck", "cas"}
Late     == {p \in Producers : pc[p] \in Trying}
Reserved ==
  tkt["push"] + SlotMax * Cardinality(Late)
    <= MaxTicket[use] + SlotMax * Cardinality(Producers)

LEMMA TimesGrows ==
  ASSUME NEW m \in Nat, NEW a \in Nat, NEW b \in Nat, a <= b
  PROVE  m * a <= m * b /\ m * a \in Nat
<1>1. PICK d \in Nat : b = a + d
  <2>1. b - a \in Nat /\ b = a + (b - a)
    OBVIOUS
  <2> QED BY <2>1
<1>2. m * d \in Nat /\ m * a \in Nat
  OBVIOUS
<1>3. m * (a + d) = m * a + m * d
  OBVIOUS
<1> QED BY <1>1, <1>2, <1>3

LEMMA LateIs ==
  ASSUME FieldSuffices
  PROVE  /\ IsFiniteSet(Late) /\ Cardinality(Late) \in Nat
         /\ Cardinality(Late) <= Cardinality(Producers)
         /\ Cardinality(Producers) \in Nat
<1>1. Late \in SUBSET Producers /\ IsFiniteSet(Producers)
  BY DEF Late, FieldSuffices
<1> QED BY <1>1, FS_Subset, FS_CardinalityType

(* The reserve covers a lap of slots.                                      *)
LEMMA ReserveSuffices ==
  ASSUME FieldSuffices, TypeOK, Reserved
  PROVE  BelowWrap
<1>1. /\ tkt["push"] \in Nat /\ SlotMax \in Nat /\ SlotCount \in Nat
      /\ TicketMod \in Nat /\ MaxTicket[use] \in Nat
  BY PoolAssumption, Sizes DEF PoolAssumption, TypeOK, Sides
<1>2. SlotMax * Cardinality(Late) \in Nat
  BY <1>1, LateIs, TimesGrows
<1>3. PICK a \in Nat : a = SlotMax * Cardinality(Late)
  BY <1>2
<1>4. SlotMax * Cardinality(Producers) \in Nat
  BY <1>1, LateIs, TimesGrows
<1>5. PICK b \in Nat : b = SlotMax * Cardinality(Producers)
  BY <1>4
<1>6. tkt["push"] + a <= MaxTicket[use] + b
  BY <1>3, <1>5 DEF Reserved
<1>7. MaxTicket[use] + b + SlotCount <= TicketMod
  BY <1>5 DEF FieldSuffices, TypeOK
<1> QED BY <1>1, <1>6, <1>7 DEF BelowWrap

(* Threads that leave the loop take no more than was reserved for them.    *)
LEMMA ReserveStays ==
  ASSUME FieldSuffices, TypeOK, Reserved, use' = use,
         tkt'["push"] = tkt["push"], Late' \subseteq Late
  PROVE  Reserved'
<1>1. /\ tkt["push"] \in Nat /\ SlotMax \in Nat /\ MaxTicket[use] \in Nat
  BY PoolAssumption, Sizes DEF PoolAssumption, TypeOK, Sides
<1>2. /\ Cardinality(Late') \in Nat /\ Cardinality(Late) \in Nat
      /\ Cardinality(Late') <= Cardinality(Late) /\ Cardinality(Producers) \in Nat
  BY LateIs, FS_Subset, FS_CardinalityType
<1>3. PICK K \in Nat : K = Cardinality(Late)
  BY <1>2
<1>4. PICK J \in Nat : J = Cardinality(Late')
  BY <1>2
<1>5. PICK L \in Nat : L = Cardinality(Producers)
  BY <1>2
<1>6. SlotMax * J <= SlotMax * K /\ SlotMax * J \in Nat
  BY <1>1, <1>2, <1>3, <1>4, TimesGrows
<1>7. SlotMax * K \in Nat /\ SlotMax * L \in Nat
  BY <1>1, TimesGrows
<1>8. tkt["push"] + SlotMax * K <= MaxTicket[use] + SlotMax * L
  BY <1>3, <1>5 DEF Reserved
<1>9. tkt["push"] + SlotMax * J <= MaxTicket[use] + SlotMax * L
  <2>1. PICK x \in Nat, y \in Nat, z \in Nat :
          x = SlotMax * J /\ y = SlotMax * K /\ z = SlotMax * L
    BY <1>6, <1>7
  <2>2. x <= y /\ tkt["push"] + y <= MaxTicket[use] + z
    BY <1>6, <1>8, <2>1
  <2>3. tkt["push"] + x <= MaxTicket[use] + z
    BY <1>1, <2>2
  <2> QED BY <2>1, <2>3
<1> QED BY <1>4, <1>5, <1>9 DEF Reserved

(* A producer that begins finds the word below the bound.                  *)
LEMMA ReserveBegins ==
  ASSUME FieldSuffices, TypeOK, NEW t \in Producers, use' = use,
         tkt'["push"] = tkt["push"], tkt["push"] < MaxTicket[use]
  PROVE  Reserved'
<1>1. /\ tkt["push"] \in Nat /\ SlotMax \in Nat /\ MaxTicket[use] \in Nat
  BY PoolAssumption, Sizes DEF PoolAssumption, TypeOK, Sides
<1>2. Late' \in SUBSET Producers /\ IsFiniteSet(Producers)
  BY DEF Late, FieldSuffices
<1>3. /\ Cardinality(Late') \in Nat /\ Cardinality(Producers) \in Nat
      /\ Cardinality(Late') <= Cardinality(Producers)
  BY <1>2, FS_Subset, FS_CardinalityType
<1>4. PICK x \in Nat : x = SlotMax * Cardinality(Late')
  BY <1>1, <1>3, TimesGrows
<1>5. PICK z \in Nat : z = SlotMax * Cardinality(Producers)
  BY <1>1, <1>3, TimesGrows
<1>6. x <= z
  BY <1>1, <1>3, <1>4, <1>5, TimesGrows
<1>7. tkt["push"] + x <= MaxTicket[use] + z
  BY <1>1, <1>6
<1> QED BY <1>4, <1>5, <1>7 DEF Reserved

(* A chunk takes no more than was reserved for it.                         *)
LEMMA ReserveIsUsed ==
  ASSUME FieldSuffices, TypeOK, Reserved, NEW p \in Late, use' = use,
         NEW C \in Nat, C <= SlotMax, tkt'["push"] = tkt["push"] + C,
         Late' \subseteq Late \ {p}
  PROVE  Reserved'
<1>1. /\ tkt["push"] \in Nat /\ SlotMax \in Nat /\ MaxTicket[use] \in Nat
  BY PoolAssumption, Sizes DEF PoolAssumption, TypeOK, Sides
<1>2. IsFiniteSet(Late) /\ Cardinality(Late) \in Nat
  BY LateIs
<1>3. /\ IsFiniteSet(Late \ {p})
      /\ Cardinality(Late \ {p}) = Cardinality(Late) - 1
  BY <1>2, FS_RemoveElement
<1>4. /\ Cardinality(Late') \in Nat /\ Cardinality(Producers) \in Nat
      /\ Cardinality(Late') <= Cardinality(Late \ {p})
  BY <1>3, LateIs, FS_Subset, FS_CardinalityType
<1>5. PICK J \in Nat : J = Cardinality(Late')
  BY <1>4
<1>6. PICK K \in Nat : K = Cardinality(Late) /\ J + 1 <= K
  BY <1>2, <1>3, <1>4, <1>5
<1>7. SlotMax * (J + 1) <= SlotMax * K
  BY <1>1, <1>6, TimesGrows
<1>8. SlotMax * (J + 1) = SlotMax * J + SlotMax
  BY <1>1
<1>9. PICK x \in Nat : x = SlotMax * J
  BY <1>1, TimesGrows
<1>10. PICK y \in Nat : y = SlotMax * K
  BY <1>1, TimesGrows
<1>11. PICK z \in Nat : z = SlotMax * Cardinality(Producers)
  BY <1>1, <1>4, TimesGrows
<1>12. x + SlotMax <= y
  BY <1>7, <1>8, <1>9, <1>10
<1>13. tkt["push"] + y <= MaxTicket[use] + z
  BY <1>6, <1>10, <1>11 DEF Reserved
<1>14. tkt["push"] + C + x <= MaxTicket[use] + z
  BY <1>1, <1>12, <1>13
<1> QED BY <1>5, <1>9, <1>11, <1>14 DEF Reserved

LEMMA ReservedStep ==
  ASSUME FieldSuffices, TypeOK, Reserved, NEW t \in Threads, Step(t)
  PROVE  Reserved'
<1>1. OnlyMoves(t) /\ use' = use
  BY OneMoves
<1>2. \A u \in Threads \ {t} : pc'[u] = pc[u]
  BY <1>1 DEF OnlyMoves, Same
<1>3. Late' \subseteq Late \cup {t}
  BY <1>2, Classes DEF Late
<1>4. t \notin Producers => Late' \subseteq Late
  BY <1>3 DEF Late
<1>5. ASSUME t \notin Producers \/ t \in Late \/ pc'[t] \notin Trying
      PROVE  Late' \subseteq Late
  BY <1>3, <1>4, <1>5 DEF Late
<1>6. CASE t \in Producers \cup Consumers /\ Loop(t)
  <2>1. tkt' = tkt
    BY <1>6 DEF Loop, Prepare, Reload, CasFails, shared
  <2>2. CASE t \in Producers /\ pc[t] = "idle"
    <3>1. tkt["push"] < MaxTicket[use]
      BY <1>6, <2>2 DEF Loop, Prepare, Reload, CasFails
    <3> QED BY <1>1, <2>1, <2>2, <3>1, ReserveBegins
  <2>3. CASE ~(t \in Producers /\ pc[t] = "idle")
    <3>1. t \notin Producers \/ t \in Late
      BY <1>6, <2>3 DEF Loop, Prepare, Reload, CasFails, Late, Trying
    <3> QED BY <1>1, <1>5, <2>1, <3>1, ReserveStays
  <2> QED BY <2>2, <2>3
<1>7. CASE t \in Producers /\ Produce(t)
  <2>1. CASE CheckHead(t) \/ CheckTail(t) \/ Recheck(t)
    <3>1. tkt' = tkt /\ t \in Late
      BY <1>7, <2>1 DEF CheckHead, CheckTail, Recheck, shared, Late, Trying
    <3> QED BY <1>1, <1>5, <3>1, ReserveStays
  <2>2. CASE ProduceTakes(t)
    <3>1. t \in Late /\ pc'[t] = "own"
      BY <1>7, <2>2 DEF ProduceTakes, TakeWord, Goto, Late, Trying, TypeOK
    <3>2. Late' \subseteq Late \ {t}
      BY <1>3, <3>1 DEF Late, Trying
    <3>3. PICK n \in 1..SlotMax : n = arg[t].slots
      BY <1>7, Classes DEF TypeOK, Call
    <3>4. tkt["push"] \in Nat /\ SlotMax \in Nat
      BY Sizes DEF TypeOK, Sides
    <3>5. PICK C \in Nat : C = Ceil(tkt["push"], n) /\ C <= n
      BY <3>4, CeilIs
    <3>6. C <= SlotMax
      BY <3>4, <3>5
    <3>7. tkt'["push"] = tkt["push"] + C
      BY <1>7, <2>2, <3>3, <3>5
      DEF ProduceTakes, TakeWord, Side, TypeOK, Sides
    <3> QED BY <1>1, <3>1, <3>2, <3>6, <3>7, ReserveIsUsed
  <2>3. CASE Fill(t) \/ ProduceCommit(t)
    <3>1. tkt' = tkt
      BY <2>3 DEF Fill, ProduceCommit
    <3>2. CASE Fill(t)
      BY <1>1, <1>5, <3>1, <3>2, ReserveStays
      DEF Fill, Goto, Return, TypeOK, Trying
    <3>3. CASE ProduceCommit(t)
      BY <1>1, <1>5, <3>1, <3>3, ReserveStays
      DEF ProduceCommit, Goto, Return, TypeOK, Trying
    <3> QED BY <2>3, <3>2, <3>3
  <2> QED BY <1>7, <2>1, <2>2, <2>3 DEF Produce
<1>8. CASE t \notin Producers /\ ~(t \in Consumers /\ Loop(t))
  <2>1. t \notin Producers
    BY <1>8
  <2>2. tkt'["push"] = tkt["push"]
    <3>1. CASE t \in Consumers /\ Consume(t)
      <4>1. CASE CheckConsume(t) \/ GiveBack(t)
        BY <4>1 DEF CheckConsume, GiveBack, shared
      <4>2. CASE ConsumeTakes(t)
        BY <2>1, <4>2 DEF ConsumeTakes, TakeWord, Side, TypeOK, Sides
      <4> QED BY <3>1, <4>1, <4>2 DEF Consume
    <3>2. CASE t \in Consumers /\ Free(t)
      BY <3>2 DEF Free, FreeTail, FreeHead
    <3>3. ASSUME NEW ch \in InUse, Dealloc(t, ch)
          PROVE  tkt'["push"] = tkt["push"]
      BY <3>3 DEF Dealloc
    <3>4. CASE t \in Signallers /\ Signal(t)
      BY <3>4 DEF Signal, SignalTrySet
    <3> QED BY <1>8, <3>1, <3>2, <3>3, <3>4 DEF Step
  <2> QED BY <1>1, <1>5, <2>1, <2>2, ReserveStays
<1>9. t \in Producers => Loop(t) \/ Produce(t)
  BY Classes DEF Step
<1> QED BY <1>6, <1>7, <1>8, <1>9

LEMMA ReserveInductive ==
  ASSUME FieldSuffices, Inv, Reserved, [Next]_vars
  PROVE  Inv' /\ Reserved'
<1>1. BelowWrap
  BY ReserveSuffices DEF Inv
<1>2. Inv'
  BY <1>1, Inductive
<1>3. CASE Next
  <2>1. PICK t \in Threads : Step(t)
    BY <1>3, NextIsStep
  <2> QED BY <1>2, <2>1, ReservedStep DEF Inv
<1>4. CASE UNCHANGED vars
  BY <1>2, <1>4 DEF vars, Reserved, Late
<1> QED BY <1>3, <1>4

LEMMA ReserveInit ==
  ASSUME FieldSuffices, Init
  PROVE  Reserved
<1>1. /\ tkt["push"] = 0 /\ Late = {} /\ use \in Uses
  BY Classes DEF Init, Sides, Late, Trying
<1>2. /\ SlotMax \in Nat /\ MaxTicket[use] \in Nat
  BY <1>1, PoolAssumption, Sizes DEF PoolAssumption
<1>3. Cardinality(Late) = 0 /\ Cardinality(Producers) \in Nat
  BY <1>1, FS_EmptySet, LateIs
<1>4. SlotMax * Cardinality(Late) = 0
  BY <1>2, <1>3
<1>5. SlotMax * Cardinality(Producers) \in Nat
  BY <1>2, <1>3, TimesGrows
<1>6. PICK z \in Nat : z = SlotMax * Cardinality(Producers)
  BY <1>5
<1> QED BY <1>1, <1>2, <1>4, <1>6 DEF Reserved

(* With room in the ticket field for what the bound lets producers reserve *)
(* it does not wrap, so the hypothesis of the theorems above holds.        *)
THEOREM NeverWraps ==
  ASSUME FieldSuffices
  PROVE  Spec => []BelowWrap
<1>1. Init => Reserved
  BY ReserveInit
<1>2. Inv /\ Reserved /\ [Next]_vars => Inv' /\ Reserved'
  BY ReserveInductive
<1>3. Inv /\ Reserved => BelowWrap
  BY ReserveSuffices DEF Inv
<1>4. Init => Inv
  BY InitHolds
<1> QED BY <1>1, <1>2, <1>3, <1>4, PTL DEF Spec

(* The promises of the queue and allocator, with no word about the field   *)
(* but the one on its size.                                                *)
COROLLARY PromisesKept ==
  ASSUME FieldSuffices
  PROVE  Spec => []ChunksApart /\ []PayloadKept /\ AnswersAreTrue
BY NeverWraps, ChunksNeverShare, PayloadStays, AnswersTrue

---------------------------------------------------------------------------
(* The pool and its list: the list's proofs, of the list in PooledQueue.   *)
ListP == INSTANCE MpscIProofs WITH Pushers <- Producers, Nodes <- Slots

(* The list of PooledQueue is the one that is proved about.                *)
LEMMA ListAssumed ==
  ListP!ListAssumption
BY PullerAssumption
DEF PullerAssumption, List!ListAssumption, ListP!ListAssumption, List!All, ListP!All

LEMMA ListBegins ==
  List!Init => ListP!Init
BY DEF List!Init, ListP!Init, List!All, ListP!All, List!Callers, ListP!Callers,
       List!NoWord, ListP!NoWord

LEMMA ListProduces ==
  ASSUME NEW p, NEW b, NEW g, List!ProduceMany(p, b, g)
  PROVE  ListP!ProduceMany(p, b, g)
BY DEF List!ProduceMany, ListP!ProduceMany, List!Exchange, ListP!Exchange,
       List!Go, ListP!Go, List!All, ListP!All

LEMMA ListLinks ==
  ASSUME NEW t, List!Pushes(t)
  PROVE  ListP!Pushes(t)
BY DEF List!Pushes, ListP!Pushes, List!LoadOld, ListP!LoadOld, List!Link,
       ListP!Link, List!Settle, ListP!Settle, List!Go, ListP!Go,
       List!NoWord, ListP!NoWord

LEMMA ListPulls ==
  ASSUME List!Pulls
  PROVE  ListP!Pulls
<1>1. List!Consume => ListP!Consume
  BY DEF List!Consume, ListP!Consume, List!SeesNothing, ListP!SeesNothing,
         List!Give, ListP!Give, List!Go, ListP!Go
<1>2. List!Skipped => ListP!Skipped
  BY DEF List!Skipped, ListP!Skipped, List!Give, ListP!Give, List!Go, ListP!Go
<1>3. List!LookTail => ListP!LookTail
  BY DEF List!LookTail, ListP!LookTail, List!Go, ListP!Go
<1>4. List!RenewStable => ListP!RenewStable
  BY DEF List!RenewStable, ListP!RenewStable, List!Go, ListP!Go,
         List!NoWord, ListP!NoWord
<1>5. List!PushStable => ListP!PushStable
  BY DEF List!PushStable, ListP!PushStable, List!Exchange, ListP!Exchange,
         List!Go, ListP!Go
<1>6. List!LoadOld(Puller) \/ List!Link(Puller) =>
        ListP!LoadOld(Puller) \/ ListP!Link(Puller)
  BY ListLinks DEF List!Pushes, ListP!Pushes
<1>7. List!LookAgain => ListP!LookAgain
  BY DEF List!LookAgain, ListP!LookAgain, List!Give, ListP!Give, List!Go, ListP!Go
<1> QED BY <1>1, <1>2, <1>3, <1>4, <1>5, <1>6, <1>7 DEF List!Pulls, ListP!Pulls

LEMMA ListReleases ==
  ASSUME List!Release
  PROVE  ListP!Release
BY DEF List!Release, ListP!Release

LEMMA ListQueued ==
  List!Queued = ListP!Queued
BY DEF List!Queued, ListP!Queued

(* What the proofs about the list say of the list of PooledQueue.          *)
LEMMA ListKeeps ==
  ASSUME ListP!Inv
  PROVE  List!TypeOK /\ List!NoLateWrite /\ List!AnswersAreTrue
<1>1. List!TypeOK
  <2>1. ListP!TypeOK
    BY DEF ListP!Inv
  <2> QED BY <2>1 DEF List!TypeOK, ListP!TypeOK, List!All, ListP!All, List!Word,
         ListP!Word, List!Callers, ListP!Callers, List!Places, ListP!Places
<1>2. List!NoLateWrite
  <2>1. ListP!NoLateWrite
    BY ListAssumed, ListP!NoLateWriteHolds
  <2> QED BY <2>1, ListQueued DEF List!NoLateWrite, ListP!NoLateWrite,
         List!Linking, ListP!Linking, List!Callers, ListP!Callers
<1>3. List!AnswersAreTrue
  <2>1. ListP!AnswersAreTrue
    BY ListAssumed, ListP!AnswersHold
  <2> QED BY <2>1 DEF List!AnswersAreTrue, ListP!AnswersAreTrue,
         List!SeesNothing, ListP!SeesNothing,
         List!Linking, ListP!Linking, List!Callers, ListP!Callers
<1> QED BY <1>1, <1>2, <1>3

---------------------------------------------------------------------------
(* The inductive invariant: those of the allocator and of the list, and    *)
(* how the list's nodes are the allocator's chunks.                        *)

(* The nodes in the list, and the one its consumer has.                    *)
Taken == ListP!Queued \cup ({got} \ {Null})

(* Chunks that producers hold are in use, each held once, and none is a    *)
(* node yet.                                                               *)
HoldOK ==
  /\ hold \in [Producers -> Seq(Chunk)]
  /\ \A p \in Producers : Len(hold[p]) <= MaxBatch
  /\ \A p \in Producers : \A i \in DOMAIN hold[p] :
       hold[p][i] \in InUse /\ Slot(hold[p][i].tk) \notin Taken
  /\ \A p, q \in Producers : \A i \in DOMAIN hold[p], j \in DOMAIN hold[q] :
       hold[p][i] = hold[q][j] => p = q /\ i = j

(* Every node is a chunk in use.                                           *)
NodesOK == \A n \in Taken : \E ch \in InUse : Slot(ch.tk) = n

(* A queue has no list.                                                    *)
AloneOK == use = "queue" => Taken = {} /\ \A p \in Producers : hold[p] = <<>>

Joined  == HoldOK /\ NodesOK /\ AloneOK
PoolInv == Inv /\ Reserved /\ ListP!Inv /\ Joined

---------------------------------------------------------------------------
(* Nodes and chunks.                                                       *)

(* A node's address tells which chunk it is.                               *)
LEMMA OneChunk ==
  ASSUME Inv, NEW a \in live, NEW b \in live, Slot(a.tk) = Slot(b.tk)
  PROVE  a = b
<1>1. a \in Held /\ b \in Held
  BY HeldAre
<1>2. Slot(a.tk) \in Mem(a) /\ Slot(b.tk) \in Mem(b)
  BY <1>1, HeldHas
<1> QED BY <1>1, <1>2 DEF Inv, HeldOK

LEMMA JoinedStays ==
  ASSUME Joined, UNCHANGED <<use, hold>>, Taken' \subseteq Taken,
         use = "queue" \/ InUse \subseteq InUse'
  PROVE  Joined'
<1>1. CASE InUse \subseteq InUse'
  <2>1. HoldOK'
    BY <1>1 DEF Joined, HoldOK
  <2>2. NodesOK'
    BY <1>1 DEF Joined, NodesOK
  <2>3. AloneOK'
    BY DEF Joined, AloneOK
  <2> QED BY <2>1, <2>2, <2>3 DEF Joined
<1>2. CASE use = "queue"
  <2>1. Taken' = {} /\ \A p \in Producers : hold[p] = <<>>
    BY <1>2 DEF Joined, AloneOK
  <2>2. HoldOK'
    <3>1. \A p \in Producers : DOMAIN hold[p] = {}
      BY <2>1
    <3> QED BY <2>1, <3>1 DEF Joined, HoldOK
  <2> QED BY <2>1, <2>2 DEF Joined, NodesOK, AloneOK
<1> QED BY <1>1, <1>2

(* Where the list's history has no new nodes and its consumer has no other *)
(* than the first, no node is new.                                         *)
LEMMA PullsTakeNone ==
  ASSUME ListP!Inv, ListP!Pulls
  PROVE  Taken' \subseteq Taken
<1>1. \/ order' = order /\ got' = got
      \/ \E n : ListP!Give(head, n)
  BY DEF ListP!Pulls, ListP!Consume, ListP!Skipped, ListP!LookTail,
         ListP!RenewStable, ListP!PushStable, ListP!LookAgain, ListP!LoadOld,
         ListP!Link
<1>2. CASE order' = order /\ got' = got
  BY <1>2 DEF Taken, ListP!Queued
<1>3. CASE \E n : ListP!Give(head, n)
  <2>1. order' = SubSeq(order, 2, Len(order))
    BY <1>3 DEF ListP!Give
  <2>2. order \in Seq([node : Slots, tag : Tags])
    BY DEF ListP!Inv, ListP!TypeOK
  <2>3. ListP!Queued' \subseteq ListP!Queued
    <3>1. ASSUME NEW i \in DOMAIN order'
          PROVE  \E j \in DOMAIN order : order'[i] = order[j]
      <4>1. Len(order) \in Nat /\ DOMAIN order = 1..Len(order)
        BY <2>2, LenProperties
      <4>2. i \in 1..(Len(order) - 1) /\ order'[i] = order[i + 1]
        BY <2>1, <2>2, <3>1, <4>1
      <4> QED BY <4>1, <4>2
    <3> QED BY <3>1 DEF ListP!Queued
  <2>4. got = Null
    BY DEF ListP!Inv, ListP!Owners, ListP!Pulls, ListP!Consume, ListP!Skipped,
           ListP!LookTail, ListP!RenewStable, ListP!PushStable, ListP!LookAgain,
           ListP!LoadOld, ListP!Link
  <2>5. got' # Null => got' \in ListP!Queued
    <3>1. SUFFICES ASSUME got' # Null PROVE got' \in ListP!Queued
      OBVIOUS
    <3>2. order # <<>> /\ order[1].node = got'
      BY <2>4, <3>1, ListAssumed, ListP!GivesFirst
    <3>3. 1 \in DOMAIN order
      BY <2>2, <3>2
    <3> QED BY <3>2, <3>3 DEF ListP!Queued
  <2> QED BY <2>3, <2>5 DEF Taken
<1> QED BY <1>1, <1>2, <1>3

---------------------------------------------------------------------------
(* The steps.                                                              *)

(* What a producer's step of alloc does to the chunks in use.              *)
LEMMA AllocKeeps ==
  ASSUME Inv, use = "allocator", NEW p \in Producers, Loop(p) \/ Produce(p)
  PROVE  /\ use' = use /\ InUse \subseteq InUse'
         /\ pc[p] = "got" => own[p] \in InUse' /\ own[p] \notin InUse
<1>1. p \in Threads /\ TypeOK /\ Step(p)
  BY Classes DEF Inv, Step
<1>2. use' = use /\ OnlyMoves(p)
  BY <1>1, OneMoves
<1>3. \A u \in Threads : u # p => own'[u] = own[u]
  BY <1>2 DEF OnlyMoves, Same
<1>4. NoChunk \notin live
  BY <1>1, Sizes DEF TypeOK
<1>5. ASSUME live \subseteq live',
             own'[p] = own[p] \/ own'[p] \notin live
      PROVE  InUse \subseteq InUse'
  BY <1>1, <1>3, <1>5 DEF InUse
<1>6. CASE Loop(p)
  <2>1. live' = live /\ \E a : Loaded(p, a)
    BY <1>6 DEF Loop, Prepare, Reload, CasFails, shared
  <2>2. own'[p] = own[p] \/ own'[p] = NoChunk
    BY <1>1, <2>1 DEF Loaded, Return, TypeOK
  <2>3. pc[p] # "got"
    BY <1>6 DEF Loop, Prepare, Reload, CasFails
  <2> QED BY <1>2, <1>4, <1>5, <2>1, <2>2, <2>3
<1>7. CASE Produce(p)
  <2>1. CASE CheckHead(p) \/ CheckTail(p) \/ Recheck(p)
    <3>1. live' = live /\ pc[p] # "got"
      BY <2>1 DEF CheckHead, CheckTail, Recheck, shared
    <3>2. own'[p] = own[p] \/ own'[p] = NoChunk
      <4>1. CASE CheckHead(p)
        BY <1>1, <4>1 DEF CheckHead, Return, TypeOK
      <4>2. CASE CheckTail(p)
        BY <4>2 DEF CheckTail
      <4>3. CASE Recheck(p)
        BY <1>1, <4>3 DEF Recheck, Loaded, Return, TypeOK
      <4> QED BY <2>1, <4>1, <4>2, <4>3
    <3> QED BY <1>2, <1>4, <1>5, <3>1, <3>2
  <2>2. CASE ProduceTakes(p)
    <3>1. PICK ch : ch = [tk |-> tkt["push"], n |-> arg[p].slots]
      OBVIOUS
    <3>2. live' = live \cup {ch} /\ own'[p] = ch /\ pc[p] = "cas"
      BY <1>1, <2>2, <3>1 DEF ProduceTakes, TakeWord, TypeOK
    <3>3. ch \notin live
      <4>1. SUFFICES ASSUME ch \in Held PROVE FALSE
        BY HeldAre
      <4>2. ch.tk < tkt["push"] /\ ch.tk \in Nat
        BY <4>1, HeldHas
      <4> QED BY <3>1, <4>2
    <3> QED BY <1>2, <1>5, <3>2, <3>3
  <2>3. CASE Fill(p)
    <3>1. live' = live /\ pc[p] = "got" /\ own'[p] = NoChunk
      BY <1>1, <2>3 DEF Fill, Return, TypeOK
    <3>2. own[p] \in live /\ own[p] # NoChunk
      BY <1>1, <3>1 DEF Inv, OwnersOK, PlaceOK, Using
    <3>3. \A u \in Threads : u # p => own[u] # own[p]
      BY <1>1, <3>2 DEF Inv, OwnersOK
    <3>4. own[p] \in InUse' /\ own[p] \notin InUse
      BY <1>1, <1>3, <3>1, <3>2, <3>3 DEF InUse
    <3> QED BY <1>2, <1>4, <1>5, <3>1, <3>4
  <2>4. CASE ProduceCommit(p)
    <3>1. live' = live /\ pc[p] = "own" /\ own' = own
      BY <2>4 DEF ProduceCommit
    <3> QED BY <1>2, <1>5, <3>1
  <2> QED BY <1>7, <2>1, <2>2, <2>3, <2>4 DEF Produce
<1> QED BY <1>6, <1>7

LEMMA AllocatesStep ==
  ASSUME Inv, Joined, NEW p \in Producers, Allocates(p)
  PROVE  Joined'
<1>1. /\ use = "allocator" /\ Len(hold[p]) < MaxBatch /\ (Loop(p) \/ Produce(p))
      /\ UNCHANGED listVars
      /\ hold' = IF pc[p] = "got" THEN [hold EXCEPT ![p] = Append(@, own[p])]
                 ELSE hold
  BY DEF Allocates
<1>2. /\ use' = use /\ InUse \subseteq InUse'
      /\ pc[p] = "got" => own[p] \in InUse' /\ own[p] \notin InUse
  BY <1>1, AllocKeeps
<1>3. Taken' = Taken
  BY <1>1 DEF listVars, Taken, ListP!Queued
<1>4. CASE pc[p] # "got"
  BY <1>1, <1>2, <1>3, <1>4, JoinedStays
<1>5. CASE pc[p] = "got"
  <2>1. PICK ch : ch = own[p]
    OBVIOUS
  <2>2. /\ ch \in InUse' /\ ch \notin InUse /\ ch \in live /\ ch \in Chunk
        /\ hold' = [hold EXCEPT ![p] = Append(hold[p], ch)]
    BY <1>1, <1>2, <1>5, <2>1, Classes DEF Inv, OwnersOK, Using, TypeOK
  <2>3. /\ hold \in [Producers -> Seq(Chunk)] /\ hold[p] \in Seq(Chunk)
        /\ MaxBatch \in Nat /\ Len(hold[p]) \in Nat
    BY PullerAssumption DEF PullerAssumption, Joined, HoldOK
  <2>4. PICK n \in Nat : n = Len(hold[p])
    BY <2>3
  <2>5. /\ Append(hold[p], ch) \in Seq(Chunk) /\ Len(Append(hold[p], ch)) = n + 1
        /\ DOMAIN Append(hold[p], ch) = 1..(n + 1)
        /\ \A i \in 1..n : Append(hold[p], ch)[i] = hold[p][i]
        /\ Append(hold[p], ch)[n + 1] = ch
        /\ DOMAIN hold[p] = 1..n
    BY <2>2, <2>3, <2>4, AppendProperties, LenProperties
  <2>6. /\ hold' \in [Producers -> Seq(Chunk)]
        /\ hold'[p] = Append(hold[p], ch)
        /\ \A q \in Producers : q # p => hold'[q] = hold[q]
    BY <2>2, <2>3, <2>5
  <2>7. \A q \in Producers : \A i \in DOMAIN hold'[q] :
          \/ q = p /\ i = n + 1 /\ hold'[q][i] = ch
          \/ /\ i \in DOMAIN hold[q] /\ hold'[q][i] = hold[q][i]
             /\ q = p => i # n + 1
    <3>1. ASSUME NEW i \in 1..(n + 1), i # n + 1
          PROVE  i \in 1..n
      BY <3>1
    <3> QED BY <2>5, <2>6, <3>1
  <2>8. \A q \in Producers : Len(hold'[q]) <= MaxBatch
    <3>1. n + 1 <= MaxBatch
      BY <1>1, <2>3, <2>4
    <3> QED BY <2>5, <2>6, <3>1 DEF Joined, HoldOK
  <2>9. \A b \in InUse : b # ch /\ b \in live
    BY <2>2 DEF InUse
  <2>10. Slot(ch.tk) \notin Taken
    BY <2>2, <2>9, OneChunk DEF Joined, NodesOK
  <2>11. HoldOK'
    <3>1. \A q \in Producers : \A i \in DOMAIN hold'[q] :
            hold'[q][i] \in InUse' /\ Slot(hold'[q][i].tk) \notin Taken'
      BY <1>2, <1>3, <2>2, <2>7, <2>10 DEF Joined, HoldOK
    <3>2. ASSUME NEW q \in Producers, NEW r \in Producers,
                 NEW i \in DOMAIN hold'[q], NEW j \in DOMAIN hold'[r],
                 hold'[q][i] = hold'[r][j]
          PROVE  q = r /\ i = j
      <4>1. \/ q = p /\ i = n + 1 /\ hold'[q][i] = ch
            \/ i \in DOMAIN hold[q] /\ hold'[q][i] = hold[q][i]
        BY <2>7
      <4>2. \/ r = p /\ j = n + 1 /\ hold'[r][j] = ch
            \/ j \in DOMAIN hold[r] /\ hold'[r][j] = hold[r][j]
        BY <2>7
      <4>3. \A s \in Producers : \A k \in DOMAIN hold[s] : hold[s][k] # ch
        BY <2>9 DEF Joined, HoldOK
      <4> QED BY <3>2, <4>1, <4>2, <4>3 DEF Joined, HoldOK
    <3> QED BY <2>6, <2>8, <3>1, <3>2 DEF HoldOK
  <2>12. NodesOK'
    BY <1>2, <1>3 DEF Joined, NodesOK
  <2>13. AloneOK'
    BY <1>1, <1>2 DEF AloneOK
  <2> QED BY <2>11, <2>12, <2>13 DEF Joined
<1> QED BY <1>4, <1>5

(* The batch a producer makes of the chunks it holds.                      *)
Batch(p) == [i \in DOMAIN hold[p] |-> Slot(hold[p][i].tk)]

LEMMA BatchIs ==
  ASSUME Inv, Joined, NEW p \in Producers, hold[p] # <<>>
  PROVE  /\ ListP!Duty(Batch(p))
         /\ DOMAIN Batch(p) = DOMAIN hold[p]
         /\ \A i \in DOMAIN hold[p] : Batch(p)[i] = Slot(hold[p][i].tk)
<1>1. hold[p] \in Seq(Chunk) /\ Len(hold[p]) \in Nat
      /\ DOMAIN hold[p] = 1..Len(hold[p])
  BY LenProperties DEF Joined, HoldOK
<1>2. /\ DOMAIN Batch(p) = DOMAIN hold[p]
      /\ \A i \in DOMAIN hold[p] : Batch(p)[i] = Slot(hold[p][i].tk)
  BY DEF Batch
<1>3. \A i \in DOMAIN hold[p] : hold[p][i] \in live /\ Batch(p)[i] \notin Taken
  BY <1>2 DEF Joined, HoldOK, InUse
<1>4. \A i \in DOMAIN hold[p] : Batch(p)[i] \in Slots
  BY <1>2, <1>3, HeldAre, HeldHas
<1>5. Batch(p) \in Seq(Slots)
  <2>1. Batch(p) \in [1..Len(hold[p]) -> Slots]
    BY <1>1, <1>4 DEF Batch
  <2> QED BY <1>1, <2>1, SeqDef
<1>6. Batch(p) # <<>>
  <2>1. 1 \in DOMAIN hold[p]
    BY <1>1
  <2> QED BY <1>2, <2>1
<1>7. \A i, j \in DOMAIN hold[p] : i # j => Batch(p)[i] # Batch(p)[j]
  <2>1. ASSUME NEW i \in DOMAIN hold[p], NEW j \in DOMAIN hold[p],
               Batch(p)[i] = Batch(p)[j]
        PROVE  i = j
    <3>1. hold[p][i] = hold[p][j]
      BY <1>2, <1>3, <2>1, OneChunk
    <3> QED BY <3>1 DEF Joined, HoldOK
  <2> QED BY <2>1
<1>8. \A i \in DOMAIN hold[p] : Batch(p)[i] \notin ListP!Queued \cup {got}
  <2>1. Null \notin Slots
    BY ListAssumed DEF ListP!ListAssumption, ListP!All
  <2> QED BY <1>3, <1>4, <2>1 DEF Taken
<1> QED BY <1>2, <1>5, <1>6, <1>7, <1>8 DEF ListP!Duty

(* A batch hands the list chunks that nobody else holds.                   *)
LEMMA PostsStep ==
  ASSUME Inv, Joined, ListP!Inv, NEW p \in Producers, Posts(p)
  PROVE  ListP!Inv' /\ Joined' /\ UNCHANGED vars
<1>1. /\ pc[p] = "idle" /\ hold[p] # <<>> /\ hold' = [hold EXCEPT ![p] = <<>>]
      /\ UNCHANGED vars
  BY DEF Posts
<1>2. PICK g \in Tags : List!ProduceMany(p, Batch(p), g)
  <2>1. NodeTags \subseteq Tags
    BY ListAssumed DEF NodeTags, ListP!ListAssumption
  <2> QED BY <2>1 DEF Posts, Batch
<1>3. PICK b : b = Batch(p)
  OBVIOUS
<1>4. /\ ListP!Duty(b) /\ DOMAIN b = DOMAIN hold[p]
      /\ \A i \in DOMAIN hold[p] : b[i] = Slot(hold[p][i].tk)
  BY <1>1, <1>3, BatchIs
<1>5. ListP!ProduceMany(p, b, g)
  BY <1>2, <1>3, ListProduces
<1>6. ListP!Inv'
  BY <1>4, <1>5, ListAssumed, ListP!ProduceStep
<1>7. use' = use /\ InUse' = InUse
  BY <1>1 DEF vars, InUse
<1>8. got' = got /\ ListP!Queued' \subseteq ListP!Queued \cup {b[i] : i \in DOMAIN b}
  <2>1. got' = got
    BY <1>5 DEF ListP!ProduceMany
  <2>2. PICK L \in Nat, m \in Nat :
          /\ L = Len(order) /\ m = Len(b) /\ DOMAIN b = 1..m
          /\ DOMAIN order = 1..L /\ DOMAIN order' = 1..(L + m)
          /\ \A i \in 1..L : order'[i] = order[i]
          /\ \A i \in (L + 1)..(L + m) : order'[i] = [node |-> b[i - L], tag |-> g]
    <3>1. ListP!TypeOK
      BY DEF ListP!Inv
    <3>2. Len(order) \in Nat /\ DOMAIN order = 1..Len(order)
      BY <3>1, LenProperties DEF ListP!TypeOK
    <3>3. /\ Len(b) \in Nat /\ DOMAIN b = 1..Len(b)
          /\ Len(order') = Len(order) + Len(b) /\ DOMAIN order' = 1..Len(order')
          /\ \A i \in 1..Len(order) : order'[i] = order[i]
          /\ \A i \in (Len(order) + 1)..(Len(order) + Len(b)) :
               order'[i] = [node |-> b[i - Len(order)], tag |-> g]
      BY <1>4, <1>5, <3>1, ListAssumed, ListP!BatchAppended
    <3> QED BY <3>2, <3>3
  <2>3. ASSUME NEW i \in DOMAIN order'
        PROVE  order'[i].node \in ListP!Queued \cup {b[j] : j \in DOMAIN b}
    <3>1. CASE i \in 1..L
      BY <2>2, <3>1 DEF ListP!Queued
    <3>2. CASE i \notin 1..L
      <4>1. i \in (L + 1)..(L + m) /\ i - L \in 1..m
        BY <2>2, <2>3, <3>2
      <4>2. order'[i] = [node |-> b[i - L], tag |-> g]
        BY <2>2, <4>1
      <4>3. order'[i].node = b[i - L]
        BY <4>2
      <4> QED BY <2>2, <4>1, <4>3
    <3> QED BY <3>1, <3>2
  <2> QED BY <2>1, <2>3 DEF ListP!Queued
<1>9. \A n \in Taken' : n \in Taken \/ \E i \in DOMAIN hold[p] : n = Slot(hold[p][i].tk)
  BY <1>4, <1>8 DEF Taken
<1>10. /\ hold' \in [Producers -> Seq(Chunk)] /\ hold'[p] = <<>>
       /\ \A q \in Producers : q # p => hold'[q] = hold[q]
  BY <1>1 DEF Joined, HoldOK
<1>11. HoldOK'
  <2>1. DOMAIN hold'[p] = {} /\ Len(hold'[p]) = 0 /\ MaxBatch \in Nat
    BY <1>10, PullerAssumption DEF PullerAssumption
  <2>2. ASSUME NEW q \in Producers
        PROVE  Len(hold'[q]) <= MaxBatch
    <3>1. CASE q = p
      <4>1. 0 <= MaxBatch
        BY <2>1
      <4> QED BY <2>1, <3>1, <4>1
    <3>2. CASE q # p
      <4>1. Len(hold[q]) <= MaxBatch
        BY DEF Joined, HoldOK
      <4> QED BY <1>10, <3>2, <4>1
    <3> QED BY <3>1, <3>2
  <2>3. ASSUME NEW q \in Producers, NEW i \in DOMAIN hold'[q]
        PROVE  hold'[q][i] \in InUse' /\ Slot(hold'[q][i].tk) \notin Taken'
    <3>1. q # p /\ i \in DOMAIN hold[q] /\ hold'[q][i] = hold[q][i]
      BY <1>10, <2>1, <2>3
    <3>2. hold[q][i] \in InUse /\ Slot(hold[q][i].tk) \notin Taken
      BY <3>1 DEF Joined, HoldOK
    <3>3. \A j \in DOMAIN hold[p] :
            hold[p][j] \in InUse /\ hold[p][j] # hold[q][i]
      BY <3>1 DEF Joined, HoldOK
    <3>4. \A j \in DOMAIN hold[p] : Slot(hold[p][j].tk) # Slot(hold[q][i].tk)
      BY <3>2, <3>3, OneChunk DEF InUse
    <3> QED BY <1>7, <1>9, <3>1, <3>2, <3>4
  <2>4. ASSUME NEW q \in Producers, NEW r \in Producers,
               NEW i \in DOMAIN hold'[q], NEW j \in DOMAIN hold'[r],
               hold'[q][i] = hold'[r][j]
        PROVE  q = r /\ i = j
    <3>1. /\ q # p /\ i \in DOMAIN hold[q] /\ hold'[q][i] = hold[q][i]
          /\ r # p /\ j \in DOMAIN hold[r] /\ hold'[r][j] = hold[r][j]
      BY <1>10, <2>1, <2>4
    <3>2. i \in DOMAIN hold[q] /\ j \in DOMAIN hold[r] /\ hold[q][i] = hold[r][j]
      BY <2>4, <3>1
    <3> QED BY <3>2, Zenon DEF Joined, HoldOK
  <2> QED BY <1>10, <2>2, <2>3, <2>4 DEF HoldOK
<1>12. NodesOK'
  <2>1. \A i \in DOMAIN hold[p] : hold[p][i] \in InUse
    BY DEF Joined, HoldOK
  <2> QED BY <1>7, <1>9, <2>1 DEF Joined, NodesOK
<1>13. AloneOK'
  <2>1. use # "queue"
    BY <1>1 DEF Joined, AloneOK
  <2> QED BY <1>7, <2>1 DEF AloneOK
<1> QED BY <1>1, <1>6, <1>11, <1>12, <1>13 DEF Joined

(* The node that consume gave is a chunk in use when it is released.       *)
LEMMA ReleasesInUse ==
  ASSUME Inv, Joined, ListP!Release, NEW ch \in live, Slot(ch.tk) = got
  PROVE  ch \in InUse /\ got \in Taken
<1>1. got \in Taken
  BY DEF ListP!Release, Taken
<1>2. PICK a \in InUse : Slot(a.tk) = got
  BY <1>1 DEF Joined, NodesOK
<1>3. a = ch
  BY <1>2, OneChunk DEF InUse
<1> QED BY <1>1, <1>2, <1>3

LEMMA DeallocatesStep ==
  ASSUME Inv, BelowWrap, Joined, ListP!Inv, Deallocates
  PROVE  ListP!Inv' /\ Joined' /\ Next
<1>1. PICK ch \in live : Slot(ch.tk) = got /\ Dealloc(Puller, ch)
  BY DEF Deallocates
<1>2. ListP!Release /\ hold' = hold
  BY ListReleases DEF Deallocates
<1>3. ListP!Inv'
  BY <1>2, ListAssumed, ListP!InsideStep
<1>4. ch \in InUse /\ Puller \in Consumers /\ Puller \in Threads
  BY <1>1, <1>2, ReleasesInUse, PullerAssumption, Classes DEF PullerAssumption
<1>5. Next
  BY <1>1, <1>4 DEF Next
<1>6. Inv'
  BY <1>1, <1>4, DeallocStep
<1>7. use' = use /\ use = "allocator" /\ live' = live \ {ch}
  BY <1>1 DEF Dealloc, LeaveUse
<1>8. own'[Puller] \notin live'
  <2>1. pc'[Puller] \in {"free", "trap"}
    BY <1>1, <1>4 DEF Dealloc, Goto, Inv, TypeOK
  <2>2. pc'[Puller] = "free"
    BY <1>4, <1>6, <2>1 DEF Inv, PlaceOK
  <2> QED BY <1>4, <1>6, <2>2 DEF Inv, OwnersOK
<1>9. \A a \in InUse : a # ch => a \in InUse'
  <2>1. \A u \in Threads : u # Puller => own'[u] = own[u]
    BY <1>1 DEF Dealloc, Inv, TypeOK
  <2> QED BY <1>7, <1>8, <2>1 DEF InUse
<1>10. Taken' = Taken \ {got} /\ got # Null
  <2>1. got # Null /\ got' = Null /\ order' = order
    BY <1>2 DEF ListP!Release
  <2>2. got \notin ListP!Queued
    BY <2>1 DEF ListP!Inv, ListP!Owners
  <2> QED BY <2>1, <2>2 DEF Taken, ListP!Queued
<1>11. HoldOK'
  <2>1. ASSUME NEW q \in Producers, NEW i \in DOMAIN hold[q]
        PROVE  hold[q][i] \in InUse' /\ Slot(hold[q][i].tk) \notin Taken'
    <3>1. hold[q][i] \in InUse /\ Slot(hold[q][i].tk) \notin Taken
      BY DEF Joined, HoldOK
    <3>2. hold[q][i] # ch
      BY <1>1, <1>2, <3>1, ReleasesInUse
    <3> QED BY <1>9, <1>10, <3>1, <3>2
  <2> QED BY <1>2, <2>1 DEF Joined, HoldOK
<1>12. NodesOK'
  <2>1. ASSUME NEW n \in Taken, n # got
        PROVE  \E a \in InUse' : Slot(a.tk) = n
    <3>1. PICK a \in InUse : Slot(a.tk) = n
      BY <2>1 DEF Joined, NodesOK
    <3>2. a # ch
      BY <1>1, <2>1, <3>1
    <3> QED BY <1>9, <3>1, <3>2
  <2> QED BY <1>10, <2>1 DEF NodesOK
<1>13. AloneOK'
  BY <1>7 DEF AloneOK
<1> QED BY <1>3, <1>5, <1>11, <1>12, <1>13 DEF Joined

LEMMA FreesStep ==
  ASSUME Inv, Joined, use = "allocator", Free(Puller),
         UNCHANGED <<listVars, hold>>
  PROVE  Joined' /\ Next
<1>1. Puller \in Consumers /\ Puller \in Threads
  BY PullerAssumption, Classes DEF PullerAssumption
<1>2. Next
  BY <1>1 DEF Next
<1>3. /\ use' = use /\ live' = live
      /\ own'[Puller] = own[Puller] \/ own'[Puller] = NoChunk
      /\ \A u \in Threads : u # Puller => own'[u] = own[u]
  <2>1. CASE FreeTail(Puller)
    BY <2>1 DEF FreeTail
  <2>2. CASE FreeHead(Puller)
    BY <1>1, <2>2 DEF FreeHead, Return, Inv, TypeOK
  <2> QED BY <2>1, <2>2 DEF Free
<1>4. NoChunk \notin live
  BY Sizes DEF Inv, TypeOK
<1>5. InUse \subseteq InUse'
  BY <1>1, <1>3, <1>4 DEF InUse
<1>6. Taken' = Taken
  BY DEF listVars, Taken, ListP!Queued
<1> QED BY <1>2, <1>3, <1>5, <1>6, JoinedStays

---------------------------------------------------------------------------
(* The theorems.                                                           *)

(* What the pool and the list do in a step, each in its own terms.         *)
ListStep ==
  \/ ListP!Pulls \/ ListP!Release \/ UNCHANGED ListP!listVars
  \/ \E p \in Producers :
       ListP!Pushes(p) \/ \E b, g : ListP!ProduceMany(p, b, g)

LEMMA ListMoves ==
  ASSUME [PoolNext]_allVars
  PROVE  ListStep
<1>1. CASE UNCHANGED listVars
  BY <1>1 DEF listVars, ListStep, ListP!listVars
<1>2. ASSUME NEW p \in Producers, Posts(p)
      PROVE  ListStep
  BY <1>2, ListProduces DEF Posts, ListStep
<1>3. ASSUME NEW p \in Producers, List!Pushes(p)
      PROVE  ListStep
  BY <1>3, ListLinks DEF ListStep
<1>4. List!Pulls => ListStep
  BY ListPulls DEF ListStep
<1>5. Deallocates => ListStep
  BY ListReleases DEF Deallocates, ListStep
<1> QED BY <1>1, <1>2, <1>3, <1>4, <1>5
    DEF PoolNext, Queues, Allocates, allVars

(* Every step of the composition is one the pool alone could make, the     *)
(* deallocs included, and keeps the invariant.                             *)
LEMMA PoolStep ==
  ASSUME FieldSuffices, PoolInv, [PoolNext]_allVars
  PROVE  PoolInv' /\ [Next]_vars
<1>1. Inv /\ Reserved /\ ListP!Inv /\ Joined /\ TypeOK /\ BelowWrap
  BY ReserveSuffices DEF PoolInv, Inv
<1>2. SUFFICES [Next]_vars /\ ListP!Inv' /\ Joined'
  BY <1>1, ReserveInductive DEF PoolInv
<1>3. UNCHANGED listVars => ListP!Inv' /\ Taken' = Taken
  <2>1. SUFFICES ASSUME UNCHANGED listVars PROVE ListP!Inv' /\ Taken' = Taken
    OBVIOUS
  <2>2. UNCHANGED ListP!listVars
    BY <2>1 DEF listVars, ListP!listVars
  <2>3. Taken' = Taken
    BY <2>1 DEF listVars, Taken, ListP!Queued
  <2> QED BY <1>1, <2>2, <2>3, ListP!StillStep
<1>4. UNCHANGED vars => use' = use /\ InUse' = InUse
  BY DEF vars, InUse
<1>5. CASE Queues
  <2>1. Next /\ use = "queue" /\ UNCHANGED <<listVars, hold>>
    BY <1>5 DEF Queues, Next
  <2>2. PICK t \in Threads : Step(t)
    BY <2>1, NextIsStep
  <2>3. use' = use
    BY <1>1, <2>2, OneMoves
  <2> QED BY <1>1, <1>3, <2>1, <2>3, JoinedStays
<1>6. ASSUME NEW p \in Producers, Allocates(p)
      PROVE  [Next]_vars /\ ListP!Inv' /\ Joined'
  <2>1. Next /\ UNCHANGED listVars
    BY <1>6 DEF Allocates, Next
  <2> QED BY <1>1, <1>3, <1>6, <2>1, AllocatesStep
<1>7. ASSUME NEW p \in Producers, Posts(p)
      PROVE  [Next]_vars /\ ListP!Inv' /\ Joined'
  BY <1>1, <1>7, PostsStep
<1>8. ASSUME NEW p \in Producers, List!Pushes(p), UNCHANGED <<vars, hold>>
      PROVE  [Next]_vars /\ ListP!Inv' /\ Joined'
  <2>1. ListP!Pushes(p)
    BY <1>8, ListLinks
  <2>2. ListP!Inv'
    BY <1>1, <2>1, ListAssumed, ListP!InsideStep
  <2>3. Taken' = Taken
    BY <2>1 DEF Taken, ListP!Queued, ListP!Pushes, ListP!LoadOld, ListP!Link
  <2> QED BY <1>1, <1>4, <1>8, <2>2, <2>3, JoinedStays
<1>9. CASE List!Pulls /\ UNCHANGED <<vars, hold>>
  <2>1. ListP!Pulls
    BY <1>9, ListPulls
  <2>2. ListP!Inv'
    BY <1>1, <2>1, ListAssumed, ListP!InsideStep
  <2>3. Taken' \subseteq Taken
    BY <1>1, <2>1, PullsTakeNone
  <2> QED BY <1>1, <1>4, <1>9, <2>2, <2>3, JoinedStays
<1>10. CASE Deallocates
  BY <1>1, <1>10, DeallocatesStep
<1>11. CASE use = "allocator" /\ Free(Puller) /\ UNCHANGED <<listVars, hold>>
  BY <1>1, <1>3, <1>11, FreesStep
<1>12. CASE UNCHANGED allVars
  <2>1. UNCHANGED vars /\ UNCHANGED listVars /\ hold' = hold
    BY <1>12 DEF allVars
  <2> QED BY <1>1, <1>3, <1>4, <2>1, JoinedStays
<1> QED BY <1>5, <1>6, <1>7, <1>8, <1>9, <1>10, <1>11, <1>12 DEF PoolNext

LEMMA PoolInitHolds ==
  ASSUME FieldSuffices, PoolInit
  PROVE  PoolInv
<1>1. Init /\ ListP!Init /\ hold = [p \in Producers |-> <<>>]
  BY ListBegins DEF PoolInit
<1>2. Inv /\ Reserved /\ ListP!Inv
  BY <1>1, InitHolds, ReserveInit, ListAssumed, ListP!InitHolds
<1>3. Taken = {}
  BY <1>1 DEF ListP!Init, Taken, ListP!Queued
<1>4. \A p \in Producers : hold[p] = <<>> /\ DOMAIN hold[p] = {} /\ Len(hold[p]) = 0
  <2>1. \A p \in Producers : hold[p] = <<>>
    BY <1>1
  <2>2. DOMAIN <<>> = {} /\ Len(<<>>) = 0
    OBVIOUS
  <2> QED BY <2>1, <2>2
<1>5. HoldOK
  <2>1. hold \in [Producers -> Seq(Chunk)]
    BY <1>1
  <2>2. 0 <= MaxBatch
    BY PullerAssumption DEF PullerAssumption
  <2> QED BY <1>4, <2>1, <2>2 DEF HoldOK
<1> QED BY <1>2, <1>3, <1>4, <1>5 DEF PoolInv, Joined, NodesOK, AloneOK

THEOREM PoolInvariance ==
  ASSUME FieldSuffices
  PROVE  PoolSpec => []PoolInv
<1>1. PoolInit => PoolInv
  BY PoolInitHolds
<1>2. PoolInv /\ [PoolNext]_allVars => PoolInv'
  BY PoolStep
<1> QED BY <1>1, <1>2, PTL DEF PoolSpec

(* The list's users keep to the allocator's rules: each chunk is dealloced *)
(* once, by one who has it, so all that is proved of bl_mpmc_bpm holds.    *)
THEOREM KeepsToAllocator ==
  ASSUME FieldSuffices
  PROVE  PoolSpec => Spec
<1>1. PoolInit => Init
  BY DEF PoolInit
<1>2. PoolInv /\ [PoolNext]_allVars => [Next]_vars
  BY PoolStep
<1> QED BY <1>1, <1>2, PoolInvariance, PTL DEF PoolSpec, Spec

(* The promises of bl_mpmc_bpm hold in the composition.                    *)
COROLLARY PoolKeepsPromises ==
  ASSUME FieldSuffices
  PROVE  PoolSpec => []ChunksApart /\ []PayloadKept /\ AnswersAreTrue
BY KeepsToAllocator, PromisesKept

(* All variables keep their types, and producers hold only chunks in use,  *)
(* never more than their bound.                                            *)
THEOREM PoolTypeCorrect ==
  ASSUME FieldSuffices
  PROVE  PoolSpec => []PoolTypeOK
<1>1. PoolInv => PoolTypeOK
  BY ListKeeps DEF PoolInv, Inv, Joined, HoldOK, PoolTypeOK
<1> QED BY <1>1, PoolInvariance, PTL

(* No producer's late link lands in memory that was allocated again: it    *)
(* goes to a node still in the list, which is a chunk not released.        *)
THEOREM LinksLandInNodes ==
  ASSUME FieldSuffices
  PROVE  PoolSpec => []NoLateWrite
<1>1. PoolInv => NoLateWrite
  <2> SUFFICES ASSUME PoolInv PROVE NoLateWrite
    OBVIOUS
  <2>1. \A n \in List!Queued : \E ch \in live : Slot(ch.tk) = n
    BY ListQueued DEF PoolInv, Joined, NodesOK, Taken, InUse
  <2> QED BY <2>1, ListKeeps DEF PoolInv, NoLateWrite
<1> QED BY <1>1, PoolInvariance, PTL

(* produce and consume of the list tell the truth.                         *)
THEOREM ListTellsTruth ==
  ASSUME FieldSuffices
  PROVE  PoolSpec => []ListAnswersAreTrue
<1>1. PoolInv => ListAnswersAreTrue
  BY ListKeeps DEF PoolInv, ListAnswersAreTrue
<1> QED BY <1>1, PoolInvariance, PTL

(* Nodes come out of the list once each, in the order of their exchanges   *)
(* and with their tags, although their memory is used again.               *)
THEOREM NodesComeInOrder ==
  ASSUME FieldSuffices
  PROVE  PoolSpec => NodesInOrder
<1>1. PoolInv /\ [PoolNext]_allVars =>
        [got = Null /\ got' # Null =>
           /\ order # <<>> /\ order[1].node = got'
           /\ next'[got'].tag = order[1].tag]_(List!listVars)
  <2> SUFFICES ASSUME PoolInv, [PoolNext]_allVars, got = Null, got' # Null
               PROVE  /\ order # <<>> /\ order[1].node = got'
                      /\ next'[got'].tag = order[1].tag
    OBVIOUS
  <2>1. ListStep
    BY ListMoves
  <2> QED BY <2>1, ListAssumed, ListP!GivesFirst DEF ListStep, PoolInv
<1> QED BY <1>1, PoolInvariance, PTL DEF PoolSpec, NodesInOrder, List!InOrder
=============================================================================
