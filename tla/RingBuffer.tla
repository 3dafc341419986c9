----------------------------- MODULE RingBuffer -----------------------------
(***************************************************************************)
(* bl_ringb (src/include/bl/base/ringbuffer.h and src/src/bl/base/         *)
(* ringbuffer_*.c): an array used as a ring that grows and shrinks at both *)
(* ends and, by moving elements, in the middle.  Indexes are those of the  *)
(* code, from 0; the array is copied the way memmove and memcpy do it.     *)
(***************************************************************************)
EXTENDS Integers, Sequences, SequencesExt

CONSTANTS
  Capacity,   \* elements the ring has memory for
  Blank       \* what lies in memory out of use, never an element

(* init refuses other capacities.                                          *)
ASSUME RingAssumption == Capacity \in Nat \ {0} /\ \E k \in 0..Capacity : Capacity = 2^k

VARIABLES
  ring,    \* stor, begin and size
  items    \* history: the elements the user should find, in order

Places == 0..(Capacity - 1)

RingInit ==
  /\ ring \in [stor : {[i \in Places |-> Blank]}, begin : {0}, size : {0}]
  /\ items = <<>>

---------------------------------------------------------------------------
(* Operators on a ring r.                                                  *)

Place(r, i) == (r.begin + i) % Capacity
At(r, i)    == r.stor[Place(r, i)]
Write(r, i, v) == [r EXCEPT !.stor[Place(r, i)] = v]

CanInsert(r, n) == Capacity >= r.size + n

(* memmove and memcpy of n elements.                                       *)
Copy(m, to, from, n) ==
  [i \in Places |-> IF i \in to..(to + n - 1) THEN m[i - to + from] ELSE m[i]]

(* The turn of the ring is one element short.                              *)
MoveForwardMutant(r, first, last) ==
  LET a == Place(r, first)
      b == Place(r, last)
  IN  [r EXCEPT !.stor =
         IF a <= b THEN Copy(@, a + 1, a, b - a)
         ELSE Copy(Copy(@, 1, 0, b), a + 1, a, Capacity - a - 1)]

(* One place up for the elements from first to the one before last.        *)
MoveForward(r, first, last) ==
  LET a == Place(r, first)
      b == Place(r, last)
      turned == Copy(Copy(r.stor, 1, 0, b), 0, Capacity - 1, 1)
  IN  [r EXCEPT !.stor =
         IF a <= b THEN Copy(@, a + 1, a, b - a)
         ELSE Copy(turned, a + 1, a, Capacity - a - 1)]

(* One place down for the elements from the one after first to last.       *)
MoveBackward(r, first, last) ==
  LET a == Place(r, first)
      b == Place(r, last)
      turned == Copy(Copy(r.stor, a, a + 1, Capacity - a - 1), Capacity - 1, 0, 1)
  IN  [r EXCEPT !.stor =
         IF a <= b THEN Copy(@, a, a + 1, b - a) ELSE Copy(turned, 0, 1, b)]

ExpandHead(r, n) == [r EXCEPT !.size = @ + n, !.begin = (@ - n) % Capacity]
ExpandTail(r, n) == [r EXCEPT !.size = @ + n]
DropHead(r, n)   == [r EXCEPT !.size = @ - n, !.begin = (@ + n) % Capacity]
DropTail(r, n)   == [r EXCEPT !.size = @ - n]

(* The nearer end gives way to a new element at index i.                   *)
Insert(r, v, i) ==
  LET n == r.size + 1
      moved == IF i < n \div 2 THEN MoveBackward(ExpandHead(r, 1), 0, i)
               ELSE MoveForward(ExpandTail(r, 1), i, n - 1)
  IN  Write(moved, i, v)

Drop(r, i) ==
  IF i <= r.size \div 2
    THEN DropHead(MoveForward(r, 0, i), 1)
    ELSE DropTail(MoveBackward(r, i, r.size - 1), 1)

(* n elements from index i.  Elements are copied one by one, upwards: those*)
(* after the range, or those before it if they are fewer.                  *)
DropRange(r, i, n) ==
  LET rest == r.size - i - n
      tail == i >= rest
      src  == IF tail THEN i + n ELSE 0
      dst  == IF tail THEN i ELSE n
      left[k \in 0..Capacity] ==
        IF k = 0 THEN r ELSE Write(left[k - 1], dst + k - 1, At(left[k - 1], src + k - 1))
  IN  [left[IF tail THEN rest ELSE i] EXCEPT
         !.size = @ - n, !.begin = IF tail THEN @ ELSE n]

(* What dropped elements leave in memory is never read.                    *)
Clean(r) ==
  LET used == {Place(r, i) : i \in 0..(r.size - 1)}
  IN  [r EXCEPT !.stor = [p \in Places |-> IF p \in used THEN @[p] ELSE Blank]]

(* v written to the first Len(v) elements from index i on.                 *)
Filled(r, i, v) ==
  LET fill[k \in 0..Len(v)] ==
        IF k = 0 THEN r ELSE Write(fill[k - 1], i + k - 1, v[k])
  IN  fill[Len(v)]

Size == Len(items)

---------------------------------------------------------------------------
(* The operations.  Inserting asks for room and dropping for elements; the *)
(* callers see to that.                                                    *)

SetStart(p) ==
  /\ Size = 0
  /\ ring' = [ring EXCEPT !.begin = p]
  /\ UNCHANGED items

(* insert_head; expand_head_n, and the user writes the new elements v.     *)
PushHead(v) ==
  /\ CanInsert(ring, Len(v))
  /\ ring' = Filled(ExpandHead(ring, Len(v)), 0, v)
  /\ items' = v \o items

(* insert_tail; expand_tail_n, and the user writes the new elements v.     *)
PushTail(v) ==
  /\ CanInsert(ring, Len(v))
  /\ ring' = Filled(ExpandTail(ring, Len(v)), ring.size, v)
  /\ items' = items \o v

PopHead(n) ==
  /\ n \in 1..Size
  /\ ring' = Clean(DropHead(ring, n))
  /\ items' = SubSeq(items, n + 1, Size)

PopTail(n) ==
  /\ n \in 1..Size
  /\ ring' = Clean(DropTail(ring, n))
  /\ items' = SubSeq(items, 1, Size - n)

PutAt(v, i) ==
  /\ CanInsert(ring, 1) /\ i \in 0..Size
  /\ ring' = Clean(Insert(ring, v, i))
  /\ items' = InsertAt(items, i + 1, v)

TakeAt(i) ==
  /\ i \in 0..(Size - 1)
  /\ ring' = Clean(Drop(ring, i))
  /\ items' = RemoveAt(items, i + 1)

(* The ranges drop_range handles: when the elements before the range are   *)
(* fewer than those after it, it takes the ring to begin at its array's    *)
(* first place, and no more elements before the range than in it.          *)
DropsRight(i, n) == i >= Size - i - n \/ (ring.begin = 0 /\ i <= n)

TakeRange(i, n) ==
  /\ i + n <= Size /\ DropsRight(i, n)
  /\ ring' = Clean(DropRange(ring, i, n))
  /\ items' = SubSeq(items, 1, i) \o SubSeq(items, i + n + 1, Size)

---------------------------------------------------------------------------
(* The user finds the elements put in and not taken out, in their order,   *)
(* whatever turns of the ring they lie across and whichever end moved.     *)
RingHoldsAs(Stored(_)) ==
  /\ ring.begin \in Places /\ ring.size = Size /\ Size <= Capacity
  /\ \A i \in 0..(Size - 1) : At(ring, i) = Stored(items[i + 1])
=============================================================================
