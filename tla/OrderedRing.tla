---------------------------- MODULE OrderedRing ----------------------------
(***************************************************************************)
(* bl_oringb (src/src/bl/base/ordered_ringbuffer.c): a bl_ringb kept in    *)
(* order.  The user's comparison of a value with the element at index i is *)
(* res[i], negative if the value goes before it.                           *)
(***************************************************************************)
EXTENDS RingBuffer, FiniteSetsExt

VARIABLE answer    \* what the last operation that tells something returned

(* The search stops at any element equal to the value.                     *)
FindEqOrGtMutant(r, res) ==
  IF r.size = 0 THEN 0 ELSE
  LET head == {i \in 0..(r.size - 1) : res[i] = 0}
  IN  IF head # {} THEN Max(head)
      ELSE Cardinality({i \in 0..(r.size - 1) : res[i] > 0})

(* bl_oringb_find_eq_or_gt: the head, the tail, then a binary search.      *)
FindEqOrGt(r, res) ==
  LET last == r.size - 1
      (* Backwards from the tail to the first of its equals.               *)
      FirstEqual == 1 + Max({i \in 0..last : res[i] # 0})
      (* The turns of the loop: no more than there are elements.           *)
      search[k \in 0..Capacity] ==
        LET s   == search[k - 1]
            idx == s.head + (s.tail - s.head) \div 2
        IN  IF k = 0 THEN [head |-> 1, tail |-> last]
            ELSE IF s.head >= s.tail THEN s
            ELSE IF res[idx] > 0 THEN [s EXCEPT !.head = idx + 1]
            ELSE [s EXCEPT !.tail = idx]
  IN  CASE r.size = 0 \/ res[0] <= 0 -> 0
        [] OTHER -> CASE res[last] > 0 -> r.size
                      [] res[last] = 0 -> FirstEqual
                      [] res[last] < 0 -> search[Capacity].tail

(* bl_oringb_insert_fifo_duplicates goes on to the end of the equals.      *)
AfterEquals(r, res) ==
  LET found == FindEqOrGt(r, res)
  IN  CHOOSE i \in found..r.size :
        /\ i = r.size \/ res[i] # 0
        /\ \A j \in found..(i - 1) : res[j] = 0

(* bl_oringb_find: the size if there is no equal.                          *)
Find(r, res) ==
  LET found == FindEqOrGt(r, res)
  IN  IF found < r.size /\ res[found] = 0 THEN found ELSE r.size

---------------------------------------------------------------------------
(* A ring ordered by the elements' time; the id tells equals apart.        *)

Compared(v) == [i \in 0..(ring.size - 1) |-> v.time - At(ring, i).time]

Sooner(v) == {i \in DOMAIN items : items[i].time < v.time}
Equal(v)  == {i \in DOMAIN items : items[i].time = v.time}

(* v comes behind the elements of the set before.                          *)
Behind(before, v) == InsertAt(items, Cardinality(before) + 1, v)

(* bl_oringb_insert: no duplicates.                                        *)
PutNew(v) ==
  LET idx == FindEqOrGt(ring, Compared(v))
      new == idx = ring.size \/ Compared(v)[idx] # 0
  IN  /\ CanInsert(ring, 1)
      /\ ring' = IF new THEN Clean(Insert(ring, v, idx)) ELSE ring
      /\ answer' = [idx |-> idx, new |-> new]
      /\ items' = IF Equal(v) = {} THEN Behind(Sooner(v), v) ELSE items

PutFirst(v) ==
  LET idx == FindEqOrGt(ring, Compared(v))
  IN  /\ CanInsert(ring, 1)
      /\ ring' = Clean(Insert(ring, v, idx)) /\ answer' = [idx |-> idx]
      /\ items' = Behind(Sooner(v), v)

PutLast(v) ==
  LET idx == AfterEquals(ring, Compared(v))
  IN  /\ CanInsert(ring, 1)
      /\ ring' = Clean(Insert(ring, v, idx)) /\ answer' = [idx |-> idx]
      /\ items' = Behind(Sooner(v) \cup Equal(v), v)

Seek(v) ==
  /\ answer' = [idx |-> Find(ring, Compared(v))]
  /\ UNCHANGED <<ring, items>>

---------------------------------------------------------------------------
InOrder == \A i, j \in DOMAIN items : i <= j => items[i].time <= items[j].time

(* The index returned is that of the value put in, or found: of the first  *)
(* of its equals.  insert says whether there was none before.              *)
IndexIsTrue(v) ==
  /\ PutNew(v) =>
       /\ items'[answer'.idx + 1].time = v.time
       /\ answer'.new <=> Equal(v) = {}
  /\ PutFirst(v) \/ PutLast(v) => items'[answer'.idx + 1] = v
  /\ Seek(v) =>
       answer'.idx = IF Equal(v) = {} THEN Size ELSE Cardinality(Sooner(v))
=============================================================================
