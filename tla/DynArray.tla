------------------------------ MODULE DynArray ------------------------------
(***************************************************************************)
(* Blocks of memory that grow: bl_dynarray_resize, which the dynamic       *)
(* containers share, and bl_autoarray (autoarray.c, autoarray.h), an array *)
(* of a size within a capacity.  The allocator may refuse any request.     *)
(***************************************************************************)
EXTENDS Integers, Sequences, FiniteSetsExt

CONSTANTS
  Elems,     \* the elements, or the characters of a string
  Junk,      \* a cell that nobody has written to
  MaxLen     \* bound of the model: elements held

VARIABLES
  mem,       \* the block, one cell per element, <<>> if null, and the cells in use
  text       \* history: what should be in it

blockVars == <<mem, text>>

NoBlock   == [da |-> <<>>, len |-> 0]
BlockInit == mem = NoBlock /\ text = <<>>

Junks(n) == [i \in 1..n |-> Junk]

(* The sequence t with n elements from place i replaced by cs.             *)
Splice(t, i, n, cs) == SubSeq(t, 1, i) \o cs \o SubSeq(t, i + n + 1, Len(t))

(* Writing and reading outside of the block: nothing in it is certain any  *)
(* more, and what is read is junk.                                         *)
Put(da, at, cells) ==
  IF at + Len(cells) <= Len(da) THEN Splice(da, at, Len(cells), cells) ELSE Junks(Len(da))
Cells(da, at, n) ==
  IF at + n <= Len(da) THEN SubSeq(da, at + 1, at + n) ELSE Junks(n)
Move(da, to, from, n) == Put(da, to, Cells(da, from, n))

(* A block of n cells with the first kept cells of da.                     *)
Fit(da, kept, n) ==
  LET k == Min({kept, n, Len(da)}) IN SubSeq(da, 1, k) \o Junks(n - k)

Result(m, err) == [mem |-> m, err |-> err]

(* bl_dynarray_resize: a request that is refused leaves the block.         *)
Resize(m, n, granted) ==
  IF n = 0 \/ granted
    THEN Result([m EXCEPT !.da = Fit(@, n, n)], "ok")
    ELSE Result(m, "alloc")

(* The effect of an operation: with its answer the text is the one or the  *)
(* other.  Of the block's cells only the first used ones matter to anyone. *)
Does(r, used, edited, failed) ==
  /\ mem' = [r.mem EXCEPT !.da = Fit(@, used, Len(@))]
  /\ text' = IF r.err = "ok" THEN edited ELSE failed

---------------------------------------------------------------------------
DoesArray(r, edited) == Does(r, r.mem.len, edited, text) /\ Len(text') <= MaxLen

InitArray(capacity, granted) ==
  /\ mem = NoBlock
  /\ DoesArray(Resize(mem, capacity, granted), <<>>)

(* The least power of two that is no less than n.                          *)
RoundNextPow2(n) ==
  LET pow[k \in 0..n] == IF k = 0 THEN 1
                         ELSE IF pow[k - 1] < n THEN 2 * pow[k - 1] ELSE pow[k - 1]
  IN  pow[n]

(* bl_autoarray_set_rounded_capacity                                       *)

SetRoundedCapacity(m, capacity, granted) ==
  Resize(m, IF capacity # 0 THEN RoundNextPow2(capacity) ELSE 2, granted)

InsertedN(m, i, cs, granted) ==
  LET required == m.len + Len(cs)
      r == IF required > Len(m.da) THEN SetRoundedCapacity(m, required, granted)
           ELSE Result(m, "ok")
  IN  IF r.err # "ok" THEN r
      ELSE Result([da  |-> Put(Move(r.mem.da, i + Len(cs), i, m.len - i), i, cs),
                   len |-> required], "ok")

InsertN(i, cs, granted) ==
  /\ i <= mem.len
  /\ DoesArray(InsertedN(mem, i, cs, granted), Splice(text, i, 0, cs))

InsertTail(c, granted) ==
  DoesArray(InsertedN(mem, mem.len, <<c>>, granted), Append(text, c))

(* set_capacity of no less than the size                                   *)
SetArrayCapacity(capacity, granted) ==
  /\ capacity >= mem.len
  /\ DoesArray(Resize(mem, capacity, granted), text)

DropN(i, n) ==
  /\ i + n <= mem.len
  /\ DoesArray(Result([da  |-> Move(mem.da, i, i + n, mem.len - (i + n)),
                       len |-> mem.len - n], "ok"),
               Splice(text, i, n, <<>>))

DropTailN(n) ==
  /\ n <= mem.len
  /\ DoesArray(Result([mem EXCEPT !.len = @ - n], "ok"), SubSeq(text, 1, mem.len - n))

(* destroy, and get_array_ownership, after which the user has the block.   *)
Leave == DoesArray(Result(NoBlock, "ok"), <<>>)

ArrayNext(Args) ==
  \/ Leave
  \/ \E granted \in BOOLEAN :
       \/ \E n \in 0..MaxLen : InitArray(n, granted) \/ SetArrayCapacity(n, granted)
       \/ \E i \in 0..MaxLen, cs \in Args : InsertN(i, cs, granted)
       \/ \E c \in Elems : InsertTail(c, granted)
  \/ \E i, n \in 0..MaxLen : DropN(i, n)
  \/ \E n \in 0..MaxLen : DropTailN(n)

---------------------------------------------------------------------------
(* The block has room for what is in use, and that is what was put in it:  *)
(* whatever the allocator refused, and wherever elements were moved to.    *)
BlockHolds ==
  /\ mem.len = Len(text) /\ mem.len <= Len(mem.da)
  /\ SubSeq(mem.da, 1, mem.len) = text
=============================================================================
