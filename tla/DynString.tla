----------------------------- MODULE DynString ------------------------------
(***************************************************************************)
(* bl_dstr (dynamic_string.c, dynamic_string_replace.c): a string in a     *)
(* block that grows, terminated by a null character, with formatting       *)
(* (bl_vasnprintf) and reading of files (bl_dynarray_from_file) into it.   *)
(***************************************************************************)
EXTENDS DynArray

CONSTANTS
  Nul,
  MinAlloc,      \* bl_dstr_minalloc
  DefaultHint,   \* BL_VASPRINTF_DEFAULT_HINT
  StackMatches,  \* the size of stack_matches
  CharValues,    \* the values of a char
  Word,          \* 2 to the bits of a bl_uword
  MaxReplaced,   \* bound of the model: the characters after a replacement
  Faults         \* what the code does not stand, of "format", "file", "matches"
                 \* (failures that it does not undo) and "signed" (a char is
                 \* signed): what happens

Least(x, y) == IF x < y THEN x ELSE y
Most(x, y)  == IF x < y THEN y ELSE x

GetCapacity(m) == IF m.da # <<>> THEN Len(m.da) - 1 ELSE 0
Cleared(m)     == [m EXCEPT !.len = 0]
Terminated(da, n) == [da |-> Put(da, n, <<Nul>>), len |-> n]

(* No room for the terminator.                                             *)
CapacitatedMutant(m, n, granted) ==
  IF n >= m.len THEN Resize(m, n, granted) ELSE Result(m, "invalid")

(* set_capacity                                                            *)
Capacitated(m, n, granted) ==
  IF n >= m.len THEN Resize(m, IF n # 0 THEN n + 1 ELSE 0, granted)
  ELSE Result(m, "invalid")

(* bl_dstr_resize_if, for lengths that overallocate MinAlloc characters.   *)
ResizeIf(m, n, granted) ==
  IF GetCapacity(m) < n
    THEN Resize(m, ((n + MinAlloc - 1) \div MinAlloc) * MinAlloc + MinAlloc, granted)
    ELSE Result(m, "ok")

Appended(m, cs, granted) ==
  LET r == ResizeIf(m, m.len + Len(cs), granted)
  IN  IF cs = <<>> THEN Result(m, "ok")
      ELSE IF r.err # "ok" THEN r
      ELSE Result(Terminated(Put(r.mem.da, m.len, cs), m.len + Len(cs)), "ok")

(* bl_dstr_insert_l: past the end it appends; to grow it takes a new block *)
(* of the exact size and copies the three parts into it.                   *)
Inserted(m, i, cs, granted) ==
  LET n == m.len + Len(cs)
      grown == Cells(m.da, 0, i) \o cs \o Cells(m.da, i, m.len - i) \o <<Junk>>
      moved == Put(Move(m.da, Len(cs) + i, i, m.len - i), i, cs)
  IN  IF cs = <<>> THEN Result(m, "invalid")
      ELSE IF i >= m.len THEN Appended(m, cs, granted)
      ELSE IF n <= GetCapacity(m) THEN Result(Terminated(moved, n), "ok")
      ELSE IF granted THEN Result(Terminated(grown, n), "ok")
      ELSE Result(m, "alloc")

(* Lengths and indexes are unsigned and wrap.                              *)
Erased(m, i, n) ==
  LET left == (m.len - n) % Word
      tail == (left - i) % Word
  IN  IF tail > m.len THEN Result(m, "range")
      ELSE IF left # 0 THEN Result(Terminated(Move(m.da, i, i + n, tail), left), "ok")
      ELSE Result(Cleared(m), "ok")

ErasedTail(m, n) ==
  LET left == (m.len - n) % Word
  IN  IF left > m.len THEN Result(m, "range")
      ELSE IF left # 0 THEN Result(Terminated(m.da, left), "ok")
      ELSE Result(Cleared(m), "ok")

(* Characters at either end that a function of ctype.h says are in class.  *)
AtHead(t, class) == Max({k \in 0..Len(t) : \A i \in 1..k : t[i] \in class})
AtTail(t, class) == Max({k \in 0..Len(t) : \A i \in (Len(t) - k + 1)..Len(t) : t[i] \in class})

Trimmed(m, head, tail, class) ==
  LET h == IF head THEN Erased(m, 0, AtHead(SubSeq(m.da, 1, m.len), class)).mem ELSE m
  IN  IF tail THEN ErasedTail(h, AtTail(SubSeq(h.da, 1, h.len), class)) ELSE Result(h, "ok")

Applied(m, fn, from, to) ==
  IF from > to \/ to > m.len THEN Result(m, "range")
  ELSE Result([m EXCEPT !.da = Put(@, from, [i \in 1..(to - from) |-> fn[@[from + i]]])], "ok")

(* bl_dstr_find_l: look for the first character, then compare the rest;    *)
(* the length is returned if there is none.                                *)
FindL(m, cs, offset) ==
  LET find[p \in 0..m.len] ==
        LET firsts == {q \in p..(m.len - 1) : m.da[q + 1] = cs[1]}
            q == Min(firsts)
        IN  IF firsts = {} \/ m.len - q < Len(cs) THEN m.len
            ELSE IF Cells(m.da, q + 1, Len(cs) - 1) = Tail(cs) THEN q
            ELSE find[q + 1]
  IN  IF cs = <<>> \/ offset >= m.len THEN m.len ELSE find[offset]

---------------------------------------------------------------------------
(* bl_vasnprintf, on the block that the string gave up (steal_ownership)   *)
(* and gets back (transfer_ownership): vsnprintf writes what fits and the  *)
(* terminator, and once more with room for all if that was less.           *)
Formatted(m, hint, cs, granted, again) ==
  LET first == IF hint # 0 THEN hint ELSE DefaultHint - 1
      Room(x, n, grant) ==
        IF x.da = <<>> \/ GetCapacity(x) < n THEN Resize(x, n + 1, grant) ELSE Result(x, "ok")
      Printed(x, n) == Put(x.da, m.len, SubSeq(cs, 1, Least(n, Len(cs))) \o <<Nul>>)
      Done(x, n) == Result([da |-> Printed(x, n), len |-> m.len + Len(cs)], "ok")
      r1 == Room(m, m.len + first, granted)
      cut == [m EXCEPT !.da = Printed(r1.mem, first)]
      r2 == Room(cut, m.len + Len(cs), again)
  IN  IF r1.err # "ok" THEN r1
      ELSE IF cs = <<>> THEN Result(cut, "invalid")
      ELSE IF Len(cs) <= first THEN Done(r1.mem, first)
      ELSE IF r2.err # "ok" THEN r2
      ELSE Done(r2.mem, Len(cs))

(* bl_dynarray_from_file and bl_dstr_append_file, of a file with cs left   *)
(* in it.  Of a pipe one read may return a part of what is written to it,  *)
(* and its bytes are copied after they have all been read.                 *)
FromFile(m, cs, limit, fifo, bytes, fails, granted) ==
  LET total == IF limit # 0 THEN Least(Len(cs), limit) ELSE Len(cs)
      room  == IF fifo THEN bytes ELSE total
      r     == IF room + 1 > Len(m.da) - m.len THEN Resize(m, m.len + room + 1, granted)
               ELSE Result(m, "ok")
      read  == Put(r.mem.da, m.len, SubSeq(cs, 1, bytes))
  IN  IF ~fifo /\ total = 0 THEN Result(m, "ok")
      ELSE IF fifo /\ fails THEN Result(m, "file")
      ELSE IF r.err # "ok" THEN r
      ELSE IF fails THEN Result([m EXCEPT !.da = read], "file")
      ELSE IF bytes = 0 THEN r
      ELSE Result(Terminated(read, m.len + bytes), "ok")

---------------------------------------------------------------------------
(* bl_dstr_replace_le_match: forwards, in the place of the string itself.  *)
ReplacedLess(m, match, rep, offset, max) ==
  LET step[k \in 0..m.len] ==
        IF k = 0 THEN [da |-> m.da, wptr |-> offset, scan |-> offset, found |-> 0]
        ELSE LET p == step[k - 1]
                 f == FindL([m EXCEPT !.da = p.da], match, p.scan)
                 w == p.wptr + (f - p.scan)
                 moved == IF p.scan = offset THEN p.da
                          ELSE Move(p.da, p.wptr, p.scan, f - p.scan)
             IN  IF p.found = max \/ f >= m.len THEN p
                 ELSE [da |-> Put(moved, w, rep), wptr |-> w + Len(rep),
                       scan |-> f + Len(match), found |-> p.found + 1]
      last == step[m.len]
      rest == m.len - last.scan
  IN  IF last.found = 0 THEN m
      ELSE Terminated(Move(last.da, last.wptr, last.scan, rest), last.wptr + rest)

(* The chars that hold any place below n, and the parts of a place, the   *)
(* least first, that are put into them and read back.                      *)
LenBytes(n) ==
  LET most[b \in 0..n] == IF b = 0 THEN 1 ELSE CharValues * most[b - 1]
  IN  CHOOSE b \in 0..n : most[b] >= n /\ \A a \in 0..(b - 1) : most[a] < n
Linked(place, bytes) ==
  LET rest[i \in 0..bytes] == IF i = 0 THEN place ELSE rest[i - 1] \div CharValues
  IN  [i \in 1..bytes |-> rest[i - 1] % CharValues]

(* A signed char with its upper bit set extends it over all the upper      *)
(* parts, which are ored with it: the place is negative.                   *)
Negative(c) == "signed" \in Faults /\ 2 * c >= CharValues
LinkAt(da, at, bytes) ==
  LET sum[i \in 0..bytes] ==
        IF i = 0 THEN 0
        ELSE LET c == da[at + bytes - i + 1]
             IN  IF Negative(c) THEN c - CharValues ELSE CharValues * sum[i - 1] + c
  IN  sum[bytes]

(* Backwards, when the text grows: every part after a match moves up, then *)
(* the match is replaced.  The place of the match before is in the bytes   *)
(* of the match, or, if that has no bytes for it, in places.  Nothing is   *)
(* certain of a block once what is before it has been moved.               *)
Spread(m, n, found, last, match, rep, bytes, places) ==
  LET diff == Len(rep) - Len(match)
      back[k \in 0..found] ==
        IF k = 0 THEN [da |-> Terminated(m.da, n).da, end |-> m.len, at |-> last]
        ELSE LET p == back[k - 1]
                 r == p.at + Len(match)
                 w == r + (found - k + 1) * diff
                 moved == Move(p.da, w, r, p.end - r)
                 prev == IF bytes > 0 THEN LinkAt(moved, p.at, bytes)
                         ELSE IF k = found THEN 0 ELSE places[found - k]
             IN  IF p.at < 0 THEN [p EXCEPT !.da = Junks(Len(p.da))]
                 ELSE [da |-> Put(moved, w - Len(rep), rep), end |-> p.at, at |-> prev]
  IN  [da |-> back[found].da, len |-> n]

(* bl_dstr_replace_gt_match_no_alloc: each match found is overwritten with *)
(* the place of the one before; if the block cannot grow the string is     *)
(* lost.                                                                   *)
ReplacedLinked(m, match, rep, offset, max, granted) ==
  LET bytes == LenBytes(m.len)
      link[k \in 0..m.len] ==
        IF k = 0 THEN [da |-> m.da, last |-> 0, scan |-> offset, found |-> 0]
        ELSE LET p == link[k - 1]
                 f == FindL([m EXCEPT !.da = p.da], match, p.scan)
             IN  IF p.found = max \/ f >= m.len THEN p
                 ELSE [da |-> Put(p.da, f, Linked(p.last, bytes)), last |-> f,
                       scan |-> f + Len(match), found |-> p.found + 1]
      end == link[m.len]
      n == m.len + end.found * (Len(rep) - Len(match))
      r == Capacitated([m EXCEPT !.da = end.da], Most(n, GetCapacity(m)), granted)
  IN  IF end.found = 0 THEN Result(m, "ok")
      ELSE IF r.err # "ok" THEN Result(NoBlock, r.err)
      ELSE Result(Spread(r.mem, n, end.found, end.last, match, rep, bytes, <<>>), "ok")

(* bl_dstr_replace_gt_match: the places are kept in an array; if it cannot *)
(* grow (matched is FALSE) the answer is ok and nothing is replaced.       *)
ReplacedKept(m, match, rep, offset, max, granted, matched) ==
  LET keep[k \in 0..m.len] ==
        IF k = 0 THEN <<>>
        ELSE LET p == keep[k - 1]
                 f == FindL(m, match, IF p = <<>> THEN offset ELSE p[Len(p)] + Len(match))
             IN  IF Len(p) = max \/ f >= m.len THEN p ELSE Append(p, f)
      places == keep[m.len]
      found == Len(places)
      n == m.len + found * (Len(rep) - Len(match))
      r == Capacitated(m, Most(n, GetCapacity(m)), granted)
  IN  IF found = 0 \/ (found > StackMatches /\ ~matched) THEN Result(m, "ok")
      ELSE IF r.err # "ok" THEN r
      ELSE Result(Spread(r.mem, n, found, places[found], match, rep, 0, places), "ok")

(* bl_dstr_replace_l; a count of 0 means all the matches.                  *)
InPlace(m, match, rep) == Len(match) >= LenBytes(m.len) /\ Len(rep) > Len(match)
Replaced(m, match, rep, offset, count, granted, matched) ==
  LET max == IF count # 0 THEN count ELSE m.len + 1
  IN  IF Len(match) >= Len(rep) THEN Result(ReplacedLess(m, match, rep, offset, max), "ok")
      ELSE IF InPlace(m, match, rep) THEN ReplacedLinked(m, match, rep, offset, max, granted)
      ELSE ReplacedKept(m, match, rep, offset, max, granted, matched)

---------------------------------------------------------------------------
(* The operations.  set_l and set_va clear the string before they fail.    *)
DoesString(r, edited, failed) ==
  Does(r, r.mem.len + 1, edited, failed) /\ Len(text') <= MaxLen

SetCapacity(n, granted) == DoesString(Capacitated(mem, n, granted), text, text)
Clear == DoesString(Result(Cleared(mem), "ok"), <<>>, <<>>)
Destroy == DoesString(Capacitated(Cleared(mem), 0, TRUE), <<>>, <<>>)

SetL(cs, granted) == DoesString(Appended(Cleared(mem), cs, granted), cs, <<>>)
AppendL(cs, granted) == DoesString(Appended(mem, cs, granted), text \o cs, text)
InsertL(i, cs, granted) ==
  DoesString(Inserted(mem, i, cs, granted), Splice(text, Least(i, mem.len), 0, cs), text)

Erase(i, n) == DoesString(Erased(mem, i, n), Splice(text, i, n, <<>>), text)
EraseTail(n) == DoesString(ErasedTail(mem, n), SubSeq(text, 1, mem.len - n), text)
EraseWhile(head, tail, class) ==
  LET h == IF head THEN SubSeq(text, AtHead(text, class) + 1, mem.len) ELSE text
  IN  /\ head \/ tail
      /\ DoesString(Trimmed(mem, head, tail, class),
                 IF tail THEN SubSeq(h, 1, Len(h) - AtTail(h, class)) ELSE h, text)
Apply(fn, from, to) ==
  DoesString(Applied(mem, fn, from, to),
             [i \in DOMAIN text |-> IF i > from /\ i <= to THEN fn[text[i]] ELSE text[i]], text)

(* The second request of a formatting is refused by a fault only.          *)
AppendVa(hint, cs, granted, again) ==
  /\ again \/ "format" \in Faults
  /\ DoesString(Formatted(mem, hint, cs, granted, again), text \o cs, text)
SetVa(hint, cs, granted, again) ==
  /\ again \/ "format" \in Faults
  /\ DoesString(Formatted(Cleared(mem), hint, cs, granted, again), cs, <<>>)

(* bl_dstr_insert_va; before the last character, i = len - 1, it appends   *)
(* (see the README) and no user wants that.  One outcome has a request      *)
(* refused for the new string, and in the insertion of it.                 *)
InsertVa(i, hint, cs, granted, again) ==
  LET new == Formatted(NoBlock, hint, cs, granted, again)
  IN  /\ again \/ "format" \in Faults
      /\ i # mem.len - 1
      /\ DoesString(IF i < mem.len - 1
                      THEN IF new.err # "ok" THEN Result(mem, new.err)
                           ELSE Inserted(mem, i, SubSeq(new.mem.da, 1, new.mem.len), granted)
                      ELSE Formatted(mem, hint, cs, granted, again),
                    Splice(text, Least(i, mem.len), 0, cs), text)

AppendFile(cs, limit, fifo, bytes, fails, granted) ==
  LET total == IF limit # 0 THEN Least(Len(cs), limit) ELSE Len(cs)
  IN  /\ bytes <= total /\ (~fifo => fails \/ bytes = total)
      /\ fails => fifo \/ "file" \in Faults
      /\ DoesString(FromFile(mem, cs, limit, fifo, bytes, fails, granted),
                    text \o SubSeq(cs, 1, bytes), text)

(* What a replacement of at most c matches in a text means: the text from  *)
(* place p on, with them replaced.                                         *)
Edited(t, match, rep, offset, count) ==
  LET edit[p \in 0..Len(t)] ==
        [c \in 0..Len(t) |->
           IF p = Len(t) THEN <<>>
           ELSE IF c > 0 /\ SubSeq(t, p + 1, Least(p + Len(match), Len(t))) = match
             THEN rep \o edit[p + Len(match)][c - 1]
             ELSE <<t[p + 1]>> \o edit[p + 1][c]]
  IN  SubSeq(t, 1, offset)
        \o edit[offset][IF count # 0 THEN Least(count, Len(t)) ELSE Len(t)]

ReplaceL(match, rep, offset, count, granted, matched) ==
  /\ match # <<>> /\ offset < mem.len /\ mem.len <= MaxLen
  /\ matched \/ "matches" \in Faults
  /\ LET r == Replaced(mem, match, rep, offset, count, granted, matched)
     IN  Does(r, r.mem.len + 1, Edited(text, match, rep, offset, count),
              IF InPlace(mem, match, rep) THEN <<>> ELSE text)
  /\ Len(text') <= MaxReplaced

(* A string takes over the block of a bl_dstrbuf with no room to spare.    *)
Transfer(cs) == DoesString(Result(Terminated(cs \o <<Junk>>, Len(cs)), "ok"), cs, cs)

Places == 0..(MaxLen + 1)

StringNext(Args, Classes, Funcs, Hints, Matches, Reps) ==
  \/ Clear \/ Destroy
  \/ \E cs \in Args : Transfer(cs)
  \/ \E i, n \in Places : Erase(i, n)
  \/ \E n \in Places : EraseTail(n)
  \/ \E head, tail \in BOOLEAN, class \in Classes : EraseWhile(head, tail, class)
  \/ \E fn \in Funcs, i, j \in Places : Apply(fn, i, j)
  \/ \E granted \in BOOLEAN :
       \/ \E n \in Places : SetCapacity(n, granted)
       \/ \E cs \in Args :
            \/ SetL(cs, granted) \/ AppendL(cs, granted)
            \/ \E i \in Places : InsertL(i, cs, granted)
            \/ \E hint \in Hints, again \in BOOLEAN :
                 \/ AppendVa(hint, cs, granted, again) \/ SetVa(hint, cs, granted, again)
                 \/ \E i \in Places : InsertVa(i, hint, cs, granted, again)
            \/ \E limit \in {0, 1}, fifo, fails \in BOOLEAN, bytes \in 0..Len(cs) :
                 AppendFile(cs, limit, fifo, bytes, fails, granted)
       \/ \E m \in Matches, rep \in Reps, i \in Places, count \in {0, 1}, matched \in BOOLEAN :
            ReplaceL(m, rep, i, count, granted, matched)

---------------------------------------------------------------------------
(* The string is null or terminated behind its last character, and is the  *)
(* text that its edits make, those that were refused left out.             *)
StringHolds ==
  /\ BlockHolds
  /\ mem.len > 0 => Len(mem.da) > mem.len /\ mem.da[mem.len + 1] = Nul

(* A search returns the first place of what it looks for, or the length.   *)
FindIsTrue(cs, offset) ==
  LET at == {p \in offset..(Len(text) - Len(cs)) : SubSeq(text, p + 1, p + Len(cs)) = cs}
  IN  FindL(mem, cs, offset) = IF cs = <<>> \/ at = {} THEN Len(text) ELSE Min(at)
=============================================================================
