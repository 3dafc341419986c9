----------------------------- MODULE TextProofs -----------------------------
(***************************************************************************)
(* The dynamic arrays and strings of Containers, for every size, alphabet, *)
(* unit of allocation and width of a link: a block holds what its edits    *)
(* make of it, a string is terminated and a search finds what is there.    *)
(* First what the copies and requests do to the cells, then the edits of   *)
(* an array and of a string one by one, then a replacement in its three    *)
(* ways: by no more characters, through links, and with an array of places.*)
(***************************************************************************)
EXTENDS Containers, Lemmas

(* What a cell of a block may hold: a character, the terminator, nothing   *)
(* certain, or a part of a number.                                         *)
Byte   == Chars \cup {Junk, Nul} \cup Nat

(* A block: its cells, and how many of them are in use.                    *)
Blocks == [da : Seq(Byte), len : Nat]

(* A part of a sequence.                                                   *)
LEMMA PartIs ==
  ASSUME NEW S, NEW t \in Seq(S), NEW i \in Nat, NEW j \in Nat, j <= Len(t)
  PROVE  /\ SubSeq(t, i + 1, j) \in Seq(S)
         /\ Len(SubSeq(t, i + 1, j)) = IF i <= j THEN j - i ELSE 0
         /\ \A k \in 1..(j - i) : SubSeq(t, i + 1, j)[k] = t[i + k]
<1>1. \A k \in (i + 1)..j : t[k] \in S
  BY ElementOfSeq
<1>2. /\ SubSeq(t, i + 1, j) \in Seq(S)
      /\ Len(SubSeq(t, i + 1, j)) = IF i + 1 <= j THEN j - (i + 1) + 1 ELSE 0
      /\ \A k \in 1..(j - (i + 1) + 1) : SubSeq(t, i + 1, j)[k] = t[(i + 1) + k - 1]
  BY <1>1, SubSeqProperties, i + 1 \in Int, j \in Int
<1>3. j - (i + 1) + 1 = j - i /\ \A k \in Int : (i + 1) + k - 1 = i + k
  OBVIOUS
<1> QED BY <1>2, <1>3

(* q is t with n elements behind place i replaced by cs.                   *)
Spliced(S, t, i, n, cs, q) ==
  /\ q \in Seq(S) /\ Len(q) = Len(t) - n + Len(cs)
  /\ \A k \in 1..(Len(t) - n + Len(cs)) :
       q[k] = IF k <= i THEN t[k]
              ELSE IF k <= i + Len(cs) THEN cs[k - i] ELSE t[k - Len(cs) + n]

(* A splice, place by place.                                               *)
LEMMA SpliceIs ==
  ASSUME NEW S, NEW t \in Seq(S), NEW cs \in Seq(S), NEW i \in Nat, NEW n \in Nat, i + n <= Len(t)
  PROVE  Spliced(S, t, i, n, cs, Str!Splice(t, i, n, cs))
<1> DEFINE a == SubSeq(t, 1, i)
           b == SubSeq(t, i + n + 1, Len(t))
           z == Len(t)
           m == Len(cs)
           q == Str!Splice(t, i, n, cs)
<1>1. z \in Nat /\ m \in Nat /\ i <= z /\ i + n \in Nat
  BY LenProperties
<1>2. /\ a \in Seq(S) /\ Len(a) = i /\ \A k \in 1..i : a[k] = t[k]
  BY <1>1, PartIs, 0 \in Nat, 0 + 1 = 1
<1>3. /\ b \in Seq(S) /\ Len(b) = z - (i + n) /\ \A k \in 1..(z - (i + n)) : b[k] = t[i + n + k]
  BY <1>1, PartIs
<1> DEFINE c == a \o cs
<1>4. /\ c \in Seq(S) /\ Len(c) = i + m
      /\ \A k \in 1..(i + m) : c[k] = IF k <= i THEN a[k] ELSE cs[k - i]
  <2> HIDE DEF a
  <2> QED BY <1>2, ConcatProperties
<1>5. q = c \o b
  BY DEF Str!Splice
<1> HIDE DEF a, b, c, q, z, m
<1>6. /\ q \in Seq(S) /\ Len(q) = i + m + (z - (i + n))
      /\ \A k \in 1..(i + m + (z - (i + n))) : q[k] = IF k <= i + m THEN c[k] ELSE b[k - (i + m)]
  <2> DEFINE y == i + m
             w == z - (i + n)
  <2>1. c \in Seq(S) /\ Len(c) = y /\ b \in Seq(S) /\ Len(b) = w
    BY <1>3, <1>4
  <2> HIDE DEF y, w
  <2>2. /\ c \o b \in Seq(S) /\ Len(c \o b) = y + w
        /\ \A k \in 1..(y + w) : (c \o b)[k] = IF k <= y THEN c[k] ELSE b[k - y]
    BY <2>1, ConcatProperties
  <2> QED BY <1>5, <2>2 DEF y, w
<1>7. i + m + (z - (i + n)) = z - n + m
  BY <1>1
<1>8. ASSUME NEW k \in 1..(z - n + m)
      PROVE  q[k] = IF k <= i THEN t[k] ELSE IF k <= i + m THEN cs[k - i] ELSE t[k - m + n]
  <2>1. CASE k <= i
    BY <1>1, <1>2, <1>4, <1>6, <1>7, <2>1
  <2>2. CASE k > i /\ k <= i + m
    <3>1. k \in 1..(i + m) /\ ~(k <= i)
      BY <1>1, <2>2
    <3>2. c[k] = cs[k - i]
      BY <1>4, <3>1
    <3>3. q[k] = c[k]
      BY <1>6, <1>7, <2>2
    <3> QED BY <2>2, <3>1, <3>2, <3>3
  <2>3. CASE k > i + m
    <3>1. k - (i + m) \in 1..(z - (i + n)) /\ i + n + (k - (i + m)) = k - m + n
      BY <1>1, <1>7, <2>3
    <3>2. b[k - (i + m)] = t[k - m + n]
      BY <1>3, <3>1
    <3> QED BY <1>1, <1>6, <1>7, <2>3, <3>2
  <2> QED BY <1>1, <2>1, <2>2, <2>3
<1> QED BY <1>6, <1>7, <1>8 DEF q, z, m, Spliced

(* Cells without anything certain.                                         *)
LEMMA JunksAre ==
  ASSUME NEW n \in Nat
  PROVE  /\ Str!Junks(n) \in Seq(Byte) /\ Len(Str!Junks(n)) = n
         /\ \A k \in 1..n : Str!Junks(n)[k] = Junk
<1>1. Junk \in Byte
  BY DEF Byte
<1>2. Str!Junks(n) \in [1..n -> Byte]
  BY <1>1 DEF Str!Junks
<1> QED BY <1>2 DEF Str!Junks

(* Cells written to a block with room for them.                            *)
LEMMA PutIs ==
  ASSUME NEW da \in Seq(Byte), NEW cs \in Seq(Byte), NEW at \in Nat, at + Len(cs) <= Len(da)
  PROVE  /\ Str!Put(da, at, cs) \in Seq(Byte) /\ Len(Str!Put(da, at, cs)) = Len(da)
         /\ \A k \in 1..Len(da) :
              Str!Put(da, at, cs)[k] = IF at < k /\ k <= at + Len(cs) THEN cs[k - at] ELSE da[k]
<1>1. Len(da) \in Nat /\ Len(cs) \in Nat
  BY LenProperties
<1>2. Str!Put(da, at, cs) = Str!Splice(da, at, Len(cs), cs)
  BY DEF Str!Put
<1>3. /\ Str!Splice(da, at, Len(cs), cs) \in Seq(Byte)
      /\ Len(Str!Splice(da, at, Len(cs), cs)) = Len(da) - Len(cs) + Len(cs)
      /\ \A k \in 1..(Len(da) - Len(cs) + Len(cs)) :
           Str!Splice(da, at, Len(cs), cs)[k] =
             IF k <= at THEN da[k] ELSE IF k <= at + Len(cs) THEN cs[k - at]
             ELSE da[k - Len(cs) + Len(cs)]
  <2> DEFINE n == Len(cs)
  <2>1. n \in Nat /\ at + n <= Len(da)
    BY <1>1
  <2> HIDE DEF n
  <2>2. Spliced(Byte, da, at, n, cs, Str!Splice(da, at, n, cs))
    BY <2>1, SpliceIs
  <2> QED BY <2>2 DEF n, Spliced
<1>4. Len(da) - Len(cs) + Len(cs) = Len(da) /\ \A k \in Int : k - Len(cs) + Len(cs) = k
  BY <1>1
<1> QED BY <1>1, <1>2, <1>3, <1>4

(* Cells read inside the block.                                            *)
LEMMA CellsAre ==
  ASSUME NEW da \in Seq(Byte), NEW at \in Nat, NEW n \in Nat, at + n <= Len(da)
  PROVE  /\ Str!Cells(da, at, n) \in Seq(Byte) /\ Len(Str!Cells(da, at, n)) = n
         /\ \A k \in 1..n : Str!Cells(da, at, n)[k] = da[at + k]
<1>1. Len(da) \in Nat /\ at + n \in Nat /\ at <= at + n /\ at + n - at = n
  BY LenProperties
<1>2. Str!Cells(da, at, n) = SubSeq(da, at + 1, at + n)
  BY DEF Str!Cells
<1> QED BY <1>1, <1>2, PartIs

(* Cells moved inside the block, which may overlap.                        *)
LEMMA MoveIs ==
  ASSUME NEW da \in Seq(Byte), NEW to \in Nat, NEW from \in Nat, NEW n \in Nat,
         to + n <= Len(da), from + n <= Len(da)
  PROVE  /\ Str!Move(da, to, from, n) \in Seq(Byte) /\ Len(Str!Move(da, to, from, n)) = Len(da)
         /\ \A k \in 1..Len(da) :
              Str!Move(da, to, from, n)[k] =
                IF to < k /\ k <= to + n THEN da[from + (k - to)] ELSE da[k]
<1> DEFINE cs == Str!Cells(da, from, n)
<1>1. cs \in Seq(Byte) /\ Len(cs) = n /\ \A k \in 1..n : cs[k] = da[from + k]
  BY CellsAre
<1>2. Str!Move(da, to, from, n) = Str!Put(da, to, cs)
  BY DEF Str!Move
<1>3. Len(da) \in Nat
  BY LenProperties
<1> HIDE DEF cs
<1>4. /\ Str!Put(da, to, cs) \in Seq(Byte) /\ Len(Str!Put(da, to, cs)) = Len(da)
      /\ \A k \in 1..Len(da) :
           Str!Put(da, to, cs)[k] = IF to < k /\ k <= to + n THEN cs[k - to] ELSE da[k]
  BY <1>1, PutIs
<1>5. \A k \in 1..Len(da) : to < k /\ k <= to + n => cs[k - to] = da[from + (k - to)]
  BY <1>1, <1>3
<1> QED BY <1>2, <1>4, <1>5

(* A block of n cells with the first kept cells of another.                *)
LEMMA FitIs ==
  ASSUME NEW da \in Seq(Byte), NEW kept \in Nat, NEW n \in Nat
  PROVE  /\ Str!Fit(da, kept, n) \in Seq(Byte) /\ Len(Str!Fit(da, kept, n)) = n
         /\ \A k \in 1..n : k <= kept /\ k <= Len(da) => Str!Fit(da, kept, n)[k] = da[k]
<1> DEFINE T == {kept, n, Len(da)}
           m == Min(T)
<1>1. Len(da) \in Nat
  BY LenProperties
<1>2. PICK x \in T : \A y \in T : x <= y
  BY <1>1
<1>3. m \in T /\ \A y \in T : m <= y
  BY <1>2 DEF Min
<1>4. m \in Nat /\ m <= kept /\ m <= n /\ m <= Len(da) /\ (m = kept \/ m = n \/ m = Len(da))
  BY <1>1, <1>3
<1>5. Str!Fit(da, kept, n) = SubSeq(da, 1, m) \o Str!Junks(n - m)
  BY DEF Str!Fit, Str!Min, Min
<1> HIDE DEF m, T
<1>6. /\ SubSeq(da, 1, m) \in Seq(Byte) /\ Len(SubSeq(da, 1, m)) = m
      /\ \A k \in 1..m : SubSeq(da, 1, m)[k] = da[k]
  BY <1>4, PartIs, 0 \in Nat, 0 + 1 = 1
<1>7. n - m \in Nat /\ Str!Junks(n - m) \in Seq(Byte) /\ Len(Str!Junks(n - m)) = n - m
  BY <1>4, JunksAre
<1> DEFINE a == SubSeq(da, 1, m)
           b == Str!Junks(n - m)
<1>8. /\ a \o b \in Seq(Byte) /\ Len(a \o b) = n
      /\ \A k \in 1..n : (a \o b)[k] = IF k <= m THEN a[k] ELSE b[k - m]
  <2>1. m + (n - m) = n
    BY <1>4
  <2> HIDE DEF a, b
  <2> QED BY <1>6, <1>7, <2>1, ConcatProperties DEF a, b
<1>9. \A k \in 1..n : k <= kept /\ k <= Len(da) => k \in 1..m
  BY <1>1, <1>4
<1> QED BY <1>5, <1>6, <1>8, <1>9

(* A block whose cells in use are the text.                                *)
Carries(m, t) ==
  /\ m \in Blocks /\ t \in Seq(Chars)
  /\ m.len = Len(t) /\ m.len <= Len(m.da)
  /\ \A k \in 1..Len(t) : m.da[k] = t[k]

(* A string that is not empty has its terminator behind it.                *)
Ended(m) == m.len > 0 => Len(m.da) > m.len /\ m.da[m.len + 1] = Nul

(* What an operation makes, with the text that goes with its answer.       *)
Made(r, edited, failed) ==
  LET t == IF r.err = "ok" THEN edited ELSE failed
  IN  Carries(r.mem, t) /\ Ended(r.mem)

(* Two sequences that agree everywhere are one.                            *)
LEMMA SameSeq ==
  ASSUME NEW S, NEW s \in Seq(S), NEW t \in Seq(S), Len(s) = Len(t),
         \A k \in 1..Len(s) : s[k] = t[k]
  PROVE  s = t
<1>1. DOMAIN s = 1..Len(s) /\ DOMAIN t = 1..Len(t)
  BY LenProperties
<1>2. s = [k \in DOMAIN s |-> s[k]] /\ t = [k \in DOMAIN t |-> t[k]]
  BY LenProperties
<1> QED BY <1>1, <1>2

(* A text is a sequence of cells.                                          *)
LEMMA CharsAreBytes == \A t \in Seq(Chars) : t \in Seq(Byte)
<1> SUFFICES ASSUME NEW t \in Seq(Chars) PROVE t \in Seq(Byte)
  OBVIOUS
<1>1. Chars \subseteq Byte
  BY DEF Byte
<1>2. t \in [1..Len(t) -> Chars] /\ Len(t) \in Nat
  BY LenProperties
<1>3. t \in [1..Len(t) -> Byte]
  BY <1>1, <1>2
<1> QED BY <1>2, <1>3

---------------------------------------------------------------------------
(* A block that carries a text, and requests of the allocator.             *)

(* What Carries says, with the types.                                     *)
LEMMA CarriesIs ==
  ASSUME NEW m, NEW t, Carries(m, t)
  PROVE  /\ m = [da |-> m.da, len |-> m.len] /\ m.da \in Seq(Byte) /\ Len(m.da) \in Nat
         /\ m.len \in Nat /\ m.len = Len(t) /\ Len(t) \in Nat /\ Len(t) <= Len(m.da)
         /\ t \in Seq(Chars) /\ t \in Seq(Byte)
         /\ \A k \in 1..Len(t) : m.da[k] = t[k] /\ t[k] \in Chars
<1>1. m.da \in Seq(Byte) /\ m.len \in Nat /\ t \in Seq(Chars) /\ m = [da |-> m.da, len |-> m.len]
  BY DEF Carries, Blocks
<1>2. Len(m.da) \in Nat /\ Len(t) \in Nat /\ \A k \in 1..Len(t) : t[k] \in Chars
  BY <1>1, LenProperties, ElementOfSeq
<1> QED BY <1>1, <1>2, CharsAreBytes DEF Carries

(* The cells in use are the text.                                          *)
LEMMA PartIsText ==
  ASSUME NEW m, NEW t, Carries(m, t)
  PROVE  SubSeq(m.da, 1, m.len) = t
<1>1. /\ m.da \in Seq(Byte) /\ Len(m.da) \in Nat
      /\ m.len \in Nat /\ m.len = Len(t) /\ Len(t) \in Nat /\ Len(t) <= Len(m.da)
      /\ t \in Seq(Byte)
      /\ \A k \in 1..Len(t) : m.da[k] = t[k] /\ t[k] \in Chars
  BY CarriesIs
<1>2. /\ SubSeq(m.da, 0 + 1, m.len) \in Seq(Byte)
      /\ Len(SubSeq(m.da, 0 + 1, m.len)) = IF 0 <= m.len THEN m.len - 0 ELSE 0
      /\ \A k \in 1..(m.len - 0) : SubSeq(m.da, 0 + 1, m.len)[k] = m.da[0 + k]
  BY <1>1, PartIs
<1>3. /\ SubSeq(m.da, 1, m.len) \in Seq(Byte)
      /\ Len(SubSeq(m.da, 1, m.len)) = Len(t)
      /\ \A k \in 1..Len(t) : SubSeq(m.da, 1, m.len)[k] = t[k]
  BY <1>1, <1>2, 0 + 1 = 1
<1> QED BY <1>1, <1>3, SameSeq

(* A text written behind which the terminator is set.                      *)
LEMMA TerminatedIs ==
  ASSUME NEW da \in Seq(Byte), NEW t \in Seq(Chars), Len(t) < Len(da),
         \A k \in 1..Len(t) : da[k] = t[k]
  PROVE  /\ Carries(Str!Terminated(da, Len(t)), t) /\ Ended(Str!Terminated(da, Len(t)))
         /\ Len(Str!Terminated(da, Len(t)).da) = Len(da)
<1> DEFINE cs == <<Nul>>
           n == Len(t)
           d == Str!Put(da, n, cs)
<1>1. Len(da) \in Nat /\ n \in Nat /\ n < Len(da)
  BY LenProperties
<1>2. cs \in Seq(Byte) /\ Len(cs) = 1 /\ cs[1] = Nul
  BY DEF Byte
<1>3. Str!Terminated(da, n) = [da |-> d, len |-> n]
  BY DEF Str!Terminated
<1> HIDE DEF cs
<1>4. /\ d \in Seq(Byte) /\ Len(d) = Len(da)
      /\ \A k \in 1..Len(da) : d[k] = IF n < k /\ k <= n + 1 THEN cs[k - n] ELSE da[k]
  <2> HIDE DEF n
  <2>1. n + Len(cs) <= Len(da) /\ n + Len(cs) = n + 1
    BY <1>1, <1>2
  <2>2. /\ Str!Put(da, n, cs) \in Seq(Byte) /\ Len(Str!Put(da, n, cs)) = Len(da)
        /\ \A k \in 1..Len(da) :
             Str!Put(da, n, cs)[k] = IF n < k /\ k <= n + Len(cs) THEN cs[k - n] ELSE da[k]
    BY <1>1, <1>2, <2>1, PutIs
  <2> QED BY <2>1, <2>2
<1> HIDE DEF d
<1>5. \A k \in 1..n : d[k] = t[k]
  BY <1>1, <1>4
<1>6. n + 1 \in 1..Len(da) /\ (n + 1) - n = 1
  BY <1>1
<1>7. d[n + 1] = Nul
  BY <1>1, <1>2, <1>4, <1>6
<1>8. Carries([da |-> d, len |-> n], t)
  <2> HIDE DEF n
  <2>1. [da |-> d, len |-> n] \in Blocks
    BY <1>1, <1>4 DEF Blocks
  <2> QED BY <2>1, <1>1, <1>4, <1>5 DEF Carries, n
<1>9. Ended([da |-> d, len |-> n])
  BY <1>1, <1>4, <1>7 DEF Ended
<1> QED BY <1>3, <1>4, <1>8, <1>9

(* Asking for a block of another size.                                     *)
Resized(m, t, n, granted, r) ==
  /\ Carries(r.mem, t)
  /\ Ended(m) /\ (Len(t) = 0 \/ Len(t) < n) => Ended(r.mem)
  /\ r.err \in {"ok", "alloc"}
  /\ r.err = "ok" => Len(r.mem.da) = n
  /\ r.err = "alloc" => ~granted /\ r.mem = m

(* realloc answers as Resized says: it keeps the text, or it fails and     *)
(* changes nothing.                                                        *)
LEMMA ResizeIs ==
  ASSUME NEW m, NEW t, Carries(m, t), NEW n \in Nat, NEW granted, Len(t) <= n
  PROVE  Resized(m, t, n, granted, Str!Resize(m, n, granted))
<1> DEFINE d == Str!Fit(m.da, n, n)
           x == [da |-> d, len |-> m.len]
<1>1. /\ m = [da |-> m.da, len |-> m.len] /\ m.da \in Seq(Byte) /\ Len(m.da) \in Nat
      /\ m.len \in Nat /\ m.len = Len(t) /\ Len(t) \in Nat /\ Len(t) <= Len(m.da)
      /\ t \in Seq(Chars)
      /\ \A k \in 1..Len(t) : m.da[k] = t[k] /\ t[k] \in Chars
  BY CarriesIs
<1>2. /\ d \in Seq(Byte) /\ Len(d) = n
      /\ \A k \in 1..n : k <= n /\ k <= Len(m.da) => d[k] = m.da[k]
  BY <1>1, FitIs
<1>3. [m EXCEPT !.da = Str!Fit(@, n, n)] = x
  BY <1>1
<1> HIDE DEF d
<1>4. Carries(x, t)
  <2>1. x \in Blocks
    BY <1>1, <1>2 DEF Blocks
  <2>2. \A k \in 1..Len(t) : d[k] = t[k]
    BY <1>1, <1>2
  <2> QED BY <2>1, <2>2, <1>1, <1>2 DEF Carries
<1>5. ASSUME Ended(m), Len(t) = 0 \/ Len(t) < n PROVE Ended(x)
  <2>1. CASE Len(t) = 0
    BY <1>1, <2>1 DEF Ended
  <2>2. CASE Len(t) > 0
    <3>1. Len(m.da) > m.len /\ m.da[m.len + 1] = Nul
      BY <1>1, <1>5, <2>2 DEF Ended
    <3>2. m.len + 1 \in 1..n /\ m.len + 1 <= Len(m.da)
      BY <1>1, <1>5, <2>2, <3>1
    <3>3. d[m.len + 1] = Nul
      BY <1>2, <3>1, <3>2
    <3> QED BY <1>1, <1>2, <3>2, <3>3 DEF Ended
  <2> QED BY <1>1, <2>1, <2>2
<1> HIDE DEF x
<1>6. Str!Resize(m, n, granted) = IF n = 0 \/ granted THEN [mem |-> x, err |-> "ok"]
                                  ELSE [mem |-> m, err |-> "alloc"]
  BY <1>3 DEF Str!Resize, Str!Result
<1>7. CASE n = 0 \/ granted
  <2>1. Len(x.da) = n
    BY <1>2 DEF x
  <2>2. Str!Resize(m, n, granted) = [mem |-> x, err |-> "ok"]
    BY <1>6, <1>7
  <2>3. Str!Resize(m, n, granted).mem = x /\ Str!Resize(m, n, granted).err = "ok"
    BY <2>2
  <2> QED BY <2>1, <2>3, <1>4, <1>5 DEF Resized
<1>8. CASE ~(n = 0 \/ granted)
  <2>2. Str!Resize(m, n, granted) = [mem |-> m, err |-> "alloc"]
    BY <1>6, <1>8
  <2>3. Str!Resize(m, n, granted).mem = m /\ Str!Resize(m, n, granted).err = "alloc"
    BY <2>2
  <2> QED BY <2>3, <1>1, <1>8, Carries(m, t) DEF Resized
<1> QED BY <1>7, <1>8

(* The state after an operation, of which only the cells that are used     *)
(* are told apart.                                                         *)
LEMMA DoesIs ==
  ASSUME NEW r, NEW used \in Nat, NEW edited, NEW failed, Str!Does(r, used, edited, failed),
         Carries(r.mem, IF r.err = "ok" THEN edited ELSE failed), r.mem.len <= used
  PROVE  /\ Carries(mem', text')
         /\ Ended(r.mem) /\ r.mem.len < used => Ended(mem')
<1> DEFINE m == r.mem
           t == IF r.err = "ok" THEN edited ELSE failed
           d == Str!Fit(m.da, used, Len(m.da))
<1>1. /\ m = [da |-> m.da, len |-> m.len] /\ m.da \in Seq(Byte) /\ Len(m.da) \in Nat
      /\ m.len \in Nat /\ m.len = Len(t) /\ Len(t) \in Nat /\ Len(t) <= Len(m.da)
      /\ t \in Seq(Chars)
      /\ \A k \in 1..Len(t) : m.da[k] = t[k] /\ t[k] \in Chars
  <2> HIDE DEF t, m
  <2> QED BY CarriesIs DEF t, m
<1>2. /\ d \in Seq(Byte) /\ Len(d) = Len(m.da)
      /\ \A k \in 1..Len(m.da) : k <= used /\ k <= Len(m.da) => d[k] = m.da[k]
  BY <1>1, FitIs
<1>3. mem' = [da |-> d, len |-> m.len] /\ text' = t
  BY <1>1 DEF Str!Does
<1> HIDE DEF d, t
<1>4. Carries(mem', text')
  <2>1. [da |-> d, len |-> m.len] \in Blocks
    BY <1>1, <1>2 DEF Blocks
  <2>2. \A k \in 1..Len(t) : d[k] = t[k]
    BY <1>1, <1>2
  <2>3. Carries([da |-> d, len |-> m.len], t)
    BY <2>1, <2>2, <1>1, <1>2 DEF Carries
  <2> QED BY <2>3, <1>3
<1>5. ASSUME Ended(m), m.len < used PROVE Ended(mem')
  <2>1. CASE m.len > 0
    <3>1. Len(m.da) > m.len /\ m.da[m.len + 1] = Nul
      BY <1>5, <2>1 DEF Ended
    <3>2. m.len + 1 \in 1..Len(m.da) /\ m.len + 1 <= used
      BY <1>1, <1>5, <3>1
    <3>3. d[m.len + 1] = Nul
      BY <1>2, <3>1, <3>2
    <3> QED BY <1>2, <1>3, <3>1, <3>3 DEF Ended
  <2>2. CASE ~(m.len > 0)
    BY <1>3, <2>2 DEF Ended
  <2> QED BY <2>1, <2>2
<1> QED BY <1>4, <1>5

(* An operation of an array, and one of a string.                          *)
LEMMA DoesArrayIs ==
  ASSUME NEW r, NEW edited, Str!DoesArray(r, edited),
         Carries(r.mem, IF r.err = "ok" THEN edited ELSE text)
  PROVE  Carries(mem', text')
<1>1. Str!Does(r, r.mem.len, edited, text)
  BY DEF Str!DoesArray
<1>2. r.mem.len \in Nat
  BY DEF Carries, Blocks
<1> QED BY <1>1, <1>2, DoesIs

(* A string's operation that makes the edited text, or leaves what it had  *)
(* when it fails, leaves the string in order.                              *)
LEMMA DoesStringIs ==
  ASSUME NEW r, NEW edited, NEW failed, Str!DoesString(r, edited, failed), Made(r, edited, failed)
  PROVE  Carries(mem', text') /\ Ended(mem') /\ Len(text') <= MaxLen
<1>1. Str!Does(r, r.mem.len + 1, edited, failed) /\ Len(text') <= MaxLen
  BY DEF Str!DoesString
<1>2. Carries(r.mem, IF r.err = "ok" THEN edited ELSE failed) /\ Ended(r.mem)
  BY DEF Made
<1>3. r.mem.len \in Nat
  BY <1>2 DEF Carries, Blocks
<1>4. r.mem.len + 1 \in Nat /\ r.mem.len <= r.mem.len + 1 /\ r.mem.len < r.mem.len + 1
  BY <1>3
<1> QED BY <1>1, <1>2, <1>4, DoesIs

---------------------------------------------------------------------------
(* Arrays.                                                                 *)

(* A rounded capacity is no smaller than what is asked for.                *)
LEMMA RoundedIs ==
  ASSUME NEW n \in Nat
  PROVE  Str!RoundNextPow2(n) \in Nat /\ Str!RoundNextPow2(n) >= n
<1> DEFINE step == [k \in 1..n |-> [x \in Nat |-> IF x < n THEN 2 * x ELSE x]]
           Doubled(f) == f = [k \in 0..n |-> IF k = 0 THEN 1
                                   ELSE IF f[k - 1] < n THEN 2 * f[k - 1] ELSE f[k - 1]]
           pow == CHOOSE f : Doubled(f)
<1>1. \E f : Doubled(f)
  <2>1. step \in [1..n -> [Nat -> Nat]] /\ 1 \in Nat
    OBVIOUS
  <2>2. PICK f : Iterates(f, Nat, n, 1, step)
    <3> HIDE DEF step
    <3> QED BY <2>1, Iterating
  <2>3. f \in [0..n -> Nat] /\ f[0] = 1 /\ \A k \in 1..n : f[k] = step[k][f[k - 1]]
    BY <2>2 DEF Iterates
  <2>4. ASSUME NEW k \in 1..n
        PROVE  f[k] = IF f[k - 1] < n THEN 2 * f[k - 1] ELSE f[k - 1]
    <3>1. k - 1 \in 0..n
      OBVIOUS
    <3>2. f[k - 1] \in Nat
      BY <2>3, <3>1
    <3> QED BY <2>3, <3>2
  <2>5. \A k \in 0..n : k # 0 => k \in 1..n
    OBVIOUS
  <2> HIDE DEF step
  <2>6. Doubled(f)
    BY <2>3, <2>4, <2>5
  <2> QED BY <2>6
<1>2. Doubled(pow)
  <2> HIDE DEF Doubled
  <2> QED BY <1>1
<1>3. Str!RoundNextPow2(n) = pow[n]
  BY DEF Str!RoundNextPow2
<1> HIDE DEF pow
<1>4. /\ pow[0] = 1
      /\ \A k \in 1..n : pow[k] = IF pow[k - 1] < n THEN 2 * pow[k - 1] ELSE pow[k - 1]
  BY <1>2
<1> DEFINE T == {k \in 0..n : pow[k] \in Nat /\ (pow[k] >= k + 1 \/ pow[k] >= n)}
<1>5. 0 \in T
  BY <1>4
<1>6. ASSUME NEW k \in 1..n, k - 1 \in T PROVE k \in T
  BY <1>4, <1>6
<1>7. \A k \in 0..n : k \in T
  <2> HIDE DEF T
  <2> QED BY <1>5, <1>6, Counting
<1>8. n \in T
  BY <1>7
<1> QED BY <1>3, <1>8

(* A block d made from da, whose first cells are the text q.               *)
Agrees(da, d, q) ==
  /\ d \in Seq(Byte) /\ Len(d) = Len(da)
  /\ q \in Seq(Chars) /\ \A k \in 1..Len(q) : d[k] = q[k]

(* Room made for a part of a text that is written into it.                 *)
LEMMA RoomIs ==
  ASSUME NEW da \in Seq(Byte), NEW t \in Seq(Chars), NEW cs \in Seq(Chars), NEW i \in Nat,
         i <= Len(t), Len(t) + Len(cs) <= Len(da), \A k \in 1..Len(t) : da[k] = t[k]
  PROVE  /\ Agrees(da, Str!Put(Str!Move(da, i + Len(cs), i, Len(t) - i), i, cs),
                    Str!Splice(t, i, 0, cs))
         /\ Len(Str!Splice(t, i, 0, cs)) = Len(t) + Len(cs)
<1> DEFINE z == Len(cs)
           y == Len(t)
           n == y + z
           mv == Str!Move(da, i + z, i, y - i)
           d == Str!Put(mv, i, cs)
           q == Str!Splice(t, i, 0, cs)
<1>1. Len(da) \in Nat /\ y \in Nat /\ z \in Nat /\ n \in Nat /\ cs \in Seq(Byte)
  BY LenProperties, CharsAreBytes
<1>2. /\ mv \in Seq(Byte) /\ Len(mv) = Len(da)
      /\ \A k \in 1..Len(da) :
           mv[k] = IF i + z < k /\ k <= i + z + (y - i) THEN da[i + (k - (i + z))] ELSE da[k]
  <2> DEFINE to == i + z
             w == y - i
  <2>1. to \in Nat /\ w \in Nat /\ to + w <= Len(da) /\ i + w <= Len(da)
    BY <1>1
  <2> HIDE DEF to, w
  <2>2. /\ Str!Move(da, to, i, w) \in Seq(Byte) /\ Len(Str!Move(da, to, i, w)) = Len(da)
        /\ \A k \in 1..Len(da) :
             Str!Move(da, to, i, w)[k] = IF to < k /\ k <= to + w THEN da[i + (k - to)] ELSE da[k]
    BY <2>1, MoveIs
  <2> QED BY <2>2 DEF to, w
<1> HIDE DEF mv
<1>3. /\ d \in Seq(Byte) /\ Len(d) = Len(mv)
      /\ \A k \in 1..Len(mv) : d[k] = IF i < k /\ k <= i + z THEN cs[k - i] ELSE mv[k]
  <2>1. i + Len(cs) <= Len(mv)
    BY <1>1, <1>2
  <2> QED BY <1>1, <1>2, <2>1, PutIs
<1> HIDE DEF d
<1>4. /\ q \in Seq(Chars) /\ Len(q) = n
      /\ \A k \in 1..n : q[k] = IF k <= i THEN t[k] ELSE IF k <= i + z THEN cs[k - i] ELSE t[k - z]
  <2>1. Spliced(Chars, t, i, 0, cs, q)
    BY <1>1, SpliceIs, i + 0 <= Len(t)
  <2>2. Len(t) - 0 + Len(cs) = n /\ \A k \in 1..n : k - Len(cs) + 0 = k - z
    BY <1>1
  <2> HIDE DEF q, n, z
  <2> QED BY <2>1, <2>2 DEF Spliced, z
<1> HIDE DEF q, z, y
<1>5. ASSUME NEW k \in 1..n PROVE d[k] = q[k]
  <2>1. k \in 1..Len(da) /\ k \in Nat
    BY <1>1 DEF y, z
  <2>2. CASE k <= i
    <3>1. k \in 1..Len(t) /\ ~(i < k) /\ ~(i + z < k)
      BY <1>1, <2>1, <2>2 DEF y
    <3> QED BY <1>2, <1>3, <1>4, <2>1, <2>2, <3>1
  <2>3. CASE i < k /\ k <= i + z
    <3>1. ~(k <= i)
      BY <2>1, <2>3
    <3> QED BY <1>2, <1>3, <1>4, <2>1, <2>3, <3>1
  <2>4. CASE i + z < k
    <3>1. /\ ~(k <= i) /\ ~(k <= i + z) /\ k <= i + z + (y - i)
          /\ i + (k - (i + z)) = k - z /\ k - z \in 1..y
      BY <1>1, <2>1, <2>4
    <3>2. d[k] = mv[k] /\ mv[k] = da[k - z]
      BY <1>2, <1>3, <2>1, <2>4, <3>1
    <3>3. q[k] = t[k - z]
      BY <1>4, <3>1
    <3> QED BY <3>1, <3>2, <3>3 DEF y
  <2> QED BY <1>1, <2>1, <2>2, <2>3, <2>4
<1>6. Agrees(da, d, q)
  BY <1>2, <1>3, <1>4, <1>5 DEF Agrees
<1> QED BY <1>4, <1>6 DEF d, mv, q, n, y, z

(* Elements inserted, in a block that has the room or gets it.             *)
LEMMA InsertedNIs ==
  ASSUME NEW m, NEW t, Carries(m, t), NEW i \in Nat, i <= Len(t), NEW cs \in Seq(Chars),
         NEW granted
  PROVE  LET r == Str!InsertedN(m, i, cs, granted)
         IN  Carries(r.mem, IF r.err = "ok" THEN Str!Splice(t, i, 0, cs) ELSE t)
<1> DEFINE z == Len(cs)
           n == m.len + z
           c == IF n # 0 THEN Str!RoundNextPow2(n) ELSE 2
           r == IF n > Len(m.da) THEN Str!SetRoundedCapacity(m, n, granted)
                ELSE Str!Result(m, "ok")
           x == r.mem
           mv == Str!Move(x.da, i + z, i, m.len - i)
           d == Str!Put(mv, i, cs)
           q == Str!Splice(t, i, 0, cs)
<1>1. /\ m.da \in Seq(Byte) /\ Len(m.da) \in Nat
      /\ m.len \in Nat /\ m.len = Len(t) /\ Len(t) \in Nat /\ Len(t) <= Len(m.da)
      /\ t \in Seq(Chars)
  BY CarriesIs
<1>2. z \in Nat /\ cs \in Seq(Byte) /\ n \in Nat
  BY <1>1, LenProperties, CharsAreBytes
<1>3. c \in Nat /\ c >= n
  <2> HIDE DEF n
  <2>1. Str!RoundNextPow2(n) \in Nat /\ Str!RoundNextPow2(n) >= n
    BY <1>2, RoundedIs
  <2> QED BY <1>2, <2>1
<1>4. /\ Carries(x, t) /\ (r.err = "ok" \/ (r.err = "alloc" /\ x = m))
      /\ r.err = "ok" => Len(x.da) >= n
  <2>1. CASE n > Len(m.da)
    <3>1. r = Str!Resize(m, c, granted)
      BY <2>1 DEF Str!SetRoundedCapacity
    <3>2. c # 0 /\ Len(t) <= c
      BY <1>1, <1>2, <1>3, <2>1
    <3> HIDE DEF c, n, r
    <3>3. /\ Carries(x, t) /\ r.err \in {"ok", "alloc"}
          /\ r.err = "ok" => Len(x.da) = c
          /\ r.err = "alloc" => x = m
      <4>1. Resized(m, t, c, granted, r)
        BY <1>3, <3>1, <3>2, ResizeIs
      <4> QED BY <4>1 DEF Resized
    <3> QED BY <1>2, <1>3, <3>3
  <2>2. CASE ~(n > Len(m.da))
    <3>1. r = [mem |-> m, err |-> "ok"]
      BY <2>2 DEF Str!Result
    <3> HIDE DEF n, r
    <3> QED BY <1>1, <1>2, <2>2, <3>1
  <2> QED BY <2>1, <2>2
<1>5. Str!InsertedN(m, i, cs, granted) =
        IF r.err # "ok" THEN r ELSE [mem |-> [da |-> d, len |-> n], err |-> "ok"]
  BY DEF Str!InsertedN, Str!Result
<1>6. CASE r.err # "ok"
  <2> HIDE DEF r
  <2> QED BY <1>4, <1>5, <1>6
<1>7. CASE r.err = "ok"
  <2>1. /\ x.da \in Seq(Byte) /\ Len(x.da) \in Nat /\ Len(x.da) >= n
        /\ \A k \in 1..Len(t) : x.da[k] = t[k]
    <3> HIDE DEF r
    <3> QED BY <1>4, <1>7, CarriesIs
  <2>2. Agrees(x.da, d, q) /\ Len(q) = n
    <3> HIDE DEF x, r
    <3>1. Len(t) + Len(cs) <= Len(x.da) /\ m.len - i = Len(t) - i
      BY <1>1, <2>1
    <3>2. Agrees(x.da, d, q) /\ Len(q) = Len(t) + Len(cs)
      BY <1>1, <2>1, <3>1, RoomIs
    <3> QED BY <1>1, <3>2
  <2> HIDE DEF r, x, mv, d, q, z
  <2>6. Carries([da |-> d, len |-> n], q)
    <3>1. [da |-> d, len |-> n] \in Blocks
      BY <1>2, <2>2 DEF Blocks, Agrees
    <3> HIDE DEF n
    <3> QED BY <3>1, <1>2, <2>1, <2>2 DEF Carries, Agrees
  <2>7. Str!InsertedN(m, i, cs, granted) = [mem |-> [da |-> d, len |-> n], err |-> "ok"]
    BY <1>5, <1>7
  <2> HIDE DEF n
  <2>8. /\ Str!InsertedN(m, i, cs, granted).mem = [da |-> d, len |-> n]
        /\ Str!InsertedN(m, i, cs, granted).err = "ok"
    BY <2>7
  <2> QED BY <2>6, <2>8 DEF q
<1> QED BY <1>6, <1>7

(* The strings that are written and looked for are texts.                  *)
LEMMA StringsAre ==
  ASSUME NEW n \in Nat
  PROVE  \A cs \in Strings(n) : cs \in Seq(Chars)
<1> SUFFICES ASSUME NEW cs \in Strings(n) PROVE cs \in Seq(Chars)
  OBVIOUS
<1>1. PICK m \in 0..n : cs \in [1..m -> Chars]
  BY DEF Strings, BoundedSeq, SeqOf
<1> QED BY <1>1

(* Nothing in a null block.                                                *)
LEMMA NoBlockIs == Carries(Str!NoBlock, <<>>) /\ Ended(Str!NoBlock)
<1>1. <<>> \in Seq(Byte) /\ <<>> \in Seq(Chars) /\ Len(<<>>) = 0
  OBVIOUS
<1>2. Str!NoBlock.da = <<>> /\ Str!NoBlock.len = 0 /\ Str!NoBlock \in Blocks
  BY <1>1 DEF Str!NoBlock, Blocks
<1> QED BY <1>1, <1>2 DEF Carries, Ended

(* Elements dropped at the end.                                            *)
LEMMA ShorterIs ==
  ASSUME NEW m, NEW t, Carries(m, t), NEW n \in Nat, n <= Len(t)
  PROVE  Carries([m EXCEPT !.len = n], SubSeq(t, 1, n))
<1>1. /\ m = [da |-> m.da, len |-> m.len] /\ m.da \in Seq(Byte) /\ Len(m.da) \in Nat
      /\ m.len = Len(t) /\ Len(t) \in Nat /\ Len(t) <= Len(m.da)
      /\ t \in Seq(Chars)
      /\ \A k \in 1..Len(t) : m.da[k] = t[k]
  BY CarriesIs
<1> DEFINE q == SubSeq(t, 1, n)
<1>2. q \in Seq(Chars) /\ Len(q) = n /\ \A k \in 1..n : q[k] = t[k]
  BY <1>1, PartIs, 0 \in Nat, 0 + 1 = 1
<1> HIDE DEF q
<1>3. [m EXCEPT !.len = n] = [da |-> m.da, len |-> n]
  BY <1>1
<1>4. [da |-> m.da, len |-> n] \in Blocks
  BY <1>1 DEF Blocks
<1>5. \A k \in 1..n : m.da[k] = q[k]
  BY <1>1, <1>2
<1> QED BY <1>1, <1>2, <1>3, <1>4, <1>5 DEF Carries, q

(* Elements dropped inside: the ones behind them move down.                *)
Dropped(da, t, n, d, q) ==
  /\ d \in Seq(Byte) /\ Len(d) = Len(da)
  /\ q \in Seq(Chars) /\ Len(q) = Len(t) - n
  /\ \A k \in 1..(Len(t) - n) : d[k] = q[k]

(* Closing the gap over n elements of the cells, as dyn_array.h does it,   *)
(* drops them.                                                             *)
LEMMA DroppedIs ==
  ASSUME NEW m, NEW t, Carries(m, t), NEW i \in Nat, NEW n \in Nat, i + n <= Len(t)
  PROVE  Dropped(m.da, t, n, Str!Move(m.da, i, i + n, Len(t) - n - i), Str!Splice(t, i, n, <<>>))
<1> DEFINE left == Len(t) - n
           d == Str!Move(m.da, i, i + n, left - i)
           cs == <<>>
           q == Str!Splice(t, i, n, cs)
<1>1. /\ m.da \in Seq(Byte) /\ Len(m.da) \in Nat
      /\ m.len = Len(t) /\ Len(t) \in Nat /\ Len(t) <= Len(m.da)
      /\ t \in Seq(Chars)
      /\ \A k \in 1..Len(t) : m.da[k] = t[k]
  BY CarriesIs
<1>2. left \in Nat /\ left - i \in Nat /\ left <= Len(t) /\ i + n \in Nat
      /\ i + (left - i) = left /\ i + n + (left - i) = Len(t)
  BY <1>1
<1>3. /\ d \in Seq(Byte) /\ Len(d) = Len(m.da)
      /\ \A k \in 1..Len(m.da) : d[k] = IF i < k /\ k <= i + (left - i) THEN m.da[i + n + (k - i)]
                                        ELSE m.da[k]
  <2> DEFINE w == left - i
             from == i + n
  <2>1. i + w <= Len(m.da) /\ from + w <= Len(m.da) /\ w \in Nat /\ from \in Nat
    BY <1>1, <1>2
  <2> HIDE DEF w, from
  <2>2. /\ Str!Move(m.da, i, from, w) \in Seq(Byte) /\ Len(Str!Move(m.da, i, from, w)) = Len(m.da)
        /\ \A k \in 1..Len(m.da) :
             Str!Move(m.da, i, from, w)[k] = IF i < k /\ k <= i + w THEN m.da[from + (k - i)]
                                             ELSE m.da[k]
    BY <1>1, <2>1, MoveIs
  <2> QED BY <2>2 DEF w, from
<1>4. cs \in Seq(Chars) /\ Len(cs) = 0
  OBVIOUS
<1> HIDE DEF cs, d
<1>5. /\ q \in Seq(Chars) /\ Len(q) = left
      /\ \A k \in 1..left : q[k] = IF k <= i THEN t[k] ELSE t[k + n]
  <2>1. Spliced(Chars, t, i, n, cs, q)
    BY <1>1, <1>4, SpliceIs
  <2>2. Len(t) - n + Len(cs) = left
        /\ \A k \in 1..left : ~(k <= i) => ~(k <= i + Len(cs)) /\ k - Len(cs) + n = k + n
    BY <1>1, <1>4
  <2> HIDE DEF q, left
  <2> QED BY <2>1, <2>2 DEF Spliced
<1> HIDE DEF q
<1>6. ASSUME NEW k \in 1..left PROVE d[k] = q[k]
  <2>1. k \in 1..Len(m.da) /\ k \in 1..Len(t) /\ k <= left /\ k \in Nat
    BY <1>1, <1>2
  <2>2. CASE k <= i
    <3>1. ~(i < k)
      BY <2>1, <2>2
    <3> QED BY <1>1, <1>3, <1>5, <2>1, <2>2, <3>1
  <2>3. CASE ~(k <= i)
    <3>1. i < k /\ i + n + (k - i) = k + n /\ k + n \in 1..Len(t)
      BY <1>1, <1>2, <2>1, <2>3
    <3> QED BY <1>1, <1>2, <1>3, <1>5, <2>1, <2>3, <3>1
  <2> QED BY <2>2, <2>3
<1> QED BY <1>3, <1>5, <1>6 DEF d, q, cs, Dropped

(* What an array's step does.                                              *)
LEMMA ArrayStep ==
  ASSUME Carries(mem, text), Str!ArrayNext(Strings(2))
  PROVE  Carries(mem', text')
<1>1. /\ mem.len = Len(text) /\ Len(text) \in Nat /\ text \in Seq(Chars)
      /\ mem = [da |-> mem.da, len |-> mem.len] /\ mem.da \in Seq(Byte)
      /\ Len(text) <= Len(mem.da) /\ Len(mem.da) \in Nat
  BY CarriesIs
<1>2. 0..MaxLen \subseteq Nat
  BY WordAssumption
<1>3. CASE Str!Leave
  <2>1. Str!DoesArray(Str!Result(Str!NoBlock, "ok"), <<>>)
    BY <1>3 DEF Str!Leave
  <2> DEFINE r == Str!Result(Str!NoBlock, "ok")
  <2>2. r.mem = Str!NoBlock /\ r.err = "ok"
    BY DEF Str!Result
  <2> HIDE DEF r
  <2> QED BY <2>1, <2>2, NoBlockIs, DoesArrayIs DEF r
<1>4. ASSUME NEW granted \in BOOLEAN, NEW n \in 0..MaxLen, Str!InitArray(n, granted)
      PROVE  Carries(mem', text')
  <2> DEFINE r == Str!Resize(mem, n, granted)
  <2>1. mem = Str!NoBlock /\ Str!DoesArray(r, <<>>)
    BY <1>4 DEF Str!InitArray
  <2>2. text = <<>>
    BY <1>1, <2>1, EmptySeq DEF Str!NoBlock
  <2>3. Resized(mem, text, n, granted, r)
    BY <1>2, <2>2, ResizeIs, Len(text) <= n
  <2> HIDE DEF r
  <2> QED BY <2>1, <2>2, <2>3, DoesArrayIs DEF Resized
<1>5. ASSUME NEW granted \in BOOLEAN, NEW n \in 0..MaxLen, Str!SetArrayCapacity(n, granted)
      PROVE  Carries(mem', text')
  <2> DEFINE r == Str!Resize(mem, n, granted)
  <2>1. n >= mem.len /\ Str!DoesArray(r, text)
    BY <1>5 DEF Str!SetArrayCapacity
  <2>2. n \in Nat /\ Len(text) <= n
    BY <1>2, <1>1, <2>1
  <2>3. Resized(mem, text, n, granted, r)
    BY <2>2, ResizeIs
  <2> HIDE DEF r
  <2> QED BY <2>1, <2>3, DoesArrayIs DEF Resized
<1>6. ASSUME NEW granted \in BOOLEAN, NEW i \in 0..MaxLen, NEW cs \in Strings(2),
             Str!InsertN(i, cs, granted)
      PROVE  Carries(mem', text')
  <2> DEFINE r == Str!InsertedN(mem, i, cs, granted)
             q == Str!Splice(text, i, 0, cs)
  <2>1. i <= Len(text) /\ Str!DoesArray(r, q)
    BY <1>1, <1>6 DEF Str!InsertN
  <2>2. cs \in Seq(Chars) /\ i \in Nat
    BY <1>2, StringsAre, 2 \in Nat
  <2>3. Carries(r.mem, IF r.err = "ok" THEN q ELSE text)
    BY <2>1, <2>2, InsertedNIs
  <2> HIDE DEF r, q
  <2> QED BY <2>1, <2>3, DoesArrayIs
<1>7. ASSUME NEW granted \in BOOLEAN, NEW c \in Chars, Str!InsertTail(c, granted)
      PROVE  Carries(mem', text')
  <2> DEFINE cs == <<c>>
             i == Len(text)
             r == Str!InsertedN(mem, i, cs, granted)
             q == Str!Splice(text, i, 0, cs)
  <2>1. Str!DoesArray(r, Append(text, c))
    BY <1>1, <1>7 DEF Str!InsertTail
  <2>2. cs \in Seq(Chars) /\ i \in Nat /\ i <= Len(text) /\ Len(cs) = 1 /\ cs[1] = c
    BY <1>1
  <2>3. q = Append(text, c)
    <3> HIDE DEF cs
    <3>1. Spliced(Chars, text, i, 0, cs, q)
      BY <1>1, <2>2, SpliceIs, i + 0 <= Len(text)
    <3>2. /\ q \in Seq(Chars) /\ Len(q) = i + 1
          /\ \A k \in 1..(i + 1) : q[k] = IF k <= i THEN text[k] ELSE c
      <4>1. i - 0 + Len(cs) = i + 1 /\ \A k \in 1..(i + 1) : ~(k <= i) => k <= i + 1 /\ k - i = 1
        BY <2>2
      <4> HIDE DEF q
      <4> QED BY <2>2, <3>1, <4>1 DEF Spliced
    <3>3. /\ Append(text, c) \in Seq(Chars) /\ Len(Append(text, c)) = i + 1
          /\ \A k \in 1..(i + 1) : Append(text, c)[k] = IF k <= i THEN text[k] ELSE c
      BY <1>1, <2>2, AppendProperties
    <3> HIDE DEF q, i
    <3> QED BY <3>2, <3>3, SameSeq
  <2>4. Carries(r.mem, IF r.err = "ok" THEN q ELSE text)
    <3> HIDE DEF i, cs
    <3> QED BY <2>2, InsertedNIs
  <2> HIDE DEF r, q
  <2> QED BY <2>1, <2>3, <2>4, DoesArrayIs
<1>8. ASSUME NEW i \in 0..MaxLen, NEW n \in 0..MaxLen, Str!DropN(i, n)
      PROVE  Carries(mem', text')
  <2> DEFINE left == Len(text) - n
             d == Str!Move(mem.da, i, i + n, left - i)
             x == [da |-> d, len |-> left]
             r == Str!Result(x, "ok")
             q == Str!Splice(text, i, n, <<>>)
  <2>0. i \in Nat /\ n \in Nat
    BY <1>2
  <2>1. i + n <= Len(text) /\ Str!DoesArray(r, q)
    <3>1. mem.len - (i + n) = left - i
      BY <1>1, <2>0
    <3> QED BY <1>1, <1>8, <3>1 DEF Str!DropN
  <2>2. left \in Nat /\ left <= Len(text)
    BY <1>1, <2>0, <2>1
  <2>3. /\ d \in Seq(Byte) /\ Len(d) = Len(mem.da)
        /\ q \in Seq(Chars) /\ Len(q) = left
        /\ \A k \in 1..left : d[k] = q[k]
    <3>1. Dropped(mem.da, text, n, d, q)
      BY <2>0, <2>1, DroppedIs
    <3> QED BY <3>1 DEF Dropped
  <2> HIDE DEF d, q, left
  <2>4. Carries(x, q)
    <3>1. x \in Blocks
      BY <2>2, <2>3 DEF Blocks
    <3> QED BY <1>1, <2>2, <2>3, <3>1 DEF Carries
  <2>5. r.mem = x /\ r.err = "ok"
    BY DEF Str!Result
  <2> HIDE DEF r, x
  <2> QED BY <2>1, <2>4, <2>5, DoesArrayIs
<1>9. ASSUME NEW n \in 0..MaxLen, Str!DropTailN(n)
      PROVE  Carries(mem', text')
  <2> DEFINE left == Len(text) - n
             x == [mem EXCEPT !.len = left]
             r == Str!Result(x, "ok")
             q == SubSeq(text, 1, left)
  <2>0. n \in Nat
    BY <1>2
  <2>1. n <= Len(text) /\ Str!DoesArray(r, q)
    BY <1>1, <1>9 DEF Str!DropTailN
  <2>2. left \in Nat /\ left <= Len(text)
    BY <1>1, <2>0, <2>1
  <2>3. Carries(x, q)
    <3> HIDE DEF left
    <3> QED BY <2>2, ShorterIs
  <2>4. r.mem = x /\ r.err = "ok"
    BY DEF Str!Result
  <2> HIDE DEF r, x, q
  <2> QED BY <2>1, <2>3, <2>4, DoesArrayIs
<1> QED BY <1>3, <1>4, <1>5, <1>6, <1>7, <1>8, <1>9 DEF Str!ArrayNext

(* A string that reads as a text: it has the text's characters, and its    *)
(* terminator.                                                             *)
Reads(m, t) == Carries(m, t) /\ Ended(m)

---------------------------------------------------------------------------
(* Strings: room, and what is put in.                                      *)

(* What a string that reads as t consists of.                              *)
LEMMA ReadsIs ==
  ASSUME NEW m, NEW t, Reads(m, t)
  PROVE  /\ m = [da |-> m.da, len |-> m.len] /\ m.da \in Seq(Byte) /\ Len(m.da) \in Nat
         /\ m.len \in Nat /\ m.len = Len(t) /\ Len(t) \in Nat /\ Len(t) <= Len(m.da)
         /\ t \in Seq(Chars) /\ t \in Seq(Byte)
         /\ \A k \in 1..Len(t) : m.da[k] = t[k] /\ t[k] \in Chars
         /\ Len(t) > 0 => Len(t) < Len(m.da)
<1>1. /\ m = [da |-> m.da, len |-> m.len] /\ m.da \in Seq(Byte) /\ Len(m.da) \in Nat
      /\ m.len \in Nat /\ m.len = Len(t) /\ Len(t) \in Nat /\ Len(t) <= Len(m.da)
      /\ t \in Seq(Chars) /\ t \in Seq(Byte)
      /\ \A k \in 1..Len(t) : m.da[k] = t[k] /\ t[k] \in Chars
  BY CarriesIs DEF Reads
<1> QED BY <1>1 DEF Reads, Ended

(* An operation that is refused, or succeeds.                              *)
LEMMA MadeIs ==
  ASSUME NEW m, NEW edited, NEW failed, NEW err,
         Reads(m, IF err = "ok" THEN edited ELSE failed)
  PROVE  Made(Str!Result(m, err), edited, failed)
BY DEF Made, Str!Result, Reads

(* Cells that begin with a text, terminated behind it, read as it.         *)
LEMMA TerminatedReads ==
  ASSUME NEW da \in Seq(Byte), NEW t \in Seq(Chars), NEW n, n = Len(t), n < Len(da),
         \A k \in 1..n : da[k] = t[k]
  PROVE  Reads(Str!Terminated(da, n), t)
BY TerminatedIs DEF Reads

(* A text and a cell for the terminator.                                   *)
LEMMA BufferReads ==
  ASSUME NEW t \in Seq(Chars)
  PROVE  Reads(Str!Terminated(t \o <<Junk>>, Len(t)), t)
<1> DEFINE cs == <<Junk>>
           da == t \o cs
<1>1. cs \in Seq(Byte) /\ Len(cs) = 1
  BY DEF Byte
<1>2. t \in Seq(Byte) /\ Len(t) \in Nat
  BY CharsAreBytes, LenProperties
<1> HIDE DEF cs
<1>3. /\ da \in Seq(Byte) /\ Len(da) = Len(t) + 1
      /\ \A k \in 1..(Len(t) + 1) : da[k] = IF k <= Len(t) THEN t[k] ELSE cs[k - Len(t)]
  <2>1. /\ da \in Seq(Byte) /\ Len(da) = Len(t) + Len(cs)
        /\ \A k \in 1..(Len(t) + Len(cs)) : da[k] = IF k <= Len(t) THEN t[k] ELSE cs[k - Len(t)]
    BY <1>1, <1>2, ConcatProperties
  <2> HIDE DEF da
  <2> QED BY <1>1, <2>1
<1> HIDE DEF da
<1>4. \A k \in 1..Len(t) : da[k] = t[k]
  BY <1>2, <1>3
<1>5. Len(t) < Len(da)
  BY <1>2, <1>3
<1>6. Reads(Str!Terminated(da, Len(t)), t)
  BY <1>3, <1>4, <1>5, TerminatedReads
<1> QED BY <1>6 DEF da, cs

(* A cleared string reads as nothing and keeps its cells.                  *)
LEMMA NothingReads ==
  ASSUME NEW m, NEW t, Carries(m, t)
  PROVE  Reads(Str!Cleared(m), <<>>) /\ Str!Cleared(m).da = m.da /\ Str!Cleared(m).len = 0
<1>1. m = [da |-> m.da, len |-> m.len] /\ m.da \in Seq(Byte) /\ Len(m.da) \in Nat
  BY CarriesIs
<1>2. Str!Cleared(m) = [da |-> m.da, len |-> 0]
  BY <1>1 DEF Str!Cleared
<1>3. <<>> \in Seq(Chars) /\ Len(<<>>) = 0 /\ [da |-> m.da, len |-> 0] \in Blocks
  BY <1>1 DEF Blocks
<1> QED BY <1>1, <1>2, <1>3 DEF Reads, Carries, Ended

(* The capacity of a string does not count the terminator.                 *)
LEMMA CapacityIs ==
  ASSUME NEW m, m.da \in Seq(Byte)
  PROVE  Str!GetCapacity(m) = IF Len(m.da) = 0 THEN 0 ELSE Len(m.da) - 1
BY EmptySeq DEF Str!GetCapacity

(* bl_dstr_set_capacity changes nothing that is read.                      *)
LEMMA CapacitatedIs ==
  ASSUME NEW m, NEW t, Reads(m, t), NEW n \in Nat, NEW granted
  PROVE  Made(Str!Capacitated(m, n, granted), t, t)
<1>1. m.len \in Nat /\ m.len = Len(t)
  BY ReadsIs
<1>2. CASE n >= m.len
  <2> DEFINE c == IF n # 0 THEN n + 1 ELSE 0
             r == Str!Resize(m, c, granted)
  <2>1. c \in Nat /\ Len(t) <= c /\ (Len(t) = 0 \/ Len(t) < c)
    BY <1>1, <1>2
  <2>2. Str!Capacitated(m, n, granted) = r
    BY <1>2 DEF Str!Capacitated
  <2> HIDE DEF c
  <2>3. Resized(m, t, c, granted, r)
    BY <2>1, ResizeIs DEF Reads
  <2> HIDE DEF r
  <2> QED BY <2>1, <2>2, <2>3 DEF Resized, Made, Reads
<1>3. CASE ~(n >= m.len)
  BY <1>3, MadeIs DEF Str!Capacitated
<1> QED BY <1>2, <1>3

(* Room for n characters, and more.                                        *)
Roomy(m, t, n, r) ==
  /\ Reads(r.mem, t) /\ (r.err = "ok" \/ r.err = "alloc")
  /\ r.err = "ok" /\ n > 0 => Len(r.mem.da) > n

(* A string that is given room, if it needs any, keeps its text.           *)
LEMMA ResizeIfIs ==
  ASSUME NEW m, NEW t, Reads(m, t), NEW n \in Nat, Len(t) <= n, NEW granted
  PROVE  Roomy(m, t, n, Str!ResizeIf(m, n, granted))
<1>1. /\ m.da \in Seq(Byte) /\ Len(m.da) \in Nat
      /\ Len(t) \in Nat
      /\ Str!GetCapacity(m) = IF Len(m.da) = 0 THEN 0 ELSE Len(m.da) - 1
  BY ReadsIs, CapacityIs
<1>2. CASE Str!GetCapacity(m) < n
  <2> DEFINE a == n + MinAlloc - 1
             c == (a \div MinAlloc) * MinAlloc + MinAlloc
             r == Str!Resize(m, c, granted)
  <2>1. MinAlloc \in Nat /\ MinAlloc >= 1 /\ a \in Int
    BY LengthsAssumption
  <2>2. a \div MinAlloc \in Int /\ a % MinAlloc \in 0..(MinAlloc - 1)
        /\ a = MinAlloc * (a \div MinAlloc) + (a % MinAlloc)
    <3> HIDE DEF a
    <3> QED BY <2>1, DivMod
  <2> DEFINE w == (a \div MinAlloc) * MinAlloc
  <2>3. w \in Int /\ a = w + (a % MinAlloc)
    <3> HIDE DEF a
    <3> QED BY <2>1, <2>2
  <2>4. c = w + MinAlloc
    OBVIOUS
  <2> HIDE DEF w, c
  <2>5. c \in Nat /\ c > n
    BY <2>1, <2>2, <2>3, <2>4
  <2>6. Str!ResizeIf(m, n, granted) = r
    BY <1>2 DEF Str!ResizeIf, c
  <2>7. Resized(m, t, c, granted, r)
    BY <1>1, <2>5, ResizeIs DEF Reads
  <2> HIDE DEF r
  <2> QED BY <1>1, <2>5, <2>6, <2>7 DEF Resized, Reads, Roomy
<1>3. CASE ~(Str!GetCapacity(m) < n)
  <2>1. Str!ResizeIf(m, n, granted) = Str!Result(m, "ok")
    BY <1>3 DEF Str!ResizeIf
  <2>2. n > 0 => Len(m.da) > n
    BY <1>1, <1>3
  <2> QED BY <2>1, <2>2 DEF Roomy, Str!Result
<1> QED BY <1>2, <1>3

(* Characters written behind a text, and the terminator behind them.       *)
LEMMA WrittenReads ==
  ASSUME NEW m, NEW t, Reads(m, t), NEW cs \in Seq(Chars), Len(t) + Len(cs) < Len(m.da)
  PROVE  Reads(Str!Terminated(Str!Put(m.da, Len(t), cs), Len(t) + Len(cs)), t \o cs)
<1> DEFINE n == Len(t) + Len(cs)
           d == Str!Put(m.da, Len(t), cs)
<1>1. /\ m.da \in Seq(Byte) /\ Len(m.da) \in Nat
      /\ m.len = Len(t) /\ Len(t) \in Nat
      /\ t \in Seq(Chars)
      /\ \A k \in 1..Len(t) : m.da[k] = t[k]
  BY ReadsIs
<1>2. Len(cs) \in Nat /\ cs \in Seq(Byte) /\ n \in Nat
  BY <1>1, LenProperties, CharsAreBytes
<1>3. /\ d \in Seq(Byte) /\ Len(d) = Len(m.da)
      /\ \A k \in 1..Len(m.da) :
           d[k] = IF Len(t) < k /\ k <= n THEN cs[k - Len(t)] ELSE m.da[k]
  BY <1>1, <1>2, PutIs
<1>4. /\ t \o cs \in Seq(Chars) /\ Len(t \o cs) = n
      /\ \A k \in 1..n : (t \o cs)[k] = IF k <= Len(t) THEN t[k] ELSE cs[k - Len(t)]
  BY <1>1, ConcatProperties
<1> DEFINE q == t \o cs
<1> HIDE DEF q, d
<1>5. ASSUME NEW k \in 1..n PROVE d[k] = q[k]
  <2>1. k \in 1..Len(m.da)
    BY <1>1, <1>2
  <2>2. CASE k <= Len(t)
    BY <1>1, <1>3, <1>4, <2>1, <2>2 DEF q
  <2>3. CASE ~(k <= Len(t))
    BY <1>1, <1>2, <1>3, <1>4, <2>1, <2>3 DEF q
  <2> QED BY <2>2, <2>3
<1>6. n = Len(q) /\ n < Len(d) /\ q \in Seq(Chars)
  BY <1>3, <1>4 DEF q
<1> HIDE DEF n
<1>7. Reads(Str!Terminated(d, n), q)
  BY <1>3, <1>5, <1>6, TerminatedReads
<1> QED BY <1>7 DEF d, n, q

(* Nothing joined to a text is the text.                                   *)
LEMMA ConcatEmpty ==
  ASSUME NEW S, NEW t \in Seq(S)
  PROVE  t \o <<>> = t /\ <<>> \o t = t
OBVIOUS

(* bl_dstr_append_l puts the characters behind the text, or leaves it as   *)
(* it was when it fails.                                                   *)
LEMMA AppendedIs ==
  ASSUME NEW m, NEW t, Reads(m, t), NEW cs \in Seq(Chars), NEW granted
  PROVE  Made(Str!Appended(m, cs, granted), t \o cs, t)
<1> DEFINE n == m.len + Len(cs)
           r == Str!ResizeIf(m, n, granted)
<1>1. t \in Seq(Chars) /\ m.len = Len(t) /\ Len(t) \in Nat /\ Len(cs) \in Nat
      /\ n \in Nat /\ Len(t) <= n
  <2>1. t \in Seq(Chars) /\ m.len = Len(t) /\ Len(t) \in Nat
    BY ReadsIs
  <2> QED BY <2>1, LenProperties
<1>2. CASE cs = <<>>
  <2>1. Str!Appended(m, cs, granted) = Str!Result(m, "ok")
    BY <1>2 DEF Str!Appended
  <2>2. t \o cs = t
    BY <1>1, <1>2, ConcatEmpty
  <2> QED BY <2>1, <2>2, MadeIs
<1>3. CASE cs # <<>>
  <2>1. n > 0
    BY <1>1, <1>3, EmptySeq
  <2> HIDE DEF n
  <2>2. Roomy(m, t, n, r)
    BY <1>1, ResizeIfIs
  <2> DEFINE x == r.mem
             w == Str!Terminated(Str!Put(x.da, m.len, cs), n)
  <2>3. Str!Appended(m, cs, granted) = IF r.err # "ok" THEN r ELSE Str!Result(w, "ok")
    BY <1>3 DEF Str!Appended, n
  <2>4. CASE r.err # "ok"
    <3> HIDE DEF r
    <3> QED BY <2>2, <2>3, <2>4 DEF Roomy, Made, Reads
  <2>5. CASE r.err = "ok"
    <3>1. Reads(x, t) /\ Len(x.da) > n
      <4> HIDE DEF r
      <4> QED BY <2>1, <2>2, <2>5 DEF Roomy
    <3>2. Len(t) + Len(cs) < Len(x.da)
      <4>1. Len(x.da) \in Nat
        BY <3>1, ReadsIs
      <4> QED BY <1>1, <3>1, <4>1 DEF n
    <3> HIDE DEF x
    <3>3. Reads(w, t \o cs)
      <4>1. Reads(Str!Terminated(Str!Put(x.da, Len(t), cs), Len(t) + Len(cs)), t \o cs)
        BY <3>1, <3>2, WrittenReads
      <4> QED BY <1>1, <4>1 DEF n
    <3> HIDE DEF w
    <3>4. Made(Str!Result(w, "ok"), t \o cs, t)
      BY <3>3, MadeIs
    <3>5. Str!Appended(m, cs, granted) = Str!Result(w, "ok")
      <4> HIDE DEF r
      <4> QED BY <2>3, <2>5 DEF w, x, r
    <3> QED BY <3>4, <3>5
  <2> QED BY <2>4, <2>5
<1> QED BY <1>2, <1>3

(* Cells of a text in the block that holds it.                             *)
LEMMA CellsOfText ==
  ASSUME NEW m, NEW t, Carries(m, t), NEW at \in Nat, NEW n \in Nat, at + n <= Len(t)
  PROVE  Str!Cells(m.da, at, n) = SubSeq(t, at + 1, at + n)
<1> DEFINE a == Str!Cells(m.da, at, n)
           b == SubSeq(t, at + 1, at + n)
<1>1. /\ m.da \in Seq(Byte) /\ Len(m.da) \in Nat
      /\ Len(t) \in Nat /\ Len(t) <= Len(m.da)
      /\ t \in Seq(Byte)
      /\ \A k \in 1..Len(t) : m.da[k] = t[k]
  BY CarriesIs
<1>2. a \in Seq(Byte) /\ Len(a) = n /\ \A k \in 1..n : a[k] = m.da[at + k]
  BY <1>1, CellsAre, at + n <= Len(m.da)
<1>3. b \in Seq(Byte) /\ Len(b) = n /\ \A k \in 1..n : b[k] = t[at + k]
  <2> DEFINE j == at + n
  <2>1. j \in Nat /\ j <= Len(t) /\ at <= j /\ j - at = n
    BY <1>1
  <2> HIDE DEF j
  <2>2. /\ SubSeq(t, at + 1, j) \in Seq(Byte)
        /\ Len(SubSeq(t, at + 1, j)) = IF at <= j THEN j - at ELSE 0
        /\ \A k \in 1..(j - at) : SubSeq(t, at + 1, j)[k] = t[at + k]
    BY <1>1, <2>1, PartIs
  <2> QED BY <2>1, <2>2 DEF j
<1> HIDE DEF a, b
<1>4. \A k \in 1..n : at + k \in 1..Len(t)
  BY <1>1
<1>5. \A k \in 1..n : a[k] = b[k]
  BY <1>1, <1>2, <1>3, <1>4
<1> QED BY <1>2, <1>3, <1>5, SameSeq DEF a, b

(* Inserting behind the last character is appending.                       *)
LEMMA SpliceAtEnd ==
  ASSUME NEW t \in Seq(Chars), NEW cs \in Seq(Chars)
  PROVE  Str!Splice(t, Len(t), 0, cs) = t \o cs
<1> DEFINE i == Len(t)
           q == Str!Splice(t, i, 0, cs)
           n == i + Len(cs)
<1>1. i \in Nat /\ Len(cs) \in Nat /\ i + 0 <= Len(t)
  BY LenProperties
<1>2. Spliced(Chars, t, i, 0, cs, q)
  BY <1>1, SpliceIs
<1>3. /\ t \o cs \in Seq(Chars) /\ Len(t \o cs) = n
      /\ \A k \in 1..n : (t \o cs)[k] = IF k <= i THEN t[k] ELSE cs[k - i]
  BY ConcatProperties
<1>4. i - 0 + Len(cs) = n
  BY <1>1
<1> HIDE DEF q
<1>5. /\ q \in Seq(Chars) /\ Len(q) = n
      /\ \A k \in 1..n : q[k] = IF k <= i THEN t[k] ELSE cs[k - i]
  <2>1. \A k \in 1..n : k <= i + Len(cs)
    BY <1>1
  <2> HIDE DEF n, i
  <2> QED BY <1>2, <1>4, <2>1 DEF Spliced, i
<1> DEFINE c == t \o cs
<1> HIDE DEF n, c, i
<1>6. q = c
  BY <1>3, <1>5, SameSeq DEF c
<1> QED BY <1>6 DEF q, c, i

(* bl_dstr_insert_l puts the characters in at the place it is given, or    *)
(* behind the last character, or leaves the text as it was when it fails.  *)
LEMMA InsertedIs ==
  ASSUME NEW m, NEW t, Reads(m, t), NEW i \in Nat, NEW cs \in Seq(Chars), NEW granted
  PROVE  Made(Str!Inserted(m, i, cs, granted), Str!Splice(t, Str!Least(i, Len(t)), 0, cs), t)
<1> DEFINE n == m.len + Len(cs)
           q == Str!Splice(t, i, 0, cs)
           grown == Str!Cells(m.da, 0, i) \o cs \o Str!Cells(m.da, i, m.len - i) \o <<Junk>>
           moved == Str!Put(Str!Move(m.da, Len(cs) + i, i, m.len - i), i, cs)
<1>1. /\ m.da \in Seq(Byte) /\ Len(m.da) \in Nat
      /\ m.len = Len(t) /\ Len(t) \in Nat /\ Len(t) <= Len(m.da)
      /\ t \in Seq(Chars)
      /\ \A k \in 1..Len(t) : m.da[k] = t[k]
  BY ReadsIs
<1>2. Len(cs) \in Nat /\ n \in Nat
  BY <1>1, LenProperties
<1>3. CASE cs = <<>>
  BY <1>3, MadeIs DEF Str!Inserted
<1>4. CASE cs # <<>> /\ i >= m.len
  <2>1. Str!Inserted(m, i, cs, granted) = Str!Appended(m, cs, granted)
    BY <1>4 DEF Str!Inserted
  <2>2. Str!Least(i, Len(t)) = Len(t)
    BY <1>1, <1>4 DEF Str!Least
  <2>3. Str!Splice(t, Len(t), 0, cs) = t \o cs
    BY <1>1, SpliceAtEnd
  <2>4. Made(Str!Appended(m, cs, granted), t \o cs, t)
    BY AppendedIs
  <2> QED BY <2>1, <2>2, <2>3, <2>4
<1>5. CASE cs # <<>> /\ i < m.len
  <2>1. Str!Least(i, Len(t)) = i
    BY <1>1, <1>5 DEF Str!Least
  <2>2. i <= Len(t) /\ ~(i >= m.len)
    BY <1>1, <1>5
  <2>3. CASE n <= Str!GetCapacity(m)
    <3>1. n < Len(m.da)
      BY <1>1, <1>2, <1>5, <2>3, CapacityIs
    <3>2. Agrees(m.da, moved, q) /\ Len(q) = n
      <4> DEFINE put == Str!Put(Str!Move(m.da, i + Len(cs), i, Len(t) - i), i, cs)
      <4>1. Len(t) + Len(cs) <= Len(m.da)
        BY <1>1, <1>2, <3>1
      <4>2. Agrees(m.da, put, q) /\ Len(q) = Len(t) + Len(cs)
        BY <1>1, <2>2, <4>1, RoomIs
      <4>3. i + Len(cs) = Len(cs) + i
        BY <1>2
      <4>4. put = moved
        BY <1>1, <4>3
      <4> HIDE DEF put, moved, q
      <4> QED BY <1>1, <4>2, <4>4
    <3> HIDE DEF moved, q
    <3>3. Reads(Str!Terminated(moved, n), q)
      <4> HIDE DEF n
      <4> QED BY <3>1, <3>2, TerminatedReads DEF Agrees
    <3>4. Str!Inserted(m, i, cs, granted) = Str!Result(Str!Terminated(moved, n), "ok")
      BY <1>5, <2>2, <2>3 DEF Str!Inserted, moved
    <3>5. Made(Str!Result(Str!Terminated(moved, n), "ok"), q, t)
      <4> DEFINE x == Str!Terminated(moved, n)
      <4> HIDE DEF x
      <4> QED BY <3>3, MadeIs DEF x
    <3> QED BY <2>1, <3>4, <3>5 DEF q
  <2>4. CASE ~(n <= Str!GetCapacity(m)) /\ granted
    <3>1. Str!Cells(m.da, 0, i) = SubSeq(t, 1, i)
      <4>1. Str!Cells(m.da, 0, i) = SubSeq(t, 0 + 1, 0 + i)
        BY <1>1, <2>2, 0 \in Nat, 0 + i <= Len(t), CellsOfText DEF Reads
      <4> QED BY <4>1, 0 + 1 = 1, 0 + i = i
    <3>2. Str!Cells(m.da, i, m.len - i) = SubSeq(t, i + 0 + 1, Len(t))
      <4> DEFINE w == Len(t) - i
      <4>1. w \in Nat /\ i + w = Len(t) /\ m.len - i = w /\ i + 0 + 1 = i + 1
        BY <1>1, <2>2
      <4> HIDE DEF w
      <4>2. Str!Cells(m.da, i, w) = SubSeq(t, i + 1, i + w)
        BY <1>1, <4>1, CellsOfText DEF Reads
      <4> QED BY <4>1, <4>2
    <3>3. grown = q \o <<Junk>>
      BY <3>1, <3>2 DEF Str!Splice
    <3>5. q \in Seq(Chars) /\ Len(q) = n
      <4>1. Spliced(Chars, t, i, 0, cs, q)
        BY <1>1, <2>2, SpliceIs, i + 0 <= Len(t)
      <4>2. Len(t) - 0 + Len(cs) = n
        BY <1>1, <1>2
      <4> HIDE DEF q, n
      <4> QED BY <4>1, <4>2 DEF Spliced
    <3> DEFINE x == Str!Terminated(q \o <<Junk>>, n)
    <3>6. Reads(x, q)
      <4> HIDE DEF q, n
      <4> QED BY <3>5, BufferReads
    <3>7. Str!Inserted(m, i, cs, granted) = Str!Result(x, "ok")
      <4>1. Str!Inserted(m, i, cs, granted) = Str!Result(Str!Terminated(grown, n), "ok")
        BY <1>5, <2>2, <2>4 DEF Str!Inserted
      <4> QED BY <4>1, <3>3
    <3> HIDE DEF x, q
    <3>8. Made(Str!Result(x, "ok"), q, t)
      BY <3>6, MadeIs
    <3> QED BY <2>1, <3>7, <3>8 DEF q
  <2>5. CASE ~(n <= Str!GetCapacity(m)) /\ ~granted
    <3>1. Str!Inserted(m, i, cs, granted) = Str!Result(m, "alloc")
      BY <1>5, <2>2, <2>5 DEF Str!Inserted
    <3> QED BY <3>1, MadeIs
  <2> QED BY <2>3, <2>4, <2>5
<1> QED BY <1>1, <1>3, <1>4, <1>5

---------------------------------------------------------------------------
(* A difference that is less than a word's range either way.               *)
LEMMA WrapsIs ==
  ASSUME NEW a \in Int, -Word < a, a < Word
  PROVE  a % Word = IF a >= 0 THEN a ELSE a + Word
<1>1. Word \in Nat /\ Word >= 1
  BY WordAssumption
<1>2. CASE a >= 0
  BY <1>1, <1>2, SmallNumber
<1>3. CASE a < 0
  <2> DEFINE b == a + Word
  <2>1. b \in Nat /\ b < Word
    BY <1>1, <1>3
  <2>2. b = a + Laps(1, Word)
    BY <1>1 DEF Laps
  <2> HIDE DEF b
  <2>3. b % Word = a % Word
    BY <1>1, <2>1, <2>2, LapsVanish
  <2>4. b % Word = b
    BY <1>1, <2>1, SmallNumber
  <2> QED BY <1>3, <2>3, <2>4 DEF b
<1> QED BY <1>2, <1>3

(* Characters erased: a place or a count too large wraps, and is refused.  *)
LEMMA ErasedIs ==
  ASSUME NEW m, NEW t, Reads(m, t), Len(t) <= MaxReplaced,
         NEW i \in 0..(MaxReplaced + 1), NEW n \in 0..(MaxReplaced + 1)
  PROVE  /\ Made(Str!Erased(m, i, n), Str!Splice(t, i, n, <<>>), t)
         /\ i + n <= Len(t) => Str!Erased(m, i, n).err = "ok"
<1> DEFINE left == (m.len - n) % Word
           tail == (left - i) % Word
           q == Str!Splice(t, i, n, <<>>)
<1>1. /\ m.da \in Seq(Byte) /\ Len(m.da) \in Nat
      /\ m.len = Len(t) /\ Len(t) \in Nat /\ Len(t) <= Len(m.da)
      /\ Len(t) > 0 => Len(t) < Len(m.da)
      /\ t \in Seq(Chars)
  BY ReadsIs
<1>2. /\ MaxReplaced \in Nat /\ Word \in Nat /\ 4 * (MaxReplaced + 1) < Word
      /\ i \in Nat /\ n \in Nat /\ i <= MaxReplaced + 1 /\ n <= MaxReplaced + 1
  BY WordAssumption
<1>3. left = IF Len(t) >= n THEN Len(t) - n ELSE Len(t) - n + Word
  <2> DEFINE a == Len(t) - n
  <2>1. a \in Int /\ -Word < a /\ a < Word /\ (a >= 0 <=> Len(t) >= n)
    BY <1>1, <1>2
  <2> HIDE DEF a
  <2>2. a % Word = IF a >= 0 THEN a ELSE a + Word
    BY <2>1, WrapsIs
  <2> QED BY <1>1, <2>1, <2>2 DEF a
<1> HIDE DEF left
<1>4. left \in Nat /\ left < Word /\ (Len(t) < n => left > 3 * (MaxReplaced + 1))
  BY <1>1, <1>2, <1>3
<1>5. tail = IF left >= i THEN left - i ELSE left - i + Word
  <2> DEFINE a == left - i
  <2>1. a \in Int /\ -Word < a /\ a < Word /\ (a >= 0 <=> left >= i)
    BY <1>2, <1>4
  <2> HIDE DEF a
  <2>2. a % Word = IF a >= 0 THEN a ELSE a + Word
    BY <2>1, WrapsIs
  <2> QED BY <2>1, <2>2 DEF a
<1> HIDE DEF tail
<1>6. tail > Len(t) <=> ~(i + n <= Len(t))
  BY <1>1, <1>2, <1>3, <1>4, <1>5
<1>7. CASE ~(i + n <= Len(t))
  <2>1. Str!Erased(m, i, n) = Str!Result(m, "range")
    BY <1>1, <1>6, <1>7 DEF Str!Erased, left, tail
  <2> QED BY <1>7, <2>1, MadeIs
<1>8. CASE i + n <= Len(t)
  <2>1. left = Len(t) - n /\ tail = Len(t) - n - i /\ ~(tail > m.len)
    BY <1>1, <1>2, <1>3, <1>5, <1>6, <1>8
  <2> DEFINE d == Str!Move(m.da, i, i + n, tail)
  <2>2. Dropped(m.da, t, n, d, q)
    BY <1>2, <1>8, <2>1, DroppedIs DEF Reads
  <2> HIDE DEF d, q
  <2>3. CASE left # 0
    <3>1. Str!Erased(m, i, n) = Str!Result(Str!Terminated(d, left), "ok")
      BY <2>1, <2>3 DEF Str!Erased, left, tail, d
    <3>2. left < Len(d) /\ left = Len(q) /\ q \in Seq(Chars) /\ d \in Seq(Byte)
          /\ \A k \in 1..left : d[k] = q[k]
      BY <1>1, <1>2, <2>1, <2>2, <2>3 DEF Dropped
    <3> DEFINE x == Str!Terminated(d, left)
    <3>3. Reads(x, q)
      BY <3>2, TerminatedReads
    <3> HIDE DEF x
    <3>4. Made(Str!Result(x, "ok"), q, t) /\ Str!Result(x, "ok").err = "ok"
      BY <3>3, MadeIs DEF Str!Result
    <3> QED BY <3>1, <3>4 DEF x, q
  <2>4. CASE left = 0
    <3>1. Str!Erased(m, i, n) = Str!Result(Str!Cleared(m), "ok")
      BY <2>1, <2>4 DEF Str!Erased, left, tail
    <3>2. q = <<>>
      BY <2>1, <2>2, <2>4, EmptySeq DEF Dropped
    <3>3. Reads(Str!Cleared(m), q)
      BY <3>2, NothingReads DEF Reads
    <3> DEFINE x == Str!Cleared(m)
    <3> HIDE DEF x
    <3>4. Made(Str!Result(x, "ok"), q, t) /\ Str!Result(x, "ok").err = "ok"
      BY <3>3, MadeIs DEF x, Str!Result
    <3> QED BY <3>1, <3>4 DEF x, q
  <2> QED BY <2>3, <2>4
<1> QED BY <1>7, <1>8

(* Characters erased at the end.                                           *)
LEMMA ErasedTailIs ==
  ASSUME NEW m, NEW t, Reads(m, t), Len(t) <= MaxReplaced, NEW n \in 0..(MaxReplaced + 1)
  PROVE  /\ Made(Str!ErasedTail(m, n), SubSeq(t, 1, Len(t) - n), t)
         /\ n <= Len(t) => Str!ErasedTail(m, n).err = "ok"
<1> DEFINE left == (m.len - n) % Word
<1>1. /\ m.da \in Seq(Byte) /\ Len(m.da) \in Nat
      /\ m.len = Len(t) /\ Len(t) \in Nat /\ Len(t) <= Len(m.da)
      /\ Len(t) > 0 => Len(t) < Len(m.da)
      /\ t \in Seq(Chars) /\ \A k \in 1..Len(t) : m.da[k] = t[k]
  BY ReadsIs
<1>2. MaxReplaced \in Nat /\ Word \in Nat /\ 4 * (MaxReplaced + 1) < Word /\ n \in Nat /\ n <= MaxReplaced + 1
  BY WordAssumption
<1>3. left = IF Len(t) >= n THEN Len(t) - n ELSE Len(t) - n + Word
  <2> DEFINE a == Len(t) - n
  <2>1. a \in Int /\ -Word < a /\ a < Word /\ (a >= 0 <=> Len(t) >= n)
    BY <1>1, <1>2
  <2> HIDE DEF a
  <2>2. a % Word = IF a >= 0 THEN a ELSE a + Word
    BY <2>1, WrapsIs
  <2> QED BY <1>1, <2>1, <2>2 DEF a
<1> HIDE DEF left
<1>4. CASE ~(Len(t) >= n)
  <2>1. left > m.len
    BY <1>1, <1>2, <1>3, <1>4
  <2>2. Str!ErasedTail(m, n) = Str!Result(m, "range")
    BY <2>1 DEF Str!ErasedTail, left
  <2>3. ~(n <= Len(t))
    BY <1>1, <1>2, <1>4
  <2> QED BY <2>2, <2>3, MadeIs
<1>5. CASE Len(t) >= n
  <2>1. left = Len(t) - n /\ left \in Nat /\ left <= Len(t) /\ ~(left > m.len)
    BY <1>1, <1>2, <1>3, <1>5
  <2> DEFINE q == SubSeq(t, 1, left)
  <2>2. q \in Seq(Chars) /\ Len(q) = left /\ \A k \in 1..left : q[k] = t[k]
    BY <1>1, <2>1, PartIs, 0 \in Nat, 0 + 1 = 1
  <2> HIDE DEF q
  <2>3. CASE left # 0
    <3>1. Str!ErasedTail(m, n) = Str!Result(Str!Terminated(m.da, left), "ok")
      BY <2>1, <2>3 DEF Str!ErasedTail, left
    <3>2. left < Len(m.da) /\ \A k \in 1..left : m.da[k] = q[k]
      BY <1>1, <2>1, <2>2, <2>3
    <3> DEFINE x == Str!Terminated(m.da, left)
    <3>3. Reads(x, q)
      BY <1>1, <2>2, <3>2, TerminatedReads
    <3> HIDE DEF x
    <3>4. Made(Str!Result(x, "ok"), q, t) /\ Str!Result(x, "ok").err = "ok"
      BY <3>3, MadeIs DEF Str!Result
    <3> QED BY <2>1, <3>1, <3>4 DEF x, q
  <2>4. CASE left = 0
    <3>1. Str!ErasedTail(m, n) = Str!Result(Str!Cleared(m), "ok")
      BY <2>1, <2>4 DEF Str!ErasedTail, left
    <3>2. q = <<>>
      BY <2>2, <2>4, EmptySeq
    <3>3. Reads(Str!Cleared(m), q)
      BY <3>2, NothingReads DEF Reads
    <3> DEFINE x == Str!Cleared(m)
    <3> HIDE DEF x
    <3>4. Made(Str!Result(x, "ok"), q, t) /\ Str!Result(x, "ok").err = "ok"
      BY <3>3, MadeIs DEF x, Str!Result
    <3> QED BY <2>1, <3>1, <3>4 DEF x, q
  <2> QED BY <2>3, <2>4
<1> QED BY <1>4, <1>5

(* A function of 1..n is a sequence of n elements.                         *)
LEMMA FunctionIsSeq ==
  ASSUME NEW S, NEW n \in Nat, NEW f \in [1..n -> S]
  PROVE  f \in Seq(S) /\ Len(f) = n
OBVIOUS

(* The largest of some numbers up to n is one of them.                     *)
LEMMA LargestIs ==
  ASSUME NEW n \in Nat, NEW S \in SUBSET (0..n), S # {}
  PROVE  Str!Max(S) \in S
<1> DEFINE T == {n - k : k \in S}
<1>1. T \in SUBSET Nat /\ T # {}
  <2>1. \A k \in S : n - k \in Nat
    OBVIOUS
  <2> QED BY <2>1
<1>2. PICK x \in T : \A y \in T : x <= y
  <2> HIDE DEF T
  <2> QED BY <1>1, Smallest
<1>3. PICK k \in S : x = n - k
  BY <1>2
<1>4. ASSUME NEW j \in S PROVE k >= j
  <2>1. n - j \in T
    OBVIOUS
  <2>2. x <= n - j
    BY <1>2, <2>1
  <2> QED BY <1>3, <2>2
<1>5. \E y \in S : \A j \in S : y >= j
  BY <1>3, <1>4
<1> QED BY <1>5 DEF Str!Max

(* What is trimmed at an end is a number of characters of the text.        *)
LEMMA AtEndsIs ==
  ASSUME NEW t \in Seq(Chars), NEW class
  PROVE  Str!AtHead(t, class) \in 0..Len(t) /\ Str!AtTail(t, class) \in 0..Len(t)
<1>1. Len(t) \in Nat
  BY LenProperties
<1> DEFINE H == {k \in 0..Len(t) : \A i \in 1..k : t[i] \in class}
           T == {k \in 0..Len(t) : \A i \in (Len(t) - k + 1)..Len(t) : t[i] \in class}
<1>2. 0 \in H /\ 0 \in T
  BY <1>1
<1>3. H \in SUBSET (0..Len(t)) /\ T \in SUBSET (0..Len(t)) /\ H # {} /\ T # {}
  BY <1>2
<1>4. Str!AtHead(t, class) = Str!Max(H) /\ Str!AtTail(t, class) = Str!Max(T)
  BY DEF Str!AtHead, Str!AtTail
<1> HIDE DEF H, T
<1>5. Str!Max(H) \in H /\ Str!Max(T) \in T
  BY <1>1, <1>3, LargestIs
<1> QED BY <1>3, <1>4, <1>5

(* Dropping characters at the start.                                       *)
LEMMA SpliceAtStart ==
  ASSUME NEW t \in Seq(Chars), NEW n \in Nat
  PROVE  Str!Splice(t, 0, n, <<>>) = SubSeq(t, n + 1, Len(t))
<1> DEFINE a == SubSeq(t, 1, 0)
           b == SubSeq(t, n + 1, Len(t))
<1>1. Len(t) \in Nat
  BY LenProperties
<1>2. a = <<>>
  <2>1. a \in Seq(Chars) /\ Len(a) = 0
    BY PartIs, 0 \in Nat, 0 + 1 = 1, 0 <= Len(t), <1>1
  <2> QED BY <2>1, EmptySeq
<1>3. b \in Seq(Chars)
  BY <1>1, PartIs
<1>4. Str!Splice(t, 0, n, <<>>) = a \o <<>> \o b
  BY 0 + n + 1 = n + 1 DEF Str!Splice
<1> HIDE DEF a, b
<1>5. <<>> \o <<>> = <<>>
  OBVIOUS
<1> QED BY <1>2, <1>3, <1>4, <1>5, ConcatEmpty DEF b

(* Characters of a class erased at the ends.                               *)
LEMMA TrimmedIs ==
  ASSUME NEW m, NEW t, Reads(m, t), Len(t) <= MaxReplaced, NEW atHead \in BOOLEAN, NEW atTail \in BOOLEAN,
         NEW class, NEW ht,
         ht = IF atHead THEN SubSeq(t, Str!AtHead(t, class) + 1, m.len) ELSE t
  PROVE  Made(Str!Trimmed(m, atHead, atTail, class),
              IF atTail THEN SubSeq(ht, 1, Len(ht) - Str!AtTail(ht, class)) ELSE ht, t)
         /\ Str!Trimmed(m, atHead, atTail, class).err = "ok"
<1> DEFINE a == Str!AtHead(t, class)
           b == Str!AtTail(ht, class)
           r == Str!Erased(m, 0, a)
           h == IF atHead THEN r.mem ELSE m
<1>1. /\ m.len = Len(t) /\ Len(t) \in Nat /\ t \in Seq(Chars) /\ MaxReplaced \in Nat
  BY ReadsIs, WordAssumption
<1>2. SubSeq(m.da, 1, m.len) = t
  BY PartIsText DEF Reads
<1>3. a \in 0..Len(t)
  BY <1>1, AtEndsIs
<1>4. Reads(h, ht) /\ Len(ht) \in Nat /\ Len(ht) <= MaxReplaced /\ ht \in Seq(Chars)
  <2>1. CASE atHead
    <3>1. a \in 0..(MaxReplaced + 1) /\ 0 \in 0..(MaxReplaced + 1) /\ 0 + a <= Len(t) /\ a \in Nat
      BY <1>1, <1>3
    <3> HIDE DEF a, r
    <3>2. Made(r, Str!Splice(t, 0, a, <<>>), t) /\ r.err = "ok"
      BY <1>1, <3>1, ErasedIs DEF r
    <3>3. Str!Splice(t, 0, a, <<>>) = ht
      BY <1>1, <2>1, <3>1, SpliceAtStart DEF a
    <3>4. Reads(h, ht)
      BY <2>1, <3>2, <3>3 DEF Made, Reads
    <3>5. ht = SubSeq(t, a + 1, Len(t)) /\ Len(ht) = Len(t) - a
      <4>1. ht = SubSeq(t, a + 1, Len(t))
        BY <1>1, <2>1 DEF a
      <4>2. Len(SubSeq(t, a + 1, Len(t))) = IF a <= Len(t) THEN Len(t) - a ELSE 0
        BY <1>1, <3>1, PartIs
      <4>3. Len(ht) = IF a <= Len(t) THEN Len(t) - a ELSE 0
        BY <4>1, <4>2
      <4>4. a \in Nat /\ a <= Len(t) /\ Len(t) \in Nat
        BY <1>1, <3>1
      <4>5. Len(ht) = Len(t) - a
        BY ONLY <4>3, <4>4
      <4> QED BY ONLY <4>1, <4>5
    <3>6. ht \in Seq(Chars)
      BY <3>4, ReadsIs
    <3> QED BY <1>1, <3>1, <3>4, <3>5, <3>6
  <2>2. CASE ~atHead
    BY <1>1, <2>2
  <2> QED BY <2>1, <2>2
<1> HIDE DEF h
<1>5. SubSeq(h.da, 1, h.len) = ht
  BY <1>4, PartIsText DEF Reads
<1>6. Str!Trimmed(m, atHead, atTail, class) = IF atTail THEN Str!ErasedTail(h, b) ELSE Str!Result(h, "ok")
  BY <1>2, <1>5 DEF Str!Trimmed, h
<1>7. b \in 0..(MaxReplaced + 1) /\ b <= Len(ht)
  <2>1. b \in 0..Len(ht)
    BY <1>4, AtEndsIs
  <2> QED BY <1>1, <1>4, <2>1
<1> HIDE DEF b
<1>8. CASE atTail
  <2> DEFINE x == Str!ErasedTail(h, b)
  <2>1. Made(x, SubSeq(ht, 1, Len(ht) - b), ht) /\ x.err = "ok"
    BY <1>4, <1>7, ErasedTailIs
  <2> HIDE DEF x
  <2>2. Made(x, SubSeq(ht, 1, Len(ht) - b), t)
    BY <2>1 DEF Made
  <2>3. Str!Trimmed(m, atHead, atTail, class) = x
    BY <1>6, <1>8 DEF x
  <2> QED BY <1>8, <2>1, <2>2, <2>3 DEF b
<1>9. CASE ~atTail
  <2> DEFINE x == Str!Result(h, "ok")
  <2>1. Made(x, ht, t) /\ x.err = "ok"
    BY <1>4, MadeIs DEF Str!Result
  <2> HIDE DEF x
  <2>2. Str!Trimmed(m, atHead, atTail, class) = x
    BY <1>6, <1>9 DEF x
  <2> QED BY <1>9, <2>1, <2>2
<1> QED BY <1>8, <1>9

(* Characters of a part replaced by what a function makes of them.         *)
LEMMA AppliedIs ==
  ASSUME NEW m, NEW t, Reads(m, t), NEW fn \in [Chars -> Chars], NEW from \in Nat, NEW to \in Nat
  PROVE  Made(Str!Applied(m, fn, from, to),
              [i \in DOMAIN t |-> IF i > from /\ i <= to THEN fn[t[i]] ELSE t[i]], t)
<1> DEFINE n == to - from
           cs == [i \in 1..n |-> fn[m.da[from + i]]]
           d == Str!Put(m.da, from, cs)
           q == [i \in DOMAIN t |-> IF i > from /\ i <= to THEN fn[t[i]] ELSE t[i]]
           x == [da |-> d, len |-> m.len]
<1>1. /\ m = [da |-> m.da, len |-> m.len] /\ m.da \in Seq(Byte) /\ Len(m.da) \in Nat
      /\ m.len = Len(t) /\ Len(t) \in Nat /\ Len(t) <= Len(m.da)
      /\ Len(t) > 0 => Len(t) < Len(m.da)
      /\ t \in Seq(Chars) /\ \A k \in 1..Len(t) : m.da[k] = t[k] /\ t[k] \in Chars
  BY ReadsIs
<1>2. CASE from > to \/ to > m.len
  BY <1>2, MadeIs DEF Str!Applied
<1>3. CASE ~(from > to \/ to > m.len)
  <2>1. n \in Nat /\ from + n = to /\ to <= Len(t) /\ n = to - from
    BY <1>1, <1>3
  <2>2. Str!Applied(m, fn, from, to) = Str!Result(x, "ok")
    <3>1. [m EXCEPT !.da = Str!Put(@, from, [i \in 1..(to - from) |-> fn[@[from + i]]])] = x
      BY <1>1
    <3> HIDE DEF x
    <3> QED BY <1>3, <3>1 DEF Str!Applied
  <2>3. /\ cs \in Seq(Byte) /\ Len(cs) = n
        /\ \A k \in 1..n : cs[k] = fn[t[from + k]]
    <3>1. \A k \in 1..n : from + k \in 1..Len(t)
      BY <1>1, <2>1
    <3>2. cs \in [1..n -> Byte]
      BY <1>1, <3>1 DEF Byte
    <3>3. \A k \in 1..n : cs[k] = fn[m.da[from + k]]
      OBVIOUS
    <3> HIDE DEF n, cs
    <3>4. cs \in Seq(Byte) /\ Len(cs) = n
      BY <2>1, <3>2, FunctionIsSeq
    <3> QED BY <1>1, <3>1, <3>3, <3>4
  <2> HIDE DEF cs, n
  <2>4. /\ d \in Seq(Byte) /\ Len(d) = Len(m.da)
        /\ \A k \in 1..Len(m.da) : d[k] = IF from < k /\ k <= to THEN cs[k - from] ELSE m.da[k]
    <3>1. from + Len(cs) <= Len(m.da)
      BY <1>1, <2>1, <2>3
    <3>2. /\ d \in Seq(Byte) /\ Len(d) = Len(m.da)
          /\ \A k \in 1..Len(m.da) : d[k] = IF from < k /\ k <= from + Len(cs) THEN cs[k - from] ELSE m.da[k]
      BY <1>1, <2>3, <3>1, PutIs
    <3> HIDE DEF d
    <3> QED BY <2>1, <2>3, <3>2
  <2> HIDE DEF d
  <2>5. DOMAIN t = 1..Len(t)
    BY <1>1, LenProperties
  <2>6. /\ q \in Seq(Chars) /\ Len(q) = Len(t)
        /\ \A k \in 1..Len(t) : q[k] = IF k > from /\ k <= to THEN fn[t[k]] ELSE t[k]
    <3>1. q \in [1..Len(t) -> Chars]
      BY <1>1, <2>5
    <3>2. \A k \in 1..Len(t) : q[k] = IF k > from /\ k <= to THEN fn[t[k]] ELSE t[k]
      BY <2>5
    <3> HIDE DEF q
    <3>3. q \in Seq(Chars) /\ Len(q) = Len(t)
      BY <1>1, <3>1, FunctionIsSeq
    <3> QED BY <3>2, <3>3
  <2> HIDE DEF q
  <2>7. ASSUME NEW k \in 1..Len(t) PROVE d[k] = q[k]
    <3>1. k \in 1..Len(m.da) /\ k \in Nat
      BY <1>1
    <3>2. CASE from < k /\ k <= to
      <4>1. k - from \in 1..n /\ from + (k - from) = k /\ k > from
        BY <2>1, <3>1, <3>2
      <4> QED BY <2>3, <2>4, <2>6, <3>1, <3>2, <4>1
    <3>3. CASE ~(from < k /\ k <= to)
      <4>1. ~(k > from /\ k <= to)
        BY <3>1, <3>3
      <4> QED BY <1>1, <2>4, <2>6, <3>1, <3>3, <4>1
    <3> QED BY <3>2, <3>3
  <2>8. Carries(x, q)
    <3>1. x \in Blocks
      BY <1>1, <2>4 DEF Blocks
    <3> QED BY <1>1, <2>4, <2>6, <2>7, <3>1 DEF Carries
  <2>9. Ended(x)
    <3>1. CASE m.len > 0
      <4>1. Len(m.da) > m.len /\ m.da[m.len + 1] = Nul
        BY <3>1 DEF Reads, Ended
      <4>2. m.len + 1 \in 1..Len(m.da) /\ ~(m.len + 1 <= to)
        BY <1>1, <2>1, <4>1
      <4> QED BY <2>4, <4>1, <4>2 DEF Ended
    <3>2. CASE ~(m.len > 0)
      BY <3>2 DEF Ended
    <3> QED BY <3>1, <3>2
  <2> HIDE DEF x
  <2>10. Made(Str!Result(x, "ok"), q, t)
    BY <2>8, <2>9, MadeIs DEF Reads
  <2> QED BY <2>2, <2>10 DEF q
<1> QED BY <1>2, <1>3

(* Room for n characters and a terminator.                                 *)
RoomFor(x, n, granted) ==
  IF x.da = <<>> \/ Str!GetCapacity(x) < n THEN Str!Resize(x, n + 1, granted)
  ELSE Str!Result(x, "ok")

(* The answer r to a demand for room for n characters: a block with the    *)
(* room and the same text, or a failure.                                   *)
Given(x, t, n, granted, r) ==
  /\ Carries(r.mem, t)
  /\ r.err = "ok" => Len(r.mem.da) > n
  /\ r.err # "ok" => ~granted /\ r.mem = x

(* A demand for room is answered as Given says.                            *)
LEMMA RoomForIs ==
  ASSUME NEW x, NEW t, Carries(x, t), NEW n \in Nat, Len(t) <= n, NEW granted
  PROVE  Given(x, t, n, granted, RoomFor(x, n, granted))
<1>1. /\ x.da \in Seq(Byte) /\ Len(x.da) \in Nat /\ Len(t) \in Nat
      /\ Str!GetCapacity(x) = IF Len(x.da) = 0 THEN 0 ELSE Len(x.da) - 1
      /\ x.da = <<>> <=> Len(x.da) = 0
  BY CarriesIs, CapacityIs, EmptySeq
<1>2. CASE x.da = <<>> \/ Str!GetCapacity(x) < n
  <2> DEFINE c == n + 1
             r == Str!Resize(x, c, granted)
  <2>1. c \in Nat /\ c > n /\ Len(t) <= c
    BY <1>1
  <2>2. RoomFor(x, n, granted) = r
    BY <1>2 DEF RoomFor
  <2> HIDE DEF c
  <2>3. Resized(x, t, c, granted, r)
    BY <2>1, ResizeIs
  <2> HIDE DEF r
  <2> QED BY <2>1, <2>2, <2>3 DEF Resized, Given
<1>3. CASE ~(x.da = <<>> \/ Str!GetCapacity(x) < n)
  <2>1. RoomFor(x, n, granted) = Str!Result(x, "ok") /\ Len(x.da) > n
    BY <1>1, <1>3 DEF RoomFor
  <2> QED BY <2>1 DEF Given, Str!Result
<1> QED BY <1>2, <1>3

(* What vsnprintf writes: the characters that fit, and the terminator.     *)
Written(x, t, cs, k) == Str!Put(x.da, Len(t), SubSeq(cs, 1, k) \o <<Nul>>)

(* All of them.                                                            *)
LEMMA WrittenAll ==
  ASSUME NEW x, NEW t, Carries(x, t), NEW cs \in Seq(Chars), Len(t) + Len(cs) < Len(x.da)
  PROVE  Reads([da |-> Written(x, t, cs, Len(cs)), len |-> Len(t) + Len(cs)], t \o cs)
<1> DEFINE z == Len(cs)
           y == Len(t)
           n == y + z
           nul == <<Nul>>
           ws == cs \o nul
           d == Str!Put(x.da, y, ws)
           q == t \o cs
           m == [da |-> d, len |-> n]
<1>1. /\ x.da \in Seq(Byte) /\ Len(x.da) \in Nat
      /\ y \in Nat /\ t \in Seq(Chars)
      /\ \A k \in 1..y : x.da[k] = t[k]
  BY CarriesIs
<1>2. z \in Nat /\ cs \in Seq(Byte) /\ n \in Nat /\ SubSeq(cs, 1, z) = cs
  <2>1. z \in Nat /\ cs \in Seq(Byte)
    BY LenProperties, CharsAreBytes
  <2>2. /\ SubSeq(cs, 1, z) \in Seq(Chars) /\ Len(SubSeq(cs, 1, z)) = z
        /\ \A k \in 1..z : SubSeq(cs, 1, z)[k] = cs[k]
    BY <2>1, PartIs, 0 \in Nat, 0 + 1 = 1
  <2>3. SubSeq(cs, 1, z) = cs
    <3> DEFINE p == SubSeq(cs, 1, z)
    <3> HIDE DEF p
    <3>1. p = cs
      BY <2>2, SameSeq DEF p
    <3> QED BY <3>1 DEF p
  <2> QED BY <1>1, <2>1, <2>3
<1>3. nul \in Seq(Byte) /\ Len(nul) = 1 /\ nul[1] = Nul
  BY DEF Byte
<1> HIDE DEF nul
<1>4. /\ ws \in Seq(Byte) /\ Len(ws) = z + 1
      /\ \A k \in 1..(z + 1) : ws[k] = IF k <= z THEN cs[k] ELSE nul[k - z]
  <2>1. /\ ws \in Seq(Byte) /\ Len(ws) = z + Len(nul)
        /\ \A k \in 1..(z + Len(nul)) : ws[k] = IF k <= z THEN cs[k] ELSE nul[k - z]
    BY <1>2, <1>3, ConcatProperties
  <2> HIDE DEF ws, z
  <2> QED BY <1>3, <2>1
<1> HIDE DEF ws
<1>5. /\ d \in Seq(Byte) /\ Len(d) = Len(x.da)
      /\ \A k \in 1..Len(x.da) : d[k] = IF y < k /\ k <= y + (z + 1) THEN ws[k - y] ELSE x.da[k]
  <2>1. y + Len(ws) <= Len(x.da)
    BY <1>1, <1>2, <1>4
  <2>2. /\ d \in Seq(Byte) /\ Len(d) = Len(x.da)
        /\ \A k \in 1..Len(x.da) : d[k] = IF y < k /\ k <= y + Len(ws) THEN ws[k - y] ELSE x.da[k]
    BY <1>1, <1>4, <2>1, PutIs
  <2> HIDE DEF d, y, z
  <2> QED BY <1>4, <2>2
<1> HIDE DEF d
<1>6. /\ q \in Seq(Chars) /\ Len(q) = n
      /\ \A k \in 1..n : q[k] = IF k <= y THEN t[k] ELSE cs[k - y]
  BY <1>1, ConcatProperties
<1> HIDE DEF q
<1>7. ASSUME NEW k \in 1..n PROVE d[k] = q[k]
  <2>1. k \in 1..Len(x.da) /\ k \in Nat
    BY <1>1, <1>2
  <2>2. CASE k <= y
    BY <1>1, <1>2, <1>5, <1>6, <2>1, <2>2
  <2>3. CASE ~(k <= y)
    <3>1. y < k /\ k <= y + (z + 1) /\ k - y \in 1..(z + 1) /\ k - y <= z
      BY <1>1, <1>2, <2>1, <2>3
    <3> QED BY <1>4, <1>5, <1>6, <2>1, <2>3, <3>1
  <2> QED BY <2>2, <2>3
<1>8. n + 1 \in 1..Len(x.da) /\ n < Len(x.da)
  BY <1>1, <1>2
<1>9. d[n + 1] = Nul
  <2>1. y < n + 1 /\ n + 1 <= y + (z + 1) /\ (n + 1) - y = z + 1 /\ z + 1 \in 1..(z + 1)
        /\ ~(z + 1 <= z) /\ (z + 1) - z = 1
    BY <1>1, <1>2
  <2>2. d[n + 1] = ws[z + 1]
    BY <1>5, <1>8, <2>1
  <2>3. ws[z + 1] = nul[1]
    BY <1>4, <2>1
  <2> QED BY <1>3, <2>2, <2>3
<1>10. Carries(m, q)
  <2> HIDE DEF n
  <2>1. m \in Blocks
    BY <1>2, <1>5 DEF Blocks
  <2> QED BY <1>2, <1>5, <1>6, <1>7, <1>8, <2>1 DEF Carries
<1>11. Ended(m)
  BY <1>5, <1>8, <1>9 DEF Ended
<1>12. Written(x, t, cs, z) = d
  BY <1>2 DEF Written, d, ws, nul
<1> QED BY <1>10, <1>11, <1>12 DEF Reads, q

(* Some of them: the text before them stays.                               *)
LEMMA WrittenSome ==
  ASSUME NEW x, NEW t, Carries(x, t), NEW cs \in Seq(Chars), NEW k \in Nat, k <= Len(cs),
         Len(t) + k < Len(x.da)
  PROVE  Carries([da |-> Written(x, t, cs, k), len |-> Len(t)], t)
<1> DEFINE c == SubSeq(cs, 1, k)
           y == Len(t)
<1>1. /\ x.da \in Seq(Byte) /\ Len(x.da) \in Nat
      /\ y \in Nat /\ t \in Seq(Chars) /\ y <= Len(x.da)
      /\ \A j \in 1..y : x.da[j] = t[j]
  BY CarriesIs
<1>2. c \in Seq(Chars) /\ Len(c) = k
  BY PartIs, 0 \in Nat, 0 + 1 = 1
<1> HIDE DEF c
<1> DEFINE d == Str!Put(x.da, y, c \o <<Nul>>)
<1>3. c \o <<Nul>> \in Seq(Byte) /\ Len(c \o <<Nul>>) = k + 1
  <2>1. c \in Seq(Byte) /\ <<Nul>> \in Seq(Byte)
    BY <1>2, CharsAreBytes DEF Byte
  <2> QED BY <1>2, <2>1
<1>4. /\ d \in Seq(Byte) /\ Len(d) = Len(x.da)
      /\ \A j \in 1..Len(x.da) :
           d[j] = IF y < j /\ j <= y + Len(c \o <<Nul>>) THEN (c \o <<Nul>>)[j - y] ELSE x.da[j]
  <2> DEFINE ws == c \o <<Nul>>
  <2>1. y + Len(ws) <= Len(x.da)
    BY <1>1, <1>3
  <2>2. ws \in Seq(Byte)
    BY <1>3
  <2> HIDE DEF ws
  <2>3. /\ Str!Put(x.da, y, ws) \in Seq(Byte) /\ Len(Str!Put(x.da, y, ws)) = Len(x.da)
        /\ \A j \in 1..Len(x.da) :
             Str!Put(x.da, y, ws)[j] = IF y < j /\ j <= y + Len(ws) THEN ws[j - y] ELSE x.da[j]
    BY <1>1, <2>1, <2>2, PutIs
  <2> QED BY <2>3 DEF ws
<1> HIDE DEF d
<1>5. \A j \in 1..y : d[j] = t[j]
  BY <1>1, <1>4
<1>6. Carries([da |-> d, len |-> y], t)
  <2>1. [da |-> d, len |-> y] \in Blocks
    BY <1>1, <1>4 DEF Blocks
  <2> QED BY <1>1, <1>4, <1>5, <2>1 DEF Carries
<1> QED BY <1>6 DEF Written, d, c

(* A formatting whose second request is granted.                           *)
LEMMA FormattedIs ==
  ASSUME NEW m, NEW t, Reads(m, t), NEW hint \in Nat, NEW cs \in Seq(Chars), NEW granted,
         NEW again, again
  PROVE  Made(Str!Formatted(m, hint, cs, granted, again), t \o cs, t)
<1> DEFINE first == IF hint # 0 THEN hint ELSE DefaultHint - 1
           z == Len(cs)
           y == Len(t)
           r1 == RoomFor(m, y + first, granted)
           k == Str!Least(first, z)
           cut == [da |-> Written(r1.mem, t, cs, k), len |-> y]
           r2 == RoomFor(cut, y + z, again)
           Done(x, n) == Str!Result([da |-> Written(x, t, cs, Str!Least(n, z)), len |-> y + z], "ok")
<1>1. /\ m = [da |-> m.da, len |-> m.len]
      /\ m.len = y /\ y \in Nat /\ t \in Seq(Chars) /\ z \in Nat
  BY ReadsIs, LenProperties
<1>2. first \in Nat /\ y + first \in Nat /\ y <= y + first
  BY <1>1, LengthsAssumption
<1>3. Given(m, t, y + first, granted, r1)
  <2> DEFINE n == y + first
  <2>1. n \in Nat /\ Len(t) <= n
    BY <1>2
  <2> HIDE DEF n
  <2>2. Given(m, t, n, granted, RoomFor(m, n, granted))
    BY <2>1, RoomForIs DEF Reads
  <2> QED BY <2>2 DEF n
<1>4. [m EXCEPT !.da = Written(r1.mem, t, cs, k)] = cut
  BY <1>1
<1> HIDE DEF first, k, cut, r1
<1>5. Str!Formatted(m, hint, cs, granted, again) =
        IF r1.err # "ok" THEN r1
        ELSE IF cs = <<>> THEN Str!Result(cut, "invalid")
        ELSE IF z <= first THEN Done(r1.mem, first)
        ELSE IF r2.err # "ok" THEN r2
        ELSE Done(r2.mem, z)
  BY <1>1, <1>4, Zenon DEF Str!Formatted, RoomFor, Written, first, k, r1
<1> HIDE DEF r2
<1>6. CASE r1.err # "ok"
  BY <1>3, <1>5, <1>6 DEF Given, Made, Reads
<1>7. ASSUME r1.err = "ok" PROVE Carries(r1.mem, t) /\ Len(r1.mem.da) > y + first
             /\ Len(r1.mem.da) \in Nat
  <2>1. Carries(r1.mem, t) /\ Len(r1.mem.da) > y + first
    BY <1>3, <1>7 DEF Given
  <2> QED BY <2>1, CarriesIs
<1>8. ASSUME NEW x, NEW n, Carries(x, t), Len(x.da) > y + z, Str!Least(n, z) = z
      PROVE  Made(Done(x, n), t \o cs, t)
  <2> DEFINE w == [da |-> Written(x, t, cs, z), len |-> y + z]
  <2>1. Len(x.da) \in Nat
    BY <1>8, CarriesIs
  <2>2. Reads(w, t \o cs)
    BY <1>1, <1>8, <2>1, WrittenAll
  <2> HIDE DEF w
  <2>3. Made(Str!Result(w, "ok"), t \o cs, t)
    BY <2>2, MadeIs
  <2> QED BY <1>8, <2>3 DEF w
<1>9. CASE r1.err = "ok" /\ cs = <<>>
  <2>1. k = z /\ z = 0
    BY <1>1, <1>2, <1>9, EmptySeq DEF k, Str!Least
  <2>2. Len(t) + Len(cs) < Len(r1.mem.da)
    BY <1>1, <1>2, <1>7, <1>9, <2>1
  <2>3. Reads([da |-> Written(r1.mem, t, cs, z), len |-> y + z], t \o cs)
    BY <1>7, <1>9, <2>2, WrittenAll
  <2>4. t \o cs = t /\ y + z = y
    BY <1>1, <1>9, <2>1, ConcatEmpty
  <2>5. Reads(cut, t)
    BY <2>1, <2>3, <2>4 DEF cut
  <2>6. Made(Str!Result(cut, "invalid"), t \o cs, t)
    BY <2>5, MadeIs
  <2> QED BY <1>5, <1>9, <2>6
<1>10. CASE r1.err = "ok" /\ cs # <<>> /\ z <= first
  <2>1. Str!Least(first, z) = z /\ Len(r1.mem.da) > y + z
    BY <1>1, <1>2, <1>7, <1>10 DEF Str!Least
  <2>2. Made(Done(r1.mem, first), t \o cs, t)
    BY <1>7, <1>8, <1>10, <2>1
  <2> QED BY <1>5, <1>10, <2>2
<1>11. CASE r1.err = "ok" /\ cs # <<>> /\ ~(z <= first)
  <2>1. k = first /\ k \in Nat /\ k <= z
    BY <1>1, <1>2, <1>11 DEF k, Str!Least
  <2>2. Len(t) + k < Len(r1.mem.da)
    BY <1>1, <1>7, <1>11, <2>1
  <2>3. Carries(cut, t)
    BY <1>7, <1>11, <2>1, <2>2, WrittenSome DEF cut
  <2>4. Given(cut, t, y + z, again, r2)
    <3> DEFINE n == y + z
    <3>1. n \in Nat /\ Len(t) <= n
      BY <1>1
    <3> HIDE DEF n
    <3>2. Given(cut, t, n, again, RoomFor(cut, n, again))
      BY <2>3, <3>1, RoomForIs
    <3> QED BY <3>2 DEF n, r2
  <2>5. r2.err = "ok" /\ Carries(r2.mem, t) /\ Len(r2.mem.da) > y + z
    BY <2>4 DEF Given
  <2>6. Str!Least(z, z) = z
    BY DEF Str!Least
  <2>7. Made(Done(r2.mem, z), t \o cs, t)
    BY <1>8, <2>5, <2>6
  <2> QED BY <1>5, <1>11, <2>5, <2>7
<1> QED BY <1>6, <1>9, <1>10, <1>11

(* A file read behind a text.                                              *)
LEMMA FromFileIs ==
  ASSUME NEW m, NEW t, Reads(m, t), NEW cs \in Seq(Chars), NEW limit \in Nat, NEW fifo,
         NEW fails, NEW granted, NEW bytes \in 0..Len(cs), NEW total,
         total = IF limit # 0 THEN Str!Least(Len(cs), limit) ELSE Len(cs),
         bytes <= total, ~fifo => fails \/ bytes = total, fails => fifo
  PROVE  Made(Str!FromFile(m, cs, limit, fifo, bytes, fails, granted),
              t \o SubSeq(cs, 1, bytes), t)
<1> DEFINE c == SubSeq(cs, 1, bytes)
           room == IF fifo THEN bytes ELSE total
           n == m.len + room + 1
           r == IF room + 1 > Len(m.da) - m.len THEN Str!Resize(m, n, granted)
                ELSE Str!Result(m, "ok")
           F == Str!FromFile(m, cs, limit, fifo, bytes, fails, granted)
<1>1. /\ m.da \in Seq(Byte) /\ Len(m.da) \in Nat
      /\ m.len = Len(t) /\ Len(t) \in Nat /\ t \in Seq(Chars)
  BY ReadsIs
<1>2. Len(cs) \in Nat /\ bytes \in Nat /\ total \in Nat
  <2>1. Len(cs) \in Nat
    BY LenProperties
  <2> QED BY <2>1 DEF Str!Least
<1>3. c \in Seq(Chars) /\ Len(c) = bytes
  BY <1>2, PartIs, 0 \in Nat, 0 + 1 = 1
<1>4. room \in Nat /\ bytes <= room /\ n \in Nat /\ Len(t) < n
  BY <1>1, <1>2
<1>5. bytes = 0 => t \o c = t
  BY <1>1, <1>3, EmptySeq, ConcatEmpty
<1> DEFINE w == Str!Terminated(Str!Put(r.mem.da, m.len, c), m.len + bytes)
<1>6. F = IF ~fifo /\ total = 0 THEN Str!Result(m, "ok")
          ELSE IF fifo /\ fails THEN Str!Result(m, "file")
          ELSE IF r.err # "ok" THEN r
          ELSE IF bytes = 0 THEN r
          ELSE Str!Result(w, "ok")
  <2> HIDE DEF w, r
  <2>1. F = IF ~fifo /\ total = 0 THEN Str!Result(m, "ok")
            ELSE IF fifo /\ fails THEN Str!Result(m, "file")
            ELSE IF r.err # "ok" THEN r
            ELSE IF fails THEN Str!Result([m EXCEPT !.da = Str!Put(r.mem.da, m.len, c)], "file")
            ELSE IF bytes = 0 THEN r
            ELSE Str!Result(w, "ok")
    BY DEF Str!FromFile, r, w
  <2> HIDE DEF F, c
  <2> QED BY <2>1
<1> HIDE DEF F, c, w
<1>7. /\ Reads(r.mem, t) /\ (r.err # "ok" => r.mem = m)
      /\ r.err = "ok" => Len(r.mem.da) >= n
  <2> HIDE DEF n
  <2>1. CASE room + 1 > Len(m.da) - m.len
    <3>1. r = Str!Resize(m, n, granted)
      BY <2>1
    <3>2. Resized(m, t, n, granted, r)
      BY <1>1, <1>4, <3>1, ResizeIs DEF Reads
    <3> HIDE DEF r
    <3> QED BY <1>4, <3>2 DEF Resized, Reads
  <2>2. CASE ~(room + 1 > Len(m.da) - m.len)
    <3>1. r = Str!Result(m, "ok") /\ Len(m.da) >= n
      BY <1>1, <1>4, <2>2 DEF n
    <3> HIDE DEF r
    <3> QED BY <3>1 DEF Str!Result
  <2> QED BY <2>1, <2>2
<1> HIDE DEF r
<1>8. CASE ~fifo /\ total = 0
  <2>1. bytes = 0
    BY <1>2, <1>8
  <2>2. Made(Str!Result(m, "ok"), t \o c, t)
    BY <1>5, <2>1, MadeIs
  <2> QED BY <1>6, <1>8, <2>2 DEF F, c
<1>9. CASE ~(~fifo /\ total = 0) /\ fifo /\ fails
  <2>1. Made(Str!Result(m, "file"), t \o c, t)
    BY MadeIs
  <2> QED BY <1>6, <1>9, <2>1 DEF F, c
<1>10. CASE ~(~fifo /\ total = 0) /\ ~(fifo /\ fails) /\ (r.err # "ok" \/ bytes = 0)
  <2>1. F = r
    BY <1>6, <1>10
  <2>2. Made(r, t \o c, t)
    BY <1>5, <1>7, <1>10 DEF Made, Reads
  <2> QED BY <2>1, <2>2 DEF F, c
<1>11. CASE ~(~fifo /\ total = 0) /\ ~(fifo /\ fails) /\ r.err = "ok" /\ bytes # 0
  <2>1. F = Str!Result(w, "ok")
    BY <1>6, <1>11
  <2>2. Len(r.mem.da) \in Nat
    BY <1>7, ReadsIs
  <2>3. Len(t) + Len(c) < Len(r.mem.da)
    BY <1>1, <1>2, <1>3, <1>4, <1>7, <1>11, <2>2
  <2>4. Reads(Str!Terminated(Str!Put(r.mem.da, Len(t), c), Len(t) + Len(c)), t \o c)
    BY <1>3, <1>7, <2>3, WrittenReads
  <2>5. Reads(w, t \o c)
    BY <1>1, <1>3, <2>4 DEF w
  <2>6. Made(Str!Result(w, "ok"), t \o c, t)
    BY <2>5, MadeIs
  <2> QED BY <2>1, <2>6 DEF F, c
<1> QED BY <1>8, <1>9, <1>10, <1>11

(* The places of cs in t from place p on, and the first of them.           *)
Matches(t, cs, p) == {x \in p..(Len(t) - Len(cs)) : SubSeq(t, x + 1, x + Len(cs)) = cs}
First(t, cs, p)   == IF Matches(t, cs, p) = {} THEN Len(t) ELSE Str!Min(Matches(t, cs, p))

(* What the search does at place p, if h is what it finds from later ones. *)
Finding(m, cs, h, p) ==
  LET firsts == {q \in p..(m.len - 1) : m.da[q + 1] = cs[1]}
      q == Str!Min(firsts)
  IN  IF firsts = {} \/ m.len - q < Len(cs) THEN m.len
      ELSE IF Str!Cells(m.da, q + 1, Len(cs) - 1) = Tail(cs) THEN q
      ELSE h[q + 1]

(* A block whose cells in use are t, of characters or not.                 *)
Uses(m, t) ==
  /\ m.da \in Seq(Byte) /\ t \in Seq(Byte)
  /\ m.len = Len(t) /\ Len(t) <= Len(m.da)
  /\ \A k \in 1..Len(t) : m.da[k] = t[k]

(* What the cells that use t consist of.                                   *)
LEMMA UsesIs ==
  ASSUME NEW m, NEW t, Uses(m, t)
  PROVE  /\ m.da \in Seq(Byte) /\ Len(m.da) \in Nat /\ m.len = Len(t) /\ Len(t) \in Nat
         /\ Len(t) <= Len(m.da) /\ t \in Seq(Byte)
         /\ \A k \in 1..Len(t) : m.da[k] = t[k]
BY LenProperties DEF Uses

(* The least of some numbers is one of them and no larger than any.        *)
LEMMA LeastIs ==
  ASSUME NEW S \in SUBSET Nat, S # {}
  PROVE  Str!Min(S) \in S /\ \A y \in S : Str!Min(S) <= y
<1>1. \E x \in S : \A y \in S : x <= y
  BY Smallest
<1> QED BY <1>1 DEF Str!Min

(* A number of the set that is no larger than any is its least.            *)
LEMMA LeastIsThis ==
  ASSUME NEW S \in SUBSET Nat, NEW x \in S, \A y \in S : x <= y
  PROVE  Str!Min(S) = x
<1>1. Str!Min(S) \in S /\ \A y \in S : Str!Min(S) <= y
  BY LeastIs
<1>2. Str!Min(S) \in Nat /\ x \in Nat /\ Str!Min(S) <= x /\ x <= Str!Min(S)
  BY <1>1
<1> QED BY <1>2

(* The rest of a match is compared once its first character is found.      *)
RestCompared(m, t, cs, q) ==
  Str!Cells(m.da, q + 1, Len(cs) - 1) = Tail(cs) <=> SubSeq(t, q + 1, q + Len(cs)) = cs

(* The comparison of what follows a first character that agrees tells if   *)
(* the whole agrees.                                                       *)
LEMMA RestMatches ==
  ASSUME NEW m, NEW t, Uses(m, t), NEW cs \in Seq(Chars), cs # <<>>, NEW q \in Nat,
         q + Len(cs) <= Len(t), m.da[q + 1] = cs[1]
  PROVE  RestCompared(m, t, cs, q)
<1> DEFINE z == Len(cs)
           a == Str!Cells(m.da, q + 1, z - 1)
           b == SubSeq(t, q + 1, q + z)
           r == Tail(cs)
<1>1. /\ m.da \in Seq(Byte) /\ Len(m.da) \in Nat
      /\ Len(t) \in Nat /\ Len(t) <= Len(m.da) /\ t \in Seq(Byte)
      /\ \A k \in 1..Len(t) : m.da[k] = t[k]
  BY UsesIs
<1>2. z \in Nat /\ z >= 1 /\ cs \in Seq(Byte) /\ q + z \in Nat /\ q + 1 \in Nat /\ z - 1 \in Nat
      /\ q + 1 + (z - 1) = q + z /\ (q + z) - q = z
  BY LenProperties, EmptySeq, CharsAreBytes
<1>3. a \in Seq(Byte) /\ Len(a) = z - 1 /\ \A k \in 1..(z - 1) : a[k] = m.da[(q + 1) + k]
  <2> DEFINE at == q + 1
             n == z - 1
  <2>1. at \in Nat /\ n \in Nat /\ at + n <= Len(m.da)
    BY <1>1, <1>2
  <2> HIDE DEF at, n
  <2>2. /\ Str!Cells(m.da, at, n) \in Seq(Byte) /\ Len(Str!Cells(m.da, at, n)) = n
        /\ \A k \in 1..n : Str!Cells(m.da, at, n)[k] = m.da[at + k]
    BY <1>1, <2>1, CellsAre
  <2> QED BY <2>2 DEF at, n
<1>4. b \in Seq(Byte) /\ Len(b) = z /\ \A k \in 1..z : b[k] = t[q + k]
  <2> DEFINE j == q + z
  <2>1. j \in Nat /\ j <= Len(t) /\ q <= j /\ j - q = z
    BY <1>1, <1>2
  <2> HIDE DEF j
  <2>2. /\ SubSeq(t, q + 1, j) \in Seq(Byte)
        /\ Len(SubSeq(t, q + 1, j)) = IF q <= j THEN j - q ELSE 0
        /\ \A k \in 1..(j - q) : SubSeq(t, q + 1, j)[k] = t[q + k]
    BY <1>1, <2>1, PartIs
  <2> QED BY <2>1, <2>2 DEF j
<1>5. r \in Seq(Byte) /\ Len(r) = z - 1 /\ \A k \in 1..(z - 1) : r[k] = cs[k + 1]
  BY <1>2, HeadTailProperties
<1> HIDE DEF a, b, r, z
<1>6. ASSUME a = r PROVE b = cs
  <2>1. ASSUME NEW k \in 1..z PROVE b[k] = cs[k]
    <3>1. q + k \in 1..Len(t) /\ b[k] = m.da[q + k]
      BY <1>1, <1>2, <1>4 DEF z
    <3>2. CASE k = 1
      BY <3>1, <3>2
    <3>3. CASE k # 1
      <4>1. k - 1 \in 1..(z - 1) /\ (q + 1) + (k - 1) = q + k /\ (k - 1) + 1 = k
        BY <1>2, <3>3
      <4> QED BY <1>3, <1>5, <1>6, <3>1, <4>1
    <3> QED BY <3>2, <3>3
  <2> QED BY <1>4, <2>1, SameSeq DEF z
<1>7. ASSUME b = cs PROVE a = r
  <2>1. ASSUME NEW k \in 1..(z - 1) PROVE a[k] = r[k]
    <3>1. /\ (q + 1) + k \in 1..Len(t) /\ (q + 1) + k = q + (k + 1) /\ k + 1 \in 1..z
      BY <1>1, <1>2 DEF z
    <3>2. a[k] = t[q + (k + 1)]
      BY <1>1, <1>3, <3>1
    <3>3. cs[k + 1] = t[q + (k + 1)]
      BY <1>4, <1>7, <3>1
    <3> QED BY <1>5, <3>2, <3>3
  <2> QED BY <1>3, <1>5, <2>1, SameSeq
<1> QED BY <1>6, <1>7 DEF a, b, r, z, RestCompared

---------------------------------------------------------------------------
(* Searching.                                                              *)

(* If it finds what there is from the later places, it does from this one. *)
LEMMA FindingIs ==
  ASSUME NEW m, NEW t, Uses(m, t), NEW cs \in Seq(Chars), cs # <<>>, NEW p \in 0..Len(t),
         NEW h, \A x \in (p + 1)..Len(t) : h[x] = First(t, cs, x)
  PROVE  Finding(m, cs, h, p) = First(t, cs, p)
<1> DEFINE n == Len(t)
           z == Len(cs)
           F == {q \in p..(m.len - 1) : m.da[q + 1] = cs[1]}
           q == Str!Min(F)
           M == Matches(t, cs, p)
<1>1. /\ m.len = n /\ n \in Nat /\ t \in Seq(Byte) /\ p \in Nat /\ p <= n
      /\ \A k \in 1..n : m.da[k] = t[k]
  BY UsesIs
<1>2. z \in Nat /\ z >= 1
  BY LenProperties, EmptySeq
<1>3. F \in SUBSET Nat
  BY <1>1
<1>4. M \in SUBSET Nat
  BY <1>1, <1>2 DEF Matches
<1>5. ASSUME NEW x \in M PROVE x \in F /\ x + z <= n
  <2>1. x \in p..(n - z) /\ SubSeq(t, x + 1, x + z) = cs
    BY DEF Matches
  <2>2. x \in Nat /\ x + z <= n /\ x + z \in Nat /\ x \in p..(n - 1) /\ x + 1 \in 1..n
        /\ 1 \in 1..((x + z) - x)
    BY <1>1, <1>2, <2>1
  <2>3. \A k \in 1..((x + z) - x) : SubSeq(t, x + 1, x + z)[k] = t[x + k]
    <3> DEFINE j == x + z
    <3>1. j \in Nat /\ j <= Len(t)
      BY <2>2
    <3> HIDE DEF j
    <3>2. \A k \in 1..(j - x) : SubSeq(t, x + 1, j)[k] = t[x + k]
      BY <1>1, <2>2, <3>1, PartIs
    <3> QED BY <3>2 DEF j
  <2>4. cs[1] = t[x + 1]
    BY <2>1, <2>2, <2>3
  <2> QED BY <1>1, <2>2, <2>4
<1>6. Finding(m, cs, h, p) =
        IF F = {} \/ m.len - q < z THEN m.len
        ELSE IF Str!Cells(m.da, q + 1, z - 1) = Tail(cs) THEN q
        ELSE h[q + 1]
  BY DEF Finding
<1>7. First(t, cs, p) = IF M = {} THEN n ELSE Str!Min(M)
  BY DEF First
<1>8. ASSUME F # {} PROVE q \in F /\ \A y \in F : q <= y
  <2> HIDE DEF F
  <2> QED BY <1>3, <1>8, LeastIs
<1>9. CASE F = {} \/ m.len - q < z
  <2>1. M = {}
    <3> SUFFICES ASSUME NEW x \in M PROVE FALSE
      OBVIOUS
    <3>1. x \in F /\ x + z <= n
      BY <1>5
    <3>2. q \in F /\ q <= x
      BY <1>8, <3>1
    <3>3. q \in Nat /\ x \in Nat /\ F # {}
      BY <1>3, <3>1, <3>2
    <3> HIDE DEF F, q, M
    <3> QED BY <1>1, <1>2, <1>9, <3>1, <3>2, <3>3
  <2> HIDE DEF M, F, q
  <2> QED BY <1>1, <1>6, <1>7, <1>9, <2>1
<1>10. CASE ~(F = {} \/ m.len - q < z)
  <2>1. q \in F /\ \A y \in F : q <= y
    BY <1>8, <1>10
  <2>2. q \in Nat /\ q \in p..(n - 1) /\ m.da[q + 1] = cs[1] /\ q + z <= n
    <3>1. q \in p..(m.len - 1) /\ m.da[q + 1] = cs[1]
      BY <2>1
    <3> HIDE DEF q
    <3> QED BY <1>1, <1>2, <1>10, <3>1
  <2>3. Str!Cells(m.da, q + 1, z - 1) = Tail(cs) <=> SubSeq(t, q + 1, q + z) = cs
    <3> HIDE DEF q
    <3>1. RestCompared(m, t, cs, q)
      BY <2>2, RestMatches
    <3> QED BY <3>1 DEF RestCompared
  <2>4. \A x \in M : q <= x
    BY <1>5, <2>1
  <2> HIDE DEF q, F
  <2>5. CASE SubSeq(t, q + 1, q + z) = cs
    <3>1. q \in M
      BY <1>1, <1>2, <2>2, <2>5 DEF Matches
    <3>2. Str!Min(M) = q
      <4> HIDE DEF M
      <4> QED BY <1>4, <2>4, <3>1, LeastIsThis
    <3> HIDE DEF M
    <3> QED BY <1>6, <1>7, <1>10, <2>3, <2>5, <3>1, <3>2
  <2>6. CASE SubSeq(t, q + 1, q + z) # cs
    <3>1. M = Matches(t, cs, q + 1)
      <4>1. ASSUME NEW x \in M PROVE x \in Matches(t, cs, q + 1)
        <5>1. x \in p..(n - z) /\ SubSeq(t, x + 1, x + z) = cs /\ q <= x
          BY <2>4 DEF Matches
        <5>2. x # q
          BY <2>6, <5>1
        <5>3. x \in (q + 1)..(n - z)
          BY <1>1, <1>2, <2>2, <5>1, <5>2
        <5> QED BY <5>1, <5>3 DEF Matches
      <4>2. ASSUME NEW x \in Matches(t, cs, q + 1) PROVE x \in M
        <5>1. x \in (q + 1)..(n - z) /\ SubSeq(t, x + 1, x + z) = cs
          BY DEF Matches
        <5>2. x \in p..(n - z)
          BY <1>1, <1>2, <2>2, <5>1
        <5> QED BY <5>1, <5>2 DEF Matches
      <4> QED BY <4>1, <4>2
    <3>2. q + 1 \in (p + 1)..n
      BY <1>1, <2>2
    <3>3. h[q + 1] = First(t, cs, q + 1)
      BY <3>2
    <3>4. First(t, cs, q + 1) = IF Matches(t, cs, q + 1) = {} THEN n ELSE Str!Min(Matches(t, cs, q + 1))
      BY DEF First
    <3> HIDE DEF M
    <3> QED BY <1>6, <1>7, <1>10, <2>3, <2>6, <3>1, <3>3, <3>4
  <2> QED BY <2>5, <2>6
<1> QED BY <1>9, <1>10

(* A search returns the first place of what it looks for, or the length.   *)
LEMMA FindLIs ==
  ASSUME NEW m, NEW t, Uses(m, t), NEW cs \in Seq(Chars), NEW off \in Nat
  PROVE  Str!FindL(m, cs, off) = IF cs = <<>> THEN Len(t) ELSE First(t, cs, off)
<1> DEFINE n == Len(t)
           Finds(f) == f = [p \in 0..m.len |->
                              LET firsts == {q \in p..(m.len - 1) : m.da[q + 1] = cs[1]}
                                  q == Str!Min(firsts)
                              IN  IF firsts = {} \/ m.len - q < Len(cs) THEN m.len
                                  ELSE IF Str!Cells(m.da, q + 1, Len(cs) - 1) = Tail(cs) THEN q
                                  ELSE f[q + 1]]
           find == CHOOSE f : Finds(f)
           g == [p \in 0..n |-> First(t, cs, p)]
<1>1. m.len = n /\ n \in Nat
  BY UsesIs
<1>2. Str!FindL(m, cs, off) = IF cs = <<>> \/ off >= m.len THEN m.len ELSE find[off]
  BY DEF Str!FindL
<1>3. ASSUME NEW f PROVE Finds(f) <=> f = [p \in 0..n |-> Finding(m, cs, f, p)]
  BY <1>1 DEF Finding
<1> HIDE DEF find, Finds
<1>4. CASE cs = <<>>
  BY <1>1, <1>2, <1>4
<1>5. CASE cs # <<>> /\ off >= m.len
  <2>1. Len(cs) \in Nat /\ Len(cs) >= 1
    BY <1>5, LenProperties, EmptySeq
  <2>2. off..(n - Len(cs)) = {}
    BY <1>1, <1>5, <2>1
  <2>3. Matches(t, cs, off) = {}
    BY <2>2 DEF Matches
  <2> QED BY <1>1, <1>2, <1>5, <2>3 DEF First
<1>6. CASE cs # <<>> /\ ~(off >= m.len)
  <2>1. Finds(g)
    <3>1. ASSUME NEW p \in 0..n PROVE g[p] = Finding(m, cs, g, p)
      <4>1. \A x \in (p + 1)..n : x \in 0..n
        BY <1>1
      <4>2. \A x \in (p + 1)..n : g[x] = First(t, cs, x)
        BY <4>1
      <4>3. g[p] = First(t, cs, p)
        OBVIOUS
      <4> HIDE DEF g
      <4> QED BY <1>6, <4>2, <4>3, FindingIs
    <3>2. g = [p \in 0..n |-> g[p]]
      OBVIOUS
    <3> HIDE DEF g
    <3>3. g = [p \in 0..n |-> Finding(m, cs, g, p)]
      BY <3>1, <3>2
    <3> QED BY <1>3, <3>3
  <2>2. Finds(find)
    <3> HIDE DEF g
    <3> QED BY <2>1 DEF find
  <2>3. \A p \in 0..n : find[p] = Finding(m, cs, find, p)
    BY <1>3, <2>2
  <2> DEFINE Bad == {k \in 0..n : find[n - k] # First(t, cs, n - k)}
  <2>4. ASSUME Bad # {} PROVE FALSE
    <3>1. Bad \in SUBSET Nat
      OBVIOUS
    <3>2. PICK k \in Bad : \A j \in Bad : k <= j
      <4> HIDE DEF Bad
      <4> QED BY <2>4, <3>1, Smallest
    <3> DEFINE p == n - k
    <3>3. p \in 0..n /\ k \in Nat
      BY <1>1
    <3>4. ASSUME NEW x \in (p + 1)..n PROVE find[x] = First(t, cs, x)
      <4>1. n - x \in 0..n /\ n - x < k /\ n - (n - x) = x
        BY <1>1, <3>3
      <4>2. n - x \notin Bad
        BY <1>1, <3>2, <3>3, <4>1
      <4> QED BY <4>1, <4>2
    <3>5. find[p] = First(t, cs, p)
      <4> HIDE DEF p
      <4> QED BY <1>6, <2>3, <3>3, <3>4, FindingIs
    <3>6. find[p] # First(t, cs, p)
      OBVIOUS
    <3> QED BY <3>5, <3>6
  <2>5. n - off \in 0..n /\ n - (n - off) = off
    BY <1>1, <1>6
  <2>6. find[off] = First(t, cs, off)
    BY <2>4, <2>5
  <2> QED BY <1>2, <1>6, <2>6
<1> QED BY <1>4, <1>5, <1>6

(* A search tells the first place of what it looks for, as FindIsTrue has  *)
(* it.                                                                     *)
LEMMA FindsTruly ==
  ASSUME Carries(mem, text), NEW cs \in Seq(Chars), NEW off \in Nat
  PROVE  Str!FindIsTrue(cs, off)
<1>1. Str!FindL(mem, cs, off) = IF cs = <<>> THEN Len(text) ELSE First(text, cs, off)
  <2>1. Uses(mem, text)
    BY CarriesIs DEF Uses
  <2> QED BY <2>1, FindLIs
<1> QED BY <1>1 DEF Str!FindIsTrue, First, Matches

(* A buffer that is handed over reads as what was written in it.           *)
LEMMA TransferIs ==
  ASSUME NEW cs \in Seq(Chars)
  PROVE  Made(Str!Result(Str!Terminated(cs \o <<Junk>>, Len(cs)), "ok"), cs, cs)
<1> DEFINE x == Str!Terminated(cs \o <<Junk>>, Len(cs))
<1>1. Reads(x, cs)
  BY BufferReads
<1> HIDE DEF x
<1> QED BY <1>1, MadeIs DEF x

(* A formatted text inserted: inside it is formatted on its own, and it is *)
(* appended behind the last character.                                     *)
LEMMA InsertVaIs ==
  ASSUME NEW m, NEW t, Reads(m, t), NEW i \in Nat, i # m.len - 1, NEW hint \in Nat,
         NEW cs \in Seq(Chars), NEW granted, NEW again, again, NEW new,
         new = Str!Formatted(Str!NoBlock, hint, cs, granted, again)
  PROVE  Made(IF i < m.len - 1
                THEN IF new.err # "ok" THEN Str!Result(m, new.err)
                     ELSE Str!Inserted(m, i, SubSeq(new.mem.da, 1, new.mem.len), granted)
                ELSE Str!Formatted(m, hint, cs, granted, again),
              Str!Splice(t, Str!Least(i, m.len), 0, cs), t)
<1>1. m.len = Len(t) /\ Len(t) \in Nat /\ t \in Seq(Chars)
  BY ReadsIs
<1>2. CASE i < m.len - 1 /\ new.err # "ok"
  <2> DEFINE e == new.err
             q == Str!Splice(t, Str!Least(i, m.len), 0, cs)
  <2>1. Made(Str!Result(m, e), q, t)
    <3>1. e # "ok"
      BY <1>2
    <3> HIDE DEF e, q
    <3> QED BY <3>1, MadeIs
  <2> QED BY <1>2, <2>1
<1>3. CASE i < m.len - 1 /\ new.err = "ok"
  <2>1. Made(new, <<>> \o cs, <<>>)
    BY NoBlockIs, FormattedIs DEF Reads
  <2>2. Reads(new.mem, cs)
    BY <1>3, <2>1, ConcatEmpty DEF Made, Reads
  <2>3. SubSeq(new.mem.da, 1, new.mem.len) = cs
    BY <2>2, PartIsText DEF Reads
  <2>4. Made(Str!Inserted(m, i, cs, granted), Str!Splice(t, Str!Least(i, Len(t)), 0, cs), t)
    BY InsertedIs
  <2> QED BY <1>1, <1>3, <2>3, <2>4
<1>4. CASE ~(i < m.len - 1)
  <2>1. i >= Len(t)
    BY <1>1, <1>4
  <2>2. Str!Least(i, m.len) = Len(t)
    BY <1>1, <2>1 DEF Str!Least
  <2>3. Str!Splice(t, Len(t), 0, cs) = t \o cs
    BY <1>1, SpliceAtEnd
  <2>4. Made(Str!Formatted(m, hint, cs, granted, again), t \o cs, t)
    BY FormattedIs
  <2> QED BY <1>4, <2>2, <2>3, <2>4
<1> QED BY <1>2, <1>3, <1>4

(* The failures of formatting, of reading files and of the allocator of    *)
(* matches that the code does not undo do not happen, and if a char is     *)
(* signed no string is longer than the values of a char that are not       *)
(* negative: 128 characters of eight bits.                                 *)
Undone ==
  /\ Faults \cap {"format", "file", "matches"} = {}
  /\ "signed" \in Faults => 2 * MaxLen <= CharValues

(* A string's step that is not a replacement.                              *)
Plain == Str!StringNext(Strings(2), SUBSET Chars, Funcs, Hints, {}, {})

(* Every step of a string that is not a replacement leaves it terminated   *)
(* and holding what its edits make of it.                                  *)
LEMMA PlainStep ==
  ASSUME Undone, Reads(mem, text), Len(text) <= MaxReplaced, Plain
  PROVE  Carries(mem', text') /\ Ended(mem') /\ Len(text') <= MaxLen
<1> DEFINE G == Carries(mem', text') /\ Ended(mem') /\ Len(text') <= MaxLen
<1>1. /\ mem.len = Len(text) /\ Len(text) \in Nat /\ text \in Seq(Chars)
      /\ MaxLen \in Nat /\ MaxReplaced \in Nat /\ MaxLen <= MaxReplaced
      /\ mem.da \in Seq(Byte) /\ Carries(mem, text)
  BY ReadsIs, WordAssumption DEF Reads
<1>2. \A i \in Str!Places : i \in Nat /\ i \in 0..(MaxReplaced + 1)
  BY <1>1 DEF Str!Places
<1>3. \A cs \in Strings(2) : cs \in Seq(Chars)
  BY StringsAre, 2 \in Nat
<1>4. \A h \in Hints : h \in Nat
  BY LengthsAssumption
<1> DEFINE none == Str!Cleared(mem)
<1>5. Reads(none, <<>>)
  BY <1>1, NothingReads
<1>6. \A cs \in Strings(2) : <<>> \o cs = cs
  BY <1>3, ConcatEmpty
<1> HIDE DEF none
<1>7. CASE Str!Clear
  <2>1. Str!DoesString(Str!Result(none, "ok"), <<>>, <<>>)
    BY <1>7 DEF Str!Clear, none
  <2>2. Made(Str!Result(none, "ok"), <<>>, <<>>)
    BY <1>5, MadeIs
  <2> QED BY <2>1, <2>2, DoesStringIs
<1>8. CASE Str!Destroy
  <2>1. Str!DoesString(Str!Capacitated(none, 0, TRUE), <<>>, <<>>)
    BY <1>8 DEF Str!Destroy, none
  <2>2. Made(Str!Capacitated(none, 0, TRUE), <<>>, <<>>)
    BY <1>5, CapacitatedIs, 0 \in Nat
  <2> QED BY <2>1, <2>2, DoesStringIs
<1>9. ASSUME NEW cs \in Strings(2), Str!Transfer(cs) PROVE G
  <2> DEFINE r == Str!Result(Str!Terminated(cs \o <<Junk>>, Len(cs)), "ok")
  <2>1. Str!DoesString(r, cs, cs)
    BY <1>9 DEF Str!Transfer
  <2>2. Made(r, cs, cs)
    BY <1>3, TransferIs
  <2> HIDE DEF r
  <2> QED BY <2>1, <2>2, DoesStringIs
<1>10. ASSUME NEW i \in Str!Places, NEW n \in Str!Places, Str!Erase(i, n) PROVE G
  <2> DEFINE r == Str!Erased(mem, i, n)
             q == Str!Splice(text, i, n, <<>>)
  <2>1. Str!DoesString(r, q, text)
    BY <1>10 DEF Str!Erase
  <2>2. Made(r, q, text)
    BY <1>2, ErasedIs
  <2> HIDE DEF r, q
  <2> QED BY <2>1, <2>2, DoesStringIs
<1>11. ASSUME NEW n \in Str!Places, Str!EraseTail(n) PROVE G
  <2> DEFINE r == Str!ErasedTail(mem, n)
             q == SubSeq(text, 1, Len(text) - n)
  <2>1. Str!DoesString(r, q, text)
    BY <1>1, <1>11 DEF Str!EraseTail
  <2>2. Made(r, q, text)
    BY <1>2, ErasedTailIs
  <2> HIDE DEF r, q
  <2> QED BY <2>1, <2>2, DoesStringIs
<1>12. ASSUME NEW atHead \in BOOLEAN, NEW atTail \in BOOLEAN, NEW class,
              Str!EraseWhile(atHead, atTail, class)
       PROVE  G
  <2> DEFINE r == Str!Trimmed(mem, atHead, atTail, class)
             ht == IF atHead THEN SubSeq(text, Str!AtHead(text, class) + 1, mem.len) ELSE text
             q == IF atTail THEN SubSeq(ht, 1, Len(ht) - Str!AtTail(ht, class)) ELSE ht
  <2>1. Str!DoesString(r, q, text)
    BY <1>12 DEF Str!EraseWhile
  <2>2. Made(r, q, text)
    <3> HIDE DEF ht
    <3> QED BY TrimmedIs DEF ht
  <2> HIDE DEF r, q
  <2> QED BY <2>1, <2>2, DoesStringIs
<1>13. ASSUME NEW fn \in Funcs, NEW i \in Str!Places, NEW j \in Str!Places, Str!Apply(fn, i, j)
       PROVE  G
  <2> DEFINE r == Str!Applied(mem, fn, i, j)
             q == [k \in DOMAIN text |-> IF k > i /\ k <= j THEN fn[text[k]] ELSE text[k]]
  <2>1. Str!DoesString(r, q, text)
    BY <1>13 DEF Str!Apply
  <2>2. Made(r, q, text)
    BY <1>2, AppliedIs DEF Funcs
  <2> HIDE DEF r, q
  <2> QED BY <2>1, <2>2, DoesStringIs
<1>14. ASSUME NEW granted \in BOOLEAN, NEW n \in Str!Places, Str!SetCapacity(n, granted) PROVE G
  <2> DEFINE r == Str!Capacitated(mem, n, granted)
  <2>1. Str!DoesString(r, text, text)
    BY <1>14 DEF Str!SetCapacity
  <2>2. Made(r, text, text)
    BY <1>2, CapacitatedIs
  <2> HIDE DEF r
  <2> QED BY <2>1, <2>2, DoesStringIs
<1>15. ASSUME NEW granted \in BOOLEAN, NEW cs \in Strings(2), Str!SetL(cs, granted) PROVE G
  <2> DEFINE r == Str!Appended(none, cs, granted)
  <2>1. Str!DoesString(r, cs, <<>>)
    BY <1>15 DEF Str!SetL, none
  <2>2. Made(r, cs, <<>>)
    <3>1. Made(r, <<>> \o cs, <<>>)
      BY <1>3, <1>5, AppendedIs
    <3> QED BY <1>6, <3>1
  <2> HIDE DEF r
  <2> QED BY <2>1, <2>2, DoesStringIs
<1>16. ASSUME NEW granted \in BOOLEAN, NEW cs \in Strings(2), Str!AppendL(cs, granted) PROVE G
  <2> DEFINE r == Str!Appended(mem, cs, granted)
             q == text \o cs
  <2>1. Str!DoesString(r, q, text)
    BY <1>16 DEF Str!AppendL
  <2>2. Made(r, q, text)
    BY <1>3, AppendedIs
  <2> HIDE DEF r, q
  <2> QED BY <2>1, <2>2, DoesStringIs
<1>17. ASSUME NEW granted \in BOOLEAN, NEW cs \in Strings(2), NEW i \in Str!Places,
              Str!InsertL(i, cs, granted)
       PROVE  G
  <2> DEFINE r == Str!Inserted(mem, i, cs, granted)
             q == Str!Splice(text, Str!Least(i, Len(text)), 0, cs)
  <2>1. Str!DoesString(r, q, text)
    BY <1>1, <1>17 DEF Str!InsertL
  <2>2. Made(r, q, text)
    BY <1>2, <1>3, InsertedIs
  <2> HIDE DEF r, q
  <2> QED BY <2>1, <2>2, DoesStringIs
<1>18. ASSUME NEW granted \in BOOLEAN, NEW cs \in Strings(2), NEW hint \in Hints,
              NEW again \in BOOLEAN, Str!AppendVa(hint, cs, granted, again)
       PROVE  G
  <2> DEFINE r == Str!Formatted(mem, hint, cs, granted, again)
             q == text \o cs
  <2>1. Str!DoesString(r, q, text) /\ again
    BY <1>18 DEF Str!AppendVa, Undone
  <2>2. Made(r, q, text)
    BY <1>3, <1>4, <2>1, FormattedIs
  <2> HIDE DEF r, q
  <2> QED BY <2>1, <2>2, DoesStringIs
<1>19. ASSUME NEW granted \in BOOLEAN, NEW cs \in Strings(2), NEW hint \in Hints,
              NEW again \in BOOLEAN, Str!SetVa(hint, cs, granted, again)
       PROVE  G
  <2> DEFINE r == Str!Formatted(none, hint, cs, granted, again)
  <2>1. Str!DoesString(r, cs, <<>>) /\ again
    BY <1>19 DEF Str!SetVa, Undone, none
  <2>2. Made(r, cs, <<>>)
    <3>1. Made(r, <<>> \o cs, <<>>)
      BY <1>3, <1>4, <1>5, <2>1, FormattedIs
    <3> QED BY <1>6, <3>1
  <2> HIDE DEF r
  <2> QED BY <2>1, <2>2, DoesStringIs
<1>20. ASSUME NEW granted \in BOOLEAN, NEW cs \in Strings(2), NEW hint \in Hints,
              NEW again \in BOOLEAN, NEW i \in Str!Places,
              Str!InsertVa(i, hint, cs, granted, again)
       PROVE  G
  <2> DEFINE new == Str!Formatted(Str!NoBlock, hint, cs, granted, again)
             r == IF i < mem.len - 1
                    THEN IF new.err # "ok" THEN Str!Result(mem, new.err)
                         ELSE Str!Inserted(mem, i, SubSeq(new.mem.da, 1, new.mem.len), granted)
                    ELSE Str!Formatted(mem, hint, cs, granted, again)
             q == Str!Splice(text, Str!Least(i, mem.len), 0, cs)
  <2>1. Str!DoesString(r, q, text) /\ again /\ i # mem.len - 1
    BY <1>20 DEF Str!InsertVa, Undone
  <2>2. Made(r, q, text)
    <3> HIDE DEF new
    <3> QED BY <1>2, <1>3, <1>4, <2>1, InsertVaIs DEF new
  <2> HIDE DEF r, q
  <2> QED BY <2>1, <2>2, DoesStringIs
<1>21. ASSUME NEW granted \in BOOLEAN, NEW cs \in Strings(2), NEW limit \in {0, 1},
              NEW fifo \in BOOLEAN, NEW fails \in BOOLEAN, NEW bytes \in 0..Len(cs),
              Str!AppendFile(cs, limit, fifo, bytes, fails, granted)
       PROVE  G
  <2> DEFINE r == Str!FromFile(mem, cs, limit, fifo, bytes, fails, granted)
             q == text \o SubSeq(cs, 1, bytes)
             total == IF limit # 0 THEN Str!Least(Len(cs), limit) ELSE Len(cs)
  <2>1. /\ Str!DoesString(r, q, text)
        /\ bytes <= total /\ (~fifo => fails \/ bytes = total) /\ (fails => fifo)
    BY <1>21 DEF Str!AppendFile, Undone
  <2>2. Made(r, q, text)
    <3>1. limit \in Nat
      OBVIOUS
    <3> HIDE DEF total
    <3> QED BY <1>3, <2>1, <3>1, FromFileIs DEF total
  <2> HIDE DEF r, q
  <2> QED BY <2>1, <2>2, DoesStringIs
<1> HIDE DEF G
<1>22. G
  BY <1>7, <1>8, <1>9, <1>10, <1>11, <1>12, <1>13, <1>14, <1>15, <1>16, <1>17, <1>18, <1>19,
     <1>20, <1>21 DEF Plain, Str!StringNext, G
<1> QED BY <1>22 DEF G

(* The cells of da behind place w are s.                                   *)
Shows(da, w, s) ==
  /\ w + Len(s) <= Len(da)
  /\ \A k \in 1..Len(s) : da[w + k] = s[k]

---------------------------------------------------------------------------
(* What is written while a text is replaced, and what stays.               *)

(* Two parts, one behind the other.                                        *)
LEMMA ShowsParts ==
  ASSUME NEW da \in Seq(Byte), NEW w \in Nat, NEW a \in Seq(Byte), NEW b \in Seq(Byte)
  PROVE  Shows(da, w, a \o b) = (Shows(da, w, a) /\ Shows(da, w + Len(a), b))
<1> DEFINE y == Len(a)
           z == Len(b)
           c == a \o b
<1>1. y \in Nat /\ z \in Nat /\ Len(da) \in Nat
  BY LenProperties
<1>2. /\ c \in Seq(Byte) /\ Len(c) = y + z
      /\ \A k \in 1..(y + z) : c[k] = IF k <= y THEN a[k] ELSE b[k - y]
  BY ConcatProperties
<1> HIDE DEF c
<1>3. ASSUME Shows(da, w, c) PROVE Shows(da, w, a) /\ Shows(da, w + y, b)
  <2>1. w + (y + z) <= Len(da) /\ \A k \in 1..(y + z) : da[w + k] = c[k]
    BY <1>2, <1>3 DEF Shows
  <2> HIDE DEF y, z
  <2>2. \A k \in 1..y : da[w + k] = a[k]
    BY <1>1, <1>2, <2>1
  <2>3. ASSUME NEW k \in 1..z PROVE da[(w + y) + k] = b[k]
    <3>1. y + k \in 1..(y + z) /\ w + (y + k) = (w + y) + k /\ ~(y + k <= y) /\ (y + k) - y = k
      BY <1>1
    <3> QED BY <1>2, <2>1, <3>1
  <2>4. w + y <= Len(da) /\ (w + y) + z <= Len(da)
    BY <1>1, <2>1
  <2> QED BY <2>2, <2>3, <2>4 DEF Shows, y, z
<1>4. ASSUME Shows(da, w, a), Shows(da, w + y, b) PROVE Shows(da, w, c)
  <2>1. /\ (w + y) + z <= Len(da) /\ \A k \in 1..y : da[w + k] = a[k]
        /\ \A k \in 1..z : da[(w + y) + k] = b[k]
    BY <1>4 DEF Shows
  <2> HIDE DEF y, z
  <2>2. ASSUME NEW k \in 1..(y + z) PROVE da[w + k] = c[k]
    <3>1. CASE k <= y
      BY <1>1, <1>2, <2>1, <3>1
    <3>2. CASE ~(k <= y)
      <4>1. k - y \in 1..z /\ (w + y) + (k - y) = w + k
        BY <1>1, <3>2
      <4> QED BY <1>2, <2>1, <3>2, <4>1
    <3> QED BY <3>1, <3>2
  <2>3. w + Len(c) <= Len(da)
    BY <1>1, <1>2, <2>1
  <2> QED BY <1>2, <2>2, <2>3 DEF Shows
<1> QED BY <1>3, <1>4 DEF c, Shows

(* n cells of da behind place at written: the others stay.                 *)
Wrote(da, at, n, new) ==
  /\ new \in Seq(Byte) /\ Len(new) = Len(da)
  /\ \A k \in 1..Len(da) : k <= at \/ at + n < k => new[k] = da[k]

(* Cells that show s go on showing it when others are written.             *)
LEMMA StaysShown ==
  ASSUME NEW da \in Seq(Byte), NEW new, NEW at \in Nat, NEW n \in Nat, Wrote(da, at, n, new),
         NEW w \in Nat, NEW s \in Seq(Byte), Shows(da, w, s), w + Len(s) <= at \/ at + n <= w
  PROVE  Shows(new, w, s)
<1>1. Len(s) \in Nat /\ Len(da) \in Nat
  BY LenProperties
<1>2. ASSUME NEW k \in 1..Len(s) PROVE new[w + k] = s[k]
  <2>1. w + k \in 1..Len(da) /\ (w + k <= at \/ at + n < w + k)
    BY <1>1 DEF Shows
  <2> QED BY <2>1 DEF Shows, Wrote
<1> QED BY <1>2 DEF Shows, Wrote

(* Putting cells in writes those and no others, and shows them.            *)
LEMMA PutWrote ==
  ASSUME NEW da \in Seq(Byte), NEW cs \in Seq(Byte), NEW at \in Nat, at + Len(cs) <= Len(da)
  PROVE  Wrote(da, at, Len(cs), Str!Put(da, at, cs)) /\ Shows(Str!Put(da, at, cs), at, cs)
<1> DEFINE d == Str!Put(da, at, cs)
           z == Len(cs)
<1>1. Len(da) \in Nat /\ z \in Nat /\ at + z <= Len(da)
  BY LenProperties
<1>2. /\ d \in Seq(Byte) /\ Len(d) = Len(da)
      /\ \A k \in 1..Len(da) : d[k] = IF at < k /\ k <= at + z THEN cs[k - at] ELSE da[k]
  BY PutIs
<1> HIDE DEF d, z
<1>3. \A k \in 1..Len(da) : k <= at \/ at + z < k => ~(at < k /\ k <= at + z)
  BY <1>1
<1>4. \A k \in 1..z : at + k \in 1..Len(da) /\ at < at + k /\ at + k <= at + z /\ (at + k) - at = k
  BY <1>1
<1>5. \A k \in 1..z : d[at + k] = cs[k]
  BY <1>2, <1>4
<1> QED BY <1>1, <1>2, <1>3, <1>5 DEF Wrote, Shows, d, z

(* Moving cells writes those it moves to and no others, and shows what was *)
(* moved.                                                                  *)
LEMMA MoveWrote ==
  ASSUME NEW da \in Seq(Byte), NEW to \in Nat, NEW from \in Nat, NEW s \in Seq(Byte),
         NEW n, n = Len(s), to + n <= Len(da), Shows(da, from, s)
  PROVE  Wrote(da, to, n, Str!Move(da, to, from, n)) /\ Shows(Str!Move(da, to, from, n), to, s)
<1> DEFINE d == Str!Move(da, to, from, n)
<1>1. Len(da) \in Nat /\ n \in Nat /\ from + n <= Len(da)
  BY LenProperties DEF Shows
<1>2. /\ d \in Seq(Byte) /\ Len(d) = Len(da)
      /\ \A k \in 1..Len(da) : d[k] = IF to < k /\ k <= to + n THEN da[from + (k - to)] ELSE da[k]
  <2> HIDE DEF d
  <2>1. n \in Nat /\ to + n <= Len(da) /\ from + n <= Len(da)
    BY <1>1
  <2>2. /\ Str!Move(da, to, from, n) \in Seq(Byte) /\ Len(Str!Move(da, to, from, n)) = Len(da)
        /\ \A k \in 1..Len(da) :
             Str!Move(da, to, from, n)[k] = IF to < k /\ k <= to + n THEN da[from + (k - to)] ELSE da[k]
    BY <2>1, MoveIs
  <2> QED BY <2>2 DEF d
<1> HIDE DEF d
<1>3. \A k \in 1..Len(da) : k <= to \/ to + n < k => ~(to < k /\ k <= to + n)
  BY <1>1
<1>4. \A k \in 1..n : to + k \in 1..Len(da) /\ to < to + k /\ to + k <= to + n /\ (to + k) - to = k
  BY <1>1
<1>5. \A k \in 1..n : d[to + k] = da[from + k]
  BY <1>2, <1>4
<1> QED BY <1>1, <1>2, <1>3, <1>5 DEF Wrote, Shows, d

(* What is written twice is written in both places.                        *)
LEMMA WroteWrote ==
  ASSUME NEW da \in Seq(Byte), NEW at \in Nat, NEW n \in Nat, NEW mid, Wrote(da, at, n, mid),
         NEW bt \in Nat, NEW p \in Nat, NEW new, Wrote(mid, bt, p, new), at <= bt, bt <= at + n,
         NEW y \in Nat, y = bt + p - at, n <= y
  PROVE  Wrote(da, at, y, new)
<1>1. Len(da) \in Nat
  BY LenProperties
<1>2. \A k \in 1..Len(da) : k <= at \/ at + y < k =>
        (k <= at \/ at + n < k) /\ (k <= bt \/ bt + p < k)
  BY <1>1
<1> QED BY <1>2 DEF Wrote

(* A block that shows a text.                                              *)
LEMMA ShownReads ==
  ASSUME NEW da \in Seq(Byte), NEW t \in Seq(Chars), Shows(da, 0, t), NEW n, n = Len(t)
  PROVE  /\ n < Len(da) => Reads(Str!Terminated(da, n), t)
         /\ Shows(da, n, <<Nul>>) => Reads([da |-> da, len |-> n], t)
<1>1. n \in Nat /\ Len(da) \in Nat /\ n <= Len(da) /\ \A k \in 1..n : da[k] = t[k]
  <2>1. n \in Nat /\ Len(da) \in Nat
    BY LenProperties
  <2> QED BY <2>1 DEF Shows
<1>2. n < Len(da) => Reads(Str!Terminated(da, n), t)
  BY <1>1, TerminatedReads
<1>3. ASSUME Shows(da, n, <<Nul>>) PROVE Reads([da |-> da, len |-> n], t)
  <2>1. n + 1 <= Len(da) /\ da[n + 1] = Nul
    BY <1>1, <1>3, 1 \in 1..1 DEF Shows
  <2>2. [da |-> da, len |-> n] \in Blocks
    BY <1>1 DEF Blocks
  <2> QED BY <1>1, <2>1, <2>2 DEF Reads, Carries, Ended
<1> QED BY <1>2, <1>3

(* A search depends on what is behind the place where it starts.           *)
LEMMA FindsBehind ==
  ASSUME NEW m, m.da \in Seq(Byte), NEW t \in Seq(Chars), m.len = Len(t), Len(t) <= Len(m.da),
         NEW o \in 0..Len(t), \A k \in (o + 1)..Len(t) : m.da[k] = t[k],
         NEW cs \in Seq(Chars), cs # <<>>
  PROVE  Str!FindL(m, cs, o) = First(t, cs, o)
<1> DEFINE u == SubSeq(m.da, 1, Len(t))
           z == Len(cs)
<1>1. Len(t) \in Nat /\ Len(m.da) \in Nat /\ o \in Nat /\ z \in Nat /\ t \in Seq(Byte)
  BY LenProperties, CharsAreBytes
<1>2. u \in Seq(Byte) /\ Len(u) = Len(t) /\ \A k \in 1..Len(t) : u[k] = m.da[k]
  BY <1>1, PartIs, 0 \in Nat, 0 + 1 = 1
<1> HIDE DEF u, z
<1>3. Uses(m, u)
  BY <1>1, <1>2 DEF Uses
<1>4. Str!FindL(m, cs, o) = First(u, cs, o)
  BY <1>1, <1>3, FindLIs
<1>5. ASSUME NEW x \in o..(Len(t) - z) PROVE SubSeq(u, x + 1, x + z) = SubSeq(t, x + 1, x + z)
  <2> DEFINE j == x + z
  <2>1. x \in Nat /\ j \in Nat /\ j <= Len(t) /\ j - x = z
    BY <1>1
  <2> HIDE DEF j
  <2>2. /\ SubSeq(u, x + 1, j) \in Seq(Byte)
        /\ Len(SubSeq(u, x + 1, j)) = IF x <= j THEN j - x ELSE 0
        /\ \A k \in 1..(j - x) : SubSeq(u, x + 1, j)[k] = u[x + k]
    BY <1>2, <2>1, PartIs
  <2>3. /\ SubSeq(t, x + 1, j) \in Seq(Byte)
        /\ Len(SubSeq(t, x + 1, j)) = IF x <= j THEN j - x ELSE 0
        /\ \A k \in 1..(j - x) : SubSeq(t, x + 1, j)[k] = t[x + k]
    BY <1>1, <2>1, PartIs
  <2>4. x <= j
    BY <1>1 DEF j
  <2>5. \A k \in 1..(j - x) : x + k \in (o + 1)..Len(t) /\ x + k \in 1..Len(t)
    BY <1>1, <2>1
  <2>6. \A k \in 1..(j - x) : u[x + k] = t[x + k]
    BY <1>2, <2>5
  <2>7. SubSeq(u, x + 1, j) = SubSeq(t, x + 1, j)
    <3> DEFINE a == SubSeq(u, x + 1, j)
               b == SubSeq(t, x + 1, j)
    <3>1. a \in Seq(Byte) /\ b \in Seq(Byte) /\ Len(a) = Len(b) /\ Len(a) = j - x
          /\ \A k \in 1..(j - x) : a[k] = b[k]
      BY <2>2, <2>3, <2>4, <2>6
    <3> HIDE DEF a, b
    <3> QED BY <3>1, SameSeq DEF a, b
  <2> QED BY <2>7 DEF j
<1>6. Matches(u, cs, o) = Matches(t, cs, o)
  BY <1>2, <1>5 DEF Matches, z
<1> QED BY <1>2, <1>4, <1>6 DEF First

(* What a row of the edited texts is, if h has the later ones.             *)
MatchAt(t, match, p) == SubSeq(t, p + 1, Str!Least(p + Len(match), Len(t))) = match

(* A row of the edited text h: what it is from place p on, by the number   *)
(* of matches that may be replaced.                                        *)
Row(h, t, match, rep, p) ==
  [c \in 0..Len(t) |->
     IF p = Len(t) THEN <<>>
     ELSE IF c > 0 /\ MatchAt(t, match, p) THEN rep \o h[p + Len(match)][c - 1]
     ELSE <<t[p + 1]>> \o h[p + 1][c]]

(* h is what Edited's recursion defines.                                   *)
IsEdit(h, t, match, rep) == h = [p \in 0..Len(t) |-> Row(h, t, match, rep, p)]

(* What such a function is made of.                                        *)
Rows(t) == [0..Len(t) -> [0..Len(t) -> Seq(Chars)]]

(* A match at a place is one of the places the search looks for.           *)
LEMMA MatchAtIs ==
  ASSUME NEW t \in Seq(Chars), NEW match \in Seq(Chars), NEW p \in 0..Len(t)
  PROVE  MatchAt(t, match, p) = (p \in Matches(t, match, p))
<1> DEFINE n == Len(t)
           z == Len(match)
           e == Str!Least(p + z, n)
           s == SubSeq(t, p + 1, e)
<1>1. n \in Nat /\ z \in Nat /\ p \in Nat /\ p <= n
  BY LenProperties
<1>2. e \in Nat /\ e <= n /\ p <= e /\ (p + z <= n => e = p + z) /\ (~(p + z <= n) => e = n)
  BY <1>1 DEF Str!Least
<1>3. Len(s) = e - p
  <2> HIDE DEF e
  <2>1. Len(SubSeq(t, p + 1, e)) = IF p <= e THEN e - p ELSE 0
    BY <1>1, <1>2, PartIs
  <2> QED BY <1>2, <2>1
<1>4. MatchAt(t, match, p) = (s = match)
  BY DEF MatchAt
<1> HIDE DEF s
<1>5. p \in Matches(t, match, p) <=> p + z <= n /\ SubSeq(t, p + 1, p + z) = match
  BY <1>1 DEF Matches
<1>6. CASE p + z <= n
  BY <1>2, <1>4, <1>5, <1>6 DEF s
<1>7. CASE ~(p + z <= n)
  <2>1. s # match
    BY <1>1, <1>2, <1>3, <1>7
  <2> QED BY <1>4, <1>5, <1>7, <2>1
<1> QED BY <1>6, <1>7

(* A row is made of texts.                                                 *)
LEMMA RowIs ==
  ASSUME NEW t \in Seq(Chars), NEW match \in Seq(Chars), match # <<>>, NEW rep \in Seq(Chars),
         NEW p \in 0..Len(t), NEW h \in Rows(t)
  PROVE  Row(h, t, match, rep, p) \in [0..Len(t) -> Seq(Chars)]
<1> DEFINE n == Len(t)
           z == Len(match)
           D == 0..n
           S == Seq(Chars)
<1>1. n \in Nat /\ z \in Nat /\ z >= 1 /\ p \in Nat /\ p <= n
  BY LenProperties, EmptySeq
<1>2. MatchAt(t, match, p) => p + z \in (p + 1)..n
  <2>1. MatchAt(t, match, p) => p \in p..(n - z)
    BY MatchAtIs DEF Matches
  <2> QED BY <1>1, <2>1
<1>3. p # n => p + 1 \in (p + 1)..n /\ t[p + 1] \in Chars
  BY <1>1, ElementOfSeq
<1>4. \A x \in (p + 1)..n : x \in D
  BY <1>1
<1>5. h \in [D -> [D -> S]]
  BY DEF Rows
<1>6. ASSUME NEW c \in D
      PROVE  (IF p = n THEN <<>>
              ELSE IF c > 0 /\ MatchAt(t, match, p) THEN rep \o h[p + z][c - 1]
              ELSE <<t[p + 1]>> \o h[p + 1][c]) \in S
  <2>1. CASE p = n
    BY <2>1
  <2>2. CASE p # n /\ c > 0 /\ MatchAt(t, match, p)
    <3>1. p + z \in D /\ c - 1 \in D
      BY <1>1, <1>2, <1>4, <2>2
    <3>2. h[p + z][c - 1] \in S
      BY <1>5, <3>1
    <3> QED BY <2>2, <3>2, ConcatProperties
  <2>3. CASE p # n /\ ~(c > 0 /\ MatchAt(t, match, p))
    <3>1. p + 1 \in D /\ <<t[p + 1]>> \in S
      BY <1>3, <1>4, <2>3
    <3>2. h[p + 1][c] \in S
      BY <1>5, <3>1
    <3> QED BY <2>3, <3>1, <3>2, ConcatProperties
  <2> QED BY <2>1, <2>2, <2>3
<1> QED BY <1>6 DEF Row

(* And it depends on the later rows only.                                  *)
LEMMA RowSame ==
  ASSUME NEW t \in Seq(Chars), NEW match \in Seq(Chars), match # <<>>, NEW rep,
         NEW p \in 0..Len(t), NEW h, NEW g, \A x \in (p + 1)..Len(t) : g[x] = h[x]
  PROVE  Row(g, t, match, rep, p) = Row(h, t, match, rep, p)
<1> DEFINE n == Len(t)
           z == Len(match)
<1>1. n \in Nat /\ z \in Nat /\ z >= 1 /\ p \in Nat /\ p <= n
  BY LenProperties, EmptySeq
<1>2. MatchAt(t, match, p) => p + z \in (p + 1)..n
  <2>1. MatchAt(t, match, p) => p \in p..(n - z)
    BY MatchAtIs DEF Matches
  <2> QED BY <1>1, <2>1
<1>3. p # n => p + 1 \in (p + 1)..n
  BY <1>1
<1>4. MatchAt(t, match, p) => g[p + z] = h[p + z]
  BY <1>2
<1>5. p # n => g[p + 1] = h[p + 1]
  BY <1>3
<1> QED BY <1>4, <1>5 DEF Row

---------------------------------------------------------------------------
(* What a replacement should make of a text.                               *)

(* There is a function that the recursion defines.                         *)
LEMMA EditExists ==
  ASSUME NEW t \in Seq(Chars), NEW match \in Seq(Chars), match # <<>>, NEW rep \in Seq(Chars)
  PROVE  \E h \in Rows(t) : IsEdit(h, t, match, rep)
<1> DEFINE n == Len(t)
           S == Rows(t)
           R(h, p) == Row(h, t, match, rep, p)
           last == n + 1
           step == [k \in 1..last |-> [h \in S |-> [h EXCEPT ![last - k] = R(h, last - k)]]]
           a == [p \in 0..n |-> [c \in 0..n |-> <<>>]]
<1>1. n \in Nat /\ last \in Nat
  BY LenProperties
<1>2. a \in S
  BY DEF Rows
<1>3. \A k \in 1..last : last - k \in 0..n
  BY <1>1
<1>4. \A h \in S, p \in 0..n : R(h, p) \in [0..n -> Seq(Chars)]
  BY RowIs
<1>5. \A h \in S, p \in 0..n : [h EXCEPT ![p] = R(h, p)] \in S
  <2> HIDE DEF R
  <2> QED BY <1>4 DEF Rows
<1>6. step \in [1..last -> [S -> S]]
  <2> HIDE DEF R, S, last
  <2> QED BY <1>3, <1>5
<1>7. PICK f : Iterates(f, S, last, a, step)
  <2> HIDE DEF step, a, S, last
  <2> QED BY <1>1, <1>2, <1>6, Iterating
<1>8. f \in [0..last -> S] /\ \A k \in 1..last : f[k] = step[k][f[k - 1]]
  BY <1>7 DEF Iterates
<1>9. ASSUME NEW k \in 1..last
      PROVE  f[k - 1] \in S /\ f[k] = [f[k - 1] EXCEPT ![last - k] = R(f[k - 1], last - k)]
  <2>1. k - 1 \in 0..last
    BY <1>1
  <2>2. f[k - 1] \in S
    BY <1>8, <2>1
  <2> QED BY <1>8, <2>2
<1> HIDE DEF step, a, S, R
<1> DEFINE T == {k \in 0..last : \A p \in 0..n : p >= last - k => f[k][p] = R(f[k], p)}
<1>10. 0 \in T
  BY <1>1
<1>11. ASSUME NEW k \in 1..last, k - 1 \in T PROVE k \in T
  <2> DEFINE q == last - k
             g == f[k - 1]
             h == f[k]
  <2>1. q \in 0..n /\ k \in 0..last /\ k - 1 \in 0..last
    BY <1>1
  <2>2. g \in S /\ h \in S /\ h = [g EXCEPT ![q] = R(g, q)]
    BY <1>8, <1>9, <2>1
  <2>3. g \in [0..n -> [0..n -> Seq(Chars)]]
    BY <2>2 DEF S, Rows
  <2>4. ASSUME NEW p \in 0..n, p >= q PROVE R(h, p) = R(g, p)
    <3>1. \A x \in (p + 1)..n : x \in 0..n /\ x # q
      BY <1>1, <2>1, <2>4
    <3> HIDE DEF g, h, q
    <3>2. \A x \in (p + 1)..n : h[x] = g[x]
      BY <2>2, <2>3, <3>1
    <3> QED BY <3>2, RowSame DEF R
  <2>5. ASSUME NEW p \in 0..n, p >= q PROVE h[p] = R(h, p)
    <3>1. CASE p = q
      <4>1. R(h, q) = R(g, q)
        BY <1>1, <2>1, <2>4
      <4> HIDE DEF g, h, q
      <4> QED BY <2>1, <2>2, <2>3, <3>1, <4>1
    <3>2. CASE p # q
      <4>1. p >= last - (k - 1)
        BY <1>1, <2>1, <2>5, <3>2
      <4>2. g[p] = R(g, p)
        BY <1>11, <4>1
      <4>3. h[p] = g[p]
        <5> HIDE DEF g, h, q
        <5> QED BY <2>2, <2>3, <3>2
      <4> QED BY <2>4, <2>5, <4>2, <4>3
    <3> QED BY <3>1, <3>2
  <2> QED BY <2>1, <2>5
<1>12. last \in T
  <2>1. \A k \in 0..last : k \in T
    <3> HIDE DEF T, last
    <3> QED BY <1>1, <1>10, <1>11, Counting
  <2> QED BY <1>1, <2>1
<1> DEFINE h == f[last]
<1>13. h \in S
  BY <1>1, <1>8
<1>14. \A p \in 0..n : h[p] = R(h, p)
  BY <1>1, <1>12
<1>15. h = [p \in 0..n |-> h[p]]
  BY <1>13 DEF S, Rows
<1> HIDE DEF h
<1>16. h = [p \in 0..n |-> R(h, p)]
  BY <1>14, <1>15
<1> QED BY <1>13, <1>16 DEF IsEdit, R, S

(* The edited text is one that the recursion defines.                      *)
EditedAs(h, t, match, rep, off, most, e) ==
  IsEdit(h, t, match, rep) /\ e = SubSeq(t, 1, off) \o h[off][most]

(* Edited is the text up to off, and then what that function says of off.  *)
LEMMA EditedIs ==
  ASSUME NEW t \in Seq(Chars), NEW match \in Seq(Chars), match # <<>>, NEW rep \in Seq(Chars),
         NEW off, NEW count,
         NEW most, most = IF count # 0 THEN Str!Least(count, Len(t)) ELSE Len(t)
  PROVE  \E h : EditedAs(h, t, match, rep, off, most,
                         Str!Edited(t, match, rep, off, count))
<1> DEFINE h == CHOOSE f : IsEdit(f, t, match, rep)
           e == Str!Edited(t, match, rep, off, count)
<1>1. IsEdit(h, t, match, rep)
  BY EditExists
<1>2. e = SubSeq(t, 1, off) \o h[off][most]
  BY DEF Str!Edited, IsEdit, Row, MatchAt
<1> HIDE DEF h, e
<1>3. EditedAs(h, t, match, rep, off, most, e)
  BY <1>1, <1>2 DEF EditedAs
<1> QED BY <1>3 DEF e

(* The characters of t from place a on that are before place b.            *)
Part(t, a, b) == SubSeq(t, a + 1, b)

(* What a part of a sequence consists of.                                  *)
LEMMA PartLength ==
  ASSUME NEW S, NEW t \in Seq(S), NEW b \in 0..Len(t), NEW a \in 0..b
  PROVE  /\ Part(t, a, b) \in Seq(S) /\ Len(Part(t, a, b)) = b - a
         /\ \A k \in 1..(b - a) : Part(t, a, b)[k] = t[a + k]
<1>1. a \in Nat /\ b \in Nat /\ a <= b /\ b <= Len(t)
  BY LenProperties
<1>2. /\ SubSeq(t, a + 1, b) \in Seq(S)
      /\ Len(SubSeq(t, a + 1, b)) = IF a <= b THEN b - a ELSE 0
      /\ \A k \in 1..(b - a) : SubSeq(t, a + 1, b)[k] = t[a + k]
  BY <1>1, PartIs
<1> QED BY <1>1, <1>2 DEF Part

(* Parts that follow each other.                                           *)
LEMMA PartsJoin ==
  ASSUME NEW S, NEW t \in Seq(S), NEW c \in 0..Len(t), NEW b \in 0..c, NEW a \in 0..b
  PROVE  Part(t, a, b) \o Part(t, b, c) = Part(t, a, c)
<1> DEFINE m == a + 1
<1>1. Len(t) \in Nat /\ m \in 1..(Len(t) + 1) /\ b \in (m - 1)..Len(t) /\ c \in b..Len(t)
  BY LenProperties
<1> HIDE DEF m
<1>2. SubSeq(t, m, b) \o SubSeq(t, b + 1, c) = SubSeq(t, m, c)
  BY <1>1, ConcatAdjacentSubSeq
<1> QED BY <1>2 DEF Part, m

(* A part from a place to itself is nothing.                               *)
LEMMA PartNone ==
  ASSUME NEW t, NEW a \in Int
  PROVE  Part(t, a, a) = <<>>
<1> DEFINE m == a + 1
<1>1. m \in Int /\ a < m
  OBVIOUS
<1> HIDE DEF m
<1>2. SubSeq(t, m, a) = <<>>
  BY <1>1, SubSeqEmpty
<1> QED BY <1>2 DEF Part, m

(* A part is its first element and the others.                             *)
LEMMA PartFirst ==
  ASSUME NEW S, NEW t \in Seq(S), NEW b \in 0..Len(t), NEW a \in 0..(b - 1)
  PROVE  Part(t, a, b) = <<t[a + 1]>> \o Part(t, a + 1, b)
<1> DEFINE m == a + 1
<1>1. m \in 1..Len(t) /\ b \in m..Len(t)
  BY LenProperties
<1> HIDE DEF m
<1>2. SubSeq(t, m, b) = <<t[m]>> \o SubSeq(t, m + 1, b)
  BY <1>1, SubSeqRecursiveFirst
<1> QED BY <1>2 DEF Part, m

(* The first match lies behind the place and within the text, if there is  *)
(* one.                                                                    *)
LEMMA FirstIs ==
  ASSUME NEW t \in Seq(Chars), NEW cs \in Seq(Chars), cs # <<>>, NEW p \in 0..Len(t)
  PROVE  /\ First(t, cs, p) \in p..Len(t)
         /\ First(t, cs, p) # Len(t) => First(t, cs, p) + Len(cs) \in 1..Len(t)
<1> DEFINE M == Matches(t, cs, p)
<1>1. Len(t) \in Nat /\ Len(cs) \in Nat /\ Len(cs) >= 1 /\ p \in Nat /\ p <= Len(t)
  BY LenProperties, EmptySeq
<1>2. \A x \in M : x \in p..(Len(t) - Len(cs))
  BY DEF Matches
<1>3. M \in SUBSET Nat
  BY <1>1, <1>2
<1> HIDE DEF M
<1>4. CASE M = {}
  BY <1>1, <1>4 DEF First, M
<1>5. CASE M # {}
  <2>1. Str!Min(M) \in M
    BY <1>3, <1>5, LeastIs
  <2>2. First(t, cs, p) \in p..(Len(t) - Len(cs))
    BY <1>2, <1>5, <2>1 DEF First, M
  <2> QED BY <1>1, <2>2
<1> QED BY <1>4, <1>5

(* The first match from a place on: it is there, or it is the first one    *)
(* from the next place on.                                                 *)
LEMMA FirstStep ==
  ASSUME NEW t \in Seq(Chars), NEW cs \in Seq(Chars), cs # <<>>, NEW p \in 0..(Len(t) - 1)
  PROVE  First(t, cs, p) = IF MatchAt(t, cs, p) THEN p ELSE First(t, cs, p + 1)
<1> DEFINE M == Matches(t, cs, p)
<1>1. Len(t) \in Nat /\ Len(cs) \in Nat /\ Len(cs) >= 1 /\ p \in Nat /\ p \in 0..Len(t)
  BY LenProperties, EmptySeq
<1>2. \A x \in M : x \in Nat /\ p <= x
  BY <1>1 DEF Matches
<1>3. MatchAt(t, cs, p) = (p \in M)
  BY <1>1, MatchAtIs
<1>4. p \notin M => M = Matches(t, cs, p + 1)
  <2> SUFFICES ASSUME p \notin M PROVE M = Matches(t, cs, p + 1)
    OBVIOUS
  <2>1. ASSUME NEW x, x # p
        PROVE  x \in p..(Len(t) - Len(cs)) <=> x \in (p + 1)..(Len(t) - Len(cs))
    BY <1>1, <2>1
  <2>2. p \notin (p + 1)..(Len(t) - Len(cs))
    BY <1>1
  <2> QED BY <2>1, <2>2 DEF Matches
<1> HIDE DEF M
<1>5. CASE p \in M
  <2>1. Str!Min(M) = p
    <3>1. M \in SUBSET Nat
      BY <1>2
    <3> QED BY <1>2, <1>5, <3>1, LeastIsThis
  <2> QED BY <1>3, <1>5, <2>1 DEF First, M
<1>6. CASE p \notin M
  <2>1. M = Matches(t, cs, p + 1)
    BY <1>4, <1>6
  <2> QED BY <1>3, <1>6, <2>1 DEF First, M
<1> QED BY <1>5, <1>6

(* Joining texts is associative.                                           *)
LEMMA JoinsAlike ==
  ASSUME NEW a \in Seq(Chars), NEW b \in Seq(Chars), NEW c \in Seq(Chars)
  PROVE  (a \o b) \o c = a \o (b \o c)
BY ConcatAssociative

(* What the edited text h is from place p on, if c matches may be replaced.*)
Goes(h, t, match, rep, p, c) ==
  LET f == First(t, match, p)
  IN  /\ h[p][c] \in Seq(Chars)
      /\ h[p][c] = IF c = 0 \/ f = Len(t) THEN Part(t, p, Len(t))
                   ELSE Part(t, p, f) \o (rep \o h[f + Len(match)][c - 1])

(* If it is that from the later places on it is from this one.             *)
LEMMA GoesOn ==
  ASSUME NEW t \in Seq(Chars), NEW match \in Seq(Chars), match # <<>>, NEW rep \in Seq(Chars),
         NEW h, IsEdit(h, t, match, rep), NEW p \in 0..Len(t),
         \A x \in (p + 1)..Len(t), b \in 0..Len(t) : Goes(h, t, match, rep, x, b),
         NEW c \in 0..Len(t)
  PROVE  Goes(h, t, match, rep, p, c)
<1> DEFINE n == Len(t)
           z == Len(match)
           f == First(t, match, p)
<1>1. n \in Nat /\ z \in Nat /\ z >= 1 /\ p \in Nat /\ p <= n /\ n \in 0..n
  BY LenProperties, EmptySeq
<1>2. h[p][c] = IF p = n THEN <<>>
                ELSE IF c > 0 /\ MatchAt(t, match, p) THEN rep \o h[p + z][c - 1]
                ELSE <<t[p + 1]>> \o h[p + 1][c]
  <2>1. h[p] = Row(h, t, match, rep, p)
    <3> DEFINE R(x) == Row(h, t, match, rep, x)
    <3>1. h = [x \in 0..n |-> R(x)]
      BY DEF IsEdit
    <3> HIDE DEF R
    <3>2. h[p] = R(p)
      BY ONLY <3>1, p \in 0..n
    <3> QED BY <3>2 DEF R
  <2>2. Row(h, t, match, rep, p)[c] =
          IF p = n THEN <<>>
          ELSE IF c > 0 /\ MatchAt(t, match, p) THEN rep \o h[p + z][c - 1]
          ELSE <<t[p + 1]>> \o h[p + 1][c]
    BY DEF Row
  <2> QED BY <2>1, <2>2
<1>3. f \in p..n /\ (f # n => f + z \in 1..n)
  BY FirstIs
<1>4. CASE p = n
  <2>1. f = n
    BY <1>1, <1>3, <1>4
  <2>2. Part(t, p, n) = <<>>
    BY <1>1, <1>4, PartNone
  <2> QED BY <1>2, <1>4, <2>1, <2>2, EmptySeq DEF Goes
<1>5. CASE p # n /\ c > 0 /\ MatchAt(t, match, p)
  <2>1. f = p
    BY <1>1, <1>5, FirstStep
  <2>2. p + z \in (p + 1)..n /\ c - 1 \in 0..n /\ c # 0
    BY <1>1, <1>3, <1>5, <2>1
  <2>3. h[p + z][c - 1] \in Seq(Chars)
    BY <2>2 DEF Goes
  <2>4. Part(t, p, p) = <<>>
    BY <1>1, PartNone
  <2> DEFINE y == rep \o h[p + z][c - 1]
  <2>5. y \in Seq(Chars)
    BY <2>3, ConcatProperties
  <2>6. h[p][c] = y /\ f # n
    BY <1>2, <1>5, <2>1
  <2>7. h[p][c] = Part(t, p, f) \o (rep \o h[f + z][c - 1])
    <3>1. y = Part(t, p, p) \o y
      BY <2>4, <2>5, ConcatEmpty
    <3> QED BY <2>1, <2>6, <3>1
  <2> QED BY <2>2, <2>5, <2>6, <2>7 DEF Goes
<1>6. CASE p # n /\ ~(c > 0 /\ MatchAt(t, match, p))
  <2> DEFINE a == <<t[p + 1]>>
             g == First(t, match, p + 1)
             x == h[p + 1][c]
  <2>1. p + 1 \in (p + 1)..n /\ p + 1 \in 0..n /\ p \in 0..(n - 1) /\ t[p + 1] \in Chars
    BY <1>1, <1>6, ElementOfSeq
  <2>2. a \in Seq(Chars)
    BY <2>1
  <2>3. /\ x \in Seq(Chars)
        /\ x = IF c = 0 \/ g = n THEN Part(t, p + 1, n)
               ELSE Part(t, p + 1, g) \o (rep \o h[g + z][c - 1])
    BY <2>1 DEF Goes
  <2>4. h[p][c] = a \o x
    BY <1>2, <1>6
  <2>5. g \in (p + 1)..n /\ (g # n => g + z \in 1..n)
    BY <2>1, FirstIs
  <2>6. c # 0 => f = g
    <3>1. c # 0 => c > 0
      OBVIOUS
    <3> QED BY <1>6, <2>1, <3>1, FirstStep
  <2>7. a \o Part(t, p + 1, n) = Part(t, p, n)
    BY <1>1, <2>1, PartFirst
  <2>8. a \o Part(t, p + 1, g) = Part(t, p, g)
    <3>1. g \in 0..n /\ p \in 0..(g - 1)
      BY <1>1, <2>5
    <3> HIDE DEF g
    <3> QED BY <3>1, PartFirst
  <2> HIDE DEF a, g, x
  <2>9. h[p][c] \in Seq(Chars)
    BY <2>2, <2>3, <2>4, ConcatProperties
  <2>10. CASE c = 0 \/ g = n
    BY <2>3, <2>4, <2>6, <2>7, <2>9, <2>10 DEF Goes
  <2>11. CASE ~(c = 0 \/ g = n)
    <3>1. Part(t, p + 1, g) \in Seq(Chars)
      <4>1. g \in 0..n /\ p + 1 \in 0..g
        BY <1>1, <2>1, <2>5
      <4> DEFINE p1 == p + 1
      <4> HIDE DEF p1
      <4>2. g \in 0..n /\ p1 \in 0..g
        BY <4>1 DEF p1
      <4>3. Part(t, p1, g) \in Seq(Chars)
        BY <4>2, PartLength
      <4> QED BY <4>3 DEF p1
    <3>2. h[g + z][c - 1] \in Seq(Chars)
      <4>1. g + z \in (p + 1)..n /\ c - 1 \in 0..n
        BY <1>1, <2>5, <2>11
      <4> QED BY <4>1 DEF Goes
    <3> DEFINE y == rep \o h[g + z][c - 1]
    <3>3. y \in Seq(Chars)
      BY <3>2, ConcatProperties
    <3>4. x = Part(t, p + 1, g) \o y
      BY <2>3, <2>11
    <3> HIDE DEF y
    <3>5. a \o x = Part(t, p, g) \o y
      <4> DEFINE b == Part(t, p + 1, g)
      <4>1. b \in Seq(Chars)
        BY <3>1
      <4> HIDE DEF b
      <4>2. (a \o b) \o y = a \o (b \o y)
        BY ONLY <2>2, <3>3, <4>1, JoinsAlike
      <4> QED BY <2>8, <3>4, <4>2 DEF b
    <3>6. f = g /\ c # 0 /\ f # n
      BY <2>6, <2>11
    <3> QED BY <2>4, <2>9, <3>5, <3>6 DEF Goes, y
  <2> QED BY <2>10, <2>11
<1> QED BY <1>4, <1>5, <1>6

(* So it is that from every place on.                                      *)
LEMMA EditGoes ==
  ASSUME NEW t \in Seq(Chars), NEW match \in Seq(Chars), match # <<>>, NEW rep \in Seq(Chars),
         NEW h, IsEdit(h, t, match, rep)
  PROVE  \A p \in 0..Len(t), c \in 0..Len(t) : Goes(h, t, match, rep, p, c)
<1> DEFINE n == Len(t)
           G(p, c) == Goes(h, t, match, rep, p, c)
           Bad == {k \in 0..n : \E c \in 0..n : ~G(n - k, c)}
<1>1. n \in Nat
  BY LenProperties
<1>2. ASSUME Bad # {} PROVE FALSE
  <2>1. Bad \in SUBSET Nat
    OBVIOUS
  <2>2. PICK k \in Bad : \A j \in Bad : k <= j
    <3> HIDE DEF Bad
    <3> QED BY <1>2, <2>1, Smallest
  <2> DEFINE p == n - k
  <2>3. p \in 0..n /\ k \in 0..n
    BY <1>1
  <2>4. ASSUME NEW x \in (p + 1)..n, NEW b \in 0..n PROVE G(x, b)
    <3>1. n - x \in 0..n /\ ~(k <= n - x) /\ n - (n - x) = x
      BY <1>1, <2>3
    <3>2. n - x \notin Bad
      BY <2>2, <3>1
    <3> HIDE DEF G
    <3> QED BY <3>1, <3>2
  <2>5. \A c \in 0..n : G(p, c)
    <3> HIDE DEF p
    <3> QED BY <2>3, <2>4, GoesOn
  <2> HIDE DEF G
  <2> QED BY <2>2, <2>5
<1>3. ASSUME NEW p \in 0..n PROVE \A c \in 0..n : G(p, c)
  <2>1. n - p \in 0..n /\ n - (n - p) = p
    BY <1>1
  <2> HIDE DEF G
  <2> QED BY <1>2, <2>1
<1> QED BY <1>3

(* A replacement of at most max matches in t, of which it can find most:   *)
(* h is the edited text.                                                   *)
Edits(t, match, rep, off, max, most, h) ==
  /\ t \in Seq(Chars) /\ match \in Seq(Chars) /\ match # <<>> /\ rep \in Seq(Chars)
  /\ off \in 0..Len(t) /\ most \in 0..Len(t) /\ max \in Nat
  /\ max = most \/ (most = Len(t) /\ Len(t) < max)
  /\ \A p \in 0..Len(t), c \in 0..Len(t) : Goes(h, t, match, rep, p, c)

(* The matches that a replacement may replace, one more than there can be  *)
(* if it may replace all.                                                  *)
AtMost(t, count) == IF count # 0 THEN count ELSE Len(t) + 1

(* Edited replaces up to count matches from off on, and all of them if     *)
(* count is 0.                                                             *)
LEMMA EditsAre ==
  ASSUME NEW t \in Seq(Chars), NEW match \in Seq(Chars), match # <<>>, NEW rep \in Seq(Chars),
         NEW off \in 0..Len(t), NEW count \in Nat
  PROVE  \E h, most : /\ Edits(t, match, rep, off, AtMost(t, count), most, h)
                      /\ Str!Edited(t, match, rep, off, count) =
                           Part(t, 0, off) \o h[off][most]
<1> DEFINE most == IF count # 0 THEN Str!Least(count, Len(t)) ELSE Len(t)
           max == AtMost(t, count)
           e == Str!Edited(t, match, rep, off, count)
<1>1. Len(t) \in Nat
  BY LenProperties
<1>2. most \in 0..Len(t) /\ max \in Nat /\ (max = most \/ (most = Len(t) /\ Len(t) < max))
  BY <1>1 DEF Str!Least, AtMost
<1>3. \E h : EditedAs(h, t, match, rep, off, most, e)
  BY EditedIs
<1> HIDE DEF most, e, max
<1>4. PICK h : EditedAs(h, t, match, rep, off, most, e)
  BY <1>3
<1>5. IsEdit(h, t, match, rep) /\ e = SubSeq(t, 1, off) \o h[off][most]
  BY <1>4 DEF EditedAs
<1>6. \A p \in 0..Len(t), c \in 0..Len(t) : Goes(h, t, match, rep, p, c)
  BY <1>5, EditGoes
<1>7. Edits(t, match, rep, off, max, most, h)
  BY <1>2, <1>6 DEF Edits
<1>8. Part(t, 0, off) = SubSeq(t, 1, off)
  BY 0 + 1 = 1 DEF Part
<1> QED BY <1>5, <1>7, <1>8 DEF e, max

(* A search that has found some and looks on from place scan, and one that *)
(* ends.                                                                   *)
Scanned(t, off, most, scan, found) ==
  found \in 0..most /\ scan \in off..Len(t) /\ off + found <= scan

(* The loops over the matches end: enough are replaced, or none is left.   *)
Over(t, match, max, scan, found) == found = max \/ First(t, match, scan) = Len(t)

(* What one more match that is found means.                                *)
Advances(t, match, rep, h, off, most, scan, found) ==
  LET f == First(t, match, scan)
      y == h[f + Len(match)][most - (found + 1)]
  IN  /\ f \in scan..Len(t) /\ f # Len(t) /\ f + Len(match) \in 1..Len(t)
      /\ Scanned(t, off, most, f + Len(match), found + 1)
      /\ y \in Seq(Chars)
      /\ h[scan][most - found] = Part(t, scan, f) \o (rep \o y)

---------------------------------------------------------------------------
(* The scan for matches.                                                   *)

(* If they do not, the next match is one that the edited text replaces.    *)
LEMMA ScanStep ==
  ASSUME NEW t, NEW match, NEW rep, NEW off, NEW max, NEW most, NEW h, NEW scan, NEW found,
         Edits(t, match, rep, off, max, most, h), Scanned(t, off, most, scan, found),
         ~Over(t, match, max, scan, found)
  PROVE  Advances(t, match, rep, h, off, most, scan, found)
<1> DEFINE n == Len(t)
           z == Len(match)
           f == First(t, match, scan)
<1>1. /\ t \in Seq(Chars) /\ match \in Seq(Chars) /\ match # <<>>
      /\ off \in 0..n /\ most \in 0..n /\ max \in Nat
      /\ max = most \/ (most = n /\ n < max)
      /\ \A p \in 0..n, c \in 0..n : Goes(h, t, match, rep, p, c)
  BY DEF Edits
<1>2. n \in Nat /\ z \in Nat /\ z >= 1
  BY <1>1, LenProperties, EmptySeq
<1>3. found \in 0..most /\ scan \in off..n /\ off + found <= scan /\ scan \in 0..n
  BY <1>1, <1>2 DEF Scanned
<1>4. f \in scan..n /\ f # n /\ f + z \in 1..n /\ found # max
  BY <1>1, <1>3, FirstIs DEF Over
<1> HIDE DEF f, z, n
<1>5. found < most /\ off + (found + 1) <= f + z
  BY <1>1, <1>2, <1>3, <1>4
<1>6. /\ found + 1 \in 0..most /\ f + z \in off..n /\ f + z \in 0..n
      /\ most - found \in 0..n /\ most - (found + 1) \in 0..n /\ most - found # 0
      /\ (most - found) - 1 = most - (found + 1)
  BY <1>1, <1>2, <1>3, <1>4, <1>5
<1>7. h[scan][most - found] = Part(t, scan, f) \o (rep \o h[f + z][most - (found + 1)])
  <2> DEFINE c == most - found
  <2>1. c \in 0..n /\ c # 0 /\ c - 1 = most - (found + 1)
    BY <1>6
  <2> HIDE DEF c
  <2>2. Goes(h, t, match, rep, scan, c)
    BY <1>1, <1>3, <2>1
  <2>3. h[scan][c] = Part(t, scan, f) \o (rep \o h[f + z][c - 1])
    BY <1>4, <2>1, <2>2 DEF Goes, f, z, n
  <2> QED BY <2>1, <2>3 DEF c
<1>8. h[f + z][most - (found + 1)] \in Seq(Chars)
  <2> DEFINE c == most - (found + 1)
             p == f + z
  <2>1. c \in 0..n /\ p \in 0..n
    BY <1>6
  <2> HIDE DEF c, p
  <2>2. Goes(h, t, match, rep, p, c)
    BY <1>1, <2>1
  <2> QED BY <2>2 DEF Goes, c, p
<1>9. Scanned(t, off, most, f + z, found + 1)
  BY <1>5, <1>6 DEF Scanned, n
<1> QED BY <1>4, <1>7, <1>8, <1>9 DEF Advances, f, z, n

(* If they do, the rest of the edited text is that of the text.            *)
LEMMA ScanOver ==
  ASSUME NEW t, NEW match, NEW rep, NEW off, NEW max, NEW most, NEW h, NEW scan, NEW found,
         Edits(t, match, rep, off, max, most, h), Scanned(t, off, most, scan, found),
         Over(t, match, max, scan, found) \/ found >= Len(t)
  PROVE  h[scan][most - found] = Part(t, scan, Len(t))
<1> DEFINE n == Len(t)
           f == First(t, match, scan)
           c == most - found
<1>1. /\ t \in Seq(Chars) /\ match \in Seq(Chars) /\ match # <<>>
      /\ off \in 0..n /\ most \in 0..n /\ max \in Nat
      /\ max = most \/ (most = n /\ n < max)
      /\ \A p \in 0..n, d \in 0..n : Goes(h, t, match, rep, p, d)
  BY DEF Edits
<1>2. n \in Nat
  BY <1>1, LenProperties
<1>3. found \in 0..most /\ scan \in off..n /\ off + found <= scan /\ scan \in 0..n
  BY <1>1, <1>2 DEF Scanned
<1>4. f \in scan..n
  BY <1>1, <1>3, FirstIs
<1>5. c = 0 \/ f = n
  <2> HIDE DEF f, n
  <2>1. CASE found = max
    BY <1>1, <1>2, <1>3, <2>1
  <2>2. CASE f = n
    BY <2>2
  <2>3. CASE found >= n
    BY <1>1, <1>2, <1>3, <1>4, <2>3
  <2> QED BY <2>1, <2>2, <2>3 DEF Over, f, n
<1>6. c \in 0..n
  BY <1>1, <1>2, <1>3
<1> HIDE DEF c
<1>7. Goes(h, t, match, rep, scan, c)
  BY <1>1, <1>3, <1>6
<1>8. h[scan][c] = Part(t, scan, n)
  BY <1>5, <1>7 DEF Goes
<1> QED BY <1>8 DEF c

(* What steps of one kind make of a state, one after the other.            *)
Repeated(f, S, n, a, step) ==
  f \in [0..n -> S] /\ f[0] = a /\ \A k \in 1..n : f[k] = step[f[k - 1]]

(* There is a sequence of states that a step makes from a first one.       *)
LEMMA Repeating ==
  ASSUME NEW S, NEW n \in Nat, NEW a \in S, NEW step \in [S -> S]
  PROVE  \E f : Repeated(f, S, n, a, step)
<1> DEFINE steps == [k \in 1..n |-> step]
<1>1. steps \in [1..n -> [S -> S]]
  OBVIOUS
<1> HIDE DEF steps
<1>2. PICK f : Iterates(f, S, n, a, steps)
  BY <1>1, Iterating
<1>3. f \in [0..n -> S] /\ f[0] = a /\ \A k \in 1..n : f[k] = steps[k][f[k - 1]]
  BY <1>2 DEF Iterates
<1>4. \A k \in 1..n : f[k] = step[f[k - 1]]
  BY <1>3 DEF steps
<1> QED BY <1>3, <1>4 DEF Repeated

(* The cells of da from place w on are those of t.                         *)
FromOn(da, t, w) == Len(t) <= Len(da) /\ \A k \in (w + 1)..Len(t) : da[k] = t[k]

(* Cells that hold the text from w on show the parts of it that lie there. *)
LEMMA FromOnShows ==
  ASSUME NEW da \in Seq(Byte), NEW t \in Seq(Chars), NEW w \in Nat, FromOn(da, t, w),
         NEW b \in 0..Len(t), NEW a \in w..b
  PROVE  Shows(da, a, Part(t, a, b))
<1> DEFINE s == Part(t, a, b)
<1>1. a \in 0..b /\ Len(t) \in Nat /\ Len(da) \in Nat
  BY LenProperties
<1>2. Len(s) = b - a /\ \A k \in 1..(b - a) : s[k] = t[a + k]
  BY <1>1, PartLength
<1> HIDE DEF s
<1>3. \A k \in 1..(b - a) : a + k \in (w + 1)..Len(t)
  BY <1>1
<1>4. a + (b - a) <= Len(da)
  BY <1>1 DEF FromOn
<1> QED BY <1>2, <1>3, <1>4 DEF Shows, FromOn, s

(* They go on holding it behind what is written.                           *)
LEMMA FromOnStays ==
  ASSUME NEW da \in Seq(Byte), NEW t \in Seq(Chars), NEW w \in Nat, FromOn(da, t, w),
         NEW at \in Nat, NEW n \in Nat, NEW new, Wrote(da, at, n, new),
         NEW v \in Nat, w <= v, at + n <= v
  PROVE  FromOn(new, t, v)
<1>1. Len(t) \in Nat /\ Len(da) \in Nat /\ Len(t) <= Len(da)
  BY LenProperties DEF FromOn
<1>2. \A k \in (v + 1)..Len(t) : k \in (w + 1)..Len(t) /\ k \in 1..Len(da) /\ at + n < k
  BY <1>1
<1> QED BY <1>1, <1>2 DEF FromOn, Wrote

(* In the middle of a replacement by less: what is before wptr is done,    *)
(* what is from scan on is still to do.                                    *)
LessIs(da, wptr, scan, found, t, off, most, h, e) ==
  /\ da \in Seq(Byte)
  /\ wptr \in Nat /\ wptr <= scan
  /\ scan = off => wptr = scan
  /\ found = 0 => scan = off
  /\ Scanned(t, off, most, scan, found)
  /\ FromOn(da, t, scan)
  /\ \E a \in Seq(Chars) : Len(a) = wptr /\ Shows(da, 0, a) /\ e = a \o h[scan][most - found]

(* One match more.                                                         *)
Moved(da, wptr, scan, f, off) ==
  IF scan = off THEN da ELSE Str!Move(da, wptr, scan, f - scan)

---------------------------------------------------------------------------
(* Replacement by no more characters.                                      *)

(* A turn of the loop of a replacement by fewer characters moves what lies *)
(* between the matches and puts the replacement behind it.                 *)
LEMMA LessStep ==
  ASSUME NEW t, NEW match, NEW rep, NEW off, NEW max, NEW most, NEW h, NEW e,
         NEW da, NEW wptr, NEW scan, NEW found,
         Edits(t, match, rep, off, max, most, h), Len(rep) <= Len(match),
         LessIs(da, wptr, scan, found, t, off, most, h, e),
         ~Over(t, match, max, scan, found), NEW f, f = First(t, match, scan)
  PROVE  LET w == wptr + (f - scan)
             new == Str!Put(Moved(da, wptr, scan, f, off), w, rep)
         IN  /\ Len(new) = Len(da)
             /\ LessIs(new, w + Len(rep), f + Len(match), found + 1, t, off, most, h, e)
<1> DEFINE n == Len(t)
           z == Len(match)
           r == Len(rep)
           d == f - scan
           w == wptr + d
           s == Part(t, scan, f)
           moved == Moved(da, wptr, scan, f, off)
           new == Str!Put(moved, w, rep)
           y == h[f + z][most - (found + 1)]
<1>1. /\ t \in Seq(Chars) /\ match \in Seq(Chars) /\ match # <<>> /\ rep \in Seq(Chars)
      /\ rep \in Seq(Byte) /\ off \in 0..n /\ n \in Nat /\ z \in Nat /\ z >= 1 /\ r \in Nat /\ r <= z
  BY LenProperties, EmptySeq, CharsAreBytes DEF Edits
<1>2. /\ da \in Seq(Byte) /\ Len(da) \in Nat /\ n <= Len(da)
      /\ wptr \in Nat /\ wptr <= scan
      /\ (scan = off => wptr = scan) /\ FromOn(da, t, scan)
      /\ scan \in off..n /\ found \in Nat /\ off + found <= scan
      /\ Scanned(t, off, most, scan, found)
  BY LenProperties DEF LessIs, Scanned, FromOn
<1>3. PICK a \in Seq(Chars) : Len(a) = wptr /\ Shows(da, 0, a) /\ e = a \o h[scan][most - found]
  BY DEF LessIs
<1>4. /\ f \in scan..n /\ f # n /\ f + z \in 1..n
      /\ Scanned(t, off, most, f + z, found + 1)
      /\ y \in Seq(Chars)
      /\ h[scan][most - found] = s \o (rep \o y)
  <2>1. Advances(t, match, rep, h, off, most, scan, found)
    BY <1>2, ScanStep
  <2> QED BY <2>1 DEF Advances
<1> HIDE DEF y
<1>5. s \in Seq(Chars) /\ s \in Seq(Byte) /\ Len(s) = d
  <2>1. f \in 0..n /\ scan \in 0..f
    BY <1>1, <1>2, <1>4
  <2> QED BY <1>1, <2>1, PartLength, CharsAreBytes
<1>6. Shows(da, scan, s)
  <2>1. f \in 0..n /\ scan \in scan..f /\ scan \in Nat
    BY <1>1, <1>2, <1>4
  <2> QED BY <1>1, <1>2, <2>1, FromOnShows
<1> HIDE DEF s
<1>7. d \in Nat /\ w \in Nat /\ w = wptr + d /\ w + r <= f + z /\ f + z <= Len(da) /\ w <= Len(da)
      /\ wptr + d <= Len(da) /\ w + r <= Len(da) /\ scan \in Nat
      /\ f + z \in Nat /\ scan <= f + z /\ f + z # off
  <2>1. f \in Nat /\ scan \in Nat /\ off \in Nat /\ scan <= f /\ f + z <= n /\ off <= scan
    BY <1>1, <1>2, <1>4
  <2> HIDE DEF n, z, r
  <2> QED BY ONLY <1>1, <1>2, <2>1
<1> HIDE DEF d, w, z, r, n
<1>8. Wrote(da, wptr, d, moved) /\ Shows(moved, wptr, s)
  <2>1. CASE scan = off
    <3>1. moved = da /\ wptr = scan
      BY <1>2, <2>1 DEF Moved
    <3> HIDE DEF moved
    <3> QED BY <1>2, <1>6, <3>1 DEF Wrote
  <2>2. CASE scan # off
    <3>1. moved = Str!Move(da, wptr, scan, d)
      BY <2>2 DEF Moved, d
    <3> HIDE DEF moved
    <3> QED BY <1>2, <1>5, <1>6, <1>7, <3>1, MoveWrote
  <2> QED BY <2>1, <2>2
<1> HIDE DEF moved
<1>9. moved \in Seq(Byte) /\ Len(moved) = Len(da)
  BY <1>8 DEF Wrote
<1>10. Wrote(moved, w, r, new) /\ Shows(new, w, rep)
  BY <1>1, <1>7, <1>9, PutWrote DEF r
<1> HIDE DEF new
<1>11. new \in Seq(Byte) /\ Len(new) = Len(da)
  BY <1>9, <1>10 DEF Wrote
<1> DEFINE v == d + r
<1>12. Wrote(da, wptr, v, new)
  <2>1. v \in Nat /\ v = w + r - wptr /\ d <= v /\ wptr <= w /\ w <= wptr + d
    BY <1>1, <1>2, <1>7
  <2> HIDE DEF v
  <2> QED BY <1>1, <1>2, <1>7, <1>8, <1>10, <2>1, WroteWrote
<1>13. FromOn(new, t, f + z)
  <2> DEFINE x == f + z
  <2>1. x \in Nat /\ scan <= x /\ wptr + v <= x /\ v \in Nat
    BY <1>1, <1>2, <1>7
  <2> HIDE DEF x, v
  <2>2. FromOn(new, t, x)
    BY <1>1, <1>2, <1>7, <1>12, <2>1, FromOnStays
  <2> QED BY <2>2 DEF x
<1> DEFINE b == s \o rep
           c == a \o b
<1>14. Shows(new, wptr, b)
  <2>1. Shows(new, wptr, s)
    BY <1>2, <1>5, <1>7, <1>8, <1>9, <1>10, <1>1, StaysShown
  <2>2. Shows(new, wptr + Len(s), rep)
    BY <1>5, <1>7, <1>10
  <2> QED BY <1>1, <1>2, <1>5, <1>11, <2>1, <2>2, ShowsParts
<1>15. b \in Seq(Chars) /\ Len(b) = v
  BY <1>1, <1>5, ConcatProperties DEF r
<1>16. Shows(new, 0, c)
  <2>1. Shows(new, 0, a)
    <3>1. a \in Seq(Byte) /\ 0 + Len(a) <= wptr /\ 0 \in Nat
      BY <1>2, <1>3, CharsAreBytes
    <3>2. v \in Nat
      BY <1>1, <1>7
    <3> HIDE DEF v
    <3> QED BY <1>2, <1>3, <1>12, <3>1, <3>2, StaysShown
  <2>2. 0 + Len(a) = wptr /\ a \in Seq(Byte) /\ b \in Seq(Byte)
    BY <1>2, <1>3, <1>15, CharsAreBytes
  <2> HIDE DEF b
  <2> QED BY <1>11, <1>14, <2>1, <2>2, 0 \in Nat, ShowsParts
<1>17. c \in Seq(Chars) /\ Len(c) = w + r
  <2>1. Len(c) = Len(a) + Len(b) /\ c \in Seq(Chars)
    BY <1>3, <1>15, ConcatProperties
  <2> QED BY <1>1, <1>2, <1>3, <1>7, <1>15, <2>1
<1>18. e = c \o y
  <2>1. s \o (rep \o y) = b \o y
    <3>1. s \in Seq(Chars) /\ rep \in Seq(Chars) /\ y \in Seq(Chars)
      BY ONLY <1>1, <1>4, <1>5
    <3>2. (s \o rep) \o y = s \o (rep \o y)
      BY ONLY <3>1, JoinsAlike
    <3> QED BY <3>2
  <2>2. a \o (b \o y) = (a \o b) \o y
    BY <1>3, <1>4, <1>15, JoinsAlike
  <2> QED BY <1>3, <1>4, <2>1, <2>2
<1> HIDE DEF c
<1>19. w + r \in Nat /\ w + r <= f + z /\ f + z # off /\ found + 1 # 0
  BY <1>1, <1>2, <1>4, <1>7
<1>20. LessIs(new, w + r, f + z, found + 1, t, off, most, h, e)
  BY <1>4, <1>11, <1>13, <1>16, <1>17, <1>18, <1>19 DEF LessIs, y, z
<1> QED BY <1>11, <1>20 DEF new, moved, w, d, r, z

(* The replacement by less: its states, and a step of it.                  *)
LessStates(m, t, off, most, h, e) ==
  {s \in [da : Seq(Byte), wptr : Nat, scan : Nat, found : Nat] :
     Len(s.da) = Len(m.da) /\ LessIs(s.da, s.wptr, s.scan, s.found, t, off, most, h, e)}

(* A turn of that loop, if it is not over.                                 *)
LessNext(m, match, rep, off, max, p) ==
  LET f == Str!FindL([m EXCEPT !.da = p.da], match, p.scan)
      w == p.wptr + (f - p.scan)
      moved == IF p.scan = off THEN p.da
               ELSE Str!Move(p.da, p.wptr, p.scan, f - p.scan)
  IN  IF p.found = max \/ f >= m.len THEN p
      ELSE [da |-> Str!Put(moved, w, rep), wptr |-> w + Len(rep),
            scan |-> f + Len(match), found |-> p.found + 1]

(* A search in the block while it is edited.                               *)
LEMMA SearchIs ==
  ASSUME NEW m, NEW t, Reads(m, t), NEW match \in Seq(Chars), match # <<>>,
         NEW da \in Seq(Byte), NEW scan \in 0..Len(t), FromOn(da, t, scan)
  PROVE  Str!FindL([m EXCEPT !.da = da], match, scan) = First(t, match, scan)
<1> DEFINE x == [m EXCEPT !.da = da]
<1>1. m = [da |-> m.da, len |-> m.len] /\ m.len = Len(t) /\ t \in Seq(Chars)
  BY ReadsIs
<1>2. x.da = da /\ x.len = Len(t)
  BY <1>1
<1> HIDE DEF x
<1>3. Str!FindL(x, match, scan) = First(t, match, scan)
  BY <1>1, <1>2, FindsBehind DEF FromOn
<1> QED BY <1>3 DEF x

(* A turn keeps what LessStates says, and counts one more match if the     *)
(* loop is not over.                                                       *)
LEMMA LessGoes ==
  ASSUME NEW m, NEW t, Reads(m, t), NEW match, NEW rep, NEW off, NEW max, NEW most, NEW h, NEW e,
         Edits(t, match, rep, off, max, most, h), Len(rep) <= Len(match),
         NEW s \in LessStates(m, t, off, most, h, e)
  PROVE  /\ LessNext(m, match, rep, off, max, s) \in LessStates(m, t, off, most, h, e)
         /\ Over(t, match, max, s.scan, s.found) =>
              LessNext(m, match, rep, off, max, s) = s
         /\ ~Over(t, match, max, s.scan, s.found) =>
              LessNext(m, match, rep, off, max, s).found = s.found + 1
<1> DEFINE f == First(t, match, s.scan)
           w == s.wptr + (f - s.scan)
           new == Str!Put(Moved(s.da, s.wptr, s.scan, f, off), w, rep)
           x == LessNext(m, match, rep, off, max, s)
<1>1. /\ s \in [da : Seq(Byte), wptr : Nat, scan : Nat, found : Nat]
      /\ Len(s.da) = Len(m.da) /\ LessIs(s.da, s.wptr, s.scan, s.found, t, off, most, h, e)
  BY DEF LessStates
<1>2. m.len = Len(t) /\ Len(t) \in Nat /\ t \in Seq(Chars)
  BY ReadsIs
<1>3. match \in Seq(Chars) /\ match # <<>> /\ off \in 0..Len(t)
  BY DEF Edits
<1>4. s.scan \in 0..Len(t) /\ FromOn(s.da, t, s.scan) /\ s.da \in Seq(Byte)
  BY <1>1, <1>2, <1>3 DEF LessIs, Scanned
<1>5. Str!FindL([m EXCEPT !.da = s.da], match, s.scan) = f
  BY <1>3, <1>4, SearchIs
<1>6. f \in 0..Len(t)
  BY <1>2, <1>3, <1>4, FirstIs
<1>7. x = IF s.found = max \/ f >= Len(t) THEN s
          ELSE [da |-> new, wptr |-> w + Len(rep), scan |-> f + Len(match), found |-> s.found + 1]
  <2> HIDE DEF f
  <2> QED BY <1>2, <1>5 DEF LessNext, Moved
<1>8. (s.found = max \/ f >= Len(t)) = Over(t, match, max, s.scan, s.found)
  BY <1>2, <1>6 DEF Over
<1> HIDE DEF x
<1>9. CASE Over(t, match, max, s.scan, s.found)
  BY <1>7, <1>8, <1>9 DEF x
<1>10. CASE ~Over(t, match, max, s.scan, s.found)
  <2>1. /\ Len(new) = Len(s.da)
        /\ LessIs(new, w + Len(rep), f + Len(match), s.found + 1, t, off, most, h, e)
    BY <1>1, <1>10, LessStep
  <2> DEFINE y == [da |-> new, wptr |-> w + Len(rep), scan |-> f + Len(match), found |-> s.found + 1]
  <2>2. new \in Seq(Byte) /\ w + Len(rep) \in Nat
    BY <2>1 DEF LessIs
  <2>3. f + Len(match) \in Nat /\ s.found + 1 \in Nat
    BY <1>1, <1>3, <1>6, LenProperties
  <2> HIDE DEF new, w, f
  <2>4. y \in LessStates(m, t, off, most, h, e) /\ y.found = s.found + 1
    BY <1>1, <2>1, <2>2, <2>3 DEF LessStates
  <2>5. x = y
    BY <1>7, <1>8, <1>10
  <2> QED BY <1>10, <2>4, <2>5 DEF x
<1> QED BY <1>9, <1>10

(* The recursion of the steps ends where no match is left to replace.      *)
LessSteps(f, m, match, rep, off, max, a) ==
  f = [k \in 0..m.len |-> IF k = 0 THEN a ELSE LessNext(m, match, rep, off, max, f[k - 1])]

(* What the last of the states is.                                         *)
LessEnded(x, m, t, match, off, max, most, h, e) ==
  /\ x \in LessStates(m, t, off, most, h, e)
  /\ Over(t, match, max, x.scan, x.found) \/ x.found >= Len(t)

(* After as many turns as the text has characters the loop is over.        *)
LEMMA LessEnds ==
  ASSUME NEW m, NEW t, Reads(m, t), NEW match, NEW rep, NEW off, NEW max, NEW most, NEW h, NEW e,
         Edits(t, match, rep, off, max, most, h), Len(rep) <= Len(match),
         NEW a \in LessStates(m, t, off, most, h, e),
         NEW f, LessSteps(f, m, match, rep, off, max, a)
  PROVE  LessEnded(f[m.len], m, t, match, off, max, most, h, e)
<1> DEFINE n == Len(t)
           S == LessStates(m, t, off, most, h, e)
           G(s) == LessNext(m, match, rep, off, max, s)
           T == {k \in 0..n : f[k] \in S /\ (Over(t, match, max, f[k].scan, f[k].found) \/ f[k].found >= k)}
<1>1. m.len = n /\ n \in Nat
  BY ReadsIs
<1>2. f[0] = a /\ \A k \in 1..n : f[k] = G(f[k - 1])
  <2> HIDE DEF G
  <2>1. f = [k \in 0..n |-> IF k = 0 THEN a ELSE G(f[k - 1])]
    BY <1>1 DEF G, LessSteps
  <2>2. 0 \in 0..n /\ \A k \in 1..n : k \in 0..n /\ k # 0
    BY <1>1
  <2> QED BY ONLY <2>1, <2>2
<1>3. 0 \in T
  <2>1. a.found \in Nat
    BY DEF LessStates
  <2> QED BY <1>1, <1>2, <2>1
<1>4. ASSUME NEW k \in 1..n, k - 1 \in T PROVE k \in T
  <2> DEFINE p == f[k - 1]
  <2>1. p \in S /\ (Over(t, match, max, p.scan, p.found) \/ p.found >= k - 1)
    BY <1>4
  <2>2. f[k] = G(p)
    BY <1>2
  <2> HIDE DEF p
  <2>3. p.found \in Nat
    BY <2>1 DEF LessStates
  <2>4. G(p) \in S /\ (Over(t, match, max, p.scan, p.found) => G(p) = p)
        /\ (~Over(t, match, max, p.scan, p.found) => G(p).found = p.found + 1)
    <3>1. /\ G(p) \in S
          /\ Over(t, match, max, p.scan, p.found) => G(p) = p
          /\ ~Over(t, match, max, p.scan, p.found) => G(p).found = p.found + 1
      BY <2>1, LessGoes
    <3> HIDE DEF G
    <3> QED BY <3>1
  <2> HIDE DEF G, S
  <2> QED BY <1>1, <2>1, <2>2, <2>3, <2>4
<1>5. \A k \in 0..n : k \in T
  <2> HIDE DEF T
  <2> QED BY <1>1, <1>3, <1>4, Counting
<1>6. n \in T
  BY <1>1, <1>5
<1> QED BY <1>1, <1>6 DEF LessEnded

(* And there it is done but for the characters behind the last match.      *)
LEMMA LessDone ==
  ASSUME NEW t, NEW match, NEW rep, NEW off, NEW max, NEW most, NEW h, NEW e,
         Edits(t, match, rep, off, max, most, h), e \in Seq(Chars),
         NEW da, NEW wptr, NEW scan, NEW found,
         LessIs(da, wptr, scan, found, t, off, most, h, e), Len(t) < Len(da),
         Over(t, match, max, scan, found) \/ found >= Len(t)
  PROVE  LET rest == Len(t) - scan
         IN  Reads(Str!Terminated(Str!Move(da, wptr, scan, rest), wptr + rest), e)
<1> DEFINE n == Len(t)
           rest == n - scan
           s == Part(t, scan, n)
           new == Str!Move(da, wptr, scan, rest)
<1>1. t \in Seq(Chars) /\ n \in Nat /\ off \in 0..n
  BY LenProperties DEF Edits
<1>2. /\ da \in Seq(Byte) /\ Len(da) \in Nat /\ wptr \in Nat /\ wptr <= scan
      /\ scan \in off..n /\ FromOn(da, t, scan)
  BY LenProperties DEF LessIs, Scanned
<1>3. PICK a \in Seq(Chars) : Len(a) = wptr /\ Shows(da, 0, a) /\ e = a \o h[scan][most - found]
  BY DEF LessIs
<1>4. h[scan][most - found] = s
  <2>1. Scanned(t, off, most, scan, found)
    BY DEF LessIs
  <2> QED BY <2>1, ScanOver
<1>5. n \in 0..n /\ scan \in 0..n /\ scan \in scan..n /\ scan \in Nat /\ rest \in Nat
      /\ scan + rest = n /\ wptr + rest \in Nat /\ wptr + rest <= n /\ wptr + rest < Len(da)
  BY <1>1, <1>2
<1>6. s \in Seq(Chars) /\ s \in Seq(Byte) /\ Len(s) = rest
  BY <1>1, <1>5, PartLength, CharsAreBytes
<1>7. Shows(da, scan, s)
  BY <1>1, <1>2, <1>5, FromOnShows
<1> HIDE DEF s, rest, n
<1>8. Wrote(da, wptr, rest, new) /\ Shows(new, wptr, s)
  BY <1>2, <1>5, <1>6, <1>7, MoveWrote
<1> HIDE DEF new
<1>9. new \in Seq(Byte) /\ Len(new) = Len(da)
  BY <1>8 DEF Wrote
<1>10. a \in Seq(Byte) /\ 0 + Len(a) = wptr /\ 0 + Len(a) <= wptr /\ 0 \in Nat
  BY <1>2, <1>3, CharsAreBytes
<1>11. Shows(new, 0, a)
  BY <1>2, <1>3, <1>5, <1>8, <1>10, StaysShown
<1>12. Shows(new, 0, a \o s)
  BY <1>6, <1>8, <1>9, <1>10, <1>11, ShowsParts
<1>13. Len(e) = wptr + rest /\ Shows(new, 0, e)
  BY <1>3, <1>4, <1>6, <1>12, ConcatProperties
<1> DEFINE w == wptr + rest
<1>14. w = Len(e) /\ w < Len(new)
  BY <1>5, <1>9, <1>13
<1> HIDE DEF w
<1>15. Reads(Str!Terminated(new, w), e)
  BY <1>9, <1>13, <1>14, ShownReads
<1> QED BY <1>15 DEF w, new, rest, n

(* A replacement by less replaces the matches that it may.                 *)
LEMMA ReplacedLessIs ==
  ASSUME NEW m, NEW t, Reads(m, t), t # <<>>, NEW match, NEW rep, NEW off, NEW max, NEW most, NEW h,
         Edits(t, match, rep, off, max, most, h), Len(rep) <= Len(match),
         NEW e, e = Part(t, 0, off) \o h[off][most]
  PROVE  Reads(Str!ReplacedLess(m, match, rep, off, max), e)
<1> DEFINE n == Len(t)
           a == [da |-> m.da, wptr |-> off, scan |-> off, found |-> 0]
           S == LessStates(m, t, off, most, h, e)
           G(s) == LessNext(m, match, rep, off, max, s)
           Steps(f) == f = [k \in 0..m.len |-> IF k = 0 THEN a ELSE G(f[k - 1])]
           step == CHOOSE f : Steps(f)
           last == step[m.len]
           rest == m.len - last.scan
<1>1. /\ m.da \in Seq(Byte) /\ Len(m.da) \in Nat /\ m.len = n /\ n \in Nat
      /\ t \in Seq(Chars) /\ \A k \in 1..n : m.da[k] = t[k]
      /\ n < Len(m.da) /\ n <= Len(m.da) /\ n > 0
  BY ReadsIs, EmptySeq
<1>2. off \in 0..n /\ most \in 0..n
  BY DEF Edits
<1>3. Goes(h, t, match, rep, off, most)
  BY <1>2 DEF Edits
<1>4. h[off][most] \in Seq(Chars)
  BY <1>3 DEF Goes
<1>5. Part(t, 0, off) \in Seq(Chars) /\ Len(Part(t, 0, off)) = off
  <2>1. 0 \in 0..off /\ off - 0 = off
    BY <1>2
  <2> QED BY <1>1, <1>2, <2>1, PartLength
<1>6. e \in Seq(Chars)
  BY <1>4, <1>5, ConcatProperties
<1>7. FromOn(m.da, t, 0) /\ FromOn(m.da, t, off)
  BY <1>1, <1>2 DEF FromOn
<1>8. Shows(m.da, 0, Part(t, 0, off))
  <2>1. 0 \in 0..off /\ 0 \in Nat
    BY <1>2
  <2> QED BY <1>1, <1>2, <1>7, <2>1, FromOnShows
<1>9. a \in S /\ a.found = 0
  <2>1. LessIs(m.da, off, off, 0, t, off, most, h, e)
    <3>1. \E b \in Seq(Chars) : Len(b) = off /\ Shows(m.da, 0, b) /\ e = b \o h[off][most - 0]
      <4>1. most - 0 = most
        BY <1>2
      <4> QED BY <1>5, <1>8, <4>1
    <3>2. Scanned(t, off, most, off, 0)
      BY <1>1, <1>2 DEF Scanned
    <3>3. off \in Nat /\ off <= off
      BY <1>1, <1>2
    <3> QED BY ONLY <1>1, <1>7, <3>1, <3>2, <3>3 DEF LessIs
  <2> QED BY <1>1, <1>2, <2>1 DEF LessStates
<1> HIDE DEF a
<1>10. \E f : Steps(f)
  <2> DEFINE next == [s \in S |-> G(s)]
  <2>1. next \in [S -> S]
    <3>1. ASSUME NEW s \in S PROVE G(s) \in S
      BY LessGoes
    <3> HIDE DEF G, S
    <3> QED BY <3>1
  <2> HIDE DEF S, G
  <2>2. PICK f : Repeated(f, S, n, a, next)
    <3> HIDE DEF next
    <3> QED BY <1>1, <1>9, <2>1, Repeating
  <2>3. f \in [0..n -> S] /\ f[0] = a /\ \A k \in 1..n : f[k] = next[f[k - 1]]
    BY <2>2 DEF Repeated
  <2>4. ASSUME NEW k \in 1..n PROVE f[k] = G(f[k - 1])
    <3>1. k - 1 \in 0..n
      BY <1>1
    <3>2. f[k - 1] \in S
      BY <2>3, <3>1
    <3> QED BY <2>3, <3>2
  <2>5. \A k \in 0..n : k # 0 => k \in 1..n
    BY <1>1
  <2> HIDE DEF next
  <2>6. Steps(f)
    BY <1>1, <2>3, <2>4, <2>5
  <2> QED BY <2>6
<1>11. Steps(step)
  <2> HIDE DEF Steps
  <2> QED BY <1>10
<1>12. Str!ReplacedLess(m, match, rep, off, max) =
         IF last.found = 0 THEN m
         ELSE Str!Terminated(Str!Move(last.da, last.wptr, last.scan, rest), last.wptr + rest)
  BY DEF Str!ReplacedLess, LessNext, a
<1> HIDE DEF step
<1>13. /\ last \in S
       /\ Over(t, match, max, last.scan, last.found) \/ last.found >= n
  <2>1. LessSteps(step, m, match, rep, off, max, a)
    BY <1>11 DEF LessSteps
  <2>2. a \in LessStates(m, t, off, most, h, e)
    BY <1>9
  <2>3. LessEnded(last, m, t, match, off, max, most, h, e)
    <3> HIDE DEF Steps, G, S
    <3> QED BY <2>1, <2>2, LessEnds
  <2> QED BY <2>3 DEF LessEnded
<1> HIDE DEF last
<1>14. /\ Len(last.da) = Len(m.da)
       /\ LessIs(last.da, last.wptr, last.scan, last.found, t, off, most, h, e)
  BY <1>13 DEF LessStates
<1>15. CASE last.found = 0
  <2>1. last.scan = off /\ Scanned(t, off, most, last.scan, 0)
    BY <1>14, <1>15 DEF LessIs
  <2>2. h[off][most - 0] = Part(t, off, n)
    BY <1>13, <1>15, <2>1, ScanOver
  <2>3. most - 0 = most /\ off \in 0..n /\ n \in 0..n /\ 0 \in 0..off
    BY <1>1, <1>2
  <2>4. e = Part(t, 0, n)
    BY <1>1, <2>2, <2>3, PartsJoin
  <2>5. Part(t, 0, n) = t
    BY <1>1, 0 + 1 = 1, SubSeqFull DEF Part
  <2> QED BY <1>12, <1>15, <2>4, <2>5
<1>16. CASE last.found # 0
  <2> DEFINE r == n - last.scan
  <2>1. Reads(Str!Terminated(Str!Move(last.da, last.wptr, last.scan, r), last.wptr + r), e)
    BY <1>1, <1>6, <1>13, <1>14, LessDone
  <2>2. r = rest
    BY <1>1
  <2> HIDE DEF r, rest
  <2> QED BY <1>12, <1>16, <2>1, <2>2
<1> QED BY <1>15, <1>16

(* Steps that lead from what holds before one to what holds before the     *)
(* next: a recursion over them has a result.                               *)
Leads(f, n, I, a, G) ==
  /\ f = [k \in 0..n |-> f[k]] /\ f[0] = a
  /\ \A k \in 0..n : f[k] \in I[k]
  /\ \A k \in 1..n : f[k] = G[k][f[k - 1]]

(* There is a sequence of states that lead one to the next, when each turn *)
(* has its own step.                                                       *)
LEMMA Leading ==
  ASSUME NEW n \in Nat, NEW I, NEW a \in I[0], NEW G, \A k \in 1..n : G[k] \in [I[k - 1] -> I[k]]
  PROVE  \E f : Leads(f, n, I, a, G)
<1> DEFINE S == UNION {I[k] : k \in 0..n}
           step == [k \in 1..n |-> [s \in S |-> IF s \in I[k - 1] THEN G[k][s] ELSE a]]
<1>1. 0 \in 0..n /\ \A k \in 1..n : k \in 0..n /\ k - 1 \in 0..n
  OBVIOUS
<1>2. a \in S
  BY <1>1
<1>3. ASSUME NEW k \in 1..n, NEW s \in S
      PROVE  (IF s \in I[k - 1] THEN G[k][s] ELSE a) \in S
  <2>1. CASE s \in I[k - 1]
    <3>1. G[k] \in [I[k - 1] -> I[k]]
      OBVIOUS
    <3>2. G[k][s] \in I[k]
      BY ONLY <2>1, <3>1
    <3>3. G[k][s] \in S
      BY <1>1, <3>2
    <3> HIDE DEF S
    <3> QED BY <2>1, <3>3
  <2>2. CASE s \notin I[k - 1]
    <3> HIDE DEF S
    <3> QED BY <1>2, <2>2
  <2> QED BY <2>1, <2>2
<1>4. step \in [1..n -> [S -> S]]
  <2> HIDE DEF S
  <2> QED BY <1>3
<1> HIDE DEF S
<1>5. PICK f : Iterates(f, S, n, a, step)
  <2> HIDE DEF step
  <2> QED BY <1>2, <1>4, Iterating
<1>6. f \in [0..n -> S] /\ f[0] = a /\ \A k \in 1..n : f[k] = step[k][f[k - 1]]
  BY <1>5 DEF Iterates
<1> DEFINE T == {k \in 0..n : f[k] \in I[k]}
<1>7. 0 \in T
  BY <1>1, <1>6
<1>8. ASSUME NEW k \in 1..n, f[k - 1] \in I[k - 1] PROVE f[k] = G[k][f[k - 1]] /\ f[k] \in I[k]
  <2>1. f[k - 1] \in S
    BY <1>1, <1>6
  <2>2. f[k] = G[k][f[k - 1]]
    BY <1>6, <1>8, <2>1
  <2>3. G[k] \in [I[k - 1] -> I[k]]
    OBVIOUS
  <2> QED BY ONLY <1>8, <2>2, <2>3
<1> HIDE DEF step
<1>9. \A k \in 1..n : k - 1 \in T => k \in T
  BY <1>1, <1>8
<1>10. \A k \in 0..n : k \in T
  <2> HIDE DEF T
  <2> QED BY <1>7, <1>9, Counting
<1>11. \A k \in 0..n : f[k] \in I[k]
  BY <1>10
<1>12. f = [k \in 0..n |-> f[k]]
  BY <1>6
<1>13. \A k \in 1..n : f[k] = G[k][f[k - 1]]
  BY <1>1, <1>8, <1>11
<1> QED BY <1>6, <1>11, <1>12, <1>13 DEF Leads

---------------------------------------------------------------------------
(* The parts of a place that are put into chars.                           *)
IsRest(f, place, bytes) ==
  f = [i \in 0..bytes |-> IF i = 0 THEN place ELSE f[i - 1] \div CharValues]

(* Division by the number of values of a character.                        *)
LEMMA QuotientIs ==
  ASSUME NEW x \in Nat
  PROVE  /\ x \div CharValues \in Nat /\ x % CharValues \in Nat
         /\ x = CharValues * (x \div CharValues) + (x % CharValues)
         /\ x % CharValues < CharValues /\ x % CharValues <= x /\ x \div CharValues <= x
<1>1. CharValues \in Nat /\ CharValues >= 2
  BY LengthsAssumption
<1>2. /\ x % CharValues \in 0..(CharValues - 1) /\ x \div CharValues \in Int
      /\ x = CharValues * (x \div CharValues) + (x % CharValues)
  BY <1>1, DivMod
<1> DEFINE q == x \div CharValues
           r == x % CharValues
<1>3. q \in Int /\ r \in 0..(CharValues - 1) /\ x = CharValues * q + r
  BY <1>2
<1> HIDE DEF q, r
<1>4. q >= 0
  <2>1. CASE q <= -1
    <3>1. CharValues * q <= -CharValues
      BY <1>1, <1>3, <2>1
    <3> QED BY <1>1, <1>3, <3>1
  <2> QED BY <1>3, <2>1
<1>5. CharValues * q >= q
  BY <1>1, <1>3, <1>4
<1> QED BY <1>1, <1>3, <1>4, <1>5 DEF q, r

(* A link is the digits of a place, by what is left of it after each.      *)
LEMMA LinkedIs ==
  ASSUME NEW place \in Nat, NEW bytes \in Nat
  PROVE  \E f \in [0..bytes -> Nat] : /\ IsRest(f, place, bytes)
                     /\ Str!Linked(place, bytes) = [i \in 1..bytes |-> f[i - 1] % CharValues]
<1> DEFINE step == [x \in Nat |-> x \div CharValues]
           rest == CHOOSE f : IsRest(f, place, bytes)
<1>1. \E f : IsRest(f, place, bytes)
  <2>1. step \in [Nat -> Nat]
    BY QuotientIs
  <2>2. PICK f : Repeated(f, Nat, bytes, place, step)
    <3> HIDE DEF step
    <3> QED BY <2>1, Repeating
  <2>3. f \in [0..bytes -> Nat] /\ f[0] = place /\ \A k \in 1..bytes : f[k] = step[f[k - 1]]
    BY <2>2 DEF Repeated
  <2>4. ASSUME NEW k \in 1..bytes PROVE f[k] = f[k - 1] \div CharValues
    <3>1. f[k - 1] \in Nat
      BY <2>3
    <3> QED BY <2>3, <3>1
  <2>5. \A k \in 0..bytes : k # 0 => k \in 1..bytes
    OBVIOUS
  <2> HIDE DEF step
  <2> QED BY <2>3, <2>4, <2>5 DEF IsRest
<1>2. IsRest(rest, place, bytes)
  BY <1>1
<1>3. Str!Linked(place, bytes) = [i \in 1..bytes |-> rest[i - 1] % CharValues]
  BY DEF Str!Linked, IsRest
<1> HIDE DEF rest
<1>4. rest[0] = place /\ \A k \in 1..bytes : rest[k] = rest[k - 1] \div CharValues
  BY <1>2 DEF IsRest
<1> DEFINE T == {k \in 0..bytes : rest[k] \in Nat}
<1>5. 0 \in T
  BY <1>4
<1>6. \A k \in 1..bytes : k - 1 \in T => k \in T
  BY <1>4, QuotientIs
<1>7. \A k \in 0..bytes : k \in T
  <2> HIDE DEF T
  <2> QED BY <1>5, <1>6, Counting
<1>8. rest \in [0..bytes -> Nat]
  <2>1. rest = [k \in 0..bytes |-> rest[k]]
    BY <1>2 DEF IsRest
  <2> QED BY <1>7, <2>1
<1> QED BY <1>2, <1>3, <1>8

(* A link is as many cells as it is given bytes.                           *)
LEMMA LinkedType ==
  ASSUME NEW place \in Nat, NEW bytes \in Nat
  PROVE  Str!Linked(place, bytes) \in Seq(Byte) /\ Len(Str!Linked(place, bytes)) = bytes
<1> DEFINE v == Str!Linked(place, bytes)
<1>1. PICK f \in [0..bytes -> Nat] : v = [i \in 1..bytes |-> f[i - 1] % CharValues]
  BY LinkedIs
<1> HIDE DEF v
<1>2. ASSUME NEW i \in 1..bytes PROVE f[i - 1] % CharValues \in Byte
  <2>1. f[i - 1] \in Nat
    OBVIOUS
  <2> QED BY <2>1, QuotientIs DEF Byte
<1>3. v \in [1..bytes -> Byte]
  BY <1>1, <1>2
<1> QED BY <1>3, FunctionIsSeq DEF v

(* The numbers that so many chars can hold.                                *)
IsMost(f, n) == f = [b \in 0..n |-> IF b = 0 THEN 1 ELSE CharValues * f[b - 1]]

(* The number of bytes is that of the largest place of the text.           *)
LEMMA LenBytesIs ==
  ASSUME NEW n \in Nat
  PROVE  \E f \in [0..n -> Nat] : /\ IsMost(f, n)
                                  /\ Str!LenBytes(n) \in 0..n /\ f[Str!LenBytes(n)] >= n
<1> DEFINE step == [x \in Nat |-> CharValues * x]
           most == CHOOSE f : IsMost(f, n)
           Enough(b) == most[b] >= n /\ \A a \in 0..(b - 1) : most[a] < n
           bytes == CHOOSE b \in 0..n : Enough(b)
<1>1. CharValues \in Nat /\ CharValues >= 2
  BY LengthsAssumption
<1>2. \E f : IsMost(f, n)
  <2>1. step \in [Nat -> Nat] /\ 1 \in Nat
    BY <1>1
  <2>2. PICK f : Repeated(f, Nat, n, 1, step)
    <3> HIDE DEF step
    <3> QED BY <2>1, Repeating
  <2>3. f \in [0..n -> Nat] /\ f[0] = 1 /\ \A k \in 1..n : f[k] = step[f[k - 1]]
    BY <2>2 DEF Repeated
  <2>4. ASSUME NEW k \in 1..n PROVE f[k] = CharValues * f[k - 1]
    <3>1. f[k - 1] \in Nat
      BY <2>3
    <3> QED BY <2>3, <3>1
  <2>5. \A k \in 0..n : k # 0 => k \in 1..n
    OBVIOUS
  <2> HIDE DEF step
  <2> QED BY <2>3, <2>4, <2>5 DEF IsMost
<1>3. IsMost(most, n)
  BY <1>2
<1>4. Str!LenBytes(n) = bytes
  BY DEF Str!LenBytes, IsMost
<1> HIDE DEF most
<1>5. most[0] = 1 /\ \A k \in 1..n : most[k] = CharValues * most[k - 1]
  BY <1>3 DEF IsMost
<1> DEFINE T == {k \in 0..n : most[k] \in Nat /\ most[k] >= k + 1}
<1>6. 0 \in T
  BY <1>5
<1>7. ASSUME NEW k \in 1..n, k - 1 \in T PROVE k \in T
  <2> DEFINE x == most[k - 1]
  <2>1. x \in Nat /\ x >= k /\ most[k] = CharValues * x
    BY <1>5, <1>7
  <2> HIDE DEF x
  <2>2. CharValues * x \in Nat /\ CharValues * x >= 2 * x
    BY <1>1, <2>1
  <2> QED BY <2>1, <2>2
<1>8. \A k \in 0..n : k \in T
  <2> HIDE DEF T
  <2> QED BY <1>6, <1>7, Counting
<1>9. \A k \in 0..n : most[k] \in Nat /\ most[k] >= k + 1
  BY <1>8
<1>10. \E b \in 0..n : Enough(b)
  <2> DEFINE B == {b \in 0..n : most[b] >= n}
  <2>1. n \in B
    BY <1>9
  <2>2. B \in SUBSET Nat /\ B # {}
    BY <2>1
  <2>3. PICK b \in B : \A a \in B : b <= a
    <3> HIDE DEF B
    <3> QED BY <2>2, Smallest
  <2>4. ASSUME NEW a \in 0..(b - 1) PROVE most[a] < n
    <3>1. a \in 0..n /\ ~(b <= a)
      OBVIOUS
    <3>2. a \notin B /\ most[a] \in Nat
      BY <1>9, <2>3, <3>1
    <3> QED BY <3>1, <3>2
  <2> QED BY <2>3, <2>4
<1>11. bytes \in 0..n /\ Enough(bytes)
  <2> HIDE DEF Enough
  <2> QED BY <1>10
<1>12. most[bytes] >= n
  BY <1>11
<1>13. most \in [0..n -> Nat]
  <2>1. most = [k \in 0..n |-> most[k]]
    BY <1>3 DEF IsMost
  <2> QED BY <1>9, <2>1
<1> HIDE DEF bytes
<1> QED BY <1>3, <1>4, <1>11, <1>12, <1>13

(* No part of a place in a text of n characters is negative.               *)
Legible(n) == "signed" \in Faults => 2 * n <= CharValues

(* A place that is read back from where it has been put.                   *)
LEMMA LinkIs ==
  ASSUME NEW n \in Nat, Legible(n), NEW place \in 0..(n - 1), NEW bytes, bytes = Str!LenBytes(n),
         NEW da \in Seq(Byte), NEW at \in Nat, Shows(da, at, Str!Linked(place, bytes))
  PROVE  Str!LinkAt(da, at, bytes) = place
<1> DEFINE IsSum(f) == f = [i \in 0..bytes |->
                              IF i = 0 THEN 0
                              ELSE IF Str!Negative(da[at + bytes - i + 1])
                                THEN da[at + bytes - i + 1] - CharValues
                                ELSE CharValues * f[i - 1] + da[at + bytes - i + 1]]
           sum == CHOOSE f : IsSum(f)
<1>1. PICK most \in [0..n -> Nat] : IsMost(most, n) /\ bytes \in 0..n /\ most[bytes] >= n
  BY LenBytesIs
<1>2. bytes \in Nat /\ place \in Nat /\ place < n /\ bytes <= n /\ n \in Nat
  BY <1>1
<1>3. PICK rest \in [0..bytes -> Nat] :
        /\ IsRest(rest, place, bytes)
        /\ Str!Linked(place, bytes) = [i \in 1..bytes |-> rest[i - 1] % CharValues]
  BY <1>2, LinkedIs
<1>4. rest[0] = place /\ \A k \in 1..bytes : rest[k] = rest[k - 1] \div CharValues
  BY <1>2, <1>3 DEF IsRest
<1>5. most[0] = 1 /\ \A k \in 1..n : most[k] = CharValues * most[k - 1]
  BY <1>1 DEF IsMost
<1>6. ASSUME NEW i \in 1..bytes PROVE da[at + bytes - i + 1] = rest[bytes - i] % CharValues
  <2> DEFINE k == bytes - i + 1
  <2>1. k \in 1..bytes /\ at + bytes - i + 1 = at + k /\ bytes - i = k - 1
    <3>1. i \in 1..bytes /\ at \in Nat
      OBVIOUS
    <3> QED BY ONLY <1>2, <3>1
  <2> HIDE DEF k
  <2>2. Len(Str!Linked(place, bytes)) = bytes
    BY <1>2, LinkedType
  <2>3. da[at + k] = Str!Linked(place, bytes)[k]
    BY <2>1, <2>2 DEF Shows
  <2>4. Str!Linked(place, bytes)[k] = rest[k - 1] % CharValues
    BY <1>3, <2>1
  <2> QED BY <2>1, <2>3, <2>4
<1>7. CharValues \in Nat /\ CharValues >= 2
  BY LengthsAssumption
<1>8. rest[bytes] = 0
  <2> DEFINE T == {k \in 0..bytes : rest[k] < most[bytes - k]}
  <2>1. 0 \in T
    BY <1>1, <1>2, <1>4
  <2>2. ASSUME NEW k \in 1..bytes, k - 1 \in T PROVE k \in T
    <3> DEFINE x == rest[k - 1]
               y == most[bytes - k]
               q == x \div CharValues
    <3>1. bytes - (k - 1) \in 1..n /\ bytes - (k - 1) - 1 = bytes - k /\ bytes - k \in 0..n /\ k - 1 \in 0..bytes
      <4>1. k \in 1..bytes /\ n \in Nat
        OBVIOUS
      <4> QED BY ONLY <1>2, <4>1
    <3>2. most[bytes - (k - 1)] = CharValues * y
      BY <1>5, <3>1
    <3>3. x \in Nat /\ y \in Nat /\ x < CharValues * y /\ rest[k] = q
      BY <1>4, <2>2, <3>1, <3>2
    <3> HIDE DEF x, y
    <3>4. q \in Nat /\ x >= CharValues * q
      <4>1. q \in Nat /\ x % CharValues \in Nat /\ x = CharValues * q + (x % CharValues)
        BY <3>3, QuotientIs
      <4> HIDE DEF q
      <4> QED BY <1>7, <3>3, <4>1
    <3> HIDE DEF q
    <3>5. q < y
      <4>1. CASE q >= y
        <5>1. CharValues * q >= CharValues * y
          BY <1>7, <3>3, <3>4, <4>1
        <5>2. CharValues * q \in Nat /\ CharValues * y \in Nat
          BY <1>7, <3>3, <3>4
        <5> QED BY <3>3, <3>4, <5>1, <5>2
      <4> QED BY <3>3, <3>4, <4>1
    <3> QED BY <3>3, <3>5 DEF y
  <2>3. \A k \in 0..bytes : k \in T
    <3> HIDE DEF T
    <3> QED BY <1>2, <2>1, <2>2, Counting
  <2>4. bytes \in T /\ bytes - bytes = 0 /\ rest[bytes] \in Nat
    BY <1>2, <2>3
  <2> QED BY <1>5, <2>4
<1> DEFINE g == [i \in 0..bytes |-> rest[bytes - i]]
<1>9. \A k \in 0..bytes : rest[k] <= place
  <2> DEFINE T == {k \in 0..bytes : rest[k] <= place}
  <2>1. 0 \in T
    BY <1>2, <1>4
  <2>2. ASSUME NEW k \in 1..bytes, k - 1 \in T PROVE k \in T
    <3>1. rest[k - 1] \in Nat /\ rest[k - 1] <= place /\ rest[k] = rest[k - 1] \div CharValues
      BY <1>4, <2>2
    <3>2. rest[k] \in Nat /\ rest[k] <= rest[k - 1]
      BY <3>1, QuotientIs
    <3> QED BY <1>2, <3>1, <3>2
  <2>3. \A k \in 0..bytes : k \in T
    <3> HIDE DEF T
    <3> QED BY <1>2, <2>1, <2>2, Counting
  <2> QED BY <2>3
<1>10. ASSUME NEW i \in 1..bytes PROVE ~Str!Negative(da[at + bytes - i + 1])
  <2> DEFINE x == rest[bytes - i]
             c == x % CharValues
  <2>1. bytes - i \in 0..bytes
    BY <1>2
  <2>2. x \in Nat /\ x <= place
    BY <1>9, <2>1
  <2> HIDE DEF x
  <2>3. c \in Nat /\ c <= x
    BY <2>2, QuotientIs
  <2> HIDE DEF c
  <2>4. ~("signed" \in Faults /\ 2 * c >= CharValues)
    BY <1>2, <1>7, <2>2, <2>3 DEF Legible
  <2>5. da[at + bytes - i + 1] = c
    BY <1>6 DEF c, x
  <2> QED BY <2>4, <2>5 DEF Str!Negative
<1>11. ASSUME NEW i \in 1..bytes
      PROVE  rest[bytes - i] = CharValues * rest[bytes - (i - 1)] + da[at + bytes - i + 1]
  <2> DEFINE x == rest[bytes - i]
  <2>1. bytes - i \in 0..bytes /\ bytes - (i - 1) \in 1..bytes /\ bytes - (i - 1) - 1 = bytes - i
    <3>1. i \in 1..bytes
      OBVIOUS
    <3> QED BY ONLY <1>2, <3>1
  <2>2. x \in Nat /\ rest[bytes - (i - 1)] = x \div CharValues
    BY <1>4, <2>1
  <2> HIDE DEF x
  <2>3. x = CharValues * (x \div CharValues) + (x % CharValues)
    BY <2>2, QuotientIs
  <2> QED BY <1>6, <2>2, <2>3 DEF x
<1>12. IsSum(g)
  <2>1. ASSUME NEW i \in 0..bytes
        PROVE  g[i] = IF i = 0 THEN 0
                      ELSE IF Str!Negative(da[at + bytes - i + 1])
                        THEN da[at + bytes - i + 1] - CharValues
                        ELSE CharValues * g[i - 1] + da[at + bytes - i + 1]
    <3>1. CASE i = 0
      BY <1>2, <1>8, <3>1
    <3>2. CASE i # 0
      <4>1. i \in 1..bytes /\ i - 1 \in 0..bytes
        BY <1>2, <3>2
      <4> QED BY <1>11, <1>10, <3>2, <4>1
    <3> QED BY <3>1, <3>2
  <2>2. g = [i \in 0..bytes |-> g[i]]
    OBVIOUS
  <2> HIDE DEF g
  <2> QED BY <2>1, <2>2
<1>13. IsSum(sum)
  <2> HIDE DEF IsSum, g
  <2> QED BY <1>12
<1>14. Str!LinkAt(da, at, bytes) = sum[bytes]
  BY DEF Str!LinkAt
<1> HIDE DEF sum
<1>15. sum[0] = 0 /\ \A i \in 1..bytes : sum[i] = CharValues * sum[i - 1] + da[at + bytes - i + 1]
  BY <1>2, <1>13, <1>10
<1> DEFINE T == {i \in 0..bytes : sum[i] = rest[bytes - i]}
<1>16. 0 \in T
  BY <1>2, <1>8, <1>15
<1>17. ASSUME NEW i \in 1..bytes, i - 1 \in T PROVE i \in T
  <2>1. sum[i - 1] = rest[bytes - (i - 1)]
    BY <1>17
  <2>2. sum[i] = CharValues * sum[i - 1] + da[at + bytes - i + 1]
    BY <1>15
  <2>3. sum[i] = rest[bytes - i]
    BY <1>11, <2>1, <2>2
  <2> QED BY <1>2, <2>3
<1>18. \A i \in 0..bytes : i \in T
  <2> HIDE DEF T
  <2> QED BY <1>2, <1>16, <1>17, Counting
<1>19. bytes \in T /\ bytes - bytes = 0
  BY <1>2, <1>18
<1> QED BY <1>4, <1>14, <1>19

(* A number that many times.                                               *)
Lift(j, d) == j * d

---------------------------------------------------------------------------
(* Replacement by more: the parts move up, the last first.                 *)

(* The lift of a match is that of the one before it and one difference     *)
(* more.                                                                   *)
LEMMA LiftIs ==
  ASSUME NEW j \in Nat, NEW d \in Nat
  PROVE  /\ Lift(j, d) \in Nat /\ Lift(0, d) = 0
         /\ j >= 1 => Lift(j, d) = Lift(j - 1, d) + d /\ Lift(j, d) >= d
<1>1. j * d \in Nat /\ 0 * d = 0
  OBVIOUS
<1>2. CASE j >= 1
  <2> DEFINE i == j - 1
  <2>1. i \in Nat /\ j = i + 1
    BY <1>2
  <2> HIDE DEF i
  <2>2. j * d = i * d + d /\ i * d \in Nat
    BY <2>1
  <2> QED BY <1>1, <2>1, <2>2 DEF Lift, i
<1>3. CASE ~(j >= 1)
  BY <1>1, <1>3 DEF Lift
<1> QED BY <1>2, <1>3

(* Places p of matches of length z, the one behind the other, where the    *)
(* search goes on after so many of them, and the place before one.         *)
Apart(p, z) == \A x, y \in 1..Len(p) : x < y => p[x] + z <= p[y]

(* Where the text goes on behind match j, which lies at off if there is    *)
(* none.                                                                   *)
After(p, off, z, j) == IF j = 0 THEN off ELSE p[j] + z

(* The place that match j links to: that of the match before it.           *)
Before(p, j) == IF j = 1 THEN 0 ELSE p[j - 1]

(* What the match in place p[j] is to the edited text.                     *)
Taken(p, j, t, match, rep, off, most, h) ==
  LET s == After(p, off, Len(match), j - 1)
      y == h[p[j] + Len(match)][most - j]
  IN  /\ s \in off..Len(t) /\ p[j] \in s..Len(t) /\ p[j] + Len(match) <= Len(t)
      /\ y \in Seq(Chars)
      /\ h[s][most - (j - 1)] = Part(t, s, p[j]) \o (rep \o y)

(* The places p are those of all the matches that the edited text h        *)
(* replaces.                                                               *)
AllTaken(p, t, match, rep, off, most, h) ==
  /\ p \in Seq(Nat) /\ Apart(p, Len(match)) /\ Len(p) <= most
  /\ \A j \in 1..Len(p) : Taken(p, j, t, match, rep, off, most, h)

(* The cells that are in none of the matches are those of t.               *)
Outside(da, t, p, z) ==
  /\ Len(t) <= Len(da)
  /\ \A i \in 1..Len(t) :
       (\A x \in 1..Len(p) : i <= p[x] \/ p[x] + z < i) => da[i] = t[i]

(* What is between two matches, or between one and an end of the text.     *)
Gap(p, n, z, j, a, end) ==
  /\ end = IF j = Len(p) THEN n ELSE p[j + 1]
  /\ a = IF j = 0 THEN 0 ELSE p[j] + z

(* Cells that hold the text outside the matches show what lies in front of *)
(* match j or behind the last.                                             *)
LEMMA BetweenShows ==
  ASSUME NEW t \in Seq(Chars), NEW match \in Seq(Chars), NEW rep, NEW off \in 0..Len(t), NEW most, NEW h,
         NEW p, AllTaken(p, t, match, rep, off, most, h),
         NEW z, z = Len(match), NEW da \in Seq(Byte), Outside(da, t, p, z),
         NEW j \in 0..Len(p), NEW a, NEW end, Gap(p, Len(t), z, j, a, end)
  PROVE  a \in 0..end /\ end \in 0..Len(t) /\ Shows(da, a, Part(t, a, end))
<1> DEFINE F == Len(p)
           n == Len(t)
           s == Part(t, a, end)
<1>1. /\ end = IF j = Len(p) THEN Len(t) ELSE p[j + 1]
      /\ a = IF j = 0 THEN 0 ELSE p[j] + z
  BY DEF Gap
<1> USE <1>1
<1>2. /\ p \in Seq(Nat) /\ F \in Nat /\ n \in Nat /\ z \in Nat /\ off \in Nat /\ off <= n
      /\ \A x \in 1..F : p[x] \in Nat
      /\ \A x, y \in 1..F : x < y => p[x] + z <= p[y]
  <2>1. p \in Seq(Nat) /\ Apart(p, z)
    BY DEF AllTaken
  <2>2. \A x \in 1..F : p[x] \in Nat
    BY <2>1, ElementOfSeq
  <2> QED BY <2>1, <2>2, LenProperties DEF Apart
<1>3. ASSUME NEW x \in 1..F
      PROVE  /\ After(p, off, z, x - 1) \in off..n /\ p[x] \in After(p, off, z, x - 1)..n
             /\ p[x] + z <= n
  BY DEF AllTaken, Taken
<1>4. end \in 0..n
  <2>1. CASE j = F
    BY <1>2, <2>1
  <2>2. CASE j # F
    <3>1. j + 1 \in 1..F
      BY <1>2, <2>2
    <3>2. p[j + 1] \in Nat /\ p[j + 1] + z <= n
      BY <1>2, <1>3, <3>1
    <3> QED BY <1>2, <2>2, <3>2
  <2> QED BY <2>1, <2>2
<1>5. a \in 0..end
  <2>1. CASE j = 0
    BY <1>4, <2>1
  <2>2. CASE j # 0
    <3>1. j \in 1..F /\ a = p[j] + z /\ a \in Nat
      BY <1>2, <2>2
    <3>2. CASE j = F
      BY <1>3, <3>1, <3>2
    <3>3. CASE j # F
      <4>1. j + 1 \in 1..F /\ j < j + 1
        BY <1>2, <3>1, <3>3
      <4>2. p[j] + z <= p[j + 1]
        BY <1>2, <3>1, <4>1
      <4> QED BY <1>4, <3>1, <3>3, <4>2
    <3> QED BY <3>2, <3>3
  <2> QED BY <2>1, <2>2
<1>6. ASSUME NEW i \in (a + 1)..end PROVE da[i] = t[i]
  <2>1. i \in 1..n /\ i \in Nat /\ a < i /\ i <= end
    <3>1. a \in Nat /\ end \in Nat /\ end <= n
      BY <1>2, <1>4, <1>5
    <3>2. i \in (a + 1)..end
      OBVIOUS
    <3> QED BY ONLY <1>2, <3>1, <3>2
  <2>2. ASSUME NEW x \in 1..F PROVE i <= p[x] \/ p[x] + z < i
    <3>1. p[x] \in Nat
      BY <1>2
    <3>2. CASE x <= j
      <4>1. j \in 1..F /\ a = p[j] + z
        BY <1>2, <3>2
      <4>2. p[x] <= p[j]
        <5>1. CASE x = j
          BY <1>2, <4>1, <5>1
        <5>2. CASE x < j
          <6>1. p[x] + z <= p[j]
            BY <1>2, <4>1, <5>2
          <6>2. p[j] \in Nat
            BY <1>2, <4>1
          <6> QED BY ONLY <1>2, <3>1, <6>1, <6>2
        <5> QED BY <1>2, <3>2, <5>1, <5>2
      <4>3. p[j] \in Nat
        BY <1>2, <4>1
      <4>4. z \in Nat
        BY <1>2
      <4>5. a < i /\ i \in Nat
        BY <2>1
      <4>6. p[x] + z < i
        BY ONLY <3>1, <4>1, <4>2, <4>3, <4>4, <4>5
      <4> QED BY <4>6
    <3>3. CASE ~(x <= j)
      <4>1. j # F /\ j + 1 \in 1..F /\ end = p[j + 1]
        BY <1>2, <3>3
      <4>2. p[j + 1] <= p[x]
        <5>1. CASE x = j + 1
          BY <1>2, <4>1, <5>1
        <5>2. CASE j + 1 < x
          <6>1. p[j + 1] + z <= p[x]
            BY <1>2, <4>1, <5>2
          <6>2. p[j + 1] \in Nat
            BY <1>2, <4>1
          <6> QED BY <1>2, <3>1, <6>1, <6>2
        <5> QED BY <1>2, <3>3, <5>1, <5>2
      <4>3. p[j + 1] \in Nat
        BY <1>2, <4>1
      <4> QED BY <2>1, <3>1, <4>1, <4>2, <4>3
    <3> QED BY <3>2, <3>3
  <2> HIDE DEF F
  <2> QED BY <2>1, <2>2 DEF Outside, F
<1>7. /\ s \in Seq(Chars) /\ Len(s) = end - a
      /\ \A k \in 1..(end - a) : s[k] = t[a + k]
  <2>1. end \in 0..Len(t) /\ a \in 0..end
    BY <1>4, <1>5
  <2> QED BY ONLY t \in Seq(Chars), <2>1, PartLength
<1> HIDE DEF s
<1>8. a \in Nat /\ end \in Nat /\ Len(da) \in Nat /\ n <= Len(da) /\ a + (end - a) <= Len(da)
  <2>1. Len(da) \in Nat /\ n <= Len(da)
    BY LenProperties DEF Outside
  <2>2. a \in Nat /\ end \in Nat /\ end <= n /\ a <= end
    BY <1>2, <1>4, <1>5
  <2> QED BY ONLY <1>2, <2>1, <2>2
<1>9. \A k \in 1..(end - a) : a + k \in (a + 1)..end
  BY <1>8
<1>10. \A k \in 1..Len(s) : da[a + k] = s[k]
  BY <1>6, <1>7, <1>9
<1> QED BY <1>4, <1>5, <1>7, <1>8, <1>10 DEF Shows, s

(* In the middle of a replacement by more: with j matches left, what was   *)
(* from end on is done, up to place n, and before end all is as it was.    *)
BackIs(da, end, at, j, orig, n, t, p, match, rep, off, most, h) ==
  LET up == Lift(j, Len(rep) - Len(match))
  IN  /\ da \in Seq(Byte) /\ Len(da) = Len(orig)
      /\ end = IF j = Len(p) THEN Len(t) ELSE p[j + 1]
      /\ at = IF j = 0 THEN 0 ELSE p[j]
      /\ \A i \in 1..end : da[i] = orig[i]
      /\ Shows(da, n, <<Nul>>)
      /\ \E d \in Seq(Chars) :
           /\ Shows(da, end + up, d) /\ end + up + Len(d) = n
           /\ h[After(p, off, Len(match), j)][most - j] =
                Part(t, After(p, off, Len(match), j), end) \o d

(* What one match more has made: the cells up to its end are as they were  *)
(* before it is replaced.                                                  *)
Backed(moved, w, at, j, orig, n, t, p, match, rep, off, most, h) ==
  /\ \A k \in 1..(at + Len(match)) : k \in 1..Len(orig) /\ moved[k] = orig[k]
  /\ moved \in Seq(Byte) /\ Len(moved) = Len(orig)
  /\ BackIs(Str!Put(moved, w - Len(rep), rep), at, Before(p, j), j - 1,
            orig, n, t, p, match, rep, off, most, h)

(* One match more: the part behind it moves up and it is replaced.         *)
LEMMA BackStep ==
  ASSUME NEW t \in Seq(Chars), NEW match \in Seq(Chars), NEW rep \in Seq(Chars),
         NEW off \in 0..Len(t), NEW most, NEW h, NEW p, AllTaken(p, t, match, rep, off, most, h),
         Len(match) < Len(rep), NEW orig \in Seq(Byte), Outside(orig, t, p, Len(match)),
         NEW n \in Nat, n < Len(orig),
         NEW da, NEW end, NEW at, NEW j \in 1..Len(p),
         BackIs(da, end, at, j, orig, n, t, p, match, rep, off, most, h),
         NEW r, r = at + Len(match), NEW w, w = r + Lift(j, Len(rep) - Len(match)),
         NEW moved, moved = Str!Move(da, w, r, end - r)
  PROVE  Backed(moved, w, at, j, orig, n, t, p, match, rep, off, most, h)
<1> DEFINE F == Len(p)
           m == Len(t)
           z == Len(match)
           q == Len(rep)
           diff == q - z
           up == Lift(j, diff)
           less == Lift(j - 1, diff)
           s == Part(t, r, end)
           len == end - r
           u == w - q
           new == Str!Put(moved, u, rep)
           y == h[p[j] + z][most - j]
<1>1. /\ m \in Nat /\ z \in Nat /\ q \in Nat /\ z < q /\ F \in Nat /\ off \in 0..m
      /\ j \in Nat /\ j >= 1 /\ j <= F /\ n \in Nat /\ Len(orig) \in Nat /\ n < Len(orig)
      /\ m <= Len(orig) /\ diff \in Nat /\ p \in Seq(Nat) /\ rep \in Seq(Byte)
  <2>1. p \in Seq(Nat)
    BY DEF AllTaken
  <2>2. m \in Nat /\ z \in Nat /\ q \in Nat /\ F \in Nat /\ Len(orig) \in Nat
    BY <2>1, LenProperties
  <2>3. m <= Len(orig) /\ rep \in Seq(Byte)
    BY CharsAreBytes DEF Outside
  <2> QED BY <2>1, <2>2, <2>3
<1>2. up \in Nat /\ less \in Nat /\ up = less + diff /\ up >= diff
  <2>1. j \in Nat /\ j - 1 \in Nat /\ j >= 1 /\ diff \in Nat
    BY <1>1
  <2> HIDE DEF diff
  <2>2. up \in Nat /\ up = Lift(j - 1, diff) + diff /\ up >= diff
    BY ONLY <2>1, LiftIs
  <2>3. less \in Nat
    BY ONLY <2>1, LiftIs
  <2> QED BY <2>2, <2>3
<1>3. /\ da \in Seq(Byte) /\ Len(da) = Len(orig)
      /\ end = IF j = F THEN m ELSE p[j + 1]
      /\ at = p[j]
      /\ \A i \in 1..end : da[i] = orig[i]
      /\ Shows(da, n, <<Nul>>)
  BY <1>1 DEF BackIs
<1>4. PICK d \in Seq(Chars) :
        /\ Shows(da, end + up, d) /\ end + up + Len(d) = n
        /\ h[After(p, off, z, j)][most - j] = Part(t, After(p, off, z, j), end) \o d
  BY DEF BackIs
<1>5. After(p, off, z, j) = r
  BY <1>1, <1>3 DEF After
<1>6. r \in 0..end /\ end \in 0..m /\ Shows(orig, r, s)
  <2>1. r = IF j = 0 THEN 0 ELSE p[j] + Len(match)
    BY <1>1, <1>3
  <2>2. j \in 0..Len(p)
    BY <1>1
  <2>3. end = IF j = Len(p) THEN Len(t) ELSE p[j + 1]
    BY <1>3
  <2>4. Gap(p, m, z, j, r, end)
    BY <2>1, <2>3 DEF Gap
  <2>5. z = Len(match) /\ Outside(orig, t, p, z)
    OBVIOUS
  <2> HIDE DEF z
  <2>6. r \in 0..end /\ end \in 0..Len(t) /\ Shows(orig, r, Part(t, r, end))
    BY <2>2, <2>4, <2>5, BetweenShows
  <2> QED BY <2>6
<1>7. Taken(p, j, t, match, rep, off, most, h)
  BY DEF AllTaken
<1>8. at \in Nat /\ at + z <= m /\ y \in Seq(Chars)
      /\ h[After(p, off, z, j - 1)][most - (j - 1)] = Part(t, After(p, off, z, j - 1), at) \o (rep \o y)
  <2>1. p[j] \in Nat
    BY <1>1, ElementOfSeq
  <2> QED BY <1>3, <1>7, <2>1 DEF Taken
<1>9. Len(d) \in Nat /\ d \in Seq(Byte)
  BY CharsAreBytes, LenProperties
<1> HIDE DEF up, less, diff, z, q, m, F, y
<1>10. /\ len \in Nat /\ end \in Nat /\ r \in Nat /\ r = at + z /\ r <= end /\ end <= m /\ r + len = end
       /\ w \in Nat /\ w = r + up /\ w + len = end + up /\ u \in Nat /\ u + q = w /\ u = at + less
       /\ end + up <= n /\ w <= n /\ r <= w /\ at <= u /\ diff = q - z
       /\ at \in Nat /\ z \in Nat /\ q \in Nat /\ m \in Nat /\ up \in Nat /\ less \in Nat /\ diff \in Nat
  <2>1. r = at + z /\ w = r + up /\ diff = q - z
    BY DEF z, up, diff, q
  <2>2. /\ z \in Nat /\ q \in Nat /\ m \in Nat /\ n \in Nat /\ at \in Nat /\ up \in Nat /\ less \in Nat
        /\ Len(d) \in Nat /\ end + up + Len(d) = n /\ up = less + diff /\ z < q
    BY <1>1, <1>2, <1>4, <1>8, <1>9
  <2>3. end \in Nat /\ end <= m /\ r \in Nat /\ r <= end
    BY <1>6, <2>2
  <2>4. diff \in Nat
    BY <1>1 DEF diff, q, z
  <2> QED BY ONLY <2>1, <2>2, <2>3, <2>4
<1> DEFINE all == Len(da)
<1>11. all \in Nat /\ m <= all /\ n < all /\ n \in Nat
  BY <1>1, <1>3
<1>12. all = Len(da) /\ all = Len(orig)
  BY <1>3
<1> HIDE DEF all
<1>13. s \in Seq(Chars) /\ s \in Seq(Byte) /\ Len(s) = len
  <2>1. end \in 0..Len(t) /\ r \in 0..end
    BY <1>6 DEF m
  <2> QED BY ONLY t \in Seq(Chars), <2>1, PartLength, CharsAreBytes
<1> HIDE DEF s, len, u
<1>14. Shows(da, r, s)
  <2>1. \A k \in 1..len : r + k \in 1..end
    BY ONLY <1>10
  <2>2. \A k \in 1..len : da[r + k] = s[k]
    BY <1>3, <1>6, <1>13, <2>1 DEF Shows
  <2>3. r + len <= all
    BY ONLY <1>11, <1>10
  <2> QED BY <1>13, <1>12, <2>2, <2>3 DEF Shows
<1>15. Wrote(da, w, len, moved) /\ Shows(moved, w, s)
  <2>1. moved = Str!Move(da, w, r, len) /\ w + len <= Len(da)
    <3>1. w + len <= all
      BY ONLY <1>11, <1>10
    <3> QED BY <1>12, <3>1 DEF len
  <2>2. w \in Nat /\ r \in Nat /\ s \in Seq(Byte) /\ len = Len(s) /\ da \in Seq(Byte)
    BY <1>3, <1>10, <1>13
  <2> QED BY ONLY <1>14, <2>1, <2>2, MoveWrote
<1>16. moved \in Seq(Byte) /\ Len(moved) = Len(da)
  BY <1>15 DEF Wrote
<1>17. ASSUME NEW k \in 1..(at + z)
       PROVE  k \in 1..Len(orig) /\ moved[k] = orig[k]
  <2>1. k \in 1..(at + z)
    OBVIOUS
  <2>3. k \in 1..all /\ k <= w /\ k \in 1..end
    BY ONLY <1>11, <1>10, <2>1
  <2>2. k \in 1..Len(da) /\ k <= w /\ k \in 1..end /\ k \in 1..Len(orig)
    BY <1>12, <2>3
  <2> QED BY <1>3, <1>15, <2>2 DEF Wrote
<1>18. Wrote(moved, u, q, new) /\ Shows(new, u, rep)
  <2>1. u + Len(rep) <= Len(moved)
    BY <1>1, <1>3, <1>10, <1>16 DEF q
  <2> QED BY <1>1, <1>10, <1>16, <2>1, PutWrote DEF q
<1> HIDE DEF new
<1>19. new \in Seq(Byte) /\ Len(new) = Len(orig)
  BY <1>3, <1>16, <1>18 DEF Wrote
<1> DEFINE x == end + up
<1>20. Shows(new, x, d)
  <2>1. x \in Nat /\ w + len <= x /\ u + q <= x
    BY ONLY <1>2, <1>10
  <2> HIDE DEF x
  <2>2. Shows(moved, x, d)
    BY <1>3, <1>4, <1>9, <1>10, <1>15, <2>1, StaysShown DEF x
  <2> QED BY <1>1, <1>9, <1>10, <1>16, <1>18, <2>1, <2>2, StaysShown
<1>21. Shows(new, n, <<Nul>>)
  <2>1. w + len <= n /\ u + q <= n /\ <<Nul>> \in Seq(Byte)
    <3>1. Nul \in Byte
      BY DEF Byte
    <3>2. <<Nul>> \in Seq(Byte)
      BY <3>1
    <3>3. w + len <= n /\ u + q <= n
      BY ONLY <1>10, <1>11
    <3> QED BY <3>2, <3>3
  <2>2. Shows(moved, n, <<Nul>>)
    BY <1>3, <1>10, <1>15, <2>1, StaysShown
  <2> QED BY <1>1, <1>10, <1>16, <1>18, <2>1, <2>2, StaysShown
<1>22. Shows(new, w, s)
  <2>1. u + q <= w
    BY <1>10
  <2> QED BY <1>1, <1>10, <1>13, <1>15, <1>16, <1>18, <2>1, StaysShown
<1> DEFINE b == s \o d
           c == rep \o b
<1>23. Shows(new, w, b)
  <2>1. Shows(new, w + Len(s), d)
    BY <1>10, <1>13, <1>20
  <2> QED BY <1>9, <1>10, <1>13, <1>19, <1>22, <2>1, ShowsParts
<1>24. b \in Seq(Chars) /\ b \in Seq(Byte) /\ Len(b) = len + Len(d)
  BY <1>13, ConcatProperties, CharsAreBytes
<1> HIDE DEF b
<1>25. Shows(new, u, c)
  <2>1. Shows(new, u + Len(rep), b)
    BY <1>10, <1>23 DEF q
  <2> QED BY <1>1, <1>10, <1>18, <1>19, <1>24, <2>1, ShowsParts
<1>26. c \in Seq(Chars) /\ Len(c) = q + (len + Len(d))
  <2>1. b \in Seq(Chars) /\ rep \in Seq(Chars) /\ Len(rep) = q
    BY <1>24 DEF q
  <2>2. rep \o b \in Seq(Chars) /\ Len(rep \o b) = Len(rep) + Len(b)
    BY ONLY <2>1, ConcatProperties
  <2> QED BY <1>24, <2>1, <2>2
<1>27. y = b
  <2>1. h[r][most - j] = Part(t, r, end) \o d
    BY <1>4, <1>5
  <2>2. r = p[j] + z
    BY <1>3, <1>10
  <2> QED BY <2>1, <2>2 DEF y, b, s
<1> HIDE DEF c
<1>28. u + Len(c) = n
  <2>1. end + up + Len(d) = n /\ Len(d) \in Nat
    BY <1>4, <1>9
  <2>2. Len(c) = q + (len + Len(d))
    BY <1>26
  <2> DEFINE g == Len(d)
             l == Len(c)
  <2>3. end + up + g = n /\ g \in Nat /\ l = q + (len + g)
    BY <2>1, <2>2
  <2> HIDE DEF g, l
  <2>4. u + l = n
    BY ONLY <1>10, <1>11, <2>3
  <2> QED BY <2>4 DEF l
<1>29. at = IF j - 1 = F THEN m ELSE p[(j - 1) + 1]
  BY <1>1, <1>3
<1>30. Before(p, j) = IF j - 1 = 0 THEN 0 ELSE p[j - 1]
  BY <1>1 DEF Before
<1>31. \A i \in 1..at : new[i] = orig[i]
  <2> SUFFICES ASSUME NEW i \in 1..at PROVE new[i] = orig[i]
    OBVIOUS
  <2>1. i \in 1..at
    OBVIOUS
  <2>4. i \in 1..(at + z) /\ i \in 1..all /\ i <= u
    BY ONLY <1>10, <1>11, <2>1
  <2>2. i \in 1..(at + z) /\ i \in 1..Len(da) /\ i <= u
    BY <1>12, <2>4
  <2>3. new[i] = moved[i]
    BY <1>16, <1>18, <2>2 DEF Wrote
  <2> QED BY <1>17, <2>2, <2>3
<1>32. h[After(p, off, z, j - 1)][most - (j - 1)] = Part(t, After(p, off, z, j - 1), at) \o c
  BY <1>8, <1>27 DEF c
<1>33. Shows(new, at + less, c) /\ at + less + Len(c) = n
  BY <1>10, <1>25, <1>28
<1>34. BackIs(new, at, Before(p, j), j - 1, orig, n, t, p, match, rep, off, most, h)
  BY <1>19, <1>21, <1>26, <1>29, <1>30, <1>31, <1>32, <1>33 DEF BackIs, less, diff, q, z, m, F
<1>35. Len(moved) = Len(orig)
  BY <1>3, <1>16
<1> QED BY <1>16, <1>17, <1>34, <1>35 DEF Backed, new, u, z, q

(* How the place of the match before one is known: from the bytes that it  *)
(* has been put into, or from an array.                                    *)
Linking(orig, t, p, z, bytes, places) ==
  /\ bytes \in Nat
  /\ bytes > 0 => /\ bytes = Str!LenBytes(Len(t)) /\ bytes <= z /\ Legible(Len(t))
                  /\ \A j \in 1..Len(p) : Shows(orig, p[j], Str!Linked(Before(p, j), bytes))
  /\ bytes = 0 => \A j \in 2..Len(p) : places[j - 1] = p[j - 1]

(* A replacement by more, at the point where the matches have been found.  *)
Spreads(t, match, rep, off, most, h, p, orig, n, bytes, places) ==
  /\ t \in Seq(Chars) /\ match \in Seq(Chars) /\ rep \in Seq(Chars) /\ match # <<>>
  /\ Len(match) < Len(rep) /\ off \in 0..Len(t) /\ most \in Nat
  /\ AllTaken(p, t, match, rep, off, most, h) /\ p # <<>>
  /\ orig \in Seq(Byte) /\ Outside(orig, t, p, Len(match))
  /\ n = Len(t) + Lift(Len(p), Len(rep) - Len(match)) /\ n < Len(orig)
  /\ h[After(p, off, Len(match), Len(p))][most - Len(p)] =
       Part(t, After(p, off, Len(match), Len(p)), Len(t))
  /\ Linking(orig, t, p, Len(match), bytes, places)

(* The states that the loop can be in after k matches.                     *)
BackStates(k, t, match, rep, off, most, h, p, orig, n) ==
  {s \in [da : Seq(Byte), end : Nat, at : Nat] :
     BackIs(s.da, s.end, s.at, Len(p) - k, orig, n, t, p, match, rep, off, most, h)}

(* One turn of the loop of Spread.                                         *)
BackNext(s, k, found, match, rep, bytes, places) ==
  LET r == s.at + Len(match)
      w == r + (found - k + 1) * (Len(rep) - Len(match))
      moved == Str!Move(s.da, w, r, s.end - r)
      prev == IF bytes > 0 THEN Str!LinkAt(moved, s.at, bytes)
              ELSE IF k = found THEN 0 ELSE places[found - k]
  IN  IF s.at < 0 THEN [s EXCEPT !.da = Str!Junks(Len(s.da))]
      ELSE [da |-> Str!Put(moved, w - Len(rep), rep), end |-> s.at, at |-> prev]

(* The places of matches.                                                  *)
LEMMA PlacesAre ==
  ASSUME NEW t \in Seq(Chars), NEW match \in Seq(Chars), match # <<>>, NEW rep, NEW off \in 0..Len(t),
         NEW most, NEW h, NEW p, AllTaken(p, t, match, rep, off, most, h), NEW j \in 1..Len(p)
  PROVE  /\ p[j] \in 0..Len(t) /\ p[j] + Len(match) <= Len(t)
         /\ Before(p, j) \in 0..(Len(t) - 1)
<1> DEFINE F == Len(p)
           n == Len(t)
           z == Len(match)
<1>1. p \in Seq(Nat) /\ Apart(p, z)
  BY DEF AllTaken
<1>2. F \in Nat /\ n \in Nat /\ z \in Nat /\ z >= 1 /\ j \in 1..F
  BY <1>1, LenProperties, EmptySeq
<1>3. \A x \in 1..F : p[x] \in Nat /\ p[x] + z <= n
  <2> SUFFICES ASSUME NEW x \in 1..F PROVE p[x] \in Nat /\ p[x] + z <= n
    OBVIOUS
  <2>1. p[x] \in Nat
    BY <1>1, ElementOfSeq
  <2>2. p[x] + z <= n
    BY DEF AllTaken, Taken
  <2> QED BY <2>1, <2>2
<1> HIDE DEF F, n, z
<1>4. p[j] \in Nat /\ p[j] + z <= n
  BY <1>2, <1>3
<1>5. CASE j = 1
  <2>1. Before(p, j) = 0
    BY <1>5 DEF Before
  <2>2. p[j] \in 0..n /\ 0 \in 0..(n - 1)
    BY ONLY <1>2, <1>4
  <2> QED BY <1>4, <2>1, <2>2 DEF n, z
<1>6. CASE j # 1
  <2>1. j - 1 \in 1..F
    BY <1>2, <1>6
  <2>2. p[j - 1] \in Nat /\ p[j - 1] + z <= n /\ Before(p, j) = p[j - 1]
    BY <1>3, <1>6, <2>1 DEF Before
  <2> DEFINE b == p[j - 1]
  <2>3. b \in Nat /\ b + z <= n
    BY <2>2
  <2> HIDE DEF b
  <2>4. p[j] \in 0..n /\ b \in 0..(n - 1)
    BY ONLY <1>2, <1>4, <2>3
  <2> QED BY <1>4, <2>2, <2>4 DEF n, z, b
<1> QED BY <1>5, <1>6

(* The place of the match before is known.                                 *)
LEMMA PrevIs ==
  ASSUME NEW t, NEW match, NEW rep, NEW off, NEW most, NEW h, NEW p, NEW orig, NEW n, NEW bytes, NEW places,
         Spreads(t, match, rep, off, most, h, p, orig, n, bytes, places),
         NEW j \in 1..Len(p), NEW k, k = Len(p) - j + 1,
         NEW moved \in Seq(Byte), \A i \in 1..(p[j] + Len(match)) : i \in 1..Len(orig) /\ moved[i] = orig[i],
         Len(moved) = Len(orig)
  PROVE  (IF bytes > 0 THEN Str!LinkAt(moved, p[j], bytes)
          ELSE IF k = Len(p) THEN 0 ELSE places[Len(p) - k]) = Before(p, j)
<1> DEFINE F == Len(p)
           z == Len(match)
<1>1. /\ t \in Seq(Chars) /\ match \in Seq(Chars) /\ match # <<>> /\ off \in 0..Len(t)
      /\ AllTaken(p, t, match, rep, off, most, h) /\ orig \in Seq(Byte)
      /\ Linking(orig, t, p, z, bytes, places)
  BY DEF Spreads
<1>2. p \in Seq(Nat)
  BY <1>1 DEF AllTaken
<1>3. F \in Nat /\ Len(t) \in Nat /\ z \in Nat /\ bytes \in Nat /\ j \in 1..F
  BY <1>1, <1>2, LenProperties DEF Linking
<1>4. p[j] \in 0..Len(t) /\ p[j] + z <= Len(t) /\ Before(p, j) \in 0..(Len(t) - 1)
  BY <1>1, PlacesAre
<1>5. CASE bytes > 0
  <2> DEFINE v == Str!Linked(Before(p, j), bytes)
             at == p[j]
  <2>1. bytes = Str!LenBytes(Len(t)) /\ bytes <= z /\ Legible(Len(t)) /\ Shows(orig, at, v)
    BY <1>1, <1>3, <1>5 DEF Linking
  <2>2. Before(p, j) \in Nat
    BY <1>4
  <2>3. Len(v) = bytes
    BY <1>3, <2>2, LinkedType
  <2>4. at \in Nat
    BY <1>4
  <2> HIDE DEF v
  <2>5. \A i \in 1..bytes : moved[at + i] = v[i]
    <3> SUFFICES ASSUME NEW i \in 1..bytes PROVE moved[at + i] = v[i]
      OBVIOUS
    <3>1. i \in 1..bytes
      OBVIOUS
    <3> HIDE DEF at, z
    <3>2. at + i \in 1..(at + z)
      BY ONLY <1>3, <2>1, <2>4, <3>1
    <3>3. \A x \in 1..(at + z) : moved[x] = orig[x]
      BY DEF at, z
    <3>4. moved[at + i] = orig[at + i]
      BY <3>2, <3>3
    <3>5. orig[at + i] = v[i]
      BY <2>1, <2>3 DEF Shows
    <3> QED BY <3>4, <3>5
  <2>6. Shows(moved, at, v)
    <3>1. at + Len(v) <= Len(moved)
      BY <2>1 DEF Shows
    <3> QED BY <2>3, <2>5, <3>1 DEF Shows
  <2> DEFINE prev == Before(p, j)
  <2>7. Shows(moved, at, Str!Linked(prev, bytes)) /\ prev \in 0..(Len(t) - 1)
    BY <1>4, <2>6 DEF v
  <2> HIDE DEF at, prev
  <2>8. Str!LinkAt(moved, at, bytes) = prev
    BY <1>3, <2>1, <2>4, <2>7, LinkIs
  <2> QED BY <1>5, <2>8 DEF at, prev
<1>6. CASE ~(bytes > 0)
  <2>1. bytes = 0
    BY <1>3, <1>6
  <2>2. \A i \in 2..F : places[i - 1] = p[i - 1]
    BY <1>1, <2>1 DEF Linking
  <2>3. CASE j = 1
    <3>1. k = F
      BY <1>3, <2>3
    <3> QED BY <1>6, <2>3, <3>1 DEF Before
  <2>4. CASE j # 1
    <3>1. k # F /\ F - k = j - 1 /\ j \in 2..F
      BY <1>3, <2>4
    <3>2. places[j - 1] = p[j - 1]
      BY <2>2, <3>1
    <3> QED BY <1>6, <2>4, <3>1, <3>2 DEF Before
  <2> QED BY <2>3, <2>4
<1> QED BY <1>5, <1>6

(* A turn of the spreading loop keeps what BackStates says.                *)
LEMMA SpreadGoes ==
  ASSUME NEW t, NEW match, NEW rep, NEW off, NEW most, NEW h, NEW p, NEW orig, NEW n, NEW bytes, NEW places,
         Spreads(t, match, rep, off, most, h, p, orig, n, bytes, places),
         NEW k \in 1..Len(p), NEW s \in BackStates(k - 1, t, match, rep, off, most, h, p, orig, n)
  PROVE  BackNext(s, k, Len(p), match, rep, bytes, places)
           \in BackStates(k, t, match, rep, off, most, h, p, orig, n)
<1> DEFINE F == Len(p)
           z == Len(match)
           q == Len(rep)
           j == F - k + 1
           r == s.at + z
           w == r + Lift(j, q - z)
           moved == Str!Move(s.da, w, r, s.end - r)
           new == Str!Put(moved, w - q, rep)
           prev == IF bytes > 0 THEN Str!LinkAt(moved, s.at, bytes)
                   ELSE IF k = F THEN 0 ELSE places[F - k]
<1>1. /\ t \in Seq(Chars) /\ match \in Seq(Chars) /\ rep \in Seq(Chars) /\ match # <<>>
      /\ z < q /\ off \in 0..Len(t)
      /\ AllTaken(p, t, match, rep, off, most, h)
      /\ orig \in Seq(Byte) /\ Outside(orig, t, p, z)
      /\ n = Len(t) + Lift(F, q - z) /\ n < Len(orig)
  BY DEF Spreads
<1>2. p \in Seq(Nat)
  BY <1>1 DEF AllTaken
<1>3. F \in Nat /\ Len(t) \in Nat /\ z \in Nat /\ q \in Nat /\ k \in 1..F
  BY <1>1, <1>2, LenProperties
<1>4. j \in 1..F /\ F - (k - 1) = j /\ F - k = j - 1 /\ k = F - j + 1 /\ j \in Nat
  <2> HIDE DEF F
  <2> QED BY ONLY <1>3 DEF j
<1> DEFINE d == q - z
<1>5. d \in Nat
  BY <1>1, <1>3
<1>6. n \in Nat
  <2> HIDE DEF d, F
  <2>1. Lift(F, d) \in Nat
    BY <1>3, <1>5, LiftIs
  <2> QED BY <1>1, <1>3, <2>1 DEF d
<1>7. /\ s.da \in Seq(Byte) /\ s.end \in Nat /\ s.at \in Nat
      /\ BackIs(s.da, s.end, s.at, j, orig, n, t, p, match, rep, off, most, h)
  BY <1>4 DEF BackStates
<1>8. s.at = p[j] /\ Len(s.da) = Len(orig)
  BY <1>4, <1>7 DEF BackIs
<1> HIDE DEF j
<1>9. /\ \A i \in 1..(s.at + z) : i \in 1..Len(orig) /\ moved[i] = orig[i]
      /\ moved \in Seq(Byte) /\ Len(moved) = Len(orig)
      /\ BackIs(new, s.at, Before(p, j), j - 1, orig, n, t, p, match, rep, off, most, h)
  <2>1. j \in 1..Len(p)
    BY <1>4
  <2>2. r = s.at + Len(match) /\ w = r + Lift(j, Len(rep) - Len(match))
    OBVIOUS
  <2>3. moved = Str!Move(s.da, w, r, s.end - r)
    OBVIOUS
  <2>4. new = Str!Put(moved, w - Len(rep), rep)
    OBVIOUS
  <2> HIDE DEF moved, w, r, new
  <2>5. n \in Nat /\ n < Len(orig) /\ Len(match) < Len(rep)
    BY <1>1, <1>6
  <2> DEFINE da == s.da
             end == s.end
             at == s.at
  <2>6. /\ BackIs(da, end, at, j, orig, n, t, p, match, rep, off, most, h)
        /\ r = at + Len(match) /\ w = r + Lift(j, Len(rep) - Len(match))
        /\ moved = Str!Move(da, w, r, end - r)
    BY <1>7, <2>2, <2>3
  <2>8. /\ t \in Seq(Chars) /\ match \in Seq(Chars) /\ rep \in Seq(Chars) /\ off \in 0..Len(t)
        /\ AllTaken(p, t, match, rep, off, most, h) /\ orig \in Seq(Byte)
        /\ Outside(orig, t, p, Len(match))
    BY <1>1
  <2> HIDE DEF da, end, at
  <2>7. Backed(moved, w, at, j, orig, n, t, p, match, rep, off, most, h)
    BY ONLY <2>1, <2>5, <2>6, <2>8, BackStep
  <2> QED BY <2>4, <2>7 DEF Backed, at
<1>10. prev = Before(p, j)
  <2>1. j \in 1..Len(p) /\ k = Len(p) - j + 1
    BY <1>4
  <2>2. moved \in Seq(Byte) /\ Len(moved) = Len(orig)
    BY <1>9
  <2>3. \A i \in 1..(p[j] + Len(match)) : i \in 1..Len(orig) /\ moved[i] = orig[i]
    BY <1>8, <1>9
  <2> HIDE DEF moved
  <2>4. (IF bytes > 0 THEN Str!LinkAt(moved, p[j], bytes)
         ELSE IF k = Len(p) THEN 0 ELSE places[Len(p) - k]) = Before(p, j)
    BY ONLY Spreads(t, match, rep, off, most, h, p, orig, n, bytes, places), <2>1, <2>2, <2>3, PrevIs
  <2> QED BY <1>8, <2>4
<1>11. Before(p, j) \in Nat
  <2>1. j \in 1..Len(p)
    BY <1>4
  <2>2. Before(p, j) \in 0..(Len(t) - 1)
    BY ONLY <1>1, <2>1, PlacesAre
  <2> QED BY <2>2
<1>12. new \in Seq(Byte)
  BY <1>9 DEF BackIs
<1>13. BackNext(s, k, Len(p), match, rep, bytes, places) = [da |-> new, end |-> s.at, at |-> prev]
  <2>1. ~(s.at < 0)
    BY <1>7
  <2> QED BY <2>1 DEF BackNext, Lift, j
<1> HIDE DEF new, prev
<1> QED BY <1>4, <1>7, <1>9, <1>10, <1>11, <1>12, <1>13 DEF BackStates

(* The loop starts in a state that BackStates allows.                      *)
LEMMA SpreadStarts ==
  ASSUME NEW t, NEW match, NEW rep, NEW off, NEW most, NEW h, NEW p, NEW orig, NEW n, NEW bytes, NEW places,
         Spreads(t, match, rep, off, most, h, p, orig, n, bytes, places)
  PROVE  [da |-> Str!Terminated(orig, n).da, end |-> Len(t), at |-> p[Len(p)]]
           \in BackStates(0, t, match, rep, off, most, h, p, orig, n)
<1> DEFINE F == Len(p)
           z == Len(match)
           q == Len(rep)
           m == Len(t)
           d == q - z
           up == Lift(F, d)
           da == Str!Put(orig, n, <<Nul>>)
<1>1. /\ t \in Seq(Chars) /\ match \in Seq(Chars) /\ rep \in Seq(Chars) /\ match # <<>>
      /\ z < q /\ off \in 0..m /\ AllTaken(p, t, match, rep, off, most, h) /\ p # <<>>
      /\ orig \in Seq(Byte) /\ n = m + up /\ n < Len(orig)
      /\ h[After(p, off, z, F)][most - F] = Part(t, After(p, off, z, F), m)
  BY DEF Spreads
<1>2. p \in Seq(Nat)
  BY <1>1 DEF AllTaken
<1>3. F \in Nat /\ m \in Nat /\ z \in Nat /\ q \in Nat /\ F >= 1 /\ F \in 1..F /\ Len(orig) \in Nat /\ d \in Nat
  <2>1. F \in Nat /\ m \in Nat /\ z \in Nat /\ q \in Nat /\ Len(orig) \in Nat /\ F >= 1
    BY <1>1, <1>2, LenProperties, EmptySeq
  <2> QED BY <1>1, <2>1
<1>4. p[F] \in 0..m /\ p[F] + z <= m
  BY <1>1, <1>3, PlacesAre
<1> HIDE DEF d, F
<1>5. up \in Nat
  BY <1>3, LiftIs
<1> HIDE DEF up, m, da
<1>6. n \in Nat /\ m <= n
  BY <1>1, <1>3, <1>5
<1>7. Wrote(orig, n, 1, da) /\ Shows(da, n, <<Nul>>)
  <2>1. <<Nul>> \in Seq(Byte) /\ Len(<<Nul>>) = 1
    <3>1. Nul \in Byte
      BY DEF Byte
    <3> QED BY <3>1
  <2>2. n + Len(<<Nul>>) <= Len(orig)
    BY <1>1, <1>3, <1>6, <2>1
  <2> QED BY <1>1, <1>6, <2>1, <2>2, PutWrote DEF da
<1>8. da \in Seq(Byte) /\ Len(da) = Len(orig)
  BY <1>7 DEF Wrote
<1>9. \A i \in 1..m : da[i] = orig[i]
  <2> SUFFICES ASSUME NEW i \in 1..m PROVE da[i] = orig[i]
    OBVIOUS
  <2>1. i \in 1..Len(orig) /\ i <= n
    BY <1>1, <1>3, <1>6
  <2> QED BY <1>7, <2>1 DEF Wrote
<1>10. \E c \in Seq(Chars) :
         /\ Shows(da, m + up, c) /\ m + up + Len(c) = n
         /\ h[After(p, off, z, F)][most - F] = Part(t, After(p, off, z, F), m) \o c
  <2>1. <<>> \in Seq(Chars) /\ Len(<<>>) = 0
    BY LenProperties, EmptySeq
  <2>2. Shows(da, m + up, <<>>)
    <3>1. m + up + Len(<<>>) <= Len(da)
      BY <1>1, <1>3, <1>6, <1>8, <2>1
    <3> QED BY <2>1, <3>1 DEF Shows
  <2>3. m + up + Len(<<>>) = n
    BY <1>1, <1>3, <1>5, <2>1
  <2> DEFINE x == After(p, off, z, F)
             u == Part(t, x, m)
  <2>4. u \in Seq(Chars)
    <3>1. x = p[F] + z
      BY <1>3 DEF After
    <3> DEFINE b == p[F] + z
    <3>2. b \in 0..m
      BY <1>3, <1>4
    <3> HIDE DEF b
    <3>3. Part(t, b, m) \in Seq(Chars)
      <4>1. t \in Seq(Chars) /\ m \in 0..Len(t)
        BY <1>1, <1>3 DEF m
      <4> QED BY ONLY <3>2, <4>1, PartLength
    <3> QED BY <3>1, <3>3 DEF b
  <2> HIDE DEF x, u
  <2>5. u \o <<>> = u
    BY <2>4, ConcatEmptySeq
  <2>6. h[x][most - F] = u
    BY <1>1 DEF x, u
  <2> QED BY <2>1, <2>2, <2>3, <2>5, <2>6 DEF x, u
<1>11. BackIs(da, m, p[F], F, orig, n, t, p, match, rep, off, most, h)
  <2>1. F # 0 /\ (m = IF F = Len(p) THEN Len(t) ELSE p[F + 1])
    BY <1>3 DEF F, m
  <2> QED BY <1>7, <1>8, <1>9, <1>10, <2>1 DEF BackIs, up, d
<1>12. m \in Nat /\ p[F] \in Nat /\ F - 0 = Len(p) /\ Len(p) - 0 = F
  BY <1>3, <1>4 DEF F
<1>13. Str!Terminated(orig, n).da = da
  BY DEF Str!Terminated, da
<1> QED BY <1>8, <1>11, <1>12, <1>13 DEF BackStates, m, F

(* When it has taken every match the cells read as the edited text.        *)
LEMMA SpreadEnds ==
  ASSUME NEW t, NEW match, NEW rep, NEW off, NEW most, NEW h, NEW p, NEW orig, NEW n, NEW bytes, NEW places,
         Spreads(t, match, rep, off, most, h, p, orig, n, bytes, places),
         NEW s \in BackStates(Len(p), t, match, rep, off, most, h, p, orig, n)
  PROVE  Reads([da |-> s.da, len |-> n], Part(t, 0, off) \o h[off][most])
<1> DEFINE F == Len(p)
           z == Len(match)
           m == Len(t)
           a == Part(t, 0, off)
           b == Part(t, off, p[1])
           c == Part(t, 0, p[1])
<1>1. /\ t \in Seq(Chars) /\ match \in Seq(Chars) /\ rep \in Seq(Chars) /\ match # <<>>
      /\ off \in 0..m /\ AllTaken(p, t, match, rep, off, most, h) /\ p # <<>> /\ most \in Nat
      /\ z < Len(rep) /\ orig \in Seq(Byte) /\ Outside(orig, t, p, z)
  BY DEF Spreads
<1>2. p \in Seq(Nat)
  BY <1>1 DEF AllTaken
<1>3. F \in Nat /\ m \in Nat /\ z \in Nat /\ F >= 1 /\ 1 \in 1..F /\ 0 \in 0..F /\ Len(rep) \in Nat
  BY <1>1, <1>2, LenProperties, EmptySeq
<1>4. p[1] \in off..m
  <2>1. Taken(p, 1, t, match, rep, off, most, h)
    BY <1>1, <1>3 DEF AllTaken
  <2> QED BY <2>1 DEF Taken, After
<1>5. off \in Nat /\ p[1] \in Nat /\ p[1] \in 0..m /\ off \in 0..p[1] /\ 0 \in 0..off
  BY <1>1, <1>3, <1>4
<1> DEFINE da == s.da
<1>6. /\ da \in Seq(Byte) /\ BackIs(da, s.end, s.at, 0, orig, n, t, p, match, rep, off, most, h)
  <2>1. F - F = 0
    BY <1>3
  <2> QED BY <2>1 DEF BackStates
<1>7. Lift(0, Len(rep) - z) = 0
  <2> DEFINE l == Len(rep) - z
  <2>1. l \in Nat /\ 0 \in Nat
    BY <1>1, <1>3
  <2> HIDE DEF l
  <2>2. Lift(0, l) = 0
    BY <2>1, LiftIs
  <2> QED BY <2>2 DEF l
<1>8. s.end = p[1]
  <2>1. 0 # F /\ 0 + 1 = 1
    BY <1>3
  <2> QED BY <1>6, <2>1 DEF BackIs
<1>9. /\ Len(da) = Len(orig) /\ \A i \in 1..p[1] : da[i] = orig[i]
      /\ Shows(da, n, <<Nul>>)
  BY <1>6, <1>8 DEF BackIs
<1>10. PICK d \in Seq(Chars) :
         /\ Shows(da, p[1] + 0, d) /\ p[1] + 0 + Len(d) = n
         /\ h[off][most - 0] = b \o d
  BY <1>6, <1>7, <1>8 DEF BackIs, After
<1>11. p[1] + 0 = p[1] /\ most - 0 = most
  BY <1>1, <1>5
<1>12. Shows(orig, 0, c)
  <2>1. Gap(p, m, z, 0, 0, p[1])
    BY <1>3 DEF Gap
  <2> QED BY <1>1, <1>3, <2>1, BetweenShows
<1>13. c \in Seq(Chars) /\ Len(c) = p[1]
  <2>1. 0 \in 0..p[1] /\ p[1] - 0 = p[1]
    BY <1>5
  <2> QED BY <1>1, <1>5, <2>1, PartLength
<1>14. Shows(da, 0, c)
  <2>1. Len(c) \in Nat /\ 0 + Len(c) <= Len(da)
    BY <1>5, <1>9, <1>12, <1>13 DEF Shows
  <2>2. \A i \in 1..Len(c) : 0 + i = i
    OBVIOUS
  <2> HIDE DEF c
  <2> QED BY <1>9, <1>12, <1>13, <2>1, <2>2 DEF Shows
<1>15. a \in Seq(Chars) /\ b \in Seq(Chars) /\ a \o b = c
  BY <1>1, <1>5, PartLength, PartsJoin
<1> HIDE DEF a, b, c
<1>16. a \o h[off][most] = c \o d
  <2>1. h[off][most] = b \o d
    BY <1>10, <1>11
  <2>2. d \in Seq(Chars)
    OBVIOUS
  <2>3. (a \o b) \o d = a \o (b \o d)
    BY ONLY <1>15, <2>2, JoinsAlike
  <2> QED BY <1>15, <2>1, <2>3
<1>17. Shows(da, 0, c \o d)
  <2>1. Shows(da, 0 + Len(c), d)
    BY <1>5, <1>10, <1>11, <1>13
  <2>2. c \in Seq(Byte) /\ d \in Seq(Byte) /\ 0 \in Nat
    BY <1>13, CharsAreBytes
  <2> QED BY <1>6, <1>14, <2>1, <2>2, ShowsParts
<1>18. c \o d \in Seq(Chars) /\ n = Len(c \o d)
  <2>1. d \in Seq(Chars)
    OBVIOUS
  <2>2. c \o d \in Seq(Chars) /\ Len(c \o d) = Len(c) + Len(d)
    BY ONLY <1>13, <2>1, ConcatProperties
  <2> QED BY <1>10, <1>11, <1>13, <2>2
<1> DEFINE e == c \o d
<1> HIDE DEF e
<1>19. Reads([da |-> da, len |-> n], e)
  <2>1. e \in Seq(Chars) /\ n = Len(e) /\ Shows(da, 0, e)
    BY <1>17, <1>18 DEF e
  <2> QED BY <1>6, <1>9, <2>1, ShownReads
<1> QED BY <1>16, <1>19 DEF a, e

(* A replacement by more makes the edited text.                            *)
LEMMA SpreadIs ==
  ASSUME NEW t, NEW match, NEW rep, NEW off, NEW most, NEW h, NEW p, NEW orig, NEW n, NEW bytes, NEW places,
         Spreads(t, match, rep, off, most, h, p, orig, n, bytes, places),
         NEW m, m.da = orig, m.len = Len(t)
  PROVE  Reads(Str!Spread(m, n, Len(p), p[Len(p)], match, rep, bytes, places),
               Part(t, 0, off) \o h[off][most])
<1> DEFINE F == Len(p)
           a == [da |-> Str!Terminated(m.da, n).da, end |-> m.len, at |-> p[F]]
           next(s, k) == BackNext(s, k, F, match, rep, bytes, places)
           Back(f) == f = [k \in 0..F |-> IF k = 0 THEN a ELSE next(f[k - 1], k)]
           back == CHOOSE f : Back(f)
           S(k) == BackStates(k, t, match, rep, off, most, h, p, orig, n)
           I == [k \in 0..F |-> S(k)]
           G == [k \in 1..F |-> [s \in S(k - 1) |-> next(s, k)]]
<1>1. F \in Nat
  <2>1. p \in Seq(Nat)
    BY DEF Spreads, AllTaken
  <2> QED BY <2>1, LenProperties
<1>2. a \in S(0)
  BY SpreadStarts
<1>3. ASSUME NEW k \in 1..F, NEW s \in S(k - 1) PROVE next(s, k) \in S(k)
  BY SpreadGoes
<1> HIDE DEF a, next, S
<1>4. \A k \in 1..F : k \in 0..F /\ k - 1 \in 0..F
  BY <1>1
<1>5. a \in I[0]
  BY <1>1, <1>2
<1>6. \A k \in 1..F : G[k] \in [I[k - 1] -> I[k]]
  <2> SUFFICES ASSUME NEW k \in 1..F PROVE G[k] \in [I[k - 1] -> I[k]]
    OBVIOUS
  <2>1. G[k] = [s \in S(k - 1) |-> next(s, k)]
    OBVIOUS
  <2>2. I[k - 1] = S(k - 1) /\ I[k] = S(k)
    BY <1>4
  <2>3. [s \in S(k - 1) |-> next(s, k)] \in [S(k - 1) -> S(k)]
    BY <1>3
  <2> QED BY <2>1, <2>2, <2>3
<1> HIDE DEF I, G, F
<1>7. PICK f : Leads(f, F, I, a, G)
  BY <1>1, <1>5, <1>6, Leading
<1>8. \A k \in 1..F : f[k] = next(f[k - 1], k)
  <2> SUFFICES ASSUME NEW k \in 1..F PROVE f[k] = next(f[k - 1], k)
    OBVIOUS
  <2>1. f[k] = G[k][f[k - 1]] /\ f[k - 1] \in I[k - 1]
    BY <1>4, <1>7 DEF Leads
  <2>2. f[k - 1] \in S(k - 1)
    BY <1>4, <2>1 DEF I
  <2> QED BY <2>1, <2>2 DEF G
<1>9. f = [k \in 0..F |-> f[k]] /\ f[0] = a
  BY <1>7 DEF Leads
<1>10. \A k \in 0..F : k # 0 => k \in 1..F
  BY <1>1
<1>11. Back(f)
  BY <1>8, <1>9, <1>10
<1>12. Back(back)
  <2> HIDE DEF Back
  <2> QED BY <1>11
<1>13. Str!Spread(m, n, F, p[F], match, rep, bytes, places) = [da |-> back[F].da, len |-> n]
  BY DEF Str!Spread, BackNext, next, a, F
<1> HIDE DEF back
<1>14. back[0] = a /\ \A k \in 1..F : back[k] = next(back[k - 1], k)
  BY <1>1, <1>4, <1>12
<1> DEFINE T == {k \in 0..F : back[k] \in S(k)}
<1>15. 0 \in T
  BY <1>1, <1>2, <1>14
<1>16. \A k \in 1..F : k - 1 \in T => k \in T
  BY <1>3, <1>4, <1>14
<1>17. \A k \in 0..F : k \in T
  <2> HIDE DEF T
  <2> QED BY <1>1, <1>15, <1>16, Counting
<1>18. back[F] \in S(F)
  BY <1>1, <1>17
<1> DEFINE s == back[F]
<1>19. s \in BackStates(Len(p), t, match, rep, off, most, h, p, orig, n)
  BY <1>18 DEF S, F
<1> HIDE DEF s
<1>20. Reads([da |-> s.da, len |-> n], Part(t, 0, off) \o h[off][most])
  BY <1>19, SpreadEnds
<1> QED BY <1>13, <1>20 DEF s, F

(* A search that has found the matches in the places p.                    *)
Found(p, t, match, rep, off, most, h) ==
  /\ AllTaken(p, t, match, rep, off, most, h)
  /\ Scanned(t, off, most, After(p, off, Len(match), Len(p)), Len(p))

(* The search for matches is over: it has enough, or none is left.         *)
Finished(p, t, match, off, max) ==
  Over(t, match, max, After(p, off, Len(match), Len(p)), Len(p))

(* At first no match is found and the search goes on from off.             *)
LEMMA NoneFound ==
  ASSUME NEW t, NEW match, NEW rep, NEW off, NEW max, NEW most, NEW h,
         Edits(t, match, rep, off, max, most, h)
  PROVE  Found(<<>>, t, match, rep, off, most, h) /\ After(<<>>, off, Len(match), Len(<<>>)) = off
<1>1. t \in Seq(Chars) /\ off \in 0..Len(t) /\ most \in 0..Len(t)
  BY DEF Edits
<1>2. Len(t) \in Nat /\ <<>> \in Seq(Nat) /\ Len(<<>>) = 0
  BY <1>1, LenProperties, EmptySeq
<1>3. AllTaken(<<>>, t, match, rep, off, most, h)
  BY <1>1, <1>2 DEF AllTaken, Apart
<1>4. After(<<>>, off, Len(match), Len(<<>>)) = off
  BY <1>2 DEF After
<1>5. Scanned(t, off, most, off, 0)
  BY <1>1, <1>2 DEF Scanned
<1> QED BY <1>2, <1>3, <1>4, <1>5 DEF Found

(* A match more is one that the edited text replaces.                      *)
LEMMA FoundNext ==
  ASSUME NEW t, NEW match, NEW rep, NEW off, NEW max, NEW most, NEW h,
         Edits(t, match, rep, off, max, most, h),
         NEW p, Found(p, t, match, rep, off, most, h), ~Finished(p, t, match, off, max),
         NEW f, f = First(t, match, After(p, off, Len(match), Len(p)))
  PROVE  /\ Found(Append(p, f), t, match, rep, off, most, h)
         /\ f \in After(p, off, Len(match), Len(p))..Len(t) /\ f # Len(t) /\ f + Len(match) \in 1..Len(t)
         /\ Len(Append(p, f)) = Len(p) + 1
<1> DEFINE F == Len(p)
           n == Len(t)
           z == Len(match)
           s == After(p, off, z, F)
           q == Append(p, f)
<1>1. /\ t \in Seq(Chars) /\ match \in Seq(Chars) /\ rep \in Seq(Chars)
      /\ off \in 0..n /\ most \in 0..n
  BY DEF Edits
<1>2. /\ p \in Seq(Nat) /\ Apart(p, z) /\ F <= most
      /\ \A j \in 1..F : Taken(p, j, t, match, rep, off, most, h)
      /\ Scanned(t, off, most, s, F)
  BY DEF Found, AllTaken
<1>3. F \in Nat /\ n \in Nat /\ z \in Nat /\ off \in Nat /\ most \in Nat
  BY <1>1, <1>2, LenProperties
<1>4. Advances(t, match, rep, h, off, most, s, F)
  BY <1>2, ScanStep DEF Finished
<1> DEFINE y == h[f + z][most - (F + 1)]
<1>5. /\ f \in s..n /\ f # n /\ f + z \in 1..n /\ Scanned(t, off, most, f + z, F + 1)
      /\ y \in Seq(Chars) /\ h[s][most - F] = Part(t, s, f) \o (rep \o y)
  BY <1>4 DEF Advances
<1>6. s \in off..n /\ s \in Nat /\ f \in Nat /\ F + 1 <= most
  <2>1. s \in off..n
    BY <1>2 DEF Scanned
  <2>2. F + 1 \in 0..most
    BY <1>5 DEF Scanned
  <2> QED BY <1>3, <1>5, <2>1, <2>2
<1>7. /\ q \in Seq(Nat) /\ Len(q) = F + 1 /\ q[F + 1] = f
      /\ \A x \in 1..F : q[x] = p[x]
  BY <1>2, <1>6, AppendProperties
<1> HIDE DEF y, q
<1>8. \A x \in 1..F : p[x] \in Nat
  BY <1>2, ElementOfSeq
<1>9. \A x \in 1..F : p[x] + z <= s
  <2> SUFFICES ASSUME NEW x \in 1..F PROVE p[x] + z <= s
    OBVIOUS
  <2>1. F \in 1..F /\ s = p[F] + z
    BY <1>3 DEF After
  <2> HIDE DEF s, F
  <2>2. CASE x = F
    BY <1>6, <2>1, <2>2
  <2>3. CASE x # F
    <3>1. x < F
      BY <1>3, <2>3
    <3>2. p[x] + z <= p[F]
      BY <1>2, <2>1, <3>1 DEF Apart, F
    <3>3. p[x] \in Nat /\ p[F] \in Nat
      BY <1>8, <2>1
    <3> QED BY ONLY <1>3, <1>6, <2>1, <3>2, <3>3
  <2> QED BY <2>2, <2>3
<1>10. Apart(q, z)
  <2> SUFFICES ASSUME NEW x \in 1..Len(q), NEW v \in 1..Len(q), x < v PROVE q[x] + z <= q[v]
    BY DEF Apart
  <2>1. x \in 1..(F + 1) /\ v \in 1..(F + 1)
    BY <1>7
  <2>2. x \in 1..F /\ q[x] = p[x]
    <3>1. x \in 1..F
      BY <1>3, <2>1
    <3> QED BY <1>7, <3>1
  <2>3. CASE v = F + 1
    <3>1. p[x] + z <= s /\ p[x] \in Nat
      BY <1>8, <1>9, <2>2
    <3>2. s <= f
      BY <1>5, <1>6
    <3> HIDE DEF s
    <3>3. p[x] + z <= f
      BY ONLY <1>3, <1>6, <3>1, <3>2
    <3> QED BY <1>7, <2>2, <2>3, <3>3
  <2>4. CASE v # F + 1
    <3>1. v \in 1..F
      BY <1>3, <2>1, <2>4
    <3>2. p[x] + z <= p[v]
      BY <1>2, <2>2, <3>1 DEF Apart
    <3> QED BY <1>7, <2>2, <3>1, <3>2
  <2> QED BY <2>3, <2>4
<1>11. ASSUME NEW j \in 1..F PROVE Taken(q, j, t, match, rep, off, most, h)
  <2>1. q[j] = p[j] /\ (j - 1 # 0 => j - 1 \in 1..F)
    BY <1>3, <1>7
  <2>2. After(q, off, z, j - 1) = After(p, off, z, j - 1)
    BY <1>7, <2>1 DEF After
  <2>3. Taken(p, j, t, match, rep, off, most, h)
    BY <1>2
  <2> QED BY <2>1, <2>2, <2>3 DEF Taken
<1>12. Taken(q, F + 1, t, match, rep, off, most, h)
  <2>1. (F + 1) - 1 = F /\ (F # 0 => F \in 1..F)
    BY <1>3
  <2>2. After(q, off, z, F) = s
    BY <1>7, <2>1 DEF After
  <2>3. f + z <= n
    BY <1>3, <1>5, <1>6
  <2>4. q[F + 1] = f /\ y \in Seq(Chars) /\ s \in off..n /\ f \in s..n
    BY <1>5, <1>6, <1>7
  <2>5. h[s][most - F] = Part(t, s, f) \o (rep \o y)
    BY <1>5
  <2> HIDE DEF s, F
  <2> QED BY <2>1, <2>2, <2>3, <2>4, <2>5 DEF Taken, y
<1>13. AllTaken(q, t, match, rep, off, most, h)
  <2>1. \A j \in 1..(F + 1) : j \in 1..F \/ j = F + 1
    BY <1>3
  <2> QED BY <1>6, <1>7, <1>10, <1>11, <1>12, <2>1 DEF AllTaken
<1>14. After(q, off, z, Len(q)) = f + z
  BY <1>3, <1>7 DEF After
<1>15. Found(q, t, match, rep, off, most, h)
  BY <1>5, <1>7, <1>13, <1>14 DEF Found
<1> QED BY <1>5, <1>7, <1>15 DEF q

(* With all that may be replaced found, the replacement can begin.         *)
LEMMA FoundSpreads ==
  ASSUME NEW t, NEW match, NEW rep, NEW off, NEW max, NEW most, NEW h,
         Edits(t, match, rep, off, max, most, h), Len(match) < Len(rep),
         NEW p, Found(p, t, match, rep, off, most, h), p # <<>>,
         Finished(p, t, match, off, max) \/ Len(p) >= Len(t),
         NEW orig \in Seq(Byte), Outside(orig, t, p, Len(match)),
         NEW n, n = Len(t) + Lift(Len(p), Len(rep) - Len(match)), n < Len(orig),
         NEW bytes, NEW places, Linking(orig, t, p, Len(match), bytes, places)
  PROVE  Spreads(t, match, rep, off, most, h, p, orig, n, bytes, places)
<1>1. /\ t \in Seq(Chars) /\ match \in Seq(Chars) /\ rep \in Seq(Chars) /\ match # <<>>
      /\ off \in 0..Len(t) /\ most \in 0..Len(t)
  BY DEF Edits
<1>2. AllTaken(p, t, match, rep, off, most, h)
  BY DEF Found
<1>3. Scanned(t, off, most, After(p, off, Len(match), Len(p)), Len(p))
  BY DEF Found
<1>4. h[After(p, off, Len(match), Len(p))][most - Len(p)] =
        Part(t, After(p, off, Len(match), Len(p)), Len(t))
  BY <1>3, ScanOver DEF Finished
<1> QED BY <1>1, <1>2, <1>4 DEF Spreads

(* And with nothing found nothing changes.                                 *)
LEMMA NothingToDo ==
  ASSUME NEW t, NEW match, NEW rep, NEW off, NEW max, NEW most, NEW h,
         Edits(t, match, rep, off, max, most, h), t # <<>>,
         Finished(<<>>, t, match, off, max)
  PROVE  Part(t, 0, off) \o h[off][most] = t
<1>1. t \in Seq(Chars) /\ off \in 0..Len(t) /\ most \in 0..Len(t)
  BY DEF Edits
<1>2. Found(<<>>, t, match, rep, off, most, h) /\ After(<<>>, off, Len(match), Len(<<>>)) = off
  BY NoneFound
<1>3. Len(<<>>) = 0 /\ most - 0 = most /\ Len(t) \in Nat
  BY <1>1, LenProperties, EmptySeq
<1>4. Scanned(t, off, most, off, 0) /\ Over(t, match, max, off, 0)
  BY <1>2, <1>3 DEF Found, Finished
<1>5. h[off][most - 0] = Part(t, off, Len(t))
  BY <1>4, ScanOver
<1>6. off \in 0..Len(t) /\ Len(t) \in 0..Len(t) /\ 0 \in 0..off
  BY <1>1, <1>3
<1>7. Part(t, 0, off) \o Part(t, off, Len(t)) = Part(t, 0, Len(t))
  BY ONLY <1>1, <1>6, PartsJoin
<1>8. Part(t, 0, Len(t)) = t
  BY <1>1, 0 + 1 = 1, SubSeqFull DEF Part
<1> QED BY <1>3, <1>5, <1>7, <1>8

(* Room for a longer text, in which all the cells are as they were.        *)
Widened(m, n, r) ==
  /\ r.err \in {"ok", "alloc"}
  /\ r.err # "ok" => r.mem = m
  /\ r.err = "ok" => /\ r.mem.da \in Seq(Byte) /\ r.mem.len = m.len /\ n < Len(r.mem.da)
                     /\ Len(m.da) <= Len(r.mem.da)
                     /\ \A k \in 1..Len(m.da) : r.mem.da[k] = m.da[k]

(* A block is widened as Widened says: it keeps its cells, or it fails and *)
(* keeps all.                                                              *)
LEMMA WidenedIs ==
  ASSUME NEW m, m = [da |-> m.da, len |-> m.len], m.da \in Seq(Byte), m.len \in Nat,
         NEW n \in Nat, m.len <= n, n > 0, NEW granted
  PROVE  Widened(m, n, Str!Capacitated(m, Str!Most(n, Str!GetCapacity(m)), granted))
<1> DEFINE c == Str!Most(n, Str!GetCapacity(m))
           d == Str!Fit(m.da, c + 1, c + 1)
           r == Str!Capacitated(m, c, granted)
<1>1. Len(m.da) \in Nat /\ Str!GetCapacity(m) = IF Len(m.da) = 0 THEN 0 ELSE Len(m.da) - 1
  BY CapacityIs, LenProperties
<1>2. c \in Nat /\ c >= n /\ c # 0 /\ c >= m.len /\ c + 1 \in Nat /\ Len(m.da) <= c + 1
  <2> DEFINE cap == Str!GetCapacity(m)
  <2>1. cap \in Nat /\ Len(m.da) <= cap + 1
    BY <1>1
  <2>2. c = IF n < cap THEN cap ELSE n
    BY DEF Str!Most
  <2> HIDE DEF cap, c
  <2>3. c \in Nat /\ c >= n /\ cap <= c
    BY <2>1, <2>2
  <2> QED BY <1>1, <2>1, <2>3
<1> HIDE DEF c
<1>3. r = Str!Resize(m, c + 1, granted)
  BY <1>2 DEF Str!Capacitated
<1>4. /\ d \in Seq(Byte) /\ Len(d) = c + 1
      /\ \A k \in 1..(c + 1) : k <= c + 1 /\ k <= Len(m.da) => d[k] = m.da[k]
  BY <1>2, FitIs
<1>5. \A k \in 1..Len(m.da) : d[k] = m.da[k]
  BY <1>1, <1>2, <1>4
<1>6. CASE granted
  <2>1. r = Str!Result([m EXCEPT !.da = d], "ok")
    BY <1>3, <1>6 DEF Str!Resize
  <2> HIDE DEF d, r
  <2>2. r.err = "ok" /\ r.mem.da = d /\ r.mem.len = m.len
    BY <2>1 DEF Str!Result
  <2> QED BY <1>2, <1>4, <1>5, <2>2 DEF Widened, r, c
<1>7. CASE ~granted
  <2>1. c + 1 # 0
    BY <1>2
  <2>2. r = Str!Result(m, "alloc")
    BY <1>3, <1>7, <2>1 DEF Str!Resize
  <2> HIDE DEF r
  <2>3. r.err = "alloc" /\ r.mem = m
    BY <2>2 DEF Str!Result
  <2> QED BY <2>3 DEF Widened, r, c
<1> QED BY <1>6, <1>7

(* A turn of the loop that keeps the places in an array.                   *)
KeepNext(m, match, off, max, p) ==
  LET f == Str!FindL(m, match, IF p = <<>> THEN off ELSE p[Len(p)] + Len(match))
  IN  IF Len(p) = max \/ f >= m.len THEN p ELSE Append(p, f)

---------------------------------------------------------------------------
(* The matches kept in an array.                                           *)

(* A turn of the search that keeps the places in an array finds one match  *)
(* more, unless it is over.                                                *)
LEMMA KeepGoes ==
  ASSUME NEW m, NEW t, Reads(m, t), NEW match, NEW rep, NEW off, NEW max, NEW most, NEW h,
         Edits(t, match, rep, off, max, most, h),
         NEW p, Found(p, t, match, rep, off, most, h)
  PROVE  LET q == KeepNext(m, match, off, max, p)
         IN  /\ Found(q, t, match, rep, off, most, h)
             /\ Finished(p, t, match, off, max) => q = p
             /\ ~Finished(p, t, match, off, max) => Len(q) = Len(p) + 1
<1> DEFINE s == After(p, off, Len(match), Len(p))
           f == First(t, match, s)
           q == KeepNext(m, match, off, max, p)
<1>1. /\ t \in Seq(Chars) /\ match \in Seq(Chars) /\ match # <<>> /\ off \in 0..Len(t)
  BY DEF Edits
<1>2. /\ m.da \in Seq(Byte) /\ m.len = Len(t) /\ Len(t) \in Nat /\ Len(t) <= Len(m.da)
      /\ \A k \in 1..Len(t) : m.da[k] = t[k]
  BY ReadsIs
<1>3. s \in off..Len(t) /\ p \in Seq(Nat)
  BY DEF Found, Scanned, AllTaken
<1>4. s \in 0..Len(t) /\ \A k \in (s + 1)..Len(t) : m.da[k] = t[k]
  <2> HIDE DEF s
  <2> QED BY <1>1, <1>2, <1>3
<1>5. (IF p = <<>> THEN off ELSE p[Len(p)] + Len(match)) = s
  BY <1>3, EmptySeq DEF After
<1> HIDE DEF s
<1>6. Str!FindL(m, match, s) = f
  BY <1>1, <1>2, <1>4, FindsBehind
<1>7. f \in s..Len(t)
  BY <1>1, <1>4, FirstIs
<1>8. (Len(p) = max \/ f >= m.len) = Finished(p, t, match, off, max)
  <2>1. (f >= m.len) = (f = Len(t))
    <3> HIDE DEF f
    <3> QED BY <1>2, <1>4, <1>7
  <2> QED BY <2>1 DEF Finished, Over, s
<1>9. q = IF Finished(p, t, match, off, max) THEN p ELSE Append(p, f)
  <2> HIDE DEF f
  <2> QED BY <1>5, <1>6, <1>8 DEF KeepNext
<1>10. CASE Finished(p, t, match, off, max)
  BY <1>9, <1>10
<1>11. CASE ~Finished(p, t, match, off, max)
  <2>1. f = First(t, match, After(p, off, Len(match), Len(p)))
    BY DEF s
  <2> HIDE DEF f
  <2>2. Found(Append(p, f), t, match, rep, off, most, h) /\ Len(Append(p, f)) = Len(p) + 1
    BY <1>11, <2>1, FoundNext
  <2> QED BY <1>9, <1>11, <2>2
<1> QED BY <1>10, <1>11

(* The places that the loop ends with.                                     *)
KeepSteps(f, m, match, off, max) ==
  f = [k \in 0..m.len |-> IF k = 0 THEN <<>> ELSE KeepNext(m, match, off, max, f[k - 1])]

(* The places p are those that the search ends with.                       *)
Ending(p, t, match, rep, off, max, most, h) ==
  /\ Found(p, t, match, rep, off, most, h)
  /\ Finished(p, t, match, off, max) \/ Len(p) >= Len(t)

(* After as many turns as the text has characters that search is over.     *)
LEMMA KeepEnds ==
  ASSUME NEW m, NEW t, Reads(m, t), NEW match, NEW rep, NEW off, NEW max, NEW most, NEW h,
         Edits(t, match, rep, off, max, most, h)
  PROVE  /\ \E f : KeepSteps(f, m, match, off, max)
         /\ \A f : KeepSteps(f, m, match, off, max) =>
                     Ending(f[m.len], t, match, rep, off, max, most, h)
<1> DEFINE n == Len(t)
           S == {p \in Seq(Nat) : Found(p, t, match, rep, off, most, h)}
           G(p) == KeepNext(m, match, off, max, p)
<1>1. m.len = n /\ n \in Nat
  BY ReadsIs
<1>2. \A p : Found(p, t, match, rep, off, most, h) => p \in Seq(Nat)
  BY DEF Found, AllTaken
<1>3. <<>> \in S
  BY <1>2, NoneFound
<1>4. ASSUME NEW p \in S
      PROVE  /\ G(p) \in S /\ (Finished(p, t, match, off, max) => G(p) = p)
             /\ (~Finished(p, t, match, off, max) => Len(G(p)) = Len(p) + 1)
  <2>1. /\ Found(G(p), t, match, rep, off, most, h)
        /\ Finished(p, t, match, off, max) => G(p) = p
        /\ ~Finished(p, t, match, off, max) => Len(G(p)) = Len(p) + 1
    BY KeepGoes
  <2> HIDE DEF G
  <2> QED BY <1>2, <2>1
<1>5. \E f : KeepSteps(f, m, match, off, max)
  <2> DEFINE next == [p \in S |-> G(p)]
  <2>1. next \in [S -> S]
    <3> HIDE DEF G, S
    <3> QED BY <1>4
  <2> HIDE DEF S, G
  <2>2. PICK f : Repeated(f, S, n, <<>>, next)
    <3> HIDE DEF next
    <3> QED BY <1>1, <1>3, <2>1, Repeating
  <2>3. f \in [0..n -> S] /\ f[0] = <<>> /\ \A k \in 1..n : f[k] = next[f[k - 1]]
    BY <2>2 DEF Repeated
  <2>4. ASSUME NEW k \in 1..n PROVE f[k] = G(f[k - 1])
    <3>1. k - 1 \in 0..n
      BY <1>1
    <3>2. f[k - 1] \in S
      BY <2>3, <3>1
    <3> QED BY <2>3, <3>2
  <2>5. \A k \in 0..n : k # 0 => k \in 1..n
    BY <1>1
  <2> HIDE DEF next
  <2>6. f = [k \in 0..n |-> IF k = 0 THEN <<>> ELSE G(f[k - 1])]
    BY <1>1, <2>3, <2>4, <2>5
  <2> QED BY <1>1, <2>6 DEF KeepSteps, G
<1>6. ASSUME NEW f, KeepSteps(f, m, match, off, max)
      PROVE  Ending(f[m.len], t, match, rep, off, max, most, h)
  <2> DEFINE T == {k \in 0..n : f[k] \in S /\ (Finished(f[k], t, match, off, max) \/ Len(f[k]) >= k)}
  <2>1. f[0] = <<>> /\ \A k \in 1..n : f[k] = G(f[k - 1])
    <3> HIDE DEF G
    <3>1. f = [k \in 0..n |-> IF k = 0 THEN <<>> ELSE G(f[k - 1])]
      BY <1>1, <1>6 DEF G, KeepSteps
    <3>2. 0 \in 0..n /\ \A k \in 1..n : k \in 0..n /\ k # 0
      BY <1>1
    <3> QED BY ONLY <3>1, <3>2
  <2> HIDE DEF G
  <2>2. 0 \in T
    <3>1. Len(f[0]) >= 0 /\ 0 \in 0..n
      BY <1>1, <2>1
    <3>2. f[0] \in S
      BY <1>3, <2>1
    <3> HIDE DEF S
    <3> QED BY ONLY <3>1, <3>2 DEF T
  <2>3. ASSUME NEW k \in 1..n, k - 1 \in T PROVE k \in T
    <3> DEFINE p == f[k - 1]
               l == Len(p)
               b == Len(f[k])
    <3>1. p \in S /\ (Finished(p, t, match, off, max) \/ l >= k - 1) /\ f[k] = G(p)
      BY <2>1, <2>3
    <3>2. l \in Nat
      <4>1. p \in Seq(Nat)
        BY <3>1
      <4> QED BY <4>1, LenProperties
    <3>3. f[k] \in S
      BY <1>4, <3>1
    <3>4. CASE Finished(p, t, match, off, max)
      BY <1>1, <1>4, <3>1, <3>3, <3>4
    <3>5. CASE ~Finished(p, t, match, off, max)
      <4>1. b = l + 1 /\ l >= k - 1
        BY <1>4, <3>1, <3>5
      <4> HIDE DEF l, b
      <4>2. b >= k
        BY <3>2, <4>1
      <4> QED BY <1>1, <3>3, <4>2 DEF b
    <3> QED BY <3>4, <3>5
  <2>4. \A k \in 0..n : k \in T
    <3> HIDE DEF T
    <3> QED BY <1>1, <2>2, <2>3, Counting
  <2>5. n \in T
    BY <1>1, <2>4
  <2> QED BY <1>1, <2>5 DEF Ending
<1> QED BY <1>5, <1>6

(* A replacement that keeps the places in an array makes the edited text,  *)
(* or nothing if there is no room.                                         *)
LEMMA ReplacedKeptIs ==
  ASSUME NEW m, NEW t, Reads(m, t), t # <<>>, NEW match, NEW rep, NEW off, NEW max, NEW most, NEW h,
         Edits(t, match, rep, off, max, most, h), Len(match) < Len(rep),
         NEW e, e = Part(t, 0, off) \o h[off][most], NEW granted
  PROVE  Made(Str!ReplacedKept(m, match, rep, off, max, granted, TRUE), e, t)
<1> DEFINE Keeps(f) == f = [k \in 0..m.len |-> IF k = 0 THEN <<>> ELSE KeepNext(m, match, off, max, f[k - 1])]
           keep == CHOOSE f : Keeps(f)
           p == keep[m.len]
           F == Len(p)
           d == Len(rep) - Len(match)
           n == m.len + F * d
           r == Str!Capacitated(m, Str!Most(n, Str!GetCapacity(m)), granted)
           new == Str!Spread(r.mem, n, F, p[F], match, rep, 0, p)
           x == Str!ReplacedKept(m, match, rep, off, max, granted, TRUE)
<1>1. \E f : Keeps(f)
  BY KeepEnds DEF KeepSteps
<1>2. Keeps(keep)
  <2> HIDE DEF Keeps
  <2> QED BY <1>1
<1>3. KeepSteps(keep, m, match, off, max)
  <2> HIDE DEF keep
  <2> QED BY <1>2 DEF KeepSteps
<1>4. x = IF F = 0 THEN Str!Result(m, "ok")
          ELSE IF r.err # "ok" THEN r
          ELSE Str!Result(new, "ok")
  BY DEF Str!ReplacedKept, KeepNext
<1> HIDE DEF keep, x
<1>5. Ending(p, t, match, rep, off, max, most, h)
  BY <1>3, KeepEnds
<1> HIDE DEF p
<1>6. Found(p, t, match, rep, off, most, h) /\ (Finished(p, t, match, off, max) \/ F >= Len(t))
  BY <1>5 DEF Ending
<1>7. p \in Seq(Nat)
  BY <1>6 DEF Found, AllTaken
<1>8. /\ m = [da |-> m.da, len |-> m.len] /\ m.da \in Seq(Byte) /\ Len(m.da) \in Nat
      /\ m.len = Len(t) /\ Len(t) \in Nat /\ t \in Seq(Chars) /\ Len(t) > 0
      /\ \A k \in 1..Len(t) : m.da[k] = t[k]
  BY ReadsIs, EmptySeq
<1>9. F \in Nat /\ d \in Nat
  <2>1. Len(rep) \in Nat /\ Len(match) \in Nat
    BY LenProperties DEF Edits
  <2> QED BY <1>7, <2>1, LenProperties
<1>10. CASE F = 0
  <2>1. p = <<>>
    BY <1>7, <1>10, EmptySeq
  <2>2. Finished(p, t, match, off, max)
    BY <1>6, <1>8, <1>10
  <2>3. e = t
    BY <2>1, <2>2, NothingToDo
  <2>4. Reads(m, IF "ok" = "ok" THEN e ELSE t)
    BY <2>3
  <2>5. Made(Str!Result(m, "ok"), e, t)
    BY ONLY <2>4, MadeIs
  <2> QED BY <1>4, <1>10, <2>5 DEF x
<1>11. CASE F # 0
  <2>1. p # <<>>
    BY <1>7, <1>11, EmptySeq
  <2>2. F * d \in Nat
    <3> HIDE DEF F, d
    <3> QED BY <1>9
  <2>3. n = Len(t) + Lift(F, d)
    BY <1>8 DEF Lift
  <2>4. n \in Nat /\ m.len <= n /\ n > 0 /\ m.len \in Nat
    <3> DEFINE g == F * d
    <3>2. g \in Nat /\ m.len \in Nat /\ m.len > 0
      BY <1>8, <2>2
    <3> HIDE DEF g
    <3>1. m.len + g \in Nat /\ m.len <= m.len + g /\ m.len + g > 0 /\ m.len \in Nat
      BY ONLY <3>2
    <3> QED BY <3>1 DEF g
  <2> HIDE DEF n
  <2>5. Widened(m, n, r)
    BY ONLY <1>8, <2>4, WidenedIs
  <2> HIDE DEF r
  <2>6. CASE r.err # "ok"
    <3>1. r.mem = m
      BY <2>5, <2>6 DEF Widened
    <3>2. x = r
      BY <1>4, <1>11, <2>6
    <3> QED BY <2>6, <3>1, <3>2 DEF Made, Reads, x
  <2>7. CASE r.err = "ok"
    <3> DEFINE orig == r.mem.da
    <3>1. /\ orig \in Seq(Byte) /\ r.mem.len = Len(t) /\ n < Len(orig)
          /\ Len(m.da) <= Len(orig) /\ \A k \in 1..Len(m.da) : orig[k] = m.da[k]
      BY <1>8, <2>5, <2>7 DEF Widened
    <3>2. Outside(orig, t, p, Len(match))
      <4>1. Len(t) <= Len(m.da) /\ Len(orig) \in Nat
        BY <3>1, ReadsIs, LenProperties
      <4> HIDE DEF orig
      <4>2. \A k \in 1..Len(t) : orig[k] = t[k]
        BY <1>8, <3>1, <4>1
      <4>3. Len(t) <= Len(orig)
        BY <1>8, <3>1, <4>1
      <4> QED BY <4>2, <4>3 DEF Outside
    <3>3. Linking(orig, t, p, Len(match), 0, p)
      BY DEF Linking
    <3>4. n = Len(t) + Lift(Len(p), Len(rep) - Len(match))
      BY <2>3
    <3>5. Spreads(t, match, rep, off, most, h, p, orig, n, 0, p)
      BY <1>6, <2>1, <3>1, <3>2, <3>3, <3>4, FoundSpreads
    <3>6. Reads(new, e)
      BY <3>1, <3>5, SpreadIs
    <3> HIDE DEF new
    <3>7. Made(Str!Result(new, "ok"), e, t)
      <4>1. Reads(new, IF "ok" = "ok" THEN e ELSE t)
        BY <3>6
      <4> QED BY ONLY <4>1, MadeIs
    <3>8. x = Str!Result(new, "ok")
      BY <1>4, <1>11, <2>7
    <3> QED BY <3>7, <3>8 DEF x
  <2> QED BY <2>6, <2>7
<1> QED BY <1>10, <1>11

(* In the middle of the search that puts the place of the match before one *)
(* in the bytes of that one: nothing else is overwritten.                  *)
LinksIn(da, t, p, z, bytes) ==
  /\ Outside(da, t, p, z)
  /\ \A j \in 1..Len(p) : Shows(da, p[j], Str!Linked(Before(p, j), bytes))

(* A state of the search that links the matches to each other: p are those *)
(* it has found, and each holds the place of the one before.               *)
LinkedIn(s, m, p, t, match, rep, off, most, h, bytes) ==
  /\ s \in [da : Seq(Byte), last : Nat, scan : Nat, found : Nat] /\ Len(s.da) = Len(m.da)
  /\ Found(p, t, match, rep, off, most, h) /\ s.found = Len(p)
  /\ s.scan = After(p, off, Len(match), Len(p))
  /\ s.last = IF p = <<>> THEN 0 ELSE p[Len(p)]
  /\ LinksIn(s.da, t, p, Len(match), bytes)
  /\ FromOn(s.da, t, s.scan)

---------------------------------------------------------------------------
(* The matches linked through the text.                                    *)

(* Writing the link of a match changes nothing outside the matches and no  *)
(* other link.                                                             *)
LEMMA LinksStep ==
  ASSUME NEW t, NEW match, NEW rep, NEW off, NEW max, NEW most, NEW h,
         Edits(t, match, rep, off, max, most, h),
         NEW p, Found(p, t, match, rep, off, most, h), ~Finished(p, t, match, off, max),
         NEW f, f = First(t, match, After(p, off, Len(match), Len(p))),
         NEW z, z = Len(match), NEW bytes \in Nat, bytes <= z,
         NEW da \in Seq(Byte), LinksIn(da, t, p, z, bytes), FromOn(da, t, After(p, off, z, Len(p))),
         NEW last, last = IF p = <<>> THEN 0 ELSE p[Len(p)],
         NEW new, new = Str!Put(da, f, Str!Linked(last, bytes))
  PROVE  /\ new \in Seq(Byte) /\ Len(new) = Len(da)
         /\ LinksIn(new, t, Append(p, f), z, bytes)
         /\ FromOn(new, t, f + z)
<1> DEFINE F == Len(p)
           n == Len(t)
           s == After(p, off, z, F)
           q == Append(p, f)
           v == Str!Linked(last, bytes)
<1>1. /\ t \in Seq(Chars) /\ match \in Seq(Chars) /\ off \in 0..n
  BY DEF Edits
<1>2. p \in Seq(Nat) /\ s \in off..n /\ Apart(p, z)
  BY DEF Found, AllTaken, Scanned
<1>3. F \in Nat /\ n \in Nat /\ z \in Nat /\ Len(da) \in Nat /\ n <= Len(da) /\ s \in Nat
  <2>1. F \in Nat /\ n \in Nat /\ z \in Nat /\ Len(da) \in Nat
    BY <1>1, <1>2, LenProperties
  <2>2. n <= Len(da)
    BY DEF LinksIn, Outside
  <2> HIDE DEF s
  <2> QED BY <1>1, <1>2, <2>1, <2>2
<1>4. f \in s..n /\ f # n /\ f + z \in 1..n
  BY FoundNext
<1>5. f \in Nat /\ f + z \in Nat /\ f + z <= n /\ f + bytes <= f + z /\ f + bytes <= Len(da) /\ s <= f /\ s <= f + z
  <2> HIDE DEF s, n
  <2> QED BY <1>3, <1>4
<1>6. /\ q \in Seq(Nat) /\ Len(q) = F + 1 /\ q[F + 1] = f
      /\ \A x \in 1..F : q[x] = p[x]
  BY <1>2, <1>5, AppendProperties
<1> HIDE DEF q
<1>7. \A x \in 1..F : p[x] \in Nat
  BY <1>2, ElementOfSeq
<1>8. last \in Nat
  <2>1. p # <<>> => F \in 1..F
    BY <1>2, <1>3, EmptySeq
  <2> QED BY <1>7, <2>1
<1>9. v \in Seq(Byte) /\ Len(v) = bytes
  BY <1>8, LinkedType
<1> HIDE DEF v
<1>10. Wrote(da, f, bytes, new) /\ Shows(new, f, v)
  <2>1. f + Len(v) <= Len(da) /\ new = Str!Put(da, f, v)
    BY <1>5, <1>9 DEF v
  <2> QED BY <1>5, <1>9, <2>1, PutWrote
<1>11. new \in Seq(Byte) /\ Len(new) = Len(da)
  BY <1>10 DEF Wrote
<1>12. FromOn(new, t, f + z)
  <2> DEFINE w == f + z
  <2>1. w \in Nat /\ s <= w /\ f + bytes <= w /\ FromOn(da, t, s)
    BY <1>5
  <2> HIDE DEF w, s
  <2>2. FromOn(new, t, w)
    BY <1>1, <1>3, <1>5, <1>10, <2>1, FromOnStays
  <2> QED BY <2>2 DEF w
<1>13. Outside(new, t, q, z)
  <2> SUFFICES ASSUME NEW i \in 1..n, \A x \in 1..Len(q) : i <= q[x] \/ q[x] + z < i
               PROVE  new[i] = t[i]
    BY <1>3, <1>11 DEF Outside
  <2>1. \A x \in 1..F : i <= p[x] \/ p[x] + z < i
    <3>1. \A x \in 1..F : x \in 1..Len(q)
      BY <1>3, <1>6
    <3> QED BY <1>6, <3>1
  <2>2. da[i] = t[i]
    BY <2>1 DEF LinksIn, Outside
  <2>3. i <= f \/ f + z < i
    <3>1. F + 1 \in 1..Len(q)
      BY <1>3, <1>6
    <3> QED BY <1>6, <3>1
  <2>4. i \in 1..Len(da) /\ (i <= f \/ f + bytes < i)
    <3>1. i \in 1..n
      OBVIOUS
    <3> HIDE DEF n
    <3> QED BY ONLY <1>3, <1>5, <2>3, <3>1
  <2>5. new[i] = da[i]
    BY <1>10, <2>4 DEF Wrote
  <2> QED BY <2>2, <2>5
<1>14. ASSUME NEW j \in 1..Len(q) PROVE Shows(new, q[j], Str!Linked(Before(q, j), bytes))
  <2>1. CASE j = F + 1
    <3>1. Before(q, j) = last
      <4>1. CASE p = <<>>
        <5>1. j = 1
          BY <2>1, <4>1, EmptySeq
        <5> QED BY <4>1, <5>1 DEF Before
      <4>2. CASE p # <<>>
        <5>1. j # 1 /\ j - 1 = F /\ F \in 1..F
          BY <1>2, <1>3, <2>1, <4>2, EmptySeq
        <5> QED BY <1>6, <4>2, <5>1 DEF Before
      <4> QED BY <4>1, <4>2
    <3> QED BY <1>6, <1>10, <2>1, <3>1 DEF v
  <2>2. CASE j # F + 1
    <3>1. j \in 1..F /\ (j # 1 => j - 1 \in 1..F)
      BY <1>3, <1>6, <2>2
    <3>2. q[j] = p[j] /\ Before(q, j) = Before(p, j)
      BY <1>6, <3>1 DEF Before
    <3> DEFINE b == Before(p, j)
               u == Str!Linked(b, bytes)
               w == p[j]
    <3>3. b \in Nat
      BY <1>7, <3>1 DEF Before
    <3>4. u \in Seq(Byte) /\ Len(u) = bytes
      BY <3>3, LinkedType
    <3>5. Shows(da, w, u) /\ w \in Nat
      BY <1>7, <3>1 DEF LinksIn
    <3>6. w + z <= s
      <4>1. F \in 1..F /\ s = p[F] + z
        BY <1>3, <3>1 DEF After
      <4>2. p[F] \in Nat /\ w \in Nat
        BY <1>7, <3>5, <4>1
      <4>3. CASE j = F
        BY <1>3, <4>1, <4>2, <4>3
      <4>4. CASE j # F
        <5>1. j < F
          BY <1>3, <3>1, <4>4
        <5>2. w + z <= p[F]
          BY <1>2, <3>1, <4>1, <5>1 DEF Apart
        <5> HIDE DEF w, s, F
        <5> QED BY ONLY <1>3, <4>1, <4>2, <5>2
      <4> QED BY <4>3, <4>4
    <3> HIDE DEF u, w, s
    <3>7. w + Len(u) <= f
      BY ONLY <1>3, <1>5, <3>4, <3>5, <3>6, bytes \in Nat, bytes <= z
    <3>8. Shows(new, w, u)
      BY <1>5, <1>10, <3>4, <3>5, <3>7, StaysShown
    <3> QED BY <3>2, <3>8 DEF u, w
  <2> QED BY <2>1, <2>2
<1> QED BY <1>11, <1>12, <1>13, <1>14 DEF LinksIn, q

(* A turn of the search that overwrites the matches.                       *)
LinkNext(m, match, off, max, bytes, s) ==
  LET f == Str!FindL([m EXCEPT !.da = s.da], match, s.scan)
  IN  IF s.found = max \/ f >= m.len THEN s
      ELSE [da |-> Str!Put(s.da, f, Str!Linked(s.last, bytes)), last |-> f,
            scan |-> f + Len(match), found |-> s.found + 1]

(* Such a state, of some matches.                                          *)
LinkStates(m, t, match, rep, off, most, h, bytes) ==
  {s \in [da : Seq(Byte), last : Nat, scan : Nat, found : Nat] :
     \E p : LinkedIn(s, m, p, t, match, rep, off, most, h, bytes)}

(* That search is over.                                                    *)
LinkOver(s, t, match, max) == Over(t, match, max, s.scan, s.found)

(* A turn of it links one match more, unless it is over.                   *)
LEMMA LinkGoes ==
  ASSUME NEW m, NEW t, Reads(m, t), NEW match, NEW rep, NEW off, NEW max, NEW most, NEW h,
         Edits(t, match, rep, off, max, most, h), NEW bytes \in Nat, bytes <= Len(match),
         NEW s \in LinkStates(m, t, match, rep, off, most, h, bytes)
  PROVE  LET x == LinkNext(m, match, off, max, bytes, s)
         IN  /\ x \in LinkStates(m, t, match, rep, off, most, h, bytes)
             /\ LinkOver(s, t, match, max) => x = s
             /\ ~LinkOver(s, t, match, max) => x.found = s.found + 1
<1> DEFINE f == First(t, match, s.scan)
           new == Str!Put(s.da, f, Str!Linked(s.last, bytes))
           y == [da |-> new, last |-> f, scan |-> f + Len(match), found |-> s.found + 1]
           x == LinkNext(m, match, off, max, bytes, s)
<1>1. PICK p : LinkedIn(s, m, p, t, match, rep, off, most, h, bytes)
  BY DEF LinkStates
<1>2. /\ s \in [da : Seq(Byte), last : Nat, scan : Nat, found : Nat] /\ Len(s.da) = Len(m.da)
      /\ Found(p, t, match, rep, off, most, h) /\ s.found = Len(p)
      /\ s.scan = After(p, off, Len(match), Len(p))
      /\ s.last = IF p = <<>> THEN 0 ELSE p[Len(p)]
      /\ LinksIn(s.da, t, p, Len(match), bytes)
      /\ FromOn(s.da, t, s.scan)
  BY <1>1 DEF LinkedIn
<1>3. m.len = Len(t) /\ Len(t) \in Nat /\ t \in Seq(Chars)
  BY ReadsIs
<1>4. match \in Seq(Chars) /\ match # <<>> /\ off \in 0..Len(t)
  BY DEF Edits
<1>5. s.scan \in 0..Len(t) /\ s.da \in Seq(Byte)
  BY <1>2, <1>3, <1>4 DEF Found, Scanned
<1>6. Str!FindL([m EXCEPT !.da = s.da], match, s.scan) = f
  BY <1>2, <1>4, <1>5, SearchIs
<1>7. f \in 0..Len(t)
  <2> DEFINE o == s.scan
  <2>1. o \in 0..Len(t)
    BY <1>5
  <2> HIDE DEF o
  <2>2. First(t, match, o) \in o..Len(t)
    BY ONLY <1>3, <1>4, <2>1, FirstIs
  <2> QED BY <1>3, <2>1, <2>2 DEF o
<1>8. (s.found = max \/ f >= Len(t)) = LinkOver(s, t, match, max)
  BY <1>3, <1>7 DEF LinkOver, Over
<1>9. LinkOver(s, t, match, max) = Finished(p, t, match, off, max)
  BY <1>2 DEF LinkOver, Finished
<1>10. x = IF LinkOver(s, t, match, max) THEN s ELSE y
  <2> HIDE DEF f
  <2> QED BY <1>3, <1>6, <1>8 DEF LinkNext
<1>11. CASE LinkOver(s, t, match, max)
  BY <1>10, <1>11
<1>12. CASE ~LinkOver(s, t, match, max)
  <2> DEFINE q == Append(p, f)
  <2>1. f = First(t, match, After(p, off, Len(match), Len(p)))
    BY <1>2
  <2>2. Found(q, t, match, rep, off, most, h) /\ Len(q) = Len(p) + 1 /\ f + Len(match) \in Nat
    <3>1. ~Finished(p, t, match, off, max)
      BY <1>9, <1>12
    <3>3. Edits(t, match, rep, off, max, most, h) /\ Found(p, t, match, rep, off, most, h)
      BY <1>2
    <3> HIDE DEF f
    <3>2. /\ Found(Append(p, f), t, match, rep, off, most, h)
          /\ f + Len(match) \in 1..Len(t)
          /\ Len(Append(p, f)) = Len(p) + 1
      BY ONLY <2>1, <3>1, <3>3, FoundNext
    <3> QED BY <3>2
  <2>3. /\ new \in Seq(Byte) /\ Len(new) = Len(s.da)
        /\ LinksIn(new, t, q, Len(match), bytes)
        /\ FromOn(new, t, f + Len(match))
    <3> DEFINE da == s.da
               last == s.last
               z == Len(match)
               a == Str!Put(da, f, Str!Linked(last, bytes))
    <3>1. /\ z = Len(match) /\ bytes <= z /\ da \in Seq(Byte)
          /\ LinksIn(da, t, p, z, bytes) /\ FromOn(da, t, After(p, off, z, Len(p)))
          /\ last = IF p = <<>> THEN 0 ELSE p[Len(p)]
      BY <1>2, <1>5
    <3>2. Found(p, t, match, rep, off, most, h) /\ ~Finished(p, t, match, off, max)
      BY <1>2, <1>9, <1>12
    <3>3. a = Str!Put(da, f, Str!Linked(last, bytes))
      OBVIOUS
    <3> HIDE DEF da, last, z, a, f
    <3>4. /\ a \in Seq(Byte) /\ Len(a) = Len(da)
          /\ LinksIn(a, t, Append(p, f), z, bytes) /\ FromOn(a, t, f + z)
      BY <2>1, <3>1, <3>2, <3>3, LinksStep
    <3> QED BY <3>4 DEF da, last, z, a
  <2>4. p \in Seq(Nat) /\ Len(p) \in Nat
    BY <1>2, LenProperties DEF Found, AllTaken
  <2>5. q # <<>> /\ q[Len(q)] = f /\ f \in Nat
    <3>1. f \in Nat
      BY <1>7
    <3> HIDE DEF f
    <3>2. /\ Append(p, f) \in Seq(Nat) /\ Len(Append(p, f)) = Len(p) + 1
          /\ Append(p, f)[Len(p) + 1] = f
      BY <2>4, <3>1, AppendProperties
    <3> QED BY <2>4, <3>1, <3>2, EmptySeq
  <2> HIDE DEF q, new, f
  <2>6. /\ y.da = new /\ y.last = f /\ y.scan = f + Len(match) /\ y.found = s.found + 1
        /\ y \in [da : Seq(Byte), last : Nat, scan : Nat, found : Nat]
    BY <1>2, <2>2, <2>3, <2>5
  <2>7. y.scan = After(q, off, Len(match), Len(q))
    BY <2>2, <2>4, <2>5, <2>6 DEF After
  <2> HIDE DEF y
  <2>8. LinkedIn(y, m, q, t, match, rep, off, most, h, bytes)
    BY <1>2, <2>2, <2>3, <2>5, <2>6, <2>7 DEF LinkedIn
  <2> QED BY <1>10, <1>12, <2>6, <2>8 DEF LinkStates
<1> QED BY <1>11, <1>12

(* The states that it goes through.                                        *)
LinkSteps(f, m, match, off, max, bytes, a) ==
  f = [k \in 0..m.len |-> IF k = 0 THEN a ELSE LinkNext(m, match, off, max, bytes, f[k - 1])]

(* What the last of them is.                                               *)
LinkEnded(x, m, t, match, rep, off, max, most, h, bytes) ==
  /\ x \in LinkStates(m, t, match, rep, off, most, h, bytes)
  /\ LinkOver(x, t, match, max) \/ x.found >= Len(t)

(* After as many turns as the text has characters that search is over.     *)
LEMMA LinkEnds ==
  ASSUME NEW m, NEW t, Reads(m, t), NEW match, NEW rep, NEW off, NEW max, NEW most, NEW h,
         Edits(t, match, rep, off, max, most, h), NEW bytes \in Nat, bytes <= Len(match),
         NEW a \in LinkStates(m, t, match, rep, off, most, h, bytes)
  PROVE  /\ \E f : LinkSteps(f, m, match, off, max, bytes, a)
         /\ \A f : LinkSteps(f, m, match, off, max, bytes, a) =>
                     LinkEnded(f[m.len], m, t, match, rep, off, max, most, h, bytes)
<1> DEFINE n == Len(t)
           S == LinkStates(m, t, match, rep, off, most, h, bytes)
           G(s) == LinkNext(m, match, off, max, bytes, s)
<1>1. m.len = n /\ n \in Nat
  BY ReadsIs
<1>2. \A s \in S : s.found \in Nat
  BY DEF LinkStates
<1>3. a \in S
  OBVIOUS
<1>4. ASSUME NEW s \in S
      PROVE  /\ G(s) \in S /\ (LinkOver(s, t, match, max) => G(s) = s)
             /\ (~LinkOver(s, t, match, max) => G(s).found = s.found + 1)
  BY LinkGoes
<1> HIDE DEF S
<1>5. \E f : LinkSteps(f, m, match, off, max, bytes, a)
  <2> DEFINE next == [s \in S |-> G(s)]
  <2> HIDE DEF G
  <2>1. next \in [S -> S]
    BY <1>4
  <2>2. PICK f : Repeated(f, S, n, a, next)
    <3> HIDE DEF next
    <3> QED BY <1>1, <1>3, <2>1, Repeating
  <2>3. f \in [0..n -> S] /\ f[0] = a /\ \A k \in 1..n : f[k] = next[f[k - 1]]
    BY <2>2 DEF Repeated
  <2>4. ASSUME NEW k \in 1..n PROVE f[k] = G(f[k - 1])
    <3>1. k - 1 \in 0..n
      BY <1>1
    <3>2. f[k - 1] \in S
      BY <2>3, <3>1
    <3> QED BY <2>3, <3>2
  <2>5. \A k \in 0..n : k # 0 => k \in 1..n
    BY <1>1
  <2> HIDE DEF next
  <2>6. f = [k \in 0..n |-> IF k = 0 THEN a ELSE G(f[k - 1])]
    BY <1>1, <2>3, <2>4, <2>5
  <2> QED BY <1>1, <2>6 DEF LinkSteps, G
<1>6. ASSUME NEW f, LinkSteps(f, m, match, off, max, bytes, a)
      PROVE  LinkEnded(f[m.len], m, t, match, rep, off, max, most, h, bytes)
  <2> DEFINE T == {k \in 0..n : f[k] \in S /\ (LinkOver(f[k], t, match, max) \/ f[k].found >= k)}
  <2>1. f[0] = a /\ \A k \in 1..n : f[k] = G(f[k - 1])
    <3> HIDE DEF G
    <3>1. f = [k \in 0..n |-> IF k = 0 THEN a ELSE G(f[k - 1])]
      BY <1>1, <1>6 DEF G, LinkSteps
    <3>2. 0 \in 0..n /\ \A k \in 1..n : k \in 0..n /\ k # 0
      BY <1>1
    <3> QED BY ONLY <3>1, <3>2
  <2> HIDE DEF G
  <2>2. 0 \in T
    <3>1. f[0] \in S /\ f[0].found \in Nat
      BY <1>2, <1>3, <2>1
    <3> QED BY <1>1, <3>1
  <2>3. ASSUME NEW k \in 1..n, k - 1 \in T PROVE k \in T
    <3> DEFINE p == f[k - 1]
    <3>1. p \in S /\ (LinkOver(p, t, match, max) \/ p.found >= k - 1) /\ f[k] = G(p)
      BY <2>1, <2>3
    <3> HIDE DEF p
    <3>2. p.found \in Nat
      BY <1>2, <3>1
    <3>3. f[k] \in S
      BY <1>4, <3>1
    <3>4. CASE LinkOver(p, t, match, max)
      BY <1>1, <1>4, <3>1, <3>3, <3>4
    <3>5. CASE ~LinkOver(p, t, match, max)
      <4>1. f[k].found = p.found + 1 /\ p.found >= k - 1
        BY <1>4, <3>1, <3>5
      <4>2. f[k].found >= k
        BY <3>2, <4>1
      <4> QED BY <1>1, <3>3, <4>2
    <3> QED BY <3>4, <3>5
  <2>4. \A k \in 0..n : k \in T
    <3> HIDE DEF T
    <3> QED BY <1>1, <2>2, <2>3, Counting
  <2>5. n \in T
    BY <1>1, <2>4
  <2> QED BY <1>1, <2>5 DEF LinkEnded, S
<1> QED BY <1>5, <1>6

(* Where a text is in more cells, it stays.                                *)
LEMMA ShowsOn ==
  ASSUME NEW a \in Seq(Byte), NEW b \in Seq(Byte), Len(a) <= Len(b), \A k \in 1..Len(a) : b[k] = a[k],
         NEW w \in Nat, NEW s, Len(s) \in Nat, Shows(a, w, s)
  PROVE  Shows(b, w, s)
<1>1. Len(a) \in Nat /\ Len(b) \in Nat
  BY LenProperties
<1>2. w + Len(s) <= Len(a) /\ \A k \in 1..Len(s) : a[w + k] = s[k]
  BY DEF Shows
<1>3. \A k \in 1..Len(s) : w + k \in 1..Len(a)
  BY <1>1, <1>2
<1>4. \A k \in 1..Len(s) : b[w + k] = s[k]
  BY <1>2, <1>3
<1> QED BY <1>1, <1>2, <1>4 DEF Shows

(* A string of one character holds one match at most, and that is all that *)
(* has no bytes for a place.                                               *)
LEMMA LinksSuffice ==
  ASSUME NEW t, NEW match, NEW rep, NEW off, NEW max, NEW most, NEW h,
         Edits(t, match, rep, off, max, most, h), t # <<>>,
         NEW p, Found(p, t, match, rep, off, most, h),
         NEW bytes, bytes = Str!LenBytes(Len(t)), bytes <= Len(match), Legible(Len(t)),
         NEW a \in Seq(Byte), LinksIn(a, t, p, Len(match), bytes),
         NEW orig \in Seq(Byte), Len(a) <= Len(orig), \A k \in 1..Len(a) : orig[k] = a[k]
  PROVE  Outside(orig, t, p, Len(match)) /\ Linking(orig, t, p, Len(match), bytes, <<>>)
<1> DEFINE n == Len(t)
           z == Len(match)
           F == Len(p)
<1>1. t \in Seq(Chars) /\ match \in Seq(Chars) /\ match # <<>> /\ off \in 0..n /\ most \in 0..n
  BY DEF Edits
<1>2. p \in Seq(Nat) /\ AllTaken(p, t, match, rep, off, most, h) /\ F \in 0..most
  BY DEF Found, AllTaken, Scanned
<1>3. F \in Nat /\ n \in Nat /\ z \in Nat /\ Len(a) \in Nat /\ Len(orig) \in Nat
  BY <1>1, <1>2, LenProperties
<1>4. PICK f \in [0..n -> Nat] : IsMost(f, n) /\ bytes \in 0..n /\ f[bytes] >= n
  BY <1>3, LenBytesIs
<1>5. bytes \in Nat
  BY <1>4
<1>6. n <= Len(a) /\ Outside(a, t, p, z)
  BY DEF LinksIn, Outside
<1>7. Outside(orig, t, p, z)
  <2>1. n <= Len(orig)
    <3> HIDE DEF n
    <3> QED BY <1>3, <1>6
  <2>2. \A i \in 1..n : i \in 1..Len(a)
    <3> HIDE DEF n
    <3> QED BY <1>3, <1>6
  <2>3. \A i \in 1..n : orig[i] = a[i]
    BY <2>2
  <2> QED BY <1>6, <2>1, <2>3 DEF Outside
<1>8. ASSUME NEW j \in 1..F PROVE Shows(orig, p[j], Str!Linked(Before(p, j), bytes))
  <2> DEFINE v == Str!Linked(Before(p, j), bytes)
             w == p[j]
  <2>1. w \in 0..n /\ Before(p, j) \in 0..(n - 1)
    BY <1>1, <1>2, PlacesAre
  <2>2. w \in Nat /\ Before(p, j) \in Nat
    BY <2>1
  <2>3. Len(v) = bytes
    BY <1>5, <2>2, LinkedType
  <2>4. Shows(a, w, v)
    BY DEF LinksIn
  <2> HIDE DEF v, w
  <2>5. Shows(orig, w, v)
    BY <1>5, <2>2, <2>3, <2>4, ShowsOn
  <2> QED BY <2>5 DEF v, w
<1>9. ASSUME bytes = 0 PROVE \A j \in 2..F : FALSE
  <2>1. f[0] = 1
    BY <1>3, <1>4 DEF IsMost
  <2>2. n <= 1
    BY <1>3, <1>4, <1>9, <2>1
  <2> HIDE DEF n, F
  <2> QED BY <1>1, <1>2, <1>3, <2>2
<1>10. Linking(orig, t, p, z, bytes, <<>>)
  <2>1. bytes = 0 => \A j \in 2..F : <<>>[j - 1] = p[j - 1]
    BY <1>9
  <2> HIDE DEF z
  <2> QED BY <1>5, <1>8, <2>1 DEF Linking, z
<1> QED BY <1>7, <1>10

(* A replacement that keeps the places in the matches makes the edited     *)
(* text, or loses it if there is no room.                                  *)
LEMMA ReplacedLinkedIs ==
  ASSUME NEW m, NEW t, Reads(m, t), t # <<>>, Legible(Len(t)), NEW match, NEW rep, NEW off, NEW max, NEW most, NEW h,
         Edits(t, match, rep, off, max, most, h), Str!InPlace(m, match, rep),
         NEW e, e = Part(t, 0, off) \o h[off][most], NEW granted
  PROVE  Made(Str!ReplacedLinked(m, match, rep, off, max, granted), e, <<>>)
<1> DEFINE bytes == Str!LenBytes(m.len)
           a == [da |-> m.da, last |-> 0, scan |-> off, found |-> 0]
           Links(f) == f = [k \in 0..m.len |-> IF k = 0 THEN a ELSE LinkNext(m, match, off, max, bytes, f[k - 1])]
           link == CHOOSE f : Links(f)
           end == link[m.len]
           d == Len(rep) - Len(match)
           n == m.len + end.found * d
           b == [m EXCEPT !.da = end.da]
           r == Str!Capacitated(b, Str!Most(n, Str!GetCapacity(m)), granted)
           new == Str!Spread(r.mem, n, end.found, end.last, match, rep, bytes, <<>>)
           x == Str!ReplacedLinked(m, match, rep, off, max, granted)
<1>1. /\ m = [da |-> m.da, len |-> m.len] /\ m.da \in Seq(Byte) /\ Len(m.da) \in Nat
      /\ m.len = Len(t) /\ Len(t) \in Nat /\ t \in Seq(Chars) /\ Len(t) > 0
      /\ Len(t) <= Len(m.da) /\ \A k \in 1..Len(t) : m.da[k] = t[k]
  BY ReadsIs, EmptySeq
<1>2. /\ match \in Seq(Chars) /\ rep \in Seq(Chars) /\ off \in 0..Len(t) /\ most \in 0..Len(t)
  BY DEF Edits
<1>3. bytes \in Nat /\ bytes <= Len(match) /\ Len(match) < Len(rep) /\ d \in Nat
  <2>1. bytes \in 0..m.len
    BY <1>1, LenBytesIs
  <2>2. Len(rep) \in Nat /\ Len(match) \in Nat
    BY <1>2, LenProperties
  <2> HIDE DEF bytes
  <2> QED BY <1>1, <2>1, <2>2 DEF Str!InPlace, bytes
<1>4. a \in LinkStates(m, t, match, rep, off, most, h, bytes)
  <2>1. Found(<<>>, t, match, rep, off, most, h) /\ After(<<>>, off, Len(match), Len(<<>>)) = off
    BY NoneFound
  <2>2. LinksIn(m.da, t, <<>>, Len(match), bytes) /\ FromOn(m.da, t, off)
    BY <1>1, <1>2, EmptySeq DEF LinksIn, Outside, FromOn
  <2>3. a \in [da : Seq(Byte), last : Nat, scan : Nat, found : Nat] /\ Len(<<>>) = 0
    BY <1>1, <1>2
  <2>4. LinkedIn(a, m, <<>>, t, match, rep, off, most, h, bytes)
    BY <2>1, <2>2, <2>3 DEF LinkedIn
  <2> QED BY <2>3, <2>4 DEF LinkStates
<1>5. x = IF end.found = 0 THEN Str!Result(m, "ok")
          ELSE IF r.err # "ok" THEN Str!Result(Str!NoBlock, r.err)
          ELSE Str!Result(new, "ok")
  BY DEF Str!ReplacedLinked, LinkNext
<1> HIDE DEF a, x, bytes
<1>6. \E f : Links(f)
  BY <1>3, <1>4, LinkEnds DEF LinkSteps
<1>7. Links(link)
  <2> HIDE DEF Links
  <2> QED BY <1>6
<1>8. LinkSteps(link, m, match, off, max, bytes, a)
  <2> HIDE DEF link
  <2> QED BY <1>7 DEF LinkSteps
<1> HIDE DEF link
<1>9. LinkEnded(end, m, t, match, rep, off, max, most, h, bytes)
  BY <1>3, <1>4, <1>8, LinkEnds
<1> HIDE DEF end
<1>10. PICK p : LinkedIn(end, m, p, t, match, rep, off, most, h, bytes)
  BY <1>9 DEF LinkEnded, LinkStates
<1> DEFINE F == Len(p)
<1>11. /\ end.da \in Seq(Byte) /\ Len(end.da) = Len(m.da)
       /\ Found(p, t, match, rep, off, most, h) /\ end.found = F
       /\ end.last = IF p = <<>> THEN 0 ELSE p[F]
       /\ LinksIn(end.da, t, p, Len(match), bytes)
       /\ end.scan = After(p, off, Len(match), F)
  BY <1>10 DEF LinkedIn
<1>12. Finished(p, t, match, off, max) \/ F >= Len(t)
  BY <1>9, <1>11 DEF LinkEnded, LinkOver, Finished
<1>13. p \in Seq(Nat) /\ F \in Nat
  <2>1. p \in Seq(Nat)
    BY <1>11 DEF Found, AllTaken
  <2> QED BY <2>1, LenProperties
<1>14. CASE F = 0
  <2>1. p = <<>>
    BY <1>13, <1>14, EmptySeq
  <2>2. Finished(p, t, match, off, max)
    BY <1>1, <1>12, <1>14
  <2>3. e = t
    BY <2>1, <2>2, NothingToDo
  <2>4. Reads(m, IF "ok" = "ok" THEN e ELSE <<>>)
    BY <2>3
  <2>5. Made(Str!Result(m, "ok"), e, <<>>)
    BY ONLY <2>4, MadeIs
  <2> QED BY <1>5, <1>11, <1>14, <2>5 DEF x
<1>15. CASE F # 0
  <2>1. p # <<>> /\ end.last = p[F]
    BY <1>11, <1>13, <1>15, EmptySeq
  <2>2. F * d \in Nat
    <3> HIDE DEF F, d
    <3> QED BY <1>3, <1>13
  <2>3. n = Len(t) + Lift(F, d)
    BY <1>1, <1>11 DEF Lift
  <2>4. n \in Nat /\ m.len <= n /\ n > 0
    <3> DEFINE g == F * d
    <3>1. g \in Nat /\ m.len \in Nat /\ m.len > 0 /\ n = m.len + g
      BY <1>1, <1>11, <2>2
    <3> HIDE DEF g, n
    <3> QED BY ONLY <3>1
  <2> HIDE DEF n
  <2>5. b.da = end.da /\ b.len = m.len /\ b = [da |-> b.da, len |-> b.len]
    BY <1>1
  <2> HIDE DEF b
  <2>6. Str!GetCapacity(m) = Str!GetCapacity(b)
    <3>1. b.da \in Seq(Byte) /\ Len(b.da) = Len(m.da)
      BY <1>11, <2>5
    <3> QED BY <1>1, <3>1, CapacityIs
  <2>7. Widened(b, n, r)
    <3>1. /\ b = [da |-> b.da, len |-> b.len] /\ b.da \in Seq(Byte) /\ b.len \in Nat
          /\ b.len <= n /\ n \in Nat /\ n > 0
      BY <1>1, <1>11, <2>4, <2>5
    <3>2. Widened(b, n, Str!Capacitated(b, Str!Most(n, Str!GetCapacity(b)), granted))
      BY ONLY <3>1, WidenedIs
    <3> QED BY <2>6, <3>2
  <2> HIDE DEF r
  <2>8. CASE r.err # "ok"
    <3> DEFINE err == r.err
    <3>1. Reads(Str!NoBlock, IF err = "ok" THEN e ELSE <<>>)
      BY <2>8, NoBlockIs DEF Reads
    <3> HIDE DEF err
    <3>2. Made(Str!Result(Str!NoBlock, err), e, <<>>)
      BY ONLY <3>1, MadeIs
    <3>3. x = Str!Result(Str!NoBlock, err)
      BY <1>5, <1>11, <1>15, <2>8 DEF err
    <3> QED BY <3>2, <3>3 DEF x
  <2>9. CASE r.err = "ok"
    <3> DEFINE orig == r.mem.da
    <3>1. /\ orig \in Seq(Byte) /\ r.mem.len = Len(t) /\ n < Len(orig)
          /\ Len(end.da) <= Len(orig) /\ \A k \in 1..Len(end.da) : orig[k] = end.da[k]
      BY <1>1, <2>5, <2>7, <2>9 DEF Widened
    <3>2. Outside(orig, t, p, Len(match)) /\ Linking(orig, t, p, Len(match), bytes, <<>>)
      <4> DEFINE c == end.da
      <4>1. /\ c \in Seq(Byte) /\ LinksIn(c, t, p, Len(match), bytes)
            /\ Len(c) <= Len(orig) /\ \A k \in 1..Len(c) : orig[k] = c[k]
            /\ orig \in Seq(Byte)
        BY <1>11, <3>1
      <4>2. bytes = Str!LenBytes(Len(t)) /\ bytes <= Len(match)
        BY <1>1, <1>3 DEF bytes
      <4> HIDE DEF c, orig
      <4> QED BY <1>11, <4>1, <4>2, LinksSuffice
    <3>3. n = Len(t) + Lift(Len(p), Len(rep) - Len(match))
      BY <2>3
    <3>4. Spreads(t, match, rep, off, most, h, p, orig, n, bytes, <<>>)
      BY <1>3, <1>11, <1>12, <2>1, <3>1, <3>2, <3>3, FoundSpreads
    <3>5. Reads(Str!Spread(r.mem, n, F, p[F], match, rep, bytes, <<>>), e)
      BY <3>1, <3>4, SpreadIs
    <3>6. Reads(new, e)
      BY <1>11, <2>1, <3>5
    <3> HIDE DEF new
    <3>7. Made(Str!Result(new, "ok"), e, <<>>)
      <4>1. Reads(new, IF "ok" = "ok" THEN e ELSE <<>>)
        BY <3>6
      <4> QED BY ONLY <4>1, MadeIs
    <3>8. x = Str!Result(new, "ok")
      BY <1>5, <1>11, <1>15, <2>9
    <3> QED BY <3>7, <3>8 DEF x
  <2> QED BY <2>8, <2>9
<1> QED BY <1>14, <1>15

---------------------------------------------------------------------------
(* The whole.                                                              *)

(* A replacement, whichever way it goes.                                   *)
LEMMA ReplacedIs ==
  ASSUME NEW m, NEW t, Reads(m, t), t # <<>>, Legible(Len(t)), NEW match \in Seq(Chars), match # <<>>,
         NEW rep \in Seq(Chars), NEW off \in 0..Len(t), NEW count \in Nat, NEW granted
  PROVE  Made(Str!Replaced(m, match, rep, off, count, granted, TRUE),
              Str!Edited(t, match, rep, off, count),
              IF Str!InPlace(m, match, rep) THEN <<>> ELSE t)
<1> DEFINE max == AtMost(t, count)
           e == Str!Edited(t, match, rep, off, count)
           x == Str!Replaced(m, match, rep, off, count, granted, TRUE)
<1>1. t \in Seq(Chars) /\ m.len = Len(t)
  BY ReadsIs
<1>2. Len(match) \in Nat /\ Len(rep) \in Nat
  BY LenProperties
<1>3. \E h, most : Edits(t, match, rep, off, max, most, h) /\ e = Part(t, 0, off) \o h[off][most]
  BY <1>1, EditsAre
<1>4. x = IF Len(match) >= Len(rep)
            THEN Str!Result(Str!ReplacedLess(m, match, rep, off, max), "ok")
          ELSE IF Str!InPlace(m, match, rep) THEN Str!ReplacedLinked(m, match, rep, off, max, granted)
          ELSE Str!ReplacedKept(m, match, rep, off, max, granted, TRUE)
  BY <1>1 DEF Str!Replaced, AtMost
<1> HIDE DEF max, e, x
<1>5. PICK h, most : Edits(t, match, rep, off, max, most, h) /\ e = Part(t, 0, off) \o h[off][most]
  BY <1>3
<1>6. CASE Len(rep) <= Len(match)
  <2> DEFINE new == Str!ReplacedLess(m, match, rep, off, max)
             failed == IF Str!InPlace(m, match, rep) THEN <<>> ELSE t
  <2>1. Reads(new, e)
    BY <1>5, <1>6, ReplacedLessIs
  <2>2. x = Str!Result(new, "ok")
    BY <1>2, <1>4, <1>6
  <2> HIDE DEF new, failed
  <2>3. Reads(new, IF "ok" = "ok" THEN e ELSE failed)
    BY <2>1
  <2>4. Made(Str!Result(new, "ok"), e, failed)
    BY ONLY <2>3, MadeIs
  <2> QED BY <2>2, <2>4 DEF failed, x, e
<1>7. CASE ~(Len(rep) <= Len(match)) /\ Str!InPlace(m, match, rep)
  <2>1. Made(Str!ReplacedLinked(m, match, rep, off, max, granted), e, <<>>)
    BY <1>5, <1>7, ReplacedLinkedIs
  <2>2. x = Str!ReplacedLinked(m, match, rep, off, max, granted)
    BY <1>2, <1>4, <1>7
  <2> QED BY <1>7, <2>1, <2>2 DEF x, e
<1>8. CASE ~(Len(rep) <= Len(match)) /\ ~Str!InPlace(m, match, rep)
  <2>1. Len(match) < Len(rep)
    BY <1>2, <1>8
  <2>2. Made(Str!ReplacedKept(m, match, rep, off, max, granted, TRUE), e, t)
    BY <1>5, <2>1, ReplacedKeptIs
  <2>3. x = Str!ReplacedKept(m, match, rep, off, max, granted, TRUE)
    BY <1>2, <1>4, <1>8
  <2> QED BY <1>8, <2>2, <2>3 DEF x, e
<1> QED BY <1>6, <1>7, <1>8

(* bl_dstr_replace_l leaves the string terminated and holding what the     *)
(* replacement makes of it, or, if it fails, the text it had, or nothing   *)
(* when the matches were linked in place.                                  *)
LEMMA ReplaceStep ==
  ASSUME Undone, Reads(mem, text), NEW match \in Seq(Chars), NEW rep \in Seq(Chars),
         NEW off \in Nat, NEW count \in Nat, NEW granted, NEW matched \in BOOLEAN,
         Str!ReplaceL(match, rep, off, count, granted, matched)
  PROVE  Carries(mem', text') /\ Ended(mem') /\ Len(text') <= MaxReplaced
<1> DEFINE r == Str!Replaced(mem, match, rep, off, count, granted, TRUE)
           e == Str!Edited(text, match, rep, off, count)
           failed == IF Str!InPlace(mem, match, rep) THEN <<>> ELSE text
           used == r.mem.len + 1
<1>1. /\ match # <<>> /\ off < mem.len /\ mem.len <= MaxLen /\ matched
      /\ Str!Does(r, used, e, failed) /\ Len(text') <= MaxReplaced
  <2>1. matched
    BY DEF Str!ReplaceL, Undone
  <2>2. matched = TRUE
    BY <2>1
  <2> QED BY <2>1, <2>2 DEF Str!ReplaceL
<1>2. mem.len = Len(text) /\ Len(text) \in Nat /\ text \in Seq(Chars)
  BY ReadsIs
<1>3. off \in 0..Len(text) /\ text # <<>> /\ Legible(Len(text))
  <2>1. MaxLen \in Nat /\ CharValues \in Nat
    BY WordAssumption, LengthsAssumption
  <2>2. Legible(Len(text))
    BY <1>1, <1>2, <2>1 DEF Undone, Legible
  <2> QED BY <1>1, <1>2, <2>2, EmptySeq
<1>4. Made(r, e, failed)
  BY <1>1, <1>3, ReplacedIs
<1> HIDE DEF r, e, failed
<1>5. Carries(r.mem, IF r.err = "ok" THEN e ELSE failed) /\ Ended(r.mem)
  BY <1>4 DEF Made
<1>6. r.mem.len \in Nat
  BY <1>5, CarriesIs
<1>7. used \in Nat /\ r.mem.len <= used /\ r.mem.len < used
  BY <1>6
<1> HIDE DEF used
<1> QED BY <1>1, <1>5, <1>7, DoesIs

(* Every step of a string.                                                 *)
Edit == Str!StringNext(Strings(2), SUBSET Chars, Funcs, Hints, Strings(2) \ {<<>>}, Replacing)

(* The replacements are texts.                                             *)
LEMMA ReplacingIs == \A cs \in Replacing : cs \in Seq(Chars)
<1> SUFFICES ASSUME NEW cs \in Replacing PROVE cs \in Seq(Chars)
  OBVIOUS
<1>1. CASE cs \in Strings(1)
  BY <1>1, StringsAre, 1 \in Nat
<1>2. CASE \E p \in Distinct : cs = p \/ cs = <<p[1], p[2], p[1]>>
  <2>1. PICK p \in Distinct : cs = p \/ cs = <<p[1], p[2], p[1]>>
    BY <1>2
  <2>2. PICK x \in Chars, y \in Chars : p = <<x, y>>
    BY DEF Distinct
  <2>3. <<x, y>> \in Seq(Chars) /\ <<x, y, x>> \in Seq(Chars)
    OBVIOUS
  <2>4. p[1] = x /\ p[2] = y
    BY <2>2
  <2> QED BY <2>1, <2>2, <2>3, <2>4
<1> QED BY <1>1, <1>2 DEF Replacing

(* Every step of a string leaves it terminated and holding what its edits  *)
(* make of it.                                                             *)
LEMMA EditStep ==
  ASSUME Undone, Reads(mem, text), Len(text) <= MaxReplaced, Edit
  PROVE  Carries(mem', text') /\ Ended(mem') /\ Len(text') <= MaxReplaced
<1>1. CASE Plain
  <2>1. Carries(mem', text') /\ Ended(mem') /\ Len(text') <= MaxLen
    BY <1>1, PlainStep
  <2>2. text' \in Seq(Chars) /\ Len(text') \in Nat
    BY <2>1, LenProperties DEF Carries
  <2> QED BY <2>1, <2>2, WordAssumption
<1>2. ASSUME NEW match \in Strings(2) \ {<<>>}, NEW rep \in Replacing, NEW i \in Str!Places,
             NEW count \in {0, 1}, NEW matched \in BOOLEAN, NEW granted \in BOOLEAN,
             Str!ReplaceL(match, rep, i, count, granted, matched)
      PROVE  Carries(mem', text') /\ Ended(mem') /\ Len(text') <= MaxReplaced
  <2>1. match \in Seq(Chars) /\ rep \in Seq(Chars)
    BY StringsAre, ReplacingIs, 2 \in Nat
  <2>2. i \in Nat /\ count \in Nat
    BY WordAssumption DEF Str!Places
  <2> QED BY <1>2, <2>1, <2>2, ReplaceStep
<1>3. Plain \/ \E match \in Strings(2) \ {<<>>}, rep \in Replacing, i \in Str!Places,
                 count \in {0, 1}, matched \in BOOLEAN, granted \in BOOLEAN :
                 Str!ReplaceL(match, rep, i, count, granted, matched)
  BY DEF Edit, Plain, Str!StringNext
<1> QED BY <1>1, <1>2, <1>3

(* What an array and a string are in every state, and a block that nobody  *)
(* uses.                                                                   *)
TextInv ==
  /\ Carries(mem, text)
  /\ kind = "string" => Ended(mem) /\ Len(text) <= MaxReplaced

(* At first there is nothing.                                              *)
LEMMA TextStarts == ContInit => TextInv
<1> SUFFICES ASSUME ContInit PROVE TextInv
  OBVIOUS
<1>1. mem = Str!NoBlock /\ text = <<>>
  BY DEF ContInit, Str!BlockInit
<1>2. Len(text) <= MaxReplaced
  BY <1>1, WordAssumption, EmptySeq
<1> QED BY <1>1, <1>2, NoBlockIs DEF TextInv

(* Every step of the containers leaves an array, a string or a block that  *)
(* nobody uses as it should be.                                            *)
LEMMA TextStep ==
  ASSUME TextInv, [ContNext]_contVars, kind = "string" => Undone
  PROVE  TextInv'
<1>1. Carries(mem, text)
  BY DEF TextInv
<1>2. CASE UNCHANGED <<kind, mem, text>>
  BY <1>2 DEF TextInv, Carries, Ended, Blocks, Byte
<1>3. CASE kind = "array" /\ Str!ArrayNext(Strings(2)) /\ UNCHANGED kind
  BY <1>1, <1>3, ArrayStep DEF TextInv
<1>4. CASE kind = "string" /\ Edit /\ UNCHANGED kind
  <2>1. Undone /\ Reads(mem, text) /\ Len(text) <= MaxReplaced
    BY <1>4 DEF TextInv, Reads
  <2> QED BY <1>4, <2>1, EditStep DEF TextInv
<1> QED BY <1>2, <1>3, <1>4 DEF ContNext, contVars, blocks, Edit

(* That an array, a string or a block is as it should be says that it      *)
(* holds what its edits make of it, and that a search in a string finds    *)
(* what is there.                                                          *)
LEMMA TextIsRight == TextInv => TextHolds
<1> SUFFICES ASSUME TextInv PROVE TextHolds
  OBVIOUS
<1>1. Carries(mem, text)
  BY DEF TextInv
<1>2. Str!BlockHolds
  <2>1. SubSeq(mem.da, 1, mem.len) = text
    BY <1>1, PartIsText
  <2> QED BY <1>1, <2>1 DEF Str!BlockHolds, Carries
<1>3. CASE kind = "string"
  <2>1. Str!StringHolds
    BY <1>2, <1>3 DEF TextInv, Ended, Str!StringHolds
  <2>2. \A cs \in Strings(2), i \in Str!Places : Str!FindIsTrue(cs, i)
    <3>1. \A i \in Str!Places : i \in Nat
      BY WordAssumption DEF Str!Places
    <3> QED BY <1>1, <3>1, StringsAre, 2 \in Nat, FindsTruly
  <2> QED BY <1>3, <2>1, <2>2 DEF TextHolds
<1> QED BY <1>2, <1>3 DEF TextHolds

(* Whatever the allocator refuses and wherever elements are put in or      *)
(* dropped, an array holds what its edits make of it.                      *)
THEOREM ArraysHold == ContSpec => [](kind # "string" => TextHolds)
<1> DEFINE I == kind # "string" => TextInv
<1>1. ContInit => I
  BY TextStarts
<1>2. I /\ [ContNext]_contVars => I'
  <2> SUFFICES ASSUME I, [ContNext]_contVars, kind' # "string" PROVE TextInv'
    OBVIOUS
  <2>1. kind' = kind
    BY DEF ContNext, contVars
  <2> QED BY <2>1, TextStep
<1>3. I => (kind # "string" => TextHolds)
  BY TextIsRight
<1> HIDE DEF I
<1> QED BY <1>1, <1>2, <1>3, PTL DEF ContSpec

(* And a string, if no failure that the code does not undo happens and it  *)
(* is not too long for a signed char, holds what its edits make of it,     *)
(* terminated, and finds what is in it.                                    *)
THEOREM TextsHold == Undone => (ContSpec => []TextHolds)
<1> SUFFICES ASSUME Undone PROVE ContSpec => []TextHolds
  OBVIOUS
<1>1. ContInit => TextInv
  BY TextStarts
<1>2. TextInv /\ [ContNext]_contVars => TextInv'
  BY TextStep
<1>3. TextInv => TextHolds
  BY TextIsRight
<1> QED BY <1>1, <1>2, <1>3, PTL DEF ContSpec
=============================================================================
