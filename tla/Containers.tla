----------------------------- MODULE Containers -----------------------------
(***************************************************************************)
(* The sequential containers of the library, one of which a program uses:  *)
(* a bl_ringb, a bl_oringb, a bl_flat_deadlines, which are all rings, a    *)
(* linked list in an array, or a block that grows: a bl_autoarray or a     *)
(* bl_dstr.                                                                *)
(***************************************************************************)
EXTENDS FlatDeadlines

CONSTANTS
  Kinds,     \* the containers used
  Values,    \* the times of a bl_ringb's and a bl_oringb's elements
  End,       \* the nodes of a list
  Chars,     \* the elements of an array and the characters of a string
  Junk, Nul, MaxLen, MinAlloc, DefaultHint, StackMatches, CharValues, Word, MaxReplaced, Faults,
  Hints      \* the length hints that users give

(* The times of a ring's elements are time points, which do not wrap.      *)
ASSUME ValuesAssumption == Values \subseteq 0..(TimeMod - 1)

(* The links of a doubly linked list's node have eight bits.               *)
ASSUME EndAssumption == End \in 0..255

(* No index or length that a user passes comes near to a word's range.     *)
ASSUME WordAssumption ==
  /\ MaxLen \in Nat /\ MaxReplaced \in Nat /\ Word \in Nat
  /\ MaxLen <= MaxReplaced /\ 4 * (MaxReplaced + 1) < Word

ASSUME LengthsAssumption ==
  /\ MinAlloc \in Nat \ {0} /\ DefaultHint \in Nat \ {0} /\ Hints \subseteq Nat
  /\ CharValues \in Nat \ {0, 1}

VARIABLES kind, nodes, head, size, list, mine, told, mem, text

Single == INSTANCE ArrayLinkedList
Double == INSTANCE ArrayDoublyLinkedList
Str    == INSTANCE DynString WITH Elems <- Chars

rings    == <<ring, items, answer, clock>>
lists    == <<nodes, head, size, list, mine, told>>
blocks   == <<mem, text>>
contVars == <<kind, rings, lists, blocks>>

(* Ids not in use are alike: one of them stands for all.                   *)
Other(used) == IF Ids \subseteq used THEN {} ELSE {CHOOSE i \in Ids : i \notin used}
Unused      == Other(Listed)

Elements == {[time |-> t, id |-> i] : t \in Values, i \in Unused}

(* One element, or two.                                                    *)
Runs == UNION {{<<v>>} \cup {<<v, [v EXCEPT !.id = i]>> : i \in Other(Listed \cup {v.id})} :
                 v \in Elements}

ContInit ==
  /\ kind \in Kinds
  /\ RingInit /\ answer = Blank
  /\ IF kind = "deadlines" THEN DeadlinesInit
     ELSE offset = 0 /\ now = 0 /\ seen = 0 /\ polled = 0
  /\ IF kind = "double" THEN Double!ListInit ELSE Single!ListInit
  /\ Str!BlockInit

Indexes == 0..Capacity

(* Every ring's user may take elements off the ends.                       *)
Takes ==
  \/ \E n \in 1..Capacity : PopHead(n) \/ PopTail(n)
  \/ \E p \in Places : SetStart(p)

RingNext ==
  \/ \E v \in Runs : PushHead(v) \/ PushTail(v)
  \/ \E v \in Elements, i \in Indexes : PutAt(v, i)
  \/ \E i \in Indexes : TakeAt(i) \/ \E n \in Indexes : TakeRange(i, n)

OrderedNext ==
  \E v \in Elements : PutNew(v) \/ PutFirst(v) \/ PutLast(v) \/ Seek(v)

(* What a user may look for.                                               *)
Sought == Listed \cup Unused \cup {AnyId}
Times  == {items[i].time : i \in DOMAIN items} \cup {now + d : d \in Delays}

DeadlinesNext ==
  \/ GetHeadIfExpired \/ Tick
  \/ \E id \in IF CanInsert(ring, 1) THEN Unused ELSE Ids, d \in Delays :
       InsertDeadline(id, now + d)
  \/ \E id \in Sought, t \in Times : TryGetAndDrop(id, t)

(* What users write into a string, replace by, and map characters with.    *)
Distinct   == {p \in Chars \X Chars : p[1] # p[2]}
Strings(n) == BoundedSeq(Chars, n)
Replacing  == Strings(1) \cup UNION {{p, <<p[1], p[2], p[1]>>} : p \in Distinct}
Funcs      == {f \in [Chars -> Chars] : \A x \in Chars : f[x] # x}

ContNext ==
  \/ /\ kind \in {"ring", "ordered", "deadlines"} /\ Takes
     /\ answer' = Blank /\ UNCHANGED <<kind, clock, lists, blocks>>
  \/ kind = "ring" /\ RingNext /\ UNCHANGED <<kind, answer, clock, lists, blocks>>
  \/ kind = "ordered" /\ OrderedNext /\ UNCHANGED <<kind, clock, lists, blocks>>
  \/ kind = "deadlines" /\ DeadlinesNext /\ UNCHANGED <<kind, lists, blocks>>
  \/ kind = "single" /\ Single!ListNext /\ UNCHANGED <<kind, rings, blocks>>
  \/ kind = "double" /\ Double!ListNext /\ UNCHANGED <<kind, rings, blocks>>
  \/ kind = "array" /\ Str!ArrayNext(Strings(2)) /\ UNCHANGED <<kind, rings, lists>>
  \/ /\ kind = "string"
     /\ Str!StringNext(Strings(2), SUBSET Chars, Funcs, Hints,
                       Strings(2) \ {<<>>}, Replacing)
     /\ UNCHANGED <<kind, rings, lists>>

ContSpec == ContInit /\ [][ContNext]_contVars

---------------------------------------------------------------------------
(* The ring, whatever it is used for, holds what was put in it, in order if*)
(* it is ordered.                                                          *)
RingHolds ==
  /\ RingHoldsAs(Wrapped)
  /\ kind \in {"ordered", "deadlines"} => InOrder

(* Both kinds of list hold the nodes that were inserted, and no others.    *)
ListHolds ==
  IF kind = "double" THEN Double!ListHolds ELSE Single!ListHolds

(* An array and a string hold what their edits make of them, and a string  *)
(* its terminator, whatever the allocator refused; a search in a string    *)
(* finds the first place of what it looks for.                             *)
TextHolds ==
  IF kind = "string"
    THEN Str!StringHolds /\ \A cs \in Strings(2), i \in Str!Places : Str!FindIsTrue(cs, i)
    ELSE Str!BlockHolds

(* The indexes an ordered ring tells and the nodes a linked list returns   *)
(* are the right ones.                                                     *)
AnswersAreTrue ==
  [][/\ kind = "ordered" => \A v \in Elements : IndexIsTrue(v)
     /\ kind = "single" => \A n \in Single!Nodes : Single!ListIsTrue(n)
     /\ kind = "double" => \A n \in Double!Nodes : Double!ListIsTrue(n)]_contVars

(* A list of deadlines gives its first entry when it is due and not        *)
(* before, across the wrap of the clock, and drops the entry it is asked   *)
(* to.                                                                     *)
DeadlinesAreTrue ==
  [][kind = "deadlines" =>
       \A id \in Sought, t \in Times : DeadlineIsTrue(id, t)]_contVars

(* get_head_if_expired gives no entry before its time, if users call it as *)
(* often as flat_deadlines.h asks.                                         *)
NeverEarly == [][kind = "deadlines" => NotEarly]_contVars
=============================================================================
