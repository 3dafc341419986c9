--------------------------- MODULE FlatDeadlines ---------------------------
(***************************************************************************)
(* bl_flat_deadlines (src/src/bl/base/flat_deadlines.c): time points with  *)
(* an id attached, in a bl_oringb.  A time point is a number of TimeMod    *)
(* values that wraps; items has them as they would be if it did not.       *)
(***************************************************************************)
EXTENDS OrderedRing

CONSTANTS
  Ids,        \* what the user's comparison tells entries apart by
  TimeMod,    \* 2^32: bl_timept32 and its differences wrap there
  Delays,     \* from now to the deadlines users insert
  Starts,     \* the clock when the list is made
  MaxNow,     \* bound on the clock
  PollEvery,  \* users call get_head_if_expired this often
  MaxStale    \* users keep the time offset this close to the clock

ASSUME TimeAssumption ==
  /\ TimeMod \in Nat \ {0} /\ TimeMod % 2 = 0 /\ MaxNow \in Nat
  /\ Starts \subseteq 0..MaxNow
  /\ Delays \subseteq Int /\ PollEvery \in Nat /\ MaxStale \in Nat

VARIABLES
  offset,    \* time_offset
  now,       \* the clock
  seen,      \* history: the clock when the offset was set
  polled     \* history: the clock at the last get_head_if_expired

clock == <<offset, now, seen, polled>>

AnyId == "any"     \* no comparison function

Time(t) == t % TimeMod

DeadlinesInit ==
  /\ now \in Starts /\ offset = Time(now)
  /\ seen = now /\ polled = now

Wrapped(v) == [v EXCEPT !.time = Time(@)]

(* bl_timept32_deadline_compare: the difference as a signed number.        *)
Compare(a, b) == ((a - b + TimeMod \div 2) % TimeMod) - TimeMod \div 2
Expired(d, t) == Compare(d, t) <= 0

(* The ordering function; the offset turns both time points alike.         *)
Rotated(time) ==
  [i \in 0..(ring.size - 1) |->
     Compare(Time(time - offset), Time(At(ring, i).time - offset))]

---------------------------------------------------------------------------
(* The operations.                                                         *)

(* The offset is set although the head has expired.                        *)
GetHeadIfExpiredMutant ==
  /\ offset' = Time(now) /\ seen' = now /\ polled' = now
  /\ answer' = IF ring.size > 0 /\ Expired(At(ring, 0).time, offset)
                 THEN At(ring, 0) ELSE Blank
  /\ UNCHANGED <<ring, items, now>>

(* With the time the caller gives, or one it reads: the clock's.           *)
GetHeadIfExpired ==
  LET head == At(ring, 0)
  IN  /\ \/ /\ ring.size = 0
            /\ answer' = Blank /\ UNCHANGED <<offset, seen>>
         \/ /\ ring.size > 0 /\ Expired(head.time, offset)
            /\ answer' = head /\ UNCHANGED <<offset, seen>>
         \/ /\ ring.size > 0 /\ ~Expired(head.time, offset)
            /\ offset' = Time(now) /\ seen' = now
            /\ answer' = IF Expired(head.time, Time(now)) THEN head ELSE Blank
      /\ polled' = now
      /\ UNCHANGED <<ring, items, now>>

Listed == {items[i].id : i \in DOMAIN items}

(* An entry not in the list, due at time.                                  *)
InsertDeadline(id, time) ==
  LET v == [time |-> time, id |-> id]
  IN  /\ CanInsert(ring, 1) => id \notin Listed
      /\ IF CanInsert(ring, 1)
           THEN /\ ring' = Clean(Insert(ring, Wrapped(v),
                                        AfterEquals(ring, Rotated(time))))
                /\ items' = Behind(Sooner(v) \cup Equal(v), v)
           ELSE UNCHANGED <<ring, items>>
      /\ answer' = Blank
      /\ UNCHANGED clock

(* The index try_get_and_drop drops, or the size.  The loop compares the   *)
(* id with each entry that follows one of the time sought.                 *)
Target(id, time) ==
  LET found == Find(ring, Rotated(time))
      Hit(i) == id \in {AnyId, At(ring, i).id}
      hits == {i \in found..(ring.size - 1) :
                 /\ Hit(i)
                 /\ \A j \in found..(i - 1) :
                      ~Hit(j) /\ At(ring, j).time = Time(time)}
  IN  IF hits = {} THEN ring.size ELSE Min(hits)

(* The entries it should find: ids are sought under their own times.       *)
Matching(id, time) ==
  {i \in DOMAIN items : items[i].time = time /\ id \in {AnyId, items[i].id}}

TryGetAndDrop(id, time) ==
  LET i == Target(id, time)
  IN  /\ \A k \in DOMAIN items : items[k].id = id => items[k].time = time
      /\ IF i < ring.size
           THEN ring' = Clean(Drop(ring, i)) /\ answer' = At(ring, i)
           ELSE ring' = ring /\ answer' = Blank
      /\ items' = IF Matching(id, time) = {} THEN items
                  ELSE RemoveAt(items, Min(Matching(id, time)))
      /\ UNCHANGED clock

(* The clock runs while the users do their duty: they poll, and the offset *)
(* is near enough.                                                         *)
Tick ==
  /\ now < MaxNow /\ now - polled < PollEvery /\ now - seen < MaxStale
  /\ now' = now + 1
  /\ UNCHANGED <<ring, items, answer, offset, seen, polled>>

---------------------------------------------------------------------------
(* An entry is never given as expired before its time.                     *)
NotEarly == GetHeadIfExpired /\ answer' # Blank => items[1].time <= now

(* The head is given if its time has come, and only then; an entry sought  *)
(* is the one dropped and copied to the caller, the first of its equals if *)
(* no comparison function is given.                                        *)
DeadlineIsTrue(id, time) ==
  LET due   == IF items # <<>> /\ items[1].time <= now THEN Wrapped(items[1])
               ELSE Blank
      found == IF Matching(id, time) = {} THEN Blank
               ELSE Wrapped(items[Min(Matching(id, time))])
  IN  /\ GetHeadIfExpired => answer' = due
      /\ answer' = found \/ ~TryGetAndDrop(id, time)
=============================================================================
