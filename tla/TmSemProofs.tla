----------------------------- MODULE TmSemProofs -----------------------------
(***************************************************************************)
(* Proofs about TmSem, for any number of signallers and waiters, with or   *)
(* without timeouts, and any width of the two fields of the word.          *)
(***************************************************************************)
EXTENDS TmSem, FiniteSetTheorems, TLAPS

USE SemAssumption

(* How many waiters are up and how many signallers are about to wake one.  *)
Up == Cardinality(Awake)
Wakers == Cardinality(Waking)

---------------------------------------------------------------------------
(* Counting threads.                                                       *)

(* The sets of threads the invariant counts are finite.                    *)
LEMMA Finite ==
  /\ IsFiniteSet(Registered) /\ Cardinality(Registered) \in Nat
  /\ IsFiniteSet(Awake) /\ Up \in Nat
  /\ IsFiniteSet(Waking) /\ Wakers \in Nat
<1>1. /\ Registered \in SUBSET Waiters /\ Awake \in SUBSET Waiters
      /\ Waking \in SUBSET Signallers
  BY DEF Registered, Asleep, Awake, Expired, Waking
<1>2. IsFiniteSet(Registered) /\ IsFiniteSet(Awake) /\ IsFiniteSet(Waking)
  BY <1>1, FS_Subset
<1> QED BY <1>2, FS_CardinalityType DEF Up, Wakers

(* The same after a step.                                                  *)
LEMMA FiniteNext ==
  /\ IsFiniteSet(Registered') /\ Cardinality(Registered') \in Nat
  /\ IsFiniteSet(Awake') /\ Up' \in Nat
  /\ IsFiniteSet(Waking') /\ Wakers' \in Nat
<1>1. /\ Registered' \in SUBSET Waiters /\ Awake' \in SUBSET Waiters
      /\ Waking' \in SUBSET Signallers
  BY DEF Registered, Asleep, Awake, Expired, Waking
<1>2. IsFiniteSet(Registered') /\ IsFiniteSet(Awake') /\ IsFiniteSet(Waking')
  BY <1>1, FS_Subset
<1> QED BY <1>2, FS_CardinalityType DEF Up, Wakers

(* One more, one less.                                                     *)
LEMMA OneMore ==
  ASSUME NEW S, IsFiniteSet(S), NEW x, x \notin S
  PROVE  Cardinality(S \cup {x}) = Cardinality(S) + 1
BY FS_AddElement

LEMMA OneLess ==
  ASSUME NEW S, IsFiniteSet(S), NEW x, x \in S
  PROVE  /\ Cardinality(S \ {x}) = Cardinality(S) - 1
         /\ Cardinality(S) >= 1
<1>1. Cardinality(S \ {x}) = Cardinality(S) - 1
  BY FS_RemoveElement
<1>2. Cardinality(S \ {x}) \in Nat /\ Cardinality(S) \in Nat
  BY FS_RemoveElement, FS_CardinalityType
<1> QED BY <1>1, <1>2

(* A registered thread is counted.                                         *)
LEMMA Counted ==
  ASSUME Inv, NEW t \in Registered
  PROVE  sem.wait >= 1
BY Finite, OneLess DEF Inv, WaitersCounted

---------------------------------------------------------------------------
(* The types and what holds of the word a thread holds.                    *)

(* A signaller's step.                                                     *)
LEMMA SignalTypes ==
  ASSUME Inv, NEW t \in Signallers, Signal(t)
  PROVE  TypeOK' /\ SeenOK'
<1>1. CASE SignalLoads(t) \/ SignalFails(t)
  BY <1>1 DEF SignalLoads, SignalFails, SignalSees, Inv, TypeOK, SeenOK, Words,
     Threads, Goto, Keep, Return, Zero, SignalPlaces, WaitPlaces, Results
<1>2. CASE SignalTakes(t)
  <2>1. sem.sig < SigMax /\ sem' = [sem EXCEPT !.sig = sem.sig + 1]
    BY <1>2 DEF SignalTakes, Inv, SeenOK
  <2>2. sem' \in Words
    BY <2>1 DEF Inv, TypeOK, Words
  <2> QED BY <1>2, <2>2 DEF SignalTakes, Inv, TypeOK, SeenOK, Words, Threads,
       Goto, Keep, Return, Zero, SignalPlaces, WaitPlaces, Results
<1>3. CASE Wake(t)
  BY <1>3 DEF Wake, Asleep, Inv, TypeOK, SeenOK, Threads, Goto, SignalPlaces,
     WaitPlaces, Results
<1> QED BY <1>1, <1>2, <1>3 DEF Signal

(* A waiter's step.                                                        *)
LEMMA WaitTypes ==
  ASSUME Inv, NEW t \in Waiters, Wait(t)
  PROVE  TypeOK' /\ SeenOK'
<1> USE DEF Inv, TypeOK, SeenOK, Words, Threads, Goto, Keep, Return, Zero,
        SignalPlaces, WaitPlaces, Results
<1>1. CASE WaitLoads(t) \/ WaitFails(t)
  BY <1>1 DEF WaitLoads, WaitFails, WaitSees
<1>2. CASE WaitTakes(t)
  <2>1. CASE seen[t].sig > 0
    <3>1. sem' \in Words
      BY <1>2, <2>1 DEF WaitTakes
    <3> QED BY <1>2, <2>1, <3>1 DEF WaitTakes
  <2>2. CASE ~(seen[t].sig > 0)
    <3>1. sem.sig = 0 /\ sem.wait < WaitMax
      BY <1>2, <2>2 DEF WaitTakes
    <3>2. sem' \in Words /\ sem'.sig = 0
      BY <1>2, <2>2, <3>1 DEF WaitTakes
    <3> QED BY <1>2, <2>2, <3>2 DEF WaitTakes
  <2> QED BY <2>1, <2>2
<1>3. CASE Futex(t)
  BY <1>3 DEF Futex
<1>4. CASE TimesOut(t) \/ Stirs(t)
  BY <1>4 DEF TimesOut, Stirs
<1>5. CASE AwakeLoads(t) \/ AwakeFails(t)
  BY <1>5 DEF AwakeLoads, AwakeFails, AwakeSees
<1>6. CASE AwakeTakes(t)
  <2>1. t \in Registered
    BY <1>6 DEF AwakeTakes, Registered, Awake
  <2>2. sem.wait >= 1
    BY <2>1, Counted
  <2>3. sem' \in Words
    BY <1>6, <2>2 DEF AwakeTakes
  <2> QED BY <1>6, <2>3 DEF AwakeTakes
<1>7. CASE Expire(t)
  <2>1. t \in Registered
    BY <1>7 DEF Expire, Registered, Expired
  <2>2. sem.wait >= 1
    BY <2>1, Counted
  <2>3. sem' \in Words
    BY <1>7, <2>2 DEF Expire
  <2> QED BY <1>7, <2>3 DEF Expire
<1> QED BY <1>1, <1>2, <1>3, <1>4, <1>5, <1>6, <1>7 DEF Wait

(* Any step.                                                               *)
LEMMA TypesStep ==
  ASSUME Inv, [Next]_vars
  PROVE  TypeOK' /\ SeenOK'
<1>1. CASE \E t \in Signallers \cup Waiters : Enter(t)
  BY <1>1 DEF Enter, Inv, TypeOK, SeenOK, Words, Threads, Goto, SignalPlaces,
     WaitPlaces, Results
<1>2. CASE \E o \in Owners : Destroy(o)
  BY <1>2 DEF Destroy, Asleep, Inv, TypeOK, SeenOK, Words, Threads,
     SignalPlaces, WaitPlaces, Results
<1>3. CASE UNCHANGED vars
  BY <1>3 DEF vars, Inv, TypeOK, SeenOK
<1> QED BY <1>1, <1>2, <1>3, SignalTypes, WaitTypes DEF Next

---------------------------------------------------------------------------
(* The wait field counts the registered threads.                           *)

(* A step that leaves the registered threads and the field alone.          *)
LEMMA SameRegistered ==
  ASSUME Inv, Registered' = Registered, sem'.wait = sem.wait
  PROVE  WaitersCounted'
BY DEF Inv, WaitersCounted

(* A signaller registers nobody: the waiter it wakes stays registered.     *)
LEMMA SignalCounts ==
  ASSUME Inv, NEW t \in Signallers, Signal(t)
  PROVE  WaitersCounted'
<1> USE DEF Inv, TypeOK, Threads, Registered, Asleep, Awake, Expired
<1>1. CASE SignalLoads(t) \/ SignalFails(t) \/ SignalTakes(t)
  <2>1. \A w \in Waiters : pc'[w] = pc[w]
    BY <1>1 DEF SignalLoads, SignalFails, SignalTakes, SignalSees, Goto, Return
  <2>2. sem'.wait = sem.wait
    BY <1>1 DEF SignalLoads, SignalFails, SignalTakes, SignalSees, Words
  <2>3. Registered' = Registered
    BY <2>1
  <2> QED BY <2>2, <2>3, SameRegistered
<1>2. CASE Wake(t)
  <2>1. \A w \in Waiters : \/ pc'[w] = pc[w]
                           \/ pc[w] = "asleep" /\ pc'[w] = "reread"
    BY <1>2 DEF Wake, Goto
  <2>2. Registered' = Registered
    BY <2>1
  <2> QED BY <1>2, <2>2, SameRegistered DEF Wake
<1> QED BY <1>1, <1>2 DEF Signal

(* A waiter registers once, with one added to the field, and leaves once,  *)
(* with one subtracted.                                                    *)
LEMMA WaitCounts ==
  ASSUME Inv, NEW t \in Waiters, Wait(t)
  PROVE  WaitersCounted'
<1> USE DEF Inv, TypeOK, Threads
<1>1. CASE \/ WaitLoads(t) \/ WaitFails(t) \/ Futex(t) \/ TimesOut(t)
           \/ Stirs(t) \/ AwakeLoads(t) \/ AwakeFails(t)
  <2>1. \A w \in Waiters \ {t} : pc'[w] = pc[w]
    BY <1>1 DEF WaitLoads, WaitFails, WaitSees, Futex, TimesOut, Stirs,
       AwakeLoads, AwakeFails, AwakeSees, Goto, Return
  <2>2. t \in Registered' <=> t \in Registered
    BY <1>1 DEF WaitLoads, WaitFails, WaitSees, Futex, TimesOut, Stirs,
       AwakeLoads, AwakeFails, AwakeSees, Goto, Return, Registered, Asleep,
       Awake, Expired
  <2>3. Registered' = Registered
    BY <2>1, <2>2 DEF Registered, Asleep, Awake, Expired
  <2>4. sem' = sem
    BY <1>1 DEF WaitLoads, WaitFails, WaitSees, Futex, TimesOut, Stirs,
       AwakeLoads, AwakeFails, AwakeSees
  <2> QED BY <2>3, <2>4, SameRegistered
<1>2. CASE WaitTakes(t) /\ seen[t].sig > 0
  <2>1. Registered' = Registered
    BY <1>2 DEF WaitTakes, Goto, Return, Registered, Asleep, Awake, Expired
  <2>2. sem'.wait = sem.wait
    BY <1>2 DEF WaitTakes, Words
  <2> QED BY <2>1, <2>2, SameRegistered
<1>3. CASE WaitTakes(t) /\ ~(seen[t].sig > 0)
  <2>1. t \notin Registered /\ Registered' = Registered \cup {t}
    BY <1>3 DEF WaitTakes, Goto, Registered, Asleep, Awake, Expired
  <2>2. sem'.wait = sem.wait + 1
    BY <1>3 DEF WaitTakes, Words
  <2> QED BY <2>1, <2>2, Finite, OneMore DEF WaitersCounted
<1>4. CASE AwakeTakes(t) \/ Expire(t)
  <2>1. t \in Registered /\ Registered' = Registered \ {t}
    BY <1>4 DEF AwakeTakes, Expire, Goto, Return, Registered, Asleep, Awake,
       Expired
  <2>2. sem'.wait = sem.wait - 1
    BY <1>4 DEF AwakeTakes, Expire, Words
  <2> QED BY <2>1, <2>2, Finite, OneLess DEF WaitersCounted
<1> QED BY <1>1, <1>2, <1>3, <1>4 DEF Wait

LEMMA CountsStep ==
  ASSUME Inv, [Next]_vars
  PROVE  WaitersCounted'
<1> USE DEF Inv, TypeOK, Threads, Registered, Asleep, Awake, Expired
<1>1. CASE \E t \in Signallers \cup Waiters : Enter(t)
  <2>1. Registered' = Registered /\ sem' = sem
    BY <1>1 DEF Enter, Goto
  <2> QED BY <2>1, SameRegistered
<1>2. CASE \E o \in Owners : Destroy(o)
  <2>1. Registered' = Registered /\ sem' = sem
    BY <1>2 DEF Destroy
  <2> QED BY <2>1, SameRegistered
<1>3. CASE UNCHANGED vars
  BY <1>3 DEF vars, WaitersCounted
<1> QED BY <1>1, <1>2, <1>3, SignalCounts, WaitCounts DEF Next

---------------------------------------------------------------------------
(* No wake up is lost.                                                     *)

(* A step that puts nobody to sleep, and neither adds signals nor takes    *)
(* waiters or signallers away from those up.                               *)
LEMMA SameWakeup ==
  ASSUME Inv, Asleep' # {} => Asleep # {},
         sem'.sig = sem.sig, Awake' = Awake, Waking' = Waking
  PROVE  NoLostWakeup'
BY DEF Inv, NoLostWakeup

(* A signaller that adds a signal is about to wake somebody unless nobody  *)
(* is registered; the one that wakes replaces itself by the waiter.        *)
LEMMA SignalWakes ==
  ASSUME Inv, NEW t \in Signallers, Signal(t)
  PROVE  NoLostWakeup'
<1> USE DEF Inv, TypeOK, Threads
<1>1. CASE SignalLoads(t) \/ SignalFails(t)
  <2>1. Asleep' = Asleep /\ Awake' = Awake /\ Waking' = Waking /\ sem' = sem
    BY <1>1 DEF SignalLoads, SignalFails, SignalSees, Goto, Return, Asleep,
       Awake, Waking
  <2> QED BY <2>1, SameWakeup
<1>2. CASE SignalTakes(t)
  <2>1. Asleep' = Asleep /\ Awake' = Awake
    BY <1>2 DEF SignalTakes, Goto, Return, Asleep, Awake
  <2>2. sem'.sig = sem.sig + 1 /\ sem.sig \in Nat
    BY <1>2 DEF SignalTakes, Words
  <2>3. CASE seen[t].wait # 0
    <3>1. t \notin Waking /\ Waking' = Waking \cup {t}
      BY <1>2, <2>3 DEF SignalTakes, Goto, Waking
    <3>2. Wakers' = Wakers + 1
      BY <3>1, Finite, OneMore DEF Wakers
    <3> QED BY <2>1, <2>2, <3>2, Finite DEF NoLostWakeup, Up, Wakers
  <2>4. CASE seen[t].wait = 0
    <3>1. Cardinality(Registered) = 0
      BY <1>2, <2>4 DEF SignalTakes, WaitersCounted
    <3>2. Asleep = {}
      BY <3>1, Finite, FS_EmptySet DEF Registered
    <3> QED BY <2>1, <3>2 DEF NoLostWakeup
  <2> QED BY <2>3, <2>4
<1>3. CASE Wake(t) /\ Asleep = {}
  <2>1. Asleep' = {}
    BY <1>3 DEF Wake, Goto, Asleep
  <2> QED BY <2>1 DEF NoLostWakeup
<1>4. CASE Wake(t) /\ Asleep # {}
  <2>1. PICK w \in Asleep :
          pc' = [pc EXCEPT ![t] = "idle", ![w] = "reread"]
    BY <1>4 DEF Wake
  <2>2. /\ t \in Waking /\ Waking' = Waking \ {t}
        /\ w \notin Awake /\ Awake' = Awake \cup {w}
    BY <1>4, <2>1 DEF Wake, Asleep, Awake, Waking
  <2>3. Wakers' = Wakers - 1 /\ Up' = Up + 1
    BY <2>2, Finite, OneMore, OneLess DEF Up, Wakers
  <2>4. sem' = sem
    BY <1>4 DEF Wake
  <2> QED BY <1>4, <2>3, <2>4, Finite DEF NoLostWakeup, Up, Wakers, Words
<1> QED BY <1>1, <1>2, <1>3, <1>4 DEF Signal

(* A waiter goes to sleep only on a word without signals, and the one that *)
(* leaves takes a signal with it or has already left those up.             *)
LEMMA WaitWakes ==
  ASSUME Inv, NEW t \in Waiters, Wait(t)
  PROVE  NoLostWakeup'
<1> USE DEF Inv, TypeOK, Threads
<1>1. CASE \/ WaitLoads(t) \/ WaitFails(t) \/ AwakeLoads(t) \/ AwakeFails(t)
           \/ Expire(t)
  <2>1. Asleep' = Asleep /\ Awake' = Awake /\ Waking' = Waking
    BY <1>1 DEF WaitLoads, WaitFails, WaitSees, AwakeLoads, AwakeFails,
       AwakeSees, Expire, Goto, Return, Asleep, Awake, Waking
  <2>2. sem'.sig = sem.sig
    BY <1>1 DEF WaitLoads, WaitFails, WaitSees, AwakeLoads, AwakeFails,
       AwakeSees, Expire, Words
  <2> QED BY <2>1, <2>2, SameWakeup
<1>2. CASE WaitTakes(t)
  <2>1. Asleep' = Asleep /\ Waking' = Waking
    BY <1>2 DEF WaitTakes, Goto, Return, Asleep, Waking
  <2>2. CASE seen[t].sig > 0
    <3>1. Awake' = Awake /\ sem'.sig = sem.sig - 1 /\ sem.sig \in Nat
      BY <1>2, <2>2 DEF WaitTakes, Goto, Return, Awake, Words
    <3> QED BY <2>1, <3>1, Finite DEF NoLostWakeup, Up, Wakers
  <2>3. CASE ~(seen[t].sig > 0)
    <3>1. sem'.sig = 0
      BY <1>2, <2>3 DEF WaitTakes, Words
    <3> QED BY <3>1, FiniteNext DEF NoLostWakeup, Up, Wakers
  <2> QED BY <2>2, <2>3
<1>3. CASE Futex(t)
  <2>1. CASE sem = seen[t]
    <3>1. sem'.sig = 0
      BY <1>3, <2>1 DEF Futex, SeenOK
    <3> QED BY <3>1, FiniteNext DEF NoLostWakeup, Up, Wakers
  <2>2. CASE sem # seen[t]
    <3>1. Asleep' = Asleep /\ Awake' = Awake /\ Waking' = Waking /\ sem' = sem
      BY <1>3, <2>2 DEF Futex, Goto, Asleep, Awake, Waking
    <3> QED BY <3>1, SameWakeup
  <2> QED BY <2>1, <2>2
<1>4. CASE TimesOut(t)
  <2>1. /\ Asleep' = Asleep \ {t} /\ Awake' = Awake /\ Waking' = Waking
        /\ sem' = sem
    BY <1>4 DEF TimesOut, Goto, Asleep, Awake, Waking
  <2> QED BY <2>1, SameWakeup
<1>5. CASE Stirs(t)
  <2>1. /\ t \in Asleep /\ t \notin Awake /\ Awake' = Awake \cup {t}
        /\ Waking' = Waking /\ sem' = sem
    BY <1>5 DEF Stirs, Goto, Asleep, Awake, Waking
  <2>2. Up' = Up + 1
    BY <2>1, Finite, OneMore DEF Up
  <2> QED BY <2>1, <2>2, Finite DEF NoLostWakeup, Up, Wakers, Words
<1>6. CASE AwakeTakes(t)
  <2>1. /\ t \in Awake /\ Awake' = Awake \ {t} /\ Asleep' = Asleep
        /\ Waking' = Waking
    BY <1>6 DEF AwakeTakes, Goto, Return, Asleep, Awake, Waking
  <2>2. Up' = Up - 1
    BY <2>1, Finite, OneLess DEF Up
  <2>3. sem'.sig = sem.sig - 1 /\ sem.sig \in Nat
    BY <1>6 DEF AwakeTakes, Words
  <2> QED BY <2>1, <2>2, <2>3, Finite DEF NoLostWakeup, Up, Wakers
<1> QED BY <1>1, <1>2, <1>3, <1>4, <1>5, <1>6 DEF Wait

LEMMA WakeupStep ==
  ASSUME Inv, [Next]_vars
  PROVE  NoLostWakeup'
<1> USE DEF Inv, TypeOK, Threads
<1>1. CASE \E t \in Signallers \cup Waiters : Enter(t)
  <2>1. Asleep' = Asleep /\ Awake' = Awake /\ Waking' = Waking /\ sem' = sem
    BY <1>1 DEF Enter, Goto, Asleep, Awake, Waking
  <2> QED BY <2>1, SameWakeup
<1>2. CASE \E o \in Owners : Destroy(o)
  <2>1. Asleep' = {}
    BY <1>2 DEF Destroy, Asleep
  <2> QED BY <2>1 DEF NoLostWakeup
<1>3. CASE UNCHANGED vars
  BY <1>3 DEF vars, NoLostWakeup, Asleep, Awake, Waking
<1> QED BY <1>1, <1>2, <1>3, SignalWakes, WaitWakes DEF Next

---------------------------------------------------------------------------
(* The theorems.                                                           *)

(* The invariant holds initially and every step keeps it.                  *)
LEMMA Inductive ==
  /\ Init => Inv
  /\ Inv /\ [Next]_vars => Inv'
<1>1. ASSUME Init PROVE Inv
  <2>1. TypeOK /\ SeenOK
    BY <1>1 DEF Init, TypeOK, SeenOK, Words, Zero, Threads, SignalPlaces,
       WaitPlaces, Results
  <2>2. Registered = {} /\ Asleep = {}
    BY <1>1 DEF Init, Threads, Registered, Asleep, Awake, Expired
  <2>3. WaitersCounted /\ NoLostWakeup
    BY <1>1, <2>2, FS_EmptySet DEF Init, Zero, WaitersCounted, NoLostWakeup
  <2> QED BY <2>1, <2>3 DEF Inv
<1>2. ASSUME Inv, [Next]_vars PROVE Inv'
  BY <1>2, TypesStep, CountsStep, WakeupStep DEF Inv
<1> QED BY <1>1, <1>2

(* The variables keep their types: the fields of the word never overflow   *)
(* into one another.                                                       *)
THEOREM TypeCorrect == Spec => []TypeOK
BY Inductive, PTL DEF Spec, Inv

(* The wait field is the number of threads that have registered and        *)
(* neither taken a signal nor given up.                                    *)
THEOREM WaitersAreCounted == Spec => []WaitersCounted
BY Inductive, PTL DEF Spec, Inv

(* While somebody sleeps, every signal has a waiter up or a signaller      *)
(* about to wake one: no wake up is lost.                                  *)
THEOREM NoWakeupIsLost == Spec => []NoLostWakeup
BY Inductive, PTL DEF Spec, Inv

---------------------------------------------------------------------------
(* The semaphore implements its promise.                                   *)

Callers == Signallers \cup Waiters
Calling == {t \in Callers : pc[t] \notin {"idle", "wake"}}
Answers == [t \in Callers |-> Answer(t)]

(* A call takes effect in the promise when the thread stops calling.       *)
LEMMA TakesEffect ==
  ASSUME NEW t \in Callers, NEW n, NEW why, t \in Calling,
         Calling' = Calling \ {t}, sem'.sig = n,
         Answers' = [Answers EXCEPT ![t] = why]
  PROVE  Promise!Effect(t, n, why)
BY DEF Promise!Effect, Callers, Calling, Answers

(* A step the promise does not see.                                        *)
LEMMA Unseen ==
  ASSUME Calling' = Calling, sem'.sig = sem.sig, Answers' = Answers
  PROVE  UNCHANGED Promise!sema
BY DEF Promise!sema, Callers, Calling, Answers

(* A step of signal takes effect when it finds no room or adds a signal;   *)
(* the wake up that may follow is not seen.                                *)
LEMMA SignalKeepsPromise ==
  ASSUME Inv, NEW t \in Signallers, Signal(t)
  PROVE  [Promise!SemNext]_(Promise!sema)
<1> USE DEF Inv, TypeOK, Threads
<1>1. CASE (SignalLoads(t) \/ SignalFails(t)) /\ sem.sig = SigMax
  <2>1. /\ t \in Calling /\ Calling' = Calling \ {t}
        /\ Answers' = [Answers EXCEPT ![t] = "would_overflow"]
        /\ sem'.sig = sem.sig
    BY <1>1 DEF SignalLoads, SignalFails, SignalSees, Goto, Return, Callers,
       Calling, Answers, Answer
  <2>2. Promise!Effect(t, sem.sig, "would_overflow")
    BY <2>1, TakesEffect DEF Callers
  <2>3. Promise!Overflow(t)
    BY <1>1, <2>2 DEF Promise!Overflow
  <2> QED BY <2>3 DEF Promise!SemNext
<1>2. CASE (SignalLoads(t) \/ SignalFails(t)) /\ sem.sig # SigMax
  <2>1. Calling' = Calling /\ Answers' = Answers /\ sem' = sem
    BY <1>2 DEF SignalLoads, SignalFails, SignalSees, Goto, Callers, Calling,
       Answers, Answer
  <2> QED BY <2>1, Unseen
<1>3. CASE SignalTakes(t)
  <2>1. /\ t \in Calling /\ Calling' = Calling \ {t}
        /\ Answers' = [Answers EXCEPT ![t] = "ok"]
    BY <1>3 DEF SignalTakes, Goto, Return, Callers, Calling, Answers, Answer
  <2>2. sem'.sig = sem.sig + 1 /\ sem.sig < SigMax
    BY <1>3 DEF SignalTakes, SeenOK, Words
  <2>3. Promise!Effect(t, sem.sig + 1, "ok")
    BY <2>1, <2>2, TakesEffect DEF Callers
  <2>4. Promise!Up(t)
    BY <2>2, <2>3 DEF Promise!Up
  <2> QED BY <2>4 DEF Promise!SemNext
<1>4. CASE Wake(t)
  <2>1. /\ pc[t] = "wake" /\ pc'[t] = "idle" /\ sem' = sem
        /\ res' = [res EXCEPT ![t] = "ok"]
    BY <1>4 DEF Wake, Goto, Asleep
  <2>2. \A w \in Callers \ {t} : \/ pc'[w] = pc[w]
                                 \/ pc[w] = "asleep" /\ pc'[w] = "reread"
    BY <1>4 DEF Wake, Goto, Asleep, Callers
  <2>3. Calling' = Calling /\ Answers' = Answers
    BY <2>1, <2>2 DEF Callers, Calling, Answers, Answer
  <2> QED BY <2>1, <2>3, Unseen
<1> QED BY <1>1, <1>2, <1>3, <1>4 DEF Signal

(* A waiter that finds no signal and no room: as many others are calling.  *)
LEMMA NoRoom ==
  ASSUME Inv, NEW t \in Waiters, pc[t] \in {"load", "wait"},
         sem.wait = WaitMax
  PROVE  Cardinality((Calling \cap Waiters) \ {t}) >= WaitMax
<1> DEFINE others == (Calling \cap Waiters) \ {t}
<1>1. Registered \in SUBSET others
  BY DEF Inv, TypeOK, Threads, Registered, Asleep, Awake, Expired, Callers,
     Calling
<1>2. IsFiniteSet(others) /\ Cardinality(others) \in Nat
  <2>1. others \in SUBSET Waiters
    OBVIOUS
  <2> QED BY <2>1, FS_Subset, FS_CardinalityType
<1> HIDE DEF others
<1>3. Cardinality(Registered) <= Cardinality(others)
  BY <1>1, <1>2, FS_Subset
<1>4. Cardinality(others) >= WaitMax
  BY <1>2, <1>3, Finite DEF Inv, WaitersCounted
<1> QED BY <1>4 DEF others

(* A step of wait takes effect when it takes a signal, finds no room or    *)
(* gives up; registering and sleeping are not seen.                        *)
LEMMA WaitKeepsPromise ==
  ASSUME Inv, NEW t \in Waiters, Wait(t)
  PROVE  [Promise!SemNext]_(Promise!sema)
<1> USE DEF Inv, TypeOK, Threads
<1>1. CASE (WaitLoads(t) \/ WaitFails(t)) /\ sem.sig = 0 /\ sem.wait = WaitMax
  <2>1. /\ t \in Calling /\ Calling' = Calling \ {t}
        /\ Answers' = [Answers EXCEPT ![t] = "would_overflow"]
        /\ sem'.sig = 0
    BY <1>1 DEF WaitLoads, WaitFails, WaitSees, Goto, Return, Callers,
       Calling, Answers, Answer
  <2>2. Promise!Effect(t, 0, "would_overflow")
    BY <2>1, TakesEffect DEF Callers
  <2>3. Cardinality((Calling \cap Waiters) \ {t}) >= WaitMax
    BY <1>1, NoRoom DEF WaitLoads, WaitFails
  <2>4. Promise!Cardinality((Calling \cap Waiters) \ {t})
          = Cardinality((Calling \cap Waiters) \ {t})
    BY DEF Promise!Cardinality, Cardinality
  <2>5. Promise!TooMany(t)
    BY <1>1, <2>2, <2>3, <2>4 DEF Promise!TooMany, Calling, Callers
  <2> QED BY <2>5 DEF Promise!SemNext
<1>2. CASE \/ (WaitLoads(t) \/ WaitFails(t)) /\ ~(sem.sig = 0 /\ sem.wait = WaitMax)
           \/ Futex(t) \/ TimesOut(t) \/ Stirs(t)
           \/ AwakeLoads(t) \/ AwakeFails(t)
  <2>1. Calling' = Calling /\ Answers' = Answers /\ sem' = sem
    BY <1>2 DEF WaitLoads, WaitFails, WaitSees, Futex, TimesOut, Stirs,
       AwakeLoads, AwakeFails, AwakeSees, Goto, Callers, Calling, Answers,
       Answer
  <2> QED BY <2>1, Unseen
<1>3. CASE \/ WaitTakes(t) /\ seen[t].sig > 0
           \/ AwakeTakes(t)
  <2>1. /\ t \in Calling /\ Calling' = Calling \ {t}
        /\ Answers' = [Answers EXCEPT ![t] = "ok"]
    BY <1>3 DEF WaitTakes, AwakeTakes, Goto, Return, Callers, Calling,
       Answers, Answer
  <2>2. sem'.sig = sem.sig - 1 /\ sem.sig > 0
    <3>1. CASE WaitTakes(t) /\ seen[t].sig > 0
      BY <3>1 DEF WaitTakes, Words
    <3>2. CASE AwakeTakes(t)
      BY <3>2 DEF AwakeTakes, SeenOK, Words
    <3> QED BY <1>3, <3>1, <3>2
  <2>3. Promise!Effect(t, sem.sig - 1, "ok")
    BY <2>1, <2>2, TakesEffect DEF Callers
  <2>4. Promise!Down(t)
    BY <2>2, <2>3 DEF Promise!Down
  <2> QED BY <2>4 DEF Promise!SemNext
<1>4. CASE WaitTakes(t) /\ ~(seen[t].sig > 0)
  <2>1. Calling' = Calling /\ Answers' = Answers
    BY <1>4 DEF WaitTakes, Goto, Callers, Calling, Answers, Answer
  <2>2. sem'.sig = sem.sig
    BY <1>4 DEF WaitTakes, Words
  <2> QED BY <2>1, <2>2, Unseen
<1>5. CASE Expire(t)
  <2>1. /\ t \in Calling /\ Calling' = Calling \ {t}
        /\ Answers' = [Answers EXCEPT ![t] = "timeout"]
    BY <1>5 DEF Expire, Goto, Return, Callers, Calling, Answers, Answer
  <2>2. sem'.sig = sem.sig /\ t \in Timed
    BY <1>5 DEF Expire, SeenOK, Words
  <2>3. Promise!Effect(t, sem.sig, "timeout")
    BY <2>1, <2>2, TakesEffect DEF Callers
  <2>4. Promise!TimeOut(t)
    BY <2>2, <2>3 DEF Promise!TimeOut
  <2> QED BY <2>4 DEF Promise!SemNext
<1> QED BY <1>1, <1>2, <1>3, <1>4, <1>5 DEF Wait

(* Any step.                                                               *)
LEMMA StepKeepsPromise ==
  ASSUME Inv, [Next]_vars
  PROVE  [Promise!SemNext]_(Promise!sema)
<1> USE DEF Inv, TypeOK, Threads
<1>1. ASSUME NEW t \in Callers, Enter(t)
      PROVE  [Promise!SemNext]_(Promise!sema)
  <2>1. /\ t \notin Calling /\ Calling' = Calling \cup {t}
        /\ Answers' = [Answers EXCEPT ![t] = "none"]
        /\ sem' = sem
    BY <1>1 DEF Enter, Goto, Callers, Calling, Answers, Answer
  <2>2. Promise!Call(t)
    BY <2>1 DEF Promise!Call, Callers, Calling, Answers
  <2> QED BY <2>2 DEF Promise!SemNext, Callers
<1>2. CASE \E o \in Owners : Destroy(o)
  <2>1. Calling' = Calling /\ Answers' = Answers /\ sem' = sem
    BY <1>2 DEF Destroy, Asleep, Callers, Calling, Answers, Answer
  <2> QED BY <2>1, Unseen
<1>3. CASE UNCHANGED vars
  <2>1. Calling' = Calling /\ Answers' = Answers /\ sem' = sem
    BY <1>3 DEF vars, Calling, Answers, Answer
  <2> QED BY <2>1, Unseen
<1> QED BY <1>1, <1>2, <1>3, SignalKeepsPromise, WaitKeepsPromise
     DEF Next, Callers

(* Every call takes effect in one step between its call and its return, as *)
(* the operations of a counting semaphore do.                              *)
THEOREM KeepsPromise == Spec => ImplementsPromise
<1>1. Init => Promise!SemInit
  BY DEF Init, Promise!SemInit, Zero, Threads, Answer
<1>2. Inv /\ [Next]_vars => [Promise!SemNext]_(Promise!sema)
  BY StepKeepsPromise
<1> QED BY <1>1, <1>2, Inductive, PTL
     DEF Spec, ImplementsPromise, Promise!SemSpec
=============================================================================
