-------------------------------- MODULE TmSem --------------------------------
(***************************************************************************)
(* bl_tm_sem, the timed semaphore of linux builds                          *)
(* (src/src/bl/base/semaphore_linux.c): one 32 bit futex word that holds   *)
(* the count of signals and the number of waiters, one action per access   *)
(* to the word or call of the futex.  The futex itself is the kernel's: it *)
(* compares and goes to sleep in one step, and wakes any sleeper.          *)
(***************************************************************************)
EXTENDS Naturals, FiniteSets

CONSTANTS
  Signallers,  \* threads that call bl_tm_sem_signal
  Waiters,     \* threads that call bl_tm_sem_wait
  Timed,       \* the waiters whose timeout is not bl_tm_sem_infinity
  Owners,      \* threads that call bl_tm_sem_destroy, once
  SigMax,      \* 2^tm_sem_futex_sig_bits - 1
  WaitMax      \* 2^tm_sem_futex_wait_bits - 1

Threads == Signallers \cup Waiters \cup Owners

ASSUME SemAssumption ==
  /\ IsFiniteSet(Waiters) /\ Timed \subseteq Waiters
  /\ IsFiniteSet(Signallers)
  /\ Signallers \cap Waiters = {} /\ Owners \cap (Signallers \cup Waiters) = {}
  /\ SigMax \in Nat \ {0} /\ WaitMax \in Nat \ {0}

Words == [sig : 0..SigMax, wait : 0..WaitMax]

VARIABLES
  sem,    \* the futex word, its two fields apart
  pc,     \* where each thread is
  seen,   \* the word each thread holds: prev before its CAS, curr at the
          \* futex; zero when the thread holds none
  res     \* what each thread's last call returned, "none" during a call

vars == <<sem, pc, seen, res>>

Zero == [sig |-> 0, wait |-> 0]

Init ==
  /\ sem  = Zero
  /\ pc   = [t \in Threads |-> "idle"]
  /\ seen = [t \in Threads |-> Zero]
  /\ res  = [t \in Threads |-> "none"]

(* The user calls nothing else once it has destroyed the semaphore.        *)
Alive == \A o \in Owners : res[o] = "none"

Goto(t, place) == pc' = [pc EXCEPT ![t] = place]
Keep(t, word)  == seen' = [seen EXCEPT ![t] = word]
Return(t, why) ==
  /\ Goto(t, "idle") /\ Keep(t, Zero)
  /\ res' = [res EXCEPT ![t] = why]

(* Entering a call, which begins by loading the word.                      *)
Enter(t) ==
  /\ pc[t] = "idle" /\ Alive
  /\ Goto(t, "load")
  /\ res' = [res EXCEPT ![t] = "none"]
  /\ UNCHANGED <<sem, seen>>

---------------------------------------------------------------------------
(* bl_tm_sem_signal.                                                       *)

(* Checks against the room of both fields together.                        *)
SignalSeesMutant(t) ==
  /\ IF sem.sig = SigMax /\ sem.wait = WaitMax
       THEN Return(t, "would_overflow")
       ELSE Goto(t, "signal") /\ Keep(t, sem) /\ UNCHANGED res
  /\ UNCHANGED sem

(* The word has been read: is there room for a signal?                     *)
SignalSees(t) ==
  /\ IF sem.sig = SigMax
       THEN Return(t, "would_overflow")
       ELSE Goto(t, "signal") /\ Keep(t, sem) /\ UNCHANGED res
  /\ UNCHANGED sem

SignalLoads(t) == pc[t] = "load" /\ SignalSees(t)
SignalFails(t) == pc[t] = "signal" /\ SignalSees(t)   \* a weak CAS may

(* Wakes a sleeper only if no other signal is there to be taken.           *)
SignalTakesMutant(t) ==
  /\ pc[t] = "signal" /\ sem = seen[t]
  /\ sem' = [sem EXCEPT !.sig = @ + 1]
  /\ IF seen[t].wait # 0 /\ seen[t].sig = 0
       THEN Goto(t, "wake") /\ Keep(t, Zero) /\ UNCHANGED res
       ELSE Return(t, "ok")

SignalTakes(t) ==
  /\ pc[t] = "signal" /\ sem = seen[t]
  /\ sem' = [sem EXCEPT !.sig = @ + 1]
  /\ IF seen[t].wait # 0
       THEN Goto(t, "wake") /\ Keep(t, Zero) /\ UNCHANGED res
       ELSE Return(t, "ok")

Asleep == {w \in Waiters : pc[w] = "asleep"}

Wake(t) ==
  /\ pc[t] = "wake"
  /\ \/ \E w \in Asleep :
          pc' = [pc EXCEPT ![t] = "idle", ![w] = "reread"]
     \/ Asleep = {} /\ Goto(t, "idle")
  /\ res' = [res EXCEPT ![t] = "ok"]
  /\ UNCHANGED <<sem, seen>>

---------------------------------------------------------------------------
(* bl_tm_sem_wait.                                                         *)

(* The word has been read: is there a signal, or room for a waiter?        *)
WaitSees(t) ==
  /\ IF sem.sig = 0 /\ sem.wait = WaitMax
       THEN Return(t, "would_overflow")
       ELSE Goto(t, "wait") /\ Keep(t, sem) /\ UNCHANGED res
  /\ UNCHANGED sem

WaitLoads(t) == pc[t] = "load" /\ WaitSees(t)
WaitFails(t) == pc[t] = "wait" /\ WaitSees(t)

(* Takes a signal, or registers and goes to the futex with the new word.   *)
WaitTakes(t) ==
  /\ pc[t] = "wait" /\ sem = seen[t]
  /\ IF seen[t].sig > 0
       THEN /\ sem' = [sem EXCEPT !.sig = @ - 1]
            /\ Return(t, "ok")
       ELSE /\ sem' = [sem EXCEPT !.wait = @ + 1]
            /\ Goto(t, "futex") /\ Keep(t, sem') /\ UNCHANGED res

(* Sleeps although the word has changed.                                   *)
FutexMutant(t) ==
  /\ pc[t] = "futex"
  /\ \/ Goto(t, "asleep")
     \/ sem = seen[t] /\ t \in Timed /\ Goto(t, "expired")
  /\ UNCHANGED <<sem, seen, res>>

(* The futex: sleep if the word is the one given, refuse if it is not; the *)
(* timeout may be over already.                                            *)
Futex(t) ==
  /\ pc[t] = "futex"
  /\ \/ sem = seen[t] /\ Goto(t, "asleep")
     \/ sem = seen[t] /\ t \in Timed /\ Goto(t, "expired")
     \/ sem # seen[t] /\ Goto(t, "reread")
  /\ UNCHANGED <<sem, seen, res>>

TimesOut(t) ==
  /\ pc[t] = "asleep" /\ t \in Timed
  /\ Goto(t, "expired")
  /\ UNCHANGED <<sem, seen, res>>

(* EINTR, after which the same word is waited for again, or a wake up that *)
(* is nobody's.                                                            *)
Stirs(t) ==
  /\ pc[t] = "asleep"
  /\ \E place \in {"futex", "reread"} : Goto(t, place)
  /\ UNCHANGED <<sem, seen, res>>

(* The word was read again: take a signal, or wait for the next.           *)
AwakeSees(t) ==
  /\ Goto(t, IF sem.sig > 0 THEN "take" ELSE "futex")
  /\ Keep(t, sem)
  /\ UNCHANGED <<sem, res>>

AwakeLoads(t) == pc[t] = "reread" /\ AwakeSees(t)
AwakeFails(t) == pc[t] = "take" /\ AwakeSees(t)

(* Takes the signal and stays registered.                                  *)
AwakeTakesMutant(t) ==
  /\ pc[t] = "take" /\ sem = seen[t]
  /\ sem' = [sem EXCEPT !.sig = @ - 1]
  /\ Return(t, "ok")

AwakeTakes(t) ==
  /\ pc[t] = "take" /\ sem = seen[t]
  /\ sem' = [sig |-> sem.sig - 1, wait |-> sem.wait - 1]
  /\ Return(t, "ok")

(* A waiter that gives up takes a signal with it.                          *)
ExpireMutant(t) ==
  /\ pc[t] = "expired"
  /\ sem' = [sig |-> IF sem.sig > 0 THEN sem.sig - 1 ELSE 0,
             wait |-> sem.wait - 1]
  /\ Return(t, "timeout")

(* fetch_sub of one waiter from the whole word.                            *)
Expire(t) ==
  /\ pc[t] = "expired"
  /\ sem' = [sem EXCEPT !.wait = @ - 1]
  /\ Return(t, "timeout")

---------------------------------------------------------------------------
(* bl_tm_sem_destroy: wakes whoever sleeps, which is the user's error.  The *)
(* user does not call it while threads run inside the other calls.         *)
Destroy(o) ==
  /\ res[o] = "none"
  /\ \A t \in Threads : pc[t] \in {"idle", "asleep"}
  /\ pc'  = [t \in Threads |-> IF t \in Asleep THEN "reread" ELSE pc[t]]
  /\ res' = [res EXCEPT ![o] = IF Asleep = {} THEN "ok" ELSE "error"]
  /\ UNCHANGED <<sem, seen>>

---------------------------------------------------------------------------
Signal(t) == SignalLoads(t) \/ SignalTakes(t) \/ SignalFails(t) \/ Wake(t)
Wait(t)   == \/ WaitLoads(t) \/ WaitTakes(t) \/ WaitFails(t)
             \/ Futex(t) \/ TimesOut(t) \/ Stirs(t)
             \/ AwakeLoads(t) \/ AwakeTakes(t) \/ AwakeFails(t) \/ Expire(t)

Next ==
  \/ \E t \in Signallers \cup Waiters : Enter(t)
  \/ \E t \in Signallers : Signal(t)
  \/ \E t \in Waiters : Wait(t)
  \/ \E o \in Owners : Destroy(o)

Spec == Init /\ [][Next]_vars

(* Threads inside a call are scheduled, and a weak CAS that could succeed  *)
(* again and again does not fail for ever.  Nobody need call, time out or  *)
(* be interrupted.                                                         *)
Fairness ==
  /\ \A t \in Signallers : /\ WF_vars(SignalLoads(t) \/ SignalFails(t) \/ Wake(t))
                           /\ SF_vars(SignalTakes(t))
  /\ \A t \in Waiters :
       /\ WF_vars(WaitLoads(t) \/ WaitFails(t) \/ Futex(t) \/ AwakeLoads(t)
                    \/ AwakeFails(t) \/ Expire(t))
       /\ SF_vars(WaitTakes(t)) /\ SF_vars(AwakeTakes(t))

FairSpec == Spec /\ Fairness

---------------------------------------------------------------------------
(* Properties.                                                             *)

SignalPlaces == {"idle", "load", "signal", "wake"}
WaitPlaces   == {"idle", "load", "wait", "futex", "asleep", "reread", "take",
                 "expired"}
Results == {"none", "ok", "would_overflow", "timeout", "error"}

(* Every variable holds a value of its type.  The fields stay within their *)
(* bits although signal and wait write the word they read some steps ago   *)
(* and an expired waiter subtracts unread: no addition carries into the    *)
(* other field and no subtraction borrows from it.                         *)
TypeOK ==
  /\ sem \in Words
  /\ pc \in [Threads -> SignalPlaces \cup WaitPlaces]
  /\ \A t \in Signallers : pc[t] \in SignalPlaces
  /\ \A t \in Waiters : pc[t] \in WaitPlaces
  /\ \A o \in Owners : pc[o] = "idle"
  /\ seen \in [Threads -> Words]
  /\ res \in [Threads -> Results]

Awake      == {w \in Waiters : pc[w] \in {"futex", "reread", "take"}}
Expired    == {w \in Waiters : pc[w] = "expired"}
Registered == Asleep \cup Awake \cup Expired
Waking     == {t \in Signallers : pc[t] = "wake"}

(* The wait field counts the threads that have registered and neither      *)
(* taken a signal nor given up: a signaller that reads zero wakes nobody.  *)
WaitersCounted == sem.wait = Cardinality(Registered)

(* No wake up is lost: while somebody sleeps, every signal that can be     *)
(* taken has a waiter already up to take it, or a signaller about to wake  *)
(* one.                                                                    *)
NoLostWakeup ==
  Asleep # {} => sem.sig <= Cardinality(Awake) + Cardinality(Waking)

(* What holds of the word each thread holds.                               *)
SeenOK ==
  /\ \A t \in Signallers : pc[t] = "signal" => seen[t].sig < SigMax
  /\ \A t \in Waiters :
       /\ pc[t] = "wait" => seen[t].sig > 0 \/ seen[t].wait < WaitMax
       /\ pc[t] \in {"futex", "asleep"} => seen[t].sig = 0
       /\ pc[t] = "take" => seen[t].sig > 0
  /\ \A t \in Waiters : pc[t] = "expired" => t \in Timed

Inv == TypeOK /\ WaitersCounted /\ NoLostWakeup /\ SeenOK

(* A signal that can be taken while threads wait is taken, or they have    *)
(* all given up: nobody sleeps beside a signal for ever.                   *)
SignalTaken == sem.sig > 0 /\ Registered # {} ~> sem.sig = 0 \/ Registered = {}

---------------------------------------------------------------------------
(* The semaphore implements its promise.  A call has taken effect when its *)
(* word was written, or when it has found an answer without writing it.    *)

Answer(t) == IF pc[t] = "wake" THEN "ok" ELSE res[t]

Promise == INSTANCE CountingSem WITH
  count   <- sem.sig,
  calling <- {t \in Signallers \cup Waiters : pc[t] \notin {"idle", "wake"}},
  answer  <- [t \in Signallers \cup Waiters |-> Answer(t)]

ImplementsPromise == Promise!SemSpec
=============================================================================
