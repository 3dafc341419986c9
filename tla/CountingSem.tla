----------------------------- MODULE CountingSem -----------------------------
(***************************************************************************)
(* What bl_tm_sem promises to its users: a counting semaphore whose calls  *)
(* take effect in one step between call and return, and answer with what   *)
(* that step did.  A wait that times out leaves the count alone.           *)
(***************************************************************************)
EXTENDS Naturals, FiniteSets

CONSTANTS Signallers,  \* threads that signal
          Waiters,     \* threads that wait
          Timed,       \* the waiters that give a timeout
          SigMax,      \* the largest count
          WaitMax      \* waiters the semaphore has room for

VARIABLES count,   \* signals not taken yet
          calling, \* threads whose call has not taken effect yet
          answer   \* what each thread's last call did, "none" before it took effect

sema == <<count, calling, answer>>

SemInit ==
  /\ count = 0
  /\ calling = {}
  /\ answer = [t \in Signallers \cup Waiters |-> "none"]

Call(t) ==
  /\ t \notin calling
  /\ calling' = calling \cup {t}
  /\ answer'  = [answer EXCEPT ![t] = "none"]
  /\ UNCHANGED count

(* The call of t takes effect: the count becomes n and the answer is why.  *)
Effect(t, n, why) ==
  /\ t \in calling
  /\ calling' = calling \ {t}
  /\ count'   = n
  /\ answer'  = [answer EXCEPT ![t] = why]

Up(t)       == count < SigMax /\ Effect(t, count + 1, "ok")
Overflow(t) == count = SigMax /\ Effect(t, count, "would_overflow")
Down(t)     == count > 0 /\ Effect(t, count - 1, "ok")
TimeOut(t)  == t \in Timed /\ Effect(t, count, "timeout")
TooMany(t)  == /\ count = 0 /\ Cardinality((calling \cap Waiters) \ {t}) >= WaitMax
               /\ Effect(t, count, "would_overflow")

SemNext ==
  \/ \E t \in Signallers \cup Waiters : Call(t)
  \/ \E t \in Signallers : Up(t) \/ Overflow(t)
  \/ \E t \in Waiters : Down(t) \/ TimeOut(t) \/ TooMany(t)

SemSpec == SemInit /\ [][SemNext]_sema
=============================================================================
