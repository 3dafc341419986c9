------------------------------ MODULE TaskQueue ------------------------------
(***************************************************************************)
(* bl_taskq (src/src/bl/task_queue/task_queue.c): any thread posts         *)
(* commands to a queue and one worker runs them, asleep on a semaphore     *)
(* while there is nothing to do.  Poster and worker agree on the wake up   *)
(* through the signal kept beside the queue's producer ticket: the worker  *)
(* sets it to "waiting" before it sleeps, the post that replaces it wakes  *)
(* the worker, and bl_taskq_block sets it to "blocked" for ever.           *)
(*                                                                         *)
(* The queue and the semaphore are what MpmcB and TmSem are shown to       *)
(* implement: an operation takes effect in one step.  A command is known   *)
(* by its ticket, which is also its bl_taskq_id.                           *)
(*                                                                         *)
(* A moment is a number that does not wrap; the code has it modulo a turn  *)
(* of 2^32 time points and tells which of two is later by the sign of      *)
(* their difference (Compare).  The tasks and the deadlines that wait stay *)
(* less than half a turn apart (Comparable), so the code orders them as    *)
(* the moments are.  The time offset of the deadline list need not stay so *)
(* near.                                                                   *)
(***************************************************************************)
EXTENDS Integers, Sequences, FiniteSets, SequencesExt

CONSTANTS
  Posters,    \* threads that post
  Blockers,   \* threads that call bl_taskq_block, once
  Kinds,      \* the kinds of command they post
  Times,      \* the moments delayed tasks are posted for
  Starts,     \* the clock when the queue is made
  Timeouts,   \* the timeouts the worker gives to run_one, 0 for none
  Capacity,   \* commands the queue holds
  Delayable,  \* delayed tasks the deadline list holds
  Tmin,       \* BL_SCHED_TMIN_US: no sleep is this short
  HalfTurn,   \* 2^31: half of the time points of a bl_timept32
  MaxDelay,   \* from now to the tasks and deadlines users ask for
  MaxLate,    \* bound: what waits for a moment is served this late
  MaxStale,   \* bound: the offset of the list lags this far behind
  MaxPosts,   \* bound: commands posted
  MaxTime     \* bound: the clock stops here

ASSUME TaskQueueAssumption ==
  /\ Kinds \subseteq {"task", "delayed", "cancel"}
  /\ Times \subseteq 0..MaxTime
  /\ Timeouts \subseteq Nat
  /\ Capacity \in Nat \ {0} /\ Delayable \in Nat \ {0}
  /\ Tmin \in Nat /\ MaxPosts \in Nat /\ MaxTime \in Nat
  /\ Posters \cap Blockers = {}

(* bl_timept32_max_safe_add_sub: what bl_timept32_deadline_init_usec takes.*)
TooLong(t) == t > HalfTurn - 2

ASSUME ClockAssumption ==
  /\ Starts \subseteq 0..MaxTime
  /\ HalfTurn \in Nat /\ MaxDelay \in Nat /\ MaxLate \in Nat /\ MaxStale \in Nat
  /\ MaxDelay + MaxLate < HalfTurn
  /\ \A t \in Timeouts : t <= MaxDelay \/ TooLong(t)

VARIABLES
  log,        \* the commands by ticket; its length is the producer ticket
  signal,     \* the signal beside the producer ticket
  committed,  \* tickets whose command is written
  next,       \* the ticket after last_consumed
  sem,        \* signals of the semaphore
  delayed,    \* the deadline list
  offset,     \* its time_offset
  now,        \* the clock
  ran,        \* the errors each task's callback has been called with
  at,         \* where each poster and blocker is
  op,         \* the op each of them holds: ticket and signal
  worker      \* the worker: see Idle

shared == <<log, signal, committed, next>>
posting == <<at, op>>
vars == <<log, signal, committed, next, sem, delayed, offset, now, ran, at, op,
          worker>>

Ticket  == Len(log)
Never   == -1     \* no deadline
NoOp    == [ticket |-> 0, sig |-> "ok"]
At(k)   == log[k + 1]
Tickets == 0..(MaxPosts - 1)

(* The worker between calls.  "at" is its place, "call" the function it is *)
(* in, "slow" the slow path of run_one; "due" is the user's deadline,      *)
(* "until" the deadline it sleeps to; "heard" is the signal it last read,  *)
(* "ierr" how its last sleep ended, "err" what its last call returned.     *)
Idle == [at |-> "idle", call |-> "try", slow |-> FALSE, timeout |-> 0,
         due |-> Never, until |-> Never, heard |-> "ok", ierr |-> "ok",
         err |-> "ok"]

Init ==
  /\ log = <<>> /\ signal = "ok" /\ committed = {} /\ next = 0
  /\ sem = 0 /\ delayed = <<>> /\ now \in Starts /\ offset = now
  /\ ran = [k \in Tickets |-> <<>>]
  /\ at  = [t \in Posters \cup Blockers |-> "idle"]
  /\ op  = [t \in Posters \cup Blockers |-> NoOp]
  /\ worker = Idle

InUse == worker.at # "destroyed"

(* The tickets whose post has returned bl_ok.                              *)
accepted == committed \ {op[p].ticket : p \in {q \in Posters : at[q] = "wake"}}

---------------------------------------------------------------------------
(* Posting: bl_taskq_post, bl_taskq_post_delayed_abs and                   *)
(* bl_taskq_post_try_cancel_delayed.                                       *)

(* The commands a user can post now: a task for a moment that is not too   *)
(* far, and to cancel it with the id the post returned and that moment.    *)
Commands ==
  (IF "task" \in Kinds THEN {[kind |-> "task"]} ELSE {})
    \cup (IF "delayed" \in Kinds
            THEN {[kind |-> "delayed", time |-> t] :
                    t \in {m \in Times : m <= now + MaxDelay /\ now <= m + MaxLate}}
            ELSE {})
    \cup (IF "cancel" \in Kinds
            THEN {[kind |-> "cancel", id |-> k, time |-> At(k).time] :
                    k \in {i \in accepted : At(i).kind = "delayed"}}
            ELSE {})

(* produce_sig_fallback refuses, with bl_preconditions, which the caller   *)
(* gets as bl_locked, or bl_would_overflow; nothing changes.               *)
Refuse(p) ==
  /\ at[p] = "idle" /\ InUse
  /\ signal = "blocked" \/ Ticket - next >= Capacity
  /\ UNCHANGED vars

(* Leaves a waiting worker's signal as it is.                              *)
ReserveMutant(p) ==
  /\ at[p] = "idle" /\ InUse
  /\ signal # "blocked" /\ Ticket - next < Capacity /\ Ticket < MaxPosts
  /\ \E c \in Commands : log' = Append(log, c)
  /\ op' = [op EXCEPT ![p] = [ticket |-> Ticket, sig |-> "ok"]]
  /\ signal' = "ok"
  /\ at' = [at EXCEPT ![p] = "write"]
  /\ UNCHANGED <<committed, next, sem, delayed, offset, now, ran, worker>>

(* produce_sig_fallback takes the next ticket, and the signal it replaces. *)
Reserve(p) ==
  /\ at[p] = "idle" /\ InUse
  /\ signal # "blocked" /\ Ticket - next < Capacity /\ Ticket < MaxPosts
  /\ \E c \in Commands : log' = Append(log, c)
  /\ op' = [op EXCEPT ![p] = [ticket |-> Ticket, sig |-> signal]]
  /\ signal' = "ok"
  /\ at' = [at EXCEPT ![p] = "write"]
  /\ UNCHANGED <<committed, next, sem, delayed, offset, now, ran, worker>>

Leave(t, place) ==
  at' = [at EXCEPT ![t] = place] /\ op' = [op EXCEPT ![t] = NoOp]

Commit(p) ==
  /\ at[p] = "write"
  /\ committed' = committed \cup {op[p].ticket}
  /\ IF op[p].sig = "waiting"
       THEN at' = [at EXCEPT ![p] = "wake"] /\ UNCHANGED op
       ELSE Leave(p, "idle")
  /\ UNCHANGED <<log, signal, next, sem, delayed, offset, now, ran, worker>>

WakeWorker(p) ==
  /\ at[p] = "wake" /\ p \in Posters
  /\ sem' = sem + 1 /\ Leave(p, "idle")
  /\ UNCHANGED <<shared, delayed, offset, now, ran, worker>>

---------------------------------------------------------------------------
(* bl_taskq_block.                                                         *)

(* Reads last_consumed while the worker may write it: the value found is   *)
(* any that it has had.                                                    *)
BlockStart(b) ==
  /\ at[b] = "idle" /\ InUse
  /\ \E k \in 0..next : op' = [op EXCEPT ![b] = [ticket |-> k, sig |-> "ok"]]
  /\ at' = [at EXCEPT ![b] = "set"]
  /\ UNCHANGED <<shared, sem, delayed, offset, now, ran, worker>>

(* signal_try_set_tmatch: op is the word expected, one past last_consumed  *)
(* at first and then the word found.                                       *)
BlockSet(b) ==
  /\ at[b] = "set" /\ op[b] = [ticket |-> Ticket, sig |-> signal]
  /\ signal' = "blocked"
  /\ Leave(b, "wake")
  /\ UNCHANGED <<log, committed, next, sem, delayed, offset, now, ran, worker>>

BlockRetry(b) ==
  /\ at[b] = "set" /\ op[b] # [ticket |-> Ticket, sig |-> signal]
  /\ op' = [op EXCEPT ![b] = [ticket |-> Ticket, sig |-> signal]]
  /\ UNCHANGED <<shared, sem, delayed, offset, now, ran, at, worker>>

(* Wakes nobody: the worker is taken to be awake.                          *)
BlockWakeMutant(b) ==
  /\ at[b] = "wake" /\ b \in Blockers
  /\ Leave(b, "done")
  /\ UNCHANGED <<shared, sem, delayed, offset, now, ran, worker>>

BlockWake(b) ==
  /\ at[b] = "wake" /\ b \in Blockers
  /\ sem' = sem + 1
  /\ Leave(b, "done")
  /\ UNCHANGED <<shared, delayed, offset, now, ran, worker>>

---------------------------------------------------------------------------
(* The deadline list (bl_taskq_delayed).                                   *)

First == delayed[1]

(* bl_timept32_deadline_compare: the difference as a signed number.        *)
Compare(a, b) == ((a - b + HalfTurn) % (2 * HalfTurn)) - HalfTurn

(* Not yet at its time.                                                    *)
ExpiredByMutant(t) == Compare(First.time, t) < 0

(* Compares the time points as plain numbers.                              *)
ExpiredByPlainMutant(t) ==
  First.time % (2 * HalfTurn) <= t % (2 * HalfTurn)

(* bl_timept32_deadline_expired_explicit for the first task.               *)
ExpiredBy(t) == Compare(First.time, t) <= 0

(* bl_flat_deadlines_get_head_if_expired: the first task is looked at by   *)
(* the offset that was set last and then, if it has not expired, by the    *)
(* clock, to which the offset is set.  An empty list leaves the offset.    *)
GetHeadIfExpired(found) ==
  \/ delayed = <<>> /\ ~found /\ UNCHANGED offset
  \/ delayed # <<>> /\ ExpiredBy(offset) /\ found /\ UNCHANGED offset
  \/ /\ delayed # <<>> /\ ~ExpiredBy(offset)
     /\ offset' = now /\ (found <=> ExpiredBy(now))

(* The positions bl_flat_deadlines_try_get_and_drop compares with an id:   *)
(* those of the time given and the one after them.                         *)
Reach(time) ==
  LET same == {i \in DOMAIN delayed : delayed[i].time = time}
  IN  same \cup {i \in DOMAIN delayed : i - 1 \in same}

Found(id, time) == {i \in Reach(time) : delayed[i].id = id}

(* Before the tasks of the same time.                                      *)
InsertDelayedMutant(time, id) ==
  LET before == {i \in DOMAIN delayed : delayed[i].time < time}
  IN  InsertAt(delayed, Cardinality(before) + 1, [time |-> time, id |-> id])

(* bl_flat_deadlines_insert: after the tasks of the same time.             *)
InsertDelayed(time, id) ==
  LET before == {i \in DOMAIN delayed : delayed[i].time <= time}
  IN  InsertAt(delayed, Cardinality(before) + 1, [time |-> time, id |-> id])

Run(id, err) == ran' = [ran EXCEPT ![id] = Append(@, err)]

---------------------------------------------------------------------------
(* The worker.                                                             *)

Become(rec) == worker' = rec
Go(place)   == Become([worker EXCEPT !.at = place])
Returns(err) == Become([Idle EXCEPT !.call = worker.call, !.err = err])

StartTry ==
  /\ worker.at = "idle"
  /\ Become([Idle EXCEPT !.at = "expired", !.call = "try"])
  /\ UNCHANGED <<shared, sem, delayed, offset, now, ran, posting>>

StartRun ==
  /\ worker.at = "idle"
  /\ \E t \in Timeouts :
        /\ t > 0 => now < MaxTime
        /\ Become([Idle EXCEPT !.at = "expired", !.call = "run", !.timeout = t])
  /\ UNCHANGED <<shared, sem, delayed, offset, now, ran, posting>>

(* What follows a bl_taskq_try_run_one that did something ...              *)
Did == Returns("ok")

(* The user's deadline, which the clock here reaches.                      *)
UserDeadline ==
  IF worker.timeout = 0 THEN Never
  ELSE IF now + worker.timeout <= MaxTime THEN now + worker.timeout
  ELSE MaxTime

(* The slow path of bl_taskq_run_one begins ...                            *)
EnterSlow ==
  Become([worker EXCEPT !.at = "plan", !.slow = TRUE,
                        !.due = UserDeadline, !.until = UserDeadline])

(* ... and goes round.                                                     *)
GoRound ==
  IF worker.heard = "blocked" THEN Returns("nothing_to_do")
  ELSE IF worker.ierr = "timeout"
    THEN Become([Idle EXCEPT !.call = "run", !.err = "timeout",
                 !.timeout = worker.timeout, !.due = worker.due])
  ELSE Go("plan")

(* Takes any timeout, and its deadline as it comes.                        *)
DidNothingMutant ==
  IF worker.call = "try" THEN Returns("nothing_to_do")
  ELSE IF worker.slow THEN GoRound
  ELSE IF TooLong(worker.timeout)
    THEN Become([worker EXCEPT !.at = "plan", !.slow = TRUE,
                   !.due = now + worker.timeout, !.until = now + worker.timeout])
  ELSE EnterSlow

(* ... or found nothing to do.                                             *)
DidNothing ==
  IF worker.call = "try" THEN Returns("nothing_to_do")
  ELSE IF worker.slow THEN GoRound
  ELSE IF TooLong(worker.timeout) THEN Returns("invalid")
  ELSE EnterSlow

(* bl_taskq_try_run_one: the first delayed task, if it has expired ...     *)
RunExpired ==
  /\ worker.at = "expired" /\ GetHeadIfExpired(TRUE)
  /\ Run(First.id, "ok") /\ delayed' = Tail(delayed)
  /\ Did
  /\ UNCHANGED <<shared, sem, now, posting>>

NoneExpired ==
  /\ worker.at = "expired" /\ GetHeadIfExpired(FALSE)
  /\ Go("consume")
  /\ UNCHANGED <<shared, sem, delayed, now, ran, posting>>

(* ... or the next command.                                                *)
Consumes == next \in committed /\ next' = next + 1
             /\ UNCHANGED <<log, signal, committed>>

ConsumeTask ==
  /\ worker.at = "consume" /\ Consumes
  /\ At(next).kind = "task" /\ Run(next, "ok")
  /\ Did
  /\ UNCHANGED <<sem, delayed, offset, now, posting>>

(* Inserts into a full list.                                               *)
ConsumeDelayedMutant ==
  /\ worker.at = "consume" /\ Consumes
  /\ At(next).kind = "delayed"
  /\ delayed' = InsertDelayed(At(next).time, next)
  /\ Go("expired")
  /\ UNCHANGED <<ran, sem, offset, now, posting>>

ConsumeDelayed ==
  /\ worker.at = "consume" /\ Consumes
  /\ At(next).kind = "delayed"
  /\ \/ /\ Len(delayed) = Delayable
        /\ Run(next, "would_overflow") /\ Did /\ UNCHANGED delayed
     \/ /\ Len(delayed) < Delayable
        /\ delayed' = InsertDelayed(At(next).time, next)
        /\ Go("expired") /\ UNCHANGED ran
  /\ UNCHANGED <<sem, offset, now, posting>>

(* Runs the callback and leaves the task on the list.                      *)
ConsumeCancelMutant ==
  /\ worker.at = "consume" /\ Consumes
  /\ At(next).kind = "cancel"
  /\ LET found == Found(At(next).id, At(next).time)
     IN  \/ found # {} /\ Run(At(next).id, "cancelled") /\ Did
         \/ found = {} /\ Go("expired") /\ UNCHANGED ran
  /\ UNCHANGED <<sem, delayed, offset, now, posting>>

ConsumeCancel ==
  /\ worker.at = "consume" /\ Consumes
  /\ At(next).kind = "cancel"
  /\ LET found == Found(At(next).id, At(next).time)
     IN  \/ \E i \in found :
              /\ \A j \in found : i <= j
              /\ Run(delayed[i].id, "cancelled")
              /\ delayed' = RemoveAt(delayed, i)
              /\ Did
         \/ found = {} /\ Go("expired") /\ UNCHANGED <<ran, delayed>>
  /\ UNCHANGED <<sem, offset, now, posting>>

ConsumeNothing ==
  /\ worker.at = "consume" /\ next \notin committed
  /\ DidNothing
  /\ UNCHANGED <<shared, sem, delayed, offset, now, ran, posting>>

(* The slow path of bl_taskq_run_one: how long to sleep.                   *)
Deadline ==
  LET ends == {worker.until} \cup (IF delayed = <<>> THEN {} ELSE {First.time})
      set  == ends \ {Never}
  IN  IF set = {} THEN Never ELSE CHOOSE t \in set : \A u \in set : t <= u

Plan ==
  /\ worker.at = "plan"
  /\ LET late  == Deadline # Never /\ Deadline <= now
         short == Deadline # Never /\ Deadline - now <= Tmin
     IN  Become([worker EXCEPT
           !.until = Deadline, !.heard = "ok",
           !.ierr = IF late THEN "timeout" ELSE "ok",
           !.at = IF late \/ short THEN "expired" ELSE "announce"])
  /\ UNCHANGED <<shared, sem, delayed, offset, now, ran, posting>>

(* Compares the ticket and not the signal.                                 *)
AnnounceMutant ==
  /\ worker.at = "announce"
  /\ LET match == Ticket = next
     IN  \/ /\ match /\ signal' = "waiting"
            /\ Become([worker EXCEPT !.heard = signal, !.at = "sleep"])
         \/ /\ UNCHANGED signal
            /\ Become([worker EXCEPT !.heard = signal, !.at =
                 IF signal = "waiting" THEN "sleep" ELSE "expired"])
  /\ UNCHANGED <<log, committed, next, sem, delayed, offset, now, ran, posting>>

(* signal_try_set_tmatch with last_consumed as the word expected; a CAS    *)
(* that fails although the word is the one expected sends it round again.  *)
Announce ==
  /\ worker.at = "announce"
  /\ LET match == Ticket = next /\ signal = "ok"
     IN  \/ /\ match /\ signal' = "waiting"
            /\ Become([worker EXCEPT !.heard = signal, !.at = "sleep"])
         \/ /\ UNCHANGED signal
            /\ Become([worker EXCEPT !.heard = signal, !.at =
                 IF signal = "waiting" THEN "sleep" ELSE "expired"])
  /\ UNCHANGED <<log, committed, next, sem, delayed, offset, now, ran, posting>>

Awakes ==
  /\ worker.at = "sleep" /\ sem > 0
  /\ sem' = sem - 1
  /\ Become([worker EXCEPT !.ierr = "ok", !.at = "expired"])
  /\ UNCHANGED <<shared, delayed, offset, now, ran, posting>>

TimesOut ==
  /\ worker.at = "sleep" /\ worker.until # Never /\ worker.until <= now
  /\ Become([worker EXCEPT !.ierr = "timeout", !.at = "expired"])
  /\ UNCHANGED <<shared, sem, delayed, offset, now, ran, posting>>

(* The shutdown procedures of task_queue.h: the worker stops when run_one  *)
(* has nothing to do, or cancels what is left once it sees the flag set    *)
(* after bl_taskq_block.                                                   *)
Stop ==
  /\ worker.at = "idle" /\ worker.call = "run" /\ worker.err = "nothing_to_do"
  /\ Go("done")
  /\ UNCHANGED <<shared, sem, delayed, offset, now, ran, posting>>

SeesFlag ==
  /\ worker.at = "idle" /\ \E b \in Blockers : at[b] = "done"
  /\ Become([Idle EXCEPT !.at = "cancel"])
  /\ UNCHANGED <<shared, sem, delayed, offset, now, ran, posting>>

(* bl_taskq_try_cancel_one.                                                *)
CancelOne ==
  /\ worker.at = "cancel"
  /\ \/ /\ Consumes
        /\ IF At(next).kind = "cancel" THEN UNCHANGED ran
           ELSE Run(next, "cancelled")
        /\ UNCHANGED <<delayed, worker>>
     \/ /\ next \notin committed /\ delayed # <<>>
        /\ Run(First.id, "cancelled") /\ delayed' = Tail(delayed)
        /\ UNCHANGED <<shared, worker>>
     \/ /\ next \notin committed /\ delayed = <<>>
        /\ Go("done")
        /\ UNCHANGED <<shared, delayed, ran>>
  /\ UNCHANGED <<sem, offset, now, posting>>

(* bl_taskq_destroy, when every other call has returned.                   *)
Destroy ==
  /\ worker.at = "done"
  /\ \A t \in Posters \cup Blockers : at[t] \in {"idle", "done"}
  /\ Go("destroyed")
  /\ UNCHANGED <<shared, sem, delayed, offset, now, ran, posting>>

(* The moments that something waits for.                                   *)
Awaited ==
  {delayed[i].time : i \in DOMAIN delayed}
    \cup {At(k).time : k \in {i \in next..(Ticket - 1) : At(i).kind = "delayed"}}
    \cup (IF worker.slow THEN {worker.until} \ {Never} ELSE {})

(* The clock runs while the worker is served by its scheduler, and while   *)
(* the offset is near enough.                                              *)
Tick ==
  /\ now < MaxTime /\ now' = now + 1
  /\ now < offset + MaxStale /\ \A t \in Awaited : now < t + MaxLate
  /\ UNCHANGED <<shared, sem, delayed, offset, ran, posting, worker>>

---------------------------------------------------------------------------
TryRunOne == \/ RunExpired \/ NoneExpired \/ ConsumeTask \/ ConsumeDelayed
             \/ ConsumeCancel \/ ConsumeNothing
RunOne    == Plan \/ Announce \/ Awakes \/ TimesOut
Worker    == \/ StartTry \/ StartRun \/ TryRunOne \/ RunOne \/ Stop \/ SeesFlag
             \/ CancelOne
Post(p)   == Refuse(p) \/ Reserve(p) \/ Commit(p) \/ WakeWorker(p)
Block(b)  == BlockStart(b) \/ BlockSet(b) \/ BlockRetry(b) \/ BlockWake(b)

Next == \/ \E p \in Posters : Post(p)
        \/ \E b \in Blockers : Block(b)
        \/ Worker \/ Destroy \/ Tick

Spec == Init /\ [][Next]_vars

(* The worker keeps calling and every thread inside a call is scheduled;   *)
(* the clock runs.  Nobody need post, block or win a CAS.                  *)
Fairness ==
  /\ WF_vars(Worker) /\ WF_vars(Tick)
  /\ \A p \in Posters : WF_vars(Commit(p) \/ WakeWorker(p))
  /\ \A b \in Blockers : WF_vars(BlockWake(b))

FairSpec == Spec /\ Fairness

---------------------------------------------------------------------------
(* Properties.                                                             *)

Signals == {"ok", "waiting", "blocked"}
Errors  == {"ok", "nothing_to_do", "timeout", "invalid"}
Places  == {"idle", "expired", "consume", "plan", "announce", "sleep", "done",
            "cancel", "destroyed"}
Moments == 0..MaxTime \cup {Never}

(* Every variable holds a value of its type; commands are consumed only    *)
(* once committed.                                                         *)
TypeOK ==
  /\ \A i \in DOMAIN log :
       /\ log[i].kind \in {"task", "delayed", "cancel"}
       /\ log[i].kind # "task" => log[i].time \in Times
       /\ log[i].kind = "cancel" => log[i].id \in 0..(i - 2)
  /\ Ticket <= MaxPosts /\ next \in 0..Ticket /\ Ticket - next <= Capacity
  /\ signal \in Signals /\ sem \in Nat /\ now \in 0..MaxTime /\ offset \in 0..now
  /\ committed \subseteq 0..(Ticket - 1) /\ 0..(next - 1) \subseteq committed
  /\ delayed \in Seq([time : Times, id : Tickets]) /\ Len(delayed) <= Delayable
  /\ ran \in [Tickets -> Seq({"ok", "cancelled", "would_overflow"})]
  /\ \A p \in Posters : at[p] \in {"idle", "write", "wake"}
  /\ \A b \in Blockers : at[b] \in {"idle", "set", "wake", "done"}
  /\ \A t \in Posters \cup Blockers :
       op[t] \in [ticket : 0..MaxPosts, sig : Signals]
  /\ worker \in [at : Places, call : {"try", "run"}, slow : BOOLEAN,
                 timeout : Timeouts \cup {0}, due : Moments, until : Moments,
                 heard : Signals, ierr : {"ok", "timeout"}, err : Errors]

(* The worker never sleeps without somebody to wake it: while no signal is *)
(* left in the semaphore, either the next post or block will find that it  *)
(* waits, or one that has found it is on its way to signal.                *)
NoLostWakeup ==
  worker.at = "sleep" /\ sem = 0 =>
    \/ signal = "waiting" /\ Ticket = next
    \/ \E t \in Posters \cup Blockers : at[t] = "wake"
    \/ \E p \in Posters : at[p] = "write" /\ op[p].sig = "waiting"

Pending(i) == {j \in DOMAIN delayed : delayed[j].id = i}

(* Every task consumed from the queue gets its callback exactly once, run, *)
(* cancelled or refused, or is exactly once on the deadline list; no other *)
(* task does.  Cancels race expirations, overflows and shutdown.           *)
Conserved ==
  \A i \in Tickets :
    Len(ran[i]) + Cardinality(Pending(i)) =
      IF i < next /\ At(i).kind # "cancel" THEN 1 ELSE 0

(* Whatever the worker compares is less than half a turn apart, so that    *)
(* the sign of the difference tells which is later: the deadline of        *)
(* run_one, the sleep it plans and the order of the list rest on it.       *)
Comparable ==
  \A t, u \in Awaited \cup {now} : Compare(t, u) = t - u

(* A delayed task never runs before the moment it was posted for, although *)
(* it is told as expired by an offset set while other tasks were waiting   *)
(* and by time points that wrap.                                           *)
OnTime ==
  \A i \in Tickets :
    ran[i] = <<"ok">> /\ At(i).kind = "delayed" => At(i).time <= now

Before(a, b) == a.time < b.time \/ (a.time = b.time /\ a.id < b.id)

(* When a delayed task runs, none that was due before it, or posted before *)
(* it for the same time, is left waiting.                                  *)
DueOrder ==
  [][\A i \in Tickets :
       Pending(i) # {} /\ ran'[i] = <<"ok">> =>
         \A j \in DOMAIN delayed' :
           Before([time |-> At(i).time, id |-> i], delayed'[j])]_vars

Between == worker.at \in {"idle", "done"}

(* bl_taskq_run_one gives the answers it documents: "timeout" only to a    *)
(* caller that gave a timeout, when that has passed, although it also      *)
(* sleeps to the deadlines of the list (the assertion in run_one), and     *)
(* "nothing to do" only once the queue is blocked.                         *)
AnswersAreTrue ==
  Between /\ worker.call = "run" =>
    /\ worker.err = "timeout" => worker.timeout > 0 /\ worker.due <= now
    /\ worker.err = "nothing_to_do" => signal = "blocked"

(* Blocking is irreversible, against posts and a worker's signal that were *)
(* begun before it: nothing enters the queue afterwards.                   *)
Sealed == [][signal = "blocked" => signal' = "blocked" /\ log' = log]_vars

Stopped == worker.at \in {"done", "destroyed"}

(* A task that was accepted gets its callback unless the worker stops,     *)
(* whoever posts in between and whenever the worker falls asleep.          *)
AcceptedIsCalled ==
  \A i \in Tickets :
    i \in accepted /\ At(i).kind # "cancel" ~> ran[i] # <<>> \/ Stopped

(* Blocking ends the worker's call, however long it was to sleep.          *)
BlockEndsCall ==
  signal = "blocked" ~> worker.at \in {"idle", "cancel", "done", "destroyed"}

(* What the first shutdown procedure of task_queue.h claims: when the      *)
(* worker stops every task that was accepted has had its callback.         *)
PlannedIsCalled ==
  worker.at = "done" /\ worker.err = "nothing_to_do" =>
    \A i \in accepted : At(i).kind # "cancel" => ran[i] # <<>>
=============================================================================
