--------------------------- MODULE TaskQueueProofs ---------------------------
(***************************************************************************)
(* Proofs about TaskQueue, for any number of posters and blockers, sizes of*)
(* the queue and of the deadline list, times and bounds.                   *)
(***************************************************************************)
EXTENDS TaskQueue, Lemmas, FiniteSetTheorems

USE TaskQueueAssumption

---------------------------------------------------------------------------
(* The inductive invariant.                                                *)

Callers == Posters \cup Blockers
Op      == [ticket : 0..MaxPosts, sig : Signals]
Entry   == [time : Times, id : Tickets]
Command == [kind : {"task"}] \cup [kind : {"delayed"}, time : Times]
             \cup [kind : {"cancel"}, id : Tickets, time : Times]
Results == {"ok", "cancelled", "would_overflow"}

WorkerRec ==
  [at : Places, call : {"try", "run"}, slow : BOOLEAN,
   timeout : Timeouts \cup {0}, due : Moments, until : Moments,
   heard : Signals, ierr : {"ok", "timeout"}, err : Errors]

(* The types, in groups that steps change together, with those of whole    *)
(* functions; a ticket that a poster has to commit has been taken.         *)
LogTypes ==
  /\ log \in Seq(Command)
  /\ \A i \in DOMAIN log : log[i].kind = "cancel" => log[i].id \in 0..(i - 2)
  /\ Ticket <= MaxPosts /\ next \in 0..Ticket /\ Ticket - next <= Capacity
  /\ committed \subseteq 0..(Ticket - 1) /\ 0..(next - 1) \subseteq committed

CallerTypes ==
  /\ at \in [Callers -> {"idle", "write", "set", "wake", "done"}]
  /\ op \in [Callers -> Op]
  /\ \A p \in Posters : at[p] \in {"idle", "write", "wake"}
  /\ \A b \in Blockers : at[b] \in {"idle", "set", "wake", "done"}
  /\ \A p \in Posters : at[p] = "write" => op[p].ticket < Ticket

ListTypes ==
  /\ delayed \in Seq(Entry) /\ Len(delayed) <= Delayable
  /\ ran \in [Tickets -> Seq(Results)]

WorkerTypes ==
  /\ signal \in Signals /\ sem \in Nat /\ now \in 0..MaxTime
  /\ offset \in 0..now /\ worker \in WorkerRec

Types == LogTypes /\ CallerTypes /\ ListTypes /\ WorkerTypes

(* A worker announced as waiting has consumed every ticket taken, and the  *)
(* block that the worker heard of stays.                                   *)
SignalOK ==
  /\ signal = "waiting" => Ticket = next
  /\ worker.heard = "blocked" => signal = "blocked"

Looking == {"plan", "announce", "sleep", "expired", "consume"}

(* In the slow path of run_one the worker sleeps to the user's deadline or *)
(* to one that the list's first task does not pass; when a sleep ended in  *)
(* a time out and no task has expired, it was the user's.                  *)
SlowOK ==
  /\ worker.at \in {"plan", "announce", "sleep"} => worker.slow
  /\ ~worker.slow => worker.ierr = "ok"
  /\ worker.at = "cancel" => worker.err = "ok"
  /\ worker.slow =>
       /\ worker.at \in Looking
       /\ worker.due # Never => worker.timeout > 0
       /\ worker.until = worker.due
            \/ (delayed # <<>> /\ First.time <= worker.until)
       /\ worker.ierr = "timeout" =>
            /\ worker.until # Never /\ worker.until <= now
            /\ worker.at = "consume" => worker.until = worker.due

(* The deadline list has the delayed tasks that were consumed and have had *)
(* no callback, once each, and every other consumed task has had one.      *)
ListOK ==
  \A j \in DOMAIN delayed :
    LET i == delayed[j].id
    IN  /\ i < next /\ ran[i] = <<>>
        /\ At(i).kind = "delayed" /\ At(i).time = delayed[j].time

CalledOK ==
  \A i \in Tickets :
    /\ ran[i] # <<>> => i < next /\ At(i).kind # "cancel" /\ Len(ran[i]) = 1
    /\ i < next /\ At(i).kind # "cancel" =>
         ran[i] # <<>> \/ \E j \in DOMAIN delayed : delayed[j].id = i

(* The list is in order of time and, for the same time, of ticket.         *)
Sorted ==
  \A j, k \in DOMAIN delayed : j < k => Before(delayed[j], delayed[k])

(* What somebody waits for is near enough for the time points to tell when *)
(* it is due.                                                              *)
Near(t) == t <= now + MaxDelay /\ now <= t + MaxLate

TimesOK ==
  /\ now <= offset + MaxStale
  /\ \A t \in Awaited : Near(t)

Inv ==
  /\ Types /\ SignalOK /\ NoLostWakeup /\ SlowOK /\ AnswersAreTrue
  /\ ListOK /\ CalledOK /\ Sorted /\ TimesOK

---------------------------------------------------------------------------
(* Types.                                                                  *)

(* What a command has.                                                     *)
LEMMA CommandHas ==
  ASSUME NEW c \in Command
  PROVE  /\ c.kind \in {"task", "delayed", "cancel"}
         /\ c.kind # "task" => c.time \in Times
         /\ c.kind = "cancel" => c.id \in Tickets
BY DEF Command

LEMMA LogHas ==
  ASSUME LogTypes, NEW k \in 0..(Ticket - 1)
  PROVE  /\ k + 1 \in DOMAIN log /\ At(k) \in Command
         /\ k \in Tickets
         /\ At(k).kind \in {"task", "delayed", "cancel"}
         /\ At(k).kind # "task" => At(k).time \in Times
         /\ At(k).kind = "cancel" => At(k).id \in Tickets
<1>1. Ticket \in Nat /\ DOMAIN log = 1..Ticket
  BY LenProperties DEF LogTypes, Ticket
<1>2. k + 1 \in 1..Len(log) /\ k \in Tickets
  BY <1>1 DEF LogTypes, Ticket, Tickets
<1>3. At(k) \in Command
  BY <1>2, ElementOfSeq DEF LogTypes, At
<1> QED BY <1>1, <1>2, <1>3, CommandHas DEF Ticket

(* The types are those the model states.                                   *)
LEMMA TypesImply == Types => TypeOK
<1> SUFFICES ASSUME Types PROVE TypeOK
  OBVIOUS
<1>1. \A i \in DOMAIN log : log[i] \in Command
  BY LenProperties, ElementOfSeq DEF Types, LogTypes
<1>2. \A i \in DOMAIN log :
        /\ log[i].kind \in {"task", "delayed", "cancel"}
        /\ log[i].kind # "task" => log[i].time \in Times
  BY <1>1, CommandHas
<1>3. \A t \in Callers : op[t] \in Op
  BY DEF Types, CallerTypes
<1>4. /\ \A i \in DOMAIN log : log[i].kind = "cancel" => log[i].id \in 0..(i - 2)
      /\ Ticket <= MaxPosts /\ next \in 0..Ticket /\ Ticket - next <= Capacity
      /\ committed \subseteq 0..(Ticket - 1) /\ 0..(next - 1) \subseteq committed
  BY DEF Types, LogTypes
<1>5. /\ \A p \in Posters : at[p] \in {"idle", "write", "wake"}
      /\ \A b \in Blockers : at[b] \in {"idle", "set", "wake", "done"}
  BY DEF Types, CallerTypes
<1>6. /\ delayed \in Seq(Entry) /\ Len(delayed) <= Delayable
      /\ ran \in [Tickets -> Seq(Results)]
  BY DEF Types, ListTypes
<1>7. /\ signal \in Signals /\ sem \in Nat /\ now \in 0..MaxTime
      /\ offset \in 0..now /\ worker \in WorkerRec
  BY DEF Types, WorkerTypes
<1> QED BY <1>2, <1>3, <1>4, <1>5, <1>6, <1>7 DEF TypeOK, Callers, Op, Entry,
     Results, WorkerRec

(* The commands a user may post.                                           *)
LEMMA CommandsTyped ==
  ASSUME Types, NEW c \in Commands
  PROVE  /\ c \in Command
         /\ c.kind = "cancel" => c.id \in 0..(Ticket - 1)
<1>1. CASE c = [kind |-> "task"]
  BY <1>1 DEF Command
<1>2. CASE \E t \in Times : c = [kind |-> "delayed", time |-> t]
  BY <1>2 DEF Command
<1>3. CASE \E k \in accepted : /\ At(k).kind = "delayed"
                               /\ c = [kind |-> "cancel", id |-> k, time |-> At(k).time]
  <2>1. PICK k \in accepted :
          /\ At(k).kind = "delayed"
          /\ c = [kind |-> "cancel", id |-> k, time |-> At(k).time]
    BY <1>3
  <2>2. k \in 0..(Ticket - 1)
    BY DEF accepted, Types, LogTypes
  <2>3. At(k).time \in Times /\ k \in Tickets
    BY <2>1, <2>2, LogHas DEF Types
  <2> QED BY <2>1, <2>2, <2>3 DEF Command
<1> QED BY <1>1, <1>2, <1>3 DEF Commands

(* The queue's log grows at one end and is consumed, once committed, from  *)
(* the other.                                                              *)
LEMMA LogTypesStep ==
  ASSUME Types, [Next]_vars
  PROVE  LogTypes'
<1> USE DEF Types, LogTypes, Ticket
<1>1. Ticket \in Nat /\ DOMAIN log = 1..Ticket
  BY LenProperties
<1>2. ASSUME NEW p \in Posters, Reserve(p) PROVE LogTypes'
  <2>1. PICK c \in Commands : log' = Append(log, c)
    BY <1>2 DEF Reserve
  <2>2. c \in Command /\ (c.kind = "cancel" => c.id \in 0..(Ticket - 1))
    BY CommandsTyped
  <2>3. /\ log' \in Seq(Command) /\ Len(log') = Len(log) + 1
        /\ \A i \in 1..Len(log) : log'[i] = log[i]
        /\ log'[Len(log) + 1] = c
    BY <2>1, <2>2, AppendProperties
  <2>4. DOMAIN log' = 1..(Ticket + 1)
    BY <2>3, LenProperties
  <2>5. \A i \in DOMAIN log' : log'[i].kind = "cancel" => log'[i].id \in 0..(i - 2)
    BY <1>1, <2>2, <2>3, <2>4
  <2> QED BY <1>1, <1>2, <2>3, <2>5 DEF Reserve
<1>3. ASSUME NEW p \in Posters, Commit(p) PROVE LogTypes'
  <2>1. op[p].ticket \in 0..(Ticket - 1)
    BY <1>3 DEF Commit, CallerTypes, Op, Callers
  <2> QED BY <1>3, <2>1 DEF Commit
<1>4. ASSUME Consumes PROVE LogTypes'
  <2>1. next \in committed /\ next' = next + 1 /\ log' = log /\ committed' = committed
    BY <1>4 DEF Consumes
  <2>2. next + 1 \in 0..Ticket /\ Ticket - (next + 1) <= Capacity
    BY <1>1, <2>1
  <2>3. 0..((next + 1) - 1) \subseteq committed
    BY <1>1, <2>1
  <2> QED BY <2>1, <2>2, <2>3
<1>5. ASSUME UNCHANGED <<log, committed, next>> PROVE LogTypes'
  BY <1>5
<1>6. ASSUME NEW p \in Posters, Post(p) PROVE LogTypes'
  BY <1>2, <1>3, <1>5, <1>6 DEF Post, Refuse, WakeWorker, vars, shared
<1>7. ASSUME NEW b \in Blockers, Block(b) PROVE LogTypes'
  BY <1>5, <1>7 DEF Block, BlockStart, BlockSet, BlockRetry, BlockWake, shared
<1>8. CASE Worker
  BY <1>4, <1>5, <1>8 DEF Worker, StartTry, StartRun, TryRunOne, RunOne, Stop,
     SeesFlag, CancelOne, RunExpired, NoneExpired, ConsumeTask, ConsumeDelayed,
     ConsumeCancel, ConsumeNothing, Plan, Announce, Awakes, TimesOut, shared
<1>9. CASE Destroy \/ Tick \/ UNCHANGED vars
  BY <1>5, <1>9 DEF Destroy, Tick, vars, shared
<1> QED BY <1>6, <1>7, <1>8, <1>9 DEF Next

(* Each caller's place and op.                                             *)
LEMMA CallerTypesStep ==
  ASSUME Types, [Next]_vars, LogTypes'
  PROVE  CallerTypes'
<1> USE DEF CallerTypes
<1> DEFINE Same == UNCHANGED <<log, at, op>>
<1>0. /\ Ticket \in 0..MaxPosts /\ next \in 0..Ticket /\ Ticket' \in 0..MaxPosts
      /\ signal \in Signals
  BY LenProperties DEF Types, LogTypes, WorkerTypes, Ticket
<1>1. NoOp \in Op /\ [ticket |-> Ticket, sig |-> signal] \in Op
  BY <1>0 DEF NoOp, Op, Signals
<1>2. ASSUME Same PROVE CallerTypes'
  BY <1>2 DEF Types, Ticket
<1>3. ASSUME NEW p \in Posters, Post(p) PROVE CallerTypes'
  <2>1. CASE Refuse(p)
    BY <1>2, <2>1 DEF Refuse, vars
  <2>2. CASE Reserve(p)
    <3>1. PICK c \in Commands : log' = Append(log, c)
      BY <2>2 DEF Reserve
    <3>2. Ticket' = Ticket + 1
      <4>1. c \in Command
        BY CommandsTyped
      <4> QED BY <3>1, <4>1, AppendProperties DEF Types, LogTypes, Ticket
    <3>3. at' = [at EXCEPT ![p] = "write"] /\ p \notin Blockers
      BY <2>2 DEF Reserve
    <3>4. op' = [op EXCEPT ![p] = [ticket |-> Ticket, sig |-> signal]]
      BY <2>2 DEF Reserve
    <3>5. at' \in [Callers -> {"idle", "write", "set", "wake", "done"}]
      BY <3>3 DEF Types
    <3>6. op' \in [Callers -> Op]
      BY <1>1, <3>4 DEF Types
    <3>7. \A q \in Callers : q # p => at'[q] = at[q] /\ op'[q] = op[q]
      BY <3>3, <3>4 DEF Types
    <3>8. at'[p] = "write" /\ op'[p].ticket = Ticket
      BY <3>3, <3>4 DEF Types, Callers
    <3>9. ASSUME NEW q \in Posters, at'[q] = "write"
          PROVE  op'[q].ticket < Ticket'
      <4>1. CASE q = p
        BY <1>0, <3>2, <3>8, <4>1
      <4>2. CASE q # p
        <5>1. op[q].ticket < Ticket /\ op'[q] = op[q]
          BY <3>7, <3>9, <4>2 DEF Types, Callers
        <5>2. op[q] \in Op
          BY DEF Types, Callers
        <5> QED BY <1>0, <3>2, <5>1, <5>2 DEF Op
      <4> QED BY <4>1, <4>2
    <3> QED BY <3>3, <3>5, <3>6, <3>7, <3>8, <3>9 DEF Types, Callers
  <2>3. CASE Commit(p)
    BY <1>1, <2>3 DEF Commit, Leave, Types, Callers, Ticket
  <2>4. CASE WakeWorker(p)
    BY <1>1, <2>4 DEF WakeWorker, Leave, Types, Callers, Ticket, shared
  <2> QED BY <1>3, <2>1, <2>2, <2>3, <2>4 DEF Post
<1>4. ASSUME NEW b \in Blockers, Block(b) PROVE CallerTypes'
  <2>1. CASE BlockStart(b)
    <3>1. PICK k \in 0..next : op' = [op EXCEPT ![b] = [ticket |-> k, sig |-> "ok"]]
      BY <2>1 DEF BlockStart
    <3>2. [ticket |-> k, sig |-> "ok"] \in Op
      BY <1>0 DEF Op, Signals
    <3> QED BY <2>1, <3>1, <3>2 DEF BlockStart, Types, Callers, Ticket, shared
  <2>2. CASE BlockSet(b)
    BY <1>1, <2>2 DEF BlockSet, Leave, Types, Callers, Ticket
  <2>3. CASE BlockRetry(b)
    BY <1>1, <2>3 DEF BlockRetry, Types, Callers, Ticket, shared
  <2>4. CASE BlockWake(b)
    BY <1>1, <2>4 DEF BlockWake, Leave, Types, Callers, Ticket, shared
  <2> QED BY <1>4, <2>1, <2>2, <2>3, <2>4 DEF Block
<1>5. CASE Worker
  BY <1>2, <1>5 DEF Worker, StartTry, StartRun, TryRunOne, RunOne, Stop,
     SeesFlag, CancelOne, RunExpired, NoneExpired, ConsumeTask, ConsumeDelayed,
     ConsumeCancel, ConsumeNothing, Consumes, Plan, Announce, Awakes, TimesOut,
     shared, posting
<1>6. CASE Destroy \/ Tick \/ UNCHANGED vars
  BY <1>2, <1>6 DEF Destroy, Tick, vars, shared, posting
<1> QED BY <1>3, <1>4, <1>5, <1>6 DEF Next

---------------------------------------------------------------------------
(* What a step does to the deadline list and to the callbacks.             *)

(* Commands, once posted, stay, and time passes.                           *)
Kept ==
  /\ Ticket <= Ticket' /\ now <= now' /\ now' \in Nat
  /\ \A k \in 0..(Ticket - 1) : At(k)' = At(k)

(* Nothing is called or moved, ...                                         *)
Quiet ==
  /\ UNCHANGED <<delayed, ran>>
  /\ next' = next \/ (Consumes /\ At(next).kind = "cancel")

(* ... the command consumed is called at once, ...                         *)
Called(err) ==
  /\ Consumes /\ At(next).kind # "cancel"
  /\ At(next).kind = "delayed" => err # "ok"
  /\ Run(next, err) /\ UNCHANGED delayed

(* ... it gets its place n in the deadline list, ...                       *)
Inserted(n) ==
  /\ Consumes /\ At(next).kind = "delayed" /\ UNCHANGED ran
  /\ \A j \in DOMAIN delayed : j < n <=> delayed[j].time <= At(next).time
  /\ Len(delayed) < Delayable /\ Len(delayed') = Len(delayed) + 1
  /\ delayed' \in Seq(Entry)
  /\ \A j \in 1..(Len(delayed) + 1) :
       delayed'[j] = IF j < n THEN delayed[j]
                     ELSE IF j = n THEN [time |-> At(next).time, id |-> next]
                     ELSE delayed[j - 1]

(* ... or the task at place n of the list is called and leaves it.         *)
Dropped(n, err) ==
  /\ next' = next \/ (Consumes /\ At(next).kind = "cancel")
  /\ Run(delayed[n].id, err)
  /\ err = "ok" => n = 1 /\ (ExpiredBy(offset) \/ ExpiredBy(now))
  /\ delayed' \in Seq(Entry) /\ Len(delayed') = Len(delayed) - 1
  /\ \A j \in 1..(Len(delayed) - 1) :
       delayed'[j] = IF j < n THEN delayed[j] ELSE delayed[j + 1]

Effect ==
  \/ Quiet
  \/ \E err \in Results : Called(err)
  \/ \E n \in 1..(Len(delayed) + 1) : Inserted(n)
  \/ \E n \in 1..Len(delayed), err \in Results : Dropped(n, err)

(* What the list holds.                                                    *)
LEMMA ListHas ==
  ASSUME ListTypes
  PROVE  /\ Len(delayed) \in Nat /\ DOMAIN delayed = 1..Len(delayed)
         /\ \A j \in 1..Len(delayed) :
              /\ delayed[j] \in Entry /\ delayed[j].time \in Times
              /\ delayed[j].time \in Nat /\ delayed[j].id \in Tickets
<1>1. delayed \in Seq(Entry)
  BY DEF ListTypes
<1>2. Len(delayed) \in Nat /\ DOMAIN delayed = 1..Len(delayed)
  BY <1>1, LenProperties
<1>3. ASSUME NEW j \in 1..Len(delayed)
      PROVE  /\ delayed[j] \in Entry /\ delayed[j].time \in Times
             /\ delayed[j].id \in Tickets
  <2>1. delayed[j] \in Entry
    BY <1>1, ElementOfSeq
  <2> QED BY <2>1 DEF Entry
<1>4. Times \subseteq Nat
  OBVIOUS
<1> QED BY <1>2, <1>3, <1>4

(* The place at which a task is inserted comes after the tasks of its time *)
(* and of those before it, and before all others: the tasks up to a time   *)
(* are a prefix of a sorted list.                                          *)
LEMMA Place ==
  ASSUME ListTypes, Sorted, NEW t \in Times
  PROVE  LET n == Cardinality({i \in DOMAIN delayed : delayed[i].time <= t}) + 1
         IN  /\ n \in 1..(Len(delayed) + 1)
             /\ \A j \in DOMAIN delayed : j < n <=> delayed[j].time <= t
<1> DEFINE before == {i \in DOMAIN delayed : delayed[i].time <= t}
           T == {n \in 1..(Len(delayed) + 1) :
                   n = Len(delayed) + 1 \/ ~(delayed[n].time <= t)}
<1>1. /\ Len(delayed) \in Nat /\ DOMAIN delayed = 1..Len(delayed)
      /\ \A j \in 1..Len(delayed) : delayed[j].time \in Nat
      /\ t \in Nat
  <2>1. Times \subseteq Nat
    OBVIOUS
  <2> QED BY <2>1, ListHas
<1>2. PICK m \in T : \A n \in T : m <= n
  <2>1. Len(delayed) + 1 \in T
    BY <1>1
  <2>2. T \in SUBSET Nat
    BY <1>1
  <2> HIDE DEF T
  <2> QED BY <2>1, <2>2, Smallest
<1>3. ASSUME NEW j \in 1..Len(delayed), j < m PROVE delayed[j].time <= t
  <2>1. j \notin T
    BY <1>1, <1>2, <1>3
  <2> QED BY <1>1, <2>1
<1>4. ASSUME NEW j \in 1..Len(delayed), ~(j < m) PROVE ~(delayed[j].time <= t)
  <2>1. m \in 1..Len(delayed) /\ ~(delayed[m].time <= t)
    BY <1>1, <1>4
  <2>2. CASE j = m
    BY <2>1, <2>2
  <2>3. CASE m < j
    <3>1. Before(delayed[m], delayed[j])
      BY <1>1, <2>1, <2>3 DEF Sorted
    <3>2. delayed[m].time \in Nat /\ delayed[j].time \in Nat
      BY <1>1, <2>1
    <3> QED BY <1>1, <2>1, <3>1, <3>2 DEF Before
  <2> QED BY <1>1, <1>4, <2>1, <2>2, <2>3
<1>5. before = 1..(m - 1)
  BY <1>1, <1>3, <1>4
<1>6. Cardinality(before) = m - 1
  <2>1. m - 1 \in Nat
    BY <1>1
  <2>2. Cardinality(1..(m - 1)) = IF 1 > m - 1 THEN 0 ELSE m - 1 - 1 + 1
    BY <2>1, FS_Interval
  <2> HIDE DEF before
  <2>3. CASE 1 > m - 1
    BY <1>5, <2>1, <2>2, <2>3
  <2>4. CASE ~(1 > m - 1)
    BY <1>5, <2>1, <2>2, <2>4
  <2> QED BY <2>3, <2>4
<1> HIDE DEF before
<1>7. Cardinality(before) + 1 = m
  BY <1>1, <1>6
<1>8. \A j \in DOMAIN delayed : j < m <=> delayed[j].time <= t
  BY <1>1, <1>3, <1>4
<1> QED BY <1>1, <1>7, <1>8 DEF before

(* A callback is added to those of one task.                               *)
LEMMA RunEffect ==
  ASSUME ListTypes, NEW k \in Tickets, NEW err \in Results, Run(k, err)
  PROVE  /\ ran' \in [Tickets -> Seq(Results)]
         /\ ran'[k] = Append(ran[k], err)
         /\ \A i \in Tickets : i # k => ran'[i] = ran[i]
<1>1. ran[k] \in Seq(Results)
  BY DEF ListTypes
<1>2. Append(ran[k], err) \in Seq(Results)
  BY <1>1, AppendProperties
<1> QED BY <1>2 DEF Run, ListTypes

(* Only a post adds to the log and only the clock changes the time.        *)
LEMMA KeptStep ==
  ASSUME Types, [Next]_vars
  PROVE  Kept
<1>1. Ticket \in Nat /\ now \in 0..MaxTime
  BY LenProperties DEF Types, LogTypes, WorkerTypes, Ticket
<1>2. ASSUME UNCHANGED <<log, now>> PROVE Kept
  BY <1>1, <1>2 DEF Kept, Ticket, At
<1>3. ASSUME NEW p \in Posters, Reserve(p) PROVE Kept
  <2>1. PICK c \in Commands : log' = Append(log, c)
    BY <1>3 DEF Reserve
  <2>2. c \in Command
    BY CommandsTyped
  <2>3. Len(log') = Len(log) + 1 /\ \A i \in 1..Len(log) : log'[i] = log[i]
    BY <2>1, <2>2, AppendProperties DEF Types, LogTypes
  <2>4. \A k \in 0..(Ticket - 1) : k + 1 \in 1..Len(log)
    BY <1>1 DEF Ticket
  <2>5. \A k \in 0..(Ticket - 1) : At(k)' = At(k)
    BY <2>3, <2>4 DEF At
  <2>6. now' = now
    BY <1>3 DEF Reserve
  <2> QED BY <1>1, <2>3, <2>5, <2>6 DEF Kept, Ticket
<1>4. ASSUME NEW p \in Posters, Post(p) PROVE Kept
  BY <1>2, <1>3, <1>4 DEF Post, Refuse, Commit, WakeWorker, vars, shared
<1>5. ASSUME NEW b \in Blockers, Block(b) PROVE Kept
  BY <1>2, <1>5 DEF Block, BlockStart, BlockSet, BlockRetry, BlockWake, shared
<1>6. CASE Worker
  BY <1>2, <1>6 DEF Worker, StartTry, StartRun, TryRunOne, RunOne, Stop,
     SeesFlag, CancelOne, RunExpired, NoneExpired, ConsumeTask, ConsumeDelayed,
     ConsumeCancel, ConsumeNothing, Consumes, Plan, Announce, Awakes, TimesOut,
     shared
<1>7. CASE Destroy \/ UNCHANGED vars
  BY <1>2, <1>7 DEF Destroy, vars, shared
<1>8. CASE Tick
  BY <1>1, <1>8 DEF Tick, Kept, Ticket, At, shared
<1> QED BY <1>4, <1>5, <1>6, <1>7, <1>8 DEF Next

(* The first task is taken from the list.                                  *)
LEMMA FirstDropped ==
  ASSUME Types, delayed # <<>>, NEW err \in Results, next' = next,
         Run(First.id, err), delayed' = Tail(delayed),
         err = "ok" => ExpiredBy(offset) \/ ExpiredBy(now)
  PROVE  Effect
<1>1. Len(delayed) \in Nat /\ delayed \in Seq(Entry) /\ Len(delayed) >= 1
  BY ListHas, EmptySeq DEF Types, ListTypes
<1>2. /\ delayed' \in Seq(Entry) /\ Len(delayed') = Len(delayed) - 1
      /\ \A j \in 1..Len(delayed') : delayed'[j] = delayed[j + 1]
  BY <1>1, HeadTailProperties
<1>3. 1 \in 1..Len(delayed)
  BY <1>1
<1>4. \A j \in 1..(Len(delayed) - 1) : ~(j < 1) /\ delayed'[j] = delayed[j + 1]
  BY <1>1, <1>2
<1>5. Dropped(1, err)
  BY <1>2, <1>4 DEF Dropped, First
<1> QED BY <1>3, <1>5 DEF Effect

(* Each step is one of those above.                                        *)
LEMMA EffectStep ==
  ASSUME Types, Sorted, [Next]_vars
  PROVE  Effect
<1>1. ASSUME UNCHANGED <<delayed, ran, next>> PROVE Effect
  BY <1>1 DEF Effect, Quiet
<1>2. ASSUME Consumes PROVE next \in 0..(Ticket - 1) /\ next \in Tickets
  <2>1. Ticket \in Nat
    BY LenProperties DEF Types, LogTypes, Ticket
  <2> QED BY <1>2, <2>1 DEF Consumes, Types, LogTypes, Tickets
<1>3. ASSUME NEW err \in Results, Called(err) PROVE Effect
  BY <1>3 DEF Effect
<1>4. CASE RunExpired
  BY <1>4, FirstDropped DEF RunExpired, GetHeadIfExpired, Results, shared
<1>5. CASE ConsumeTask
  <2>1. Called("ok")
    BY <1>5 DEF ConsumeTask, Called
  <2> QED BY <1>3, <2>1 DEF Results
<1>6. CASE ConsumeDelayed
  <2>1. CASE Run(next, "would_overflow") /\ UNCHANGED delayed
    <3>1. Called("would_overflow")
      BY <1>6, <2>1 DEF ConsumeDelayed, Called
    <3> QED BY <1>3, <3>1 DEF Results
  <2>2. CASE /\ Len(delayed) < Delayable /\ UNCHANGED ran
             /\ delayed' = InsertDelayed(At(next).time, next)
    <3> DEFINE t == At(next).time
               n == Cardinality({i \in DOMAIN delayed : delayed[i].time <= t}) + 1
               e == [time |-> t, id |-> next]
    <3>1. Consumes /\ At(next).kind = "delayed"
      BY <1>6 DEF ConsumeDelayed
    <3>2. t \in Times /\ e \in Entry
      BY <1>2, <3>1, LogHas DEF Types, Entry
    <3>3. delayed' = InsertAt(delayed, n, e)
      BY <2>2 DEF InsertDelayed
    <3>4. /\ n \in 1..(Len(delayed) + 1)
          /\ \A j \in DOMAIN delayed : j < n <=> delayed[j].time <= t
      <4> HIDE DEF t
      <4> QED BY <3>2, Place DEF Types
    <3>5. delayed \in Seq(Entry)
      BY DEF Types, ListTypes
    <3> HIDE DEF n, e
    <3>6. /\ delayed' \in Seq(Entry) /\ Len(delayed') = Len(delayed) + 1
          /\ \A j \in 1..(Len(delayed) + 1) :
               delayed'[j] = IF j < n THEN delayed[j]
                             ELSE IF j = n THEN e ELSE delayed[j - 1]
      <4>1. n \in 1..(Len(delayed) + 1) /\ e \in Entry
        BY <3>2, <3>4
      <4> HIDE DEF t
      <4>2. RoomMade(Entry, delayed, n, e, InsertAt(delayed, n, e))
        BY ONLY <3>5, <4>1, Inserting
      <4>3. RoomMade(Entry, delayed, n, e, delayed')
        BY ONLY <3>3, <4>2
      <4> QED BY <4>3 DEF RoomMade
    <3>7. Inserted(n)
      BY <2>2, <3>1, <3>4, <3>6 DEF Inserted, e
    <3> QED BY <3>4, <3>7 DEF Effect
  <2> QED BY <1>6, <2>1, <2>2 DEF ConsumeDelayed
<1>7. CASE ConsumeCancel
  <2>1. Consumes /\ At(next).kind = "cancel"
    BY <1>7 DEF ConsumeCancel
  <2>2. CASE UNCHANGED <<ran, delayed>>
    BY <2>1, <2>2 DEF Effect, Quiet
  <2>3. ASSUME NEW i \in Found(At(next).id, At(next).time),
               Run(delayed[i].id, "cancelled"), delayed' = RemoveAt(delayed, i)
        PROVE  Effect
    <3>1. i \in 1..Len(delayed) /\ delayed \in Seq(Entry)
      BY ListHas DEF Found, Reach, Types, ListTypes
    <3>2. /\ delayed' \in Seq(Entry) /\ Len(delayed') = Len(delayed) - 1
          /\ \A j \in 1..(Len(delayed) - 1) :
               delayed'[j] = IF j < i THEN delayed[j] ELSE delayed[j + 1]
      BY <2>3, <3>1, Removing
    <3>3. Dropped(i, "cancelled")
      BY <2>1, <2>3, <3>2 DEF Dropped
    <3> QED BY <3>1, <3>3 DEF Effect, Results
  <2> QED BY <1>7, <2>2, <2>3 DEF ConsumeCancel
<1>8. CASE CancelOne
  <2>1. CASE Consumes /\ UNCHANGED delayed
    <3>1. CASE At(next).kind = "cancel" /\ UNCHANGED ran
      BY <2>1, <3>1 DEF Effect, Quiet
    <3>2. CASE At(next).kind # "cancel" /\ Run(next, "cancelled")
      <4>1. Called("cancelled")
        BY <2>1, <3>2 DEF Called
      <4> QED BY <1>3, <4>1 DEF Results
    <3>3. IF At(next).kind = "cancel" THEN UNCHANGED ran
          ELSE Run(next, "cancelled")
      BY <1>8, <2>1 DEF CancelOne, Consumes
    <3> QED BY <2>1, <3>1, <3>2, <3>3
  <2>2. CASE /\ delayed # <<>> /\ Run(First.id, "cancelled")
             /\ delayed' = Tail(delayed) /\ UNCHANGED shared
    BY <2>2, FirstDropped DEF Results, shared
  <2>3. CASE UNCHANGED <<shared, delayed, ran>>
    BY <1>1, <2>3 DEF shared
  <2> QED BY <1>8, <2>1, <2>2, <2>3 DEF CancelOne
<1>9. ASSUME NEW p \in Posters, Post(p) PROVE Effect
  BY <1>1, <1>9 DEF Post, Refuse, Reserve, Commit, WakeWorker, vars, shared
<1>10. ASSUME NEW b \in Blockers, Block(b) PROVE Effect
  BY <1>1, <1>10 DEF Block, BlockStart, BlockSet, BlockRetry, BlockWake, shared
<1>11. CASE StartTry \/ StartRun \/ NoneExpired \/ ConsumeNothing \/ Stop \/ SeesFlag
  BY <1>1, <1>11 DEF StartTry, StartRun, NoneExpired, ConsumeNothing, Stop,
     SeesFlag, shared
<1>12. CASE RunOne
  BY <1>1, <1>12 DEF RunOne, Plan, Announce, Awakes, TimesOut, shared
<1>13. CASE Destroy \/ Tick \/ UNCHANGED vars
  BY <1>1, <1>13 DEF Destroy, Tick, vars, shared
<1> QED BY <1>4, <1>5, <1>6, <1>7, <1>8, <1>9, <1>10, <1>11, <1>12, <1>13
     DEF Next, Worker, TryRunOne

(* A task that has had no callback is given a callback of its own.         *)
LEMMA CalledOnce ==
  ASSUME ListTypes, NEW k \in Tickets, ran[k] = <<>>, NEW err \in Results,
         Run(k, err)
  PROVE  /\ ran'[k] # <<>> /\ Len(ran'[k]) = 1 /\ ran'[k][1] = err
         /\ \A i \in Tickets : i # k => ran'[i] = ran[i]
<1>1. ran'[k] = Append(ran[k], err) /\ \A i \in Tickets : i # k => ran'[i] = ran[i]
  BY RunEffect
<1>2. Append(<<>>, err) # <<>> /\ Len(Append(<<>>, err)) = 1
      /\ Append(<<>>, err)[1] = err
  OBVIOUS
<1> QED BY <1>1, <1>2

(* The types of the list and of the callbacks.                             *)
LEMMA ListTypesStep ==
  ASSUME Types, Effect
  PROVE  ListTypes'
<1>1. Len(delayed) \in Nat /\ DOMAIN delayed = 1..Len(delayed)
      /\ \A j \in 1..Len(delayed) : delayed[j].id \in Tickets
  BY ListHas DEF Types
<1>2. CASE Quiet
  BY <1>2 DEF Quiet, Types, ListTypes
<1>3. ASSUME NEW err \in Results, Called(err) PROVE ListTypes'
  <2>1. next \in Tickets
    BY <1>3, LogHas DEF Called, Consumes, Types, LogTypes
  <2>2. ran' \in [Tickets -> Seq(Results)]
    BY <1>3, <2>1, RunEffect DEF Called, Types
  <2> QED BY <1>3, <2>2 DEF Called, Types, ListTypes
<1>4. ASSUME NEW n \in 1..(Len(delayed) + 1), Inserted(n) PROVE ListTypes'
  BY <1>1, <1>4 DEF Inserted, Types, ListTypes
<1>5. ASSUME NEW n \in 1..Len(delayed), NEW err \in Results, Dropped(n, err)
      PROVE  ListTypes'
  <2>1. ran' \in [Tickets -> Seq(Results)]
    BY <1>1, <1>5, RunEffect DEF Dropped, Types
  <2> QED BY <1>1, <1>5, <2>1 DEF Dropped, Types, ListTypes
<1> QED BY <1>2, <1>3, <1>4, <1>5 DEF Effect

(* No two places of the deadline list hold the same task.                  *)
LEMMA Distinct ==
  ASSUME Types, ListOK, Sorted,
         NEW j \in 1..Len(delayed), NEW k \in 1..Len(delayed), j # k
  PROVE  delayed[j].id # delayed[k].id
<1>1. /\ Len(delayed) \in Nat /\ DOMAIN delayed = 1..Len(delayed)
      /\ delayed[j].time \in Nat /\ delayed[k].time \in Nat
  BY ListHas DEF Types
<1>2. delayed[j].id \in Nat /\ delayed[k].id \in Nat
  BY ListHas DEF Types, Tickets
<1> SUFFICES ASSUME delayed[j].id = delayed[k].id PROVE FALSE
  OBVIOUS
<1>3. delayed[j].time = delayed[k].time
  BY <1>1 DEF ListOK
<1>4. Before(delayed[j], delayed[k]) \/ Before(delayed[k], delayed[j])
  BY <1>1 DEF Sorted
<1> QED BY <1>1, <1>2, <1>3, <1>4 DEF Before

(* The list holds tasks that wait, and keeps their order.                  *)
LEMMA ListStep ==
  ASSUME Types, ListOK, CalledOK, Sorted, Kept, Effect, LogTypes'
  PROVE  ListOK' /\ CalledOK' /\ Sorted'
<1> USE DEF At
<1>1. /\ Len(delayed) \in Nat /\ DOMAIN delayed = 1..Len(delayed)
      /\ \A j \in 1..Len(delayed) :
           /\ delayed[j].time \in Nat /\ delayed[j].id \in Tickets
           /\ delayed[j].id \in Nat
  BY ListHas DEF Types, Tickets
<1>2. /\ Ticket \in Nat /\ next \in 0..Ticket /\ now \in Nat
      /\ now <= now' /\ now' \in Nat
  BY LenProperties DEF Types, LogTypes, WorkerTypes, Ticket, Kept
<1>3. \A i \in Tickets : i < next => At(i)' = At(i)
  BY <1>2 DEF Kept, Tickets
<1>5. \A i \in Tickets : i \in Nat
  BY DEF Tickets
<1>6. ASSUME Consumes
      PROVE  /\ next \in Tickets /\ next' = next + 1 /\ log'[next + 1] = At(next)
             /\ ran[next] = <<>>
  <2>1. next \in 0..(Ticket - 1)
    BY <1>2, <1>6 DEF Consumes, Types, LogTypes
  <2>2. next \in Tickets
    BY <2>1, LogHas DEF Types
  <2>3. ~(next < next)
    BY <1>2
  <2> QED BY <1>6, <2>1, <2>2, <2>3 DEF Consumes, Kept, CalledOK
<1>7. ASSUME NEW j \in 1..Len(delayed)
      PROVE  /\ delayed[j].id < next /\ ran[delayed[j].id] = <<>>
             /\ At(delayed[j].id).kind = "delayed"
             /\ At(delayed[j].id).time = delayed[j].time
             /\ log'[delayed[j].id + 1] = At(delayed[j].id)
  BY <1>1, <1>3 DEF ListOK
<1>8. ASSUME NEW i \in Tickets, ran[i] # <<>>
      PROVE  /\ i < next /\ At(i).kind # "cancel" /\ Len(ran[i]) = 1
             /\ At(i)' = At(i)
  BY <1>3, <1>8 DEF CalledOK
<1>9. ASSUME NEW i \in Tickets, i < next, At(i).kind # "cancel"
      PROVE  ran[i] # <<>> \/ \E j \in 1..Len(delayed) : delayed[j].id = i
  BY <1>1, <1>9 DEF CalledOK
<1>10. ASSUME next' = next \/ (Consumes /\ At(next).kind = "cancel")
       PROVE  /\ next <= next' /\ next' \in Nat
              /\ \A i \in Tickets : i < next' /\ At(i)'.kind # "cancel" =>
                   i < next /\ At(i).kind # "cancel"
  BY <1>2, <1>3, <1>5, <1>6, <1>10
<1>11. CASE Quiet
  <2> USE <1>11 DEF Quiet
  <2>1. ListOK'
    <3>1. \A j \in 1..Len(delayed) : delayed[j].id < next'
      BY <1>1, <1>2, <1>7, <1>10
    <3> QED BY <1>1, <1>7, <3>1 DEF ListOK
  <2>2. CalledOK'
    <3>1. ASSUME NEW i \in Tickets, ran[i] # <<>>
          PROVE  i < next' /\ At(i)'.kind # "cancel" /\ Len(ran[i]) = 1
      <4>1. i < next /\ At(i)' = At(i) /\ At(i).kind # "cancel" /\ Len(ran[i]) = 1
        BY <1>8, <3>1
      <4>2. i < next'
        BY <1>2, <1>5, <1>10, <4>1
      <4> QED BY <4>1, <4>2
    <3>2. ASSUME NEW i \in Tickets, i < next', At(i)'.kind # "cancel"
          PROVE  ran[i] # <<>> \/ \E j \in 1..Len(delayed) : delayed[j].id = i
      BY <1>9, <1>10, <3>2
    <3> QED BY <1>1, <3>1, <3>2 DEF CalledOK
  <2>3. Sorted'
    BY DEF Sorted, Before
  <2> QED BY <2>1, <2>2, <2>3
<1>12. ASSUME NEW err \in Results, Called(err)
       PROVE  ListOK' /\ CalledOK' /\ Sorted'
  <2> USE <1>12 DEF Called
  <2>1. /\ next \in Tickets /\ next' = next + 1 /\ log'[next + 1] = At(next)
        /\ ran[next] = <<>>
    BY <1>6
  <2>2. /\ ran'[next] # <<>> /\ Len(ran'[next]) = 1 /\ ran'[next][1] = err
        /\ \A i \in Tickets : i # next => ran'[i] = ran[i]
    BY <2>1, CalledOnce DEF Types
  <2>3. ListOK'
    BY <1>1, <1>2, <1>7, <2>1, <2>2, SMTT(30) DEF ListOK
  <2>4. CalledOK'
    <3>1. ASSUME NEW i \in Tickets, i # next
          PROVE  /\ ran'[i] # <<>> =>
                      i < next' /\ At(i)'.kind # "cancel" /\ Len(ran'[i]) = 1
                 /\ i < next' /\ At(i)'.kind # "cancel" =>
                      ran'[i] # <<>> \/ \E j \in 1..Len(delayed) : delayed[j].id = i
      BY <1>2, <1>3, <1>5, <1>8, <1>9, <2>1, <2>2, <3>1
    <3>2. next < next' /\ log'[next + 1].kind # "cancel"
      BY <1>2, <2>1
    <3> QED BY <1>1, <2>2, <3>1, <3>2 DEF CalledOK
  <2>5. Sorted'
    BY DEF Sorted, Before
  <2> QED BY <2>3, <2>4, <2>5
<1>13. ASSUME NEW n \in 1..(Len(delayed) + 1), Inserted(n)
       PROVE  ListOK' /\ CalledOK' /\ Sorted'
  <2> USE <1>13 DEF Inserted
  <2>1. /\ next \in Tickets /\ next' = next + 1 /\ log'[next + 1] = At(next)
        /\ ran[next] = <<>> /\ ran' = ran
    BY <1>6
  <2>2. DOMAIN delayed' = 1..(Len(delayed) + 1) /\ Len(delayed') = Len(delayed) + 1
    BY LenProperties
  <2>3. ASSUME NEW j \in 1..(Len(delayed) + 1)
        PROVE  \/ j < n /\ j \in 1..Len(delayed) /\ delayed'[j] = delayed[j]
               \/ j = n /\ delayed'[j] = [time |-> At(next).time, id |-> next]
               \/ /\ n < j /\ j - 1 \in 1..Len(delayed)
                  /\ delayed'[j] = delayed[j - 1]
    BY <1>1
  <2>4. ListOK'
    <3>1. ASSUME NEW j \in 1..(Len(delayed) + 1)
          PROVE  \/ \E a \in 1..Len(delayed) : delayed'[j] = delayed[a]
                 \/ delayed'[j] = [time |-> At(next).time, id |-> next]
      BY <2>3
    <3>2. ASSUME NEW a \in 1..Len(delayed)
          PROVE  /\ delayed[a].id < next' /\ ran'[delayed[a].id] = <<>>
                 /\ log'[delayed[a].id + 1].kind = "delayed"
                 /\ log'[delayed[a].id + 1].time = delayed[a].time
      <4>1. delayed[a].id < next' /\ ran' = ran
        BY <1>1, <1>2, <1>7, <2>1
      <4> QED BY <1>7, <4>1
    <3>3. next < next' /\ ran'[next] = <<>> /\ log'[next + 1].kind = "delayed"
          /\ log'[next + 1].time = At(next).time
      BY <1>2, <2>1
    <3>4. ASSUME NEW j \in 1..(Len(delayed) + 1)
          PROVE  /\ delayed'[j].id < next' /\ ran'[delayed'[j].id] = <<>>
                 /\ log'[delayed'[j].id + 1].kind = "delayed"
                 /\ log'[delayed'[j].id + 1].time = delayed'[j].time
      <4>1. CASE \E a \in 1..Len(delayed) : delayed'[j] = delayed[a]
        BY <3>2, <4>1
      <4>2. CASE delayed'[j] = [time |-> At(next).time, id |-> next]
        <5>1. delayed'[j].id = next /\ delayed'[j].time = At(next).time
          BY <4>2
        <5> QED BY <3>3, <5>1
      <4> QED BY <3>1, <4>1, <4>2
    <3> QED BY <2>2, <3>4 DEF ListOK
  <2>5. CalledOK'
    <3>1. ASSUME NEW i \in Tickets, ran[i] # <<>>
          PROVE  i < next' /\ At(i)'.kind # "cancel" /\ Len(ran[i]) = 1
      <4>1. i < next /\ At(i)' = At(i) /\ At(i).kind # "cancel" /\ Len(ran[i]) = 1
        BY <1>8, <3>1
      <4>2. i < next'
        BY <1>2, <1>5, <2>1, <4>1
      <4> QED BY <4>1, <4>2
    <3>2. ASSUME NEW i \in Tickets, i < next', At(i)'.kind # "cancel"
          PROVE  ran[i] # <<>> \/ \E j \in 1..(Len(delayed) + 1) : delayed'[j].id = i
      <4>1. CASE i = next
        BY <2>3, <4>1
      <4>2. CASE i # next
        <5>1. i < next /\ At(i).kind # "cancel"
          BY <1>2, <1>3, <1>5, <2>1, <3>2, <4>2
        <5>2. ASSUME NEW j \in 1..Len(delayed)
              PROVE  \E k \in 1..(Len(delayed) + 1) : delayed'[k] = delayed[j]
          <6>1. CASE j < n
            BY <1>1, <6>1
          <6>2. CASE ~(j < n)
            <7>1. j + 1 \in 1..(Len(delayed) + 1) /\ ~(j + 1 < n) /\ j + 1 # n
                  /\ j + 1 - 1 = j
              BY <1>1, <6>2
            <7>2. delayed'[j + 1] = delayed[j + 1 - 1]
              BY <7>1
            <7> QED BY <7>1, <7>2
          <6> QED BY <6>1, <6>2
        <5> QED BY <1>9, <5>1, <5>2
      <4> QED BY <4>1, <4>2
    <3> QED BY <2>1, <2>2, <3>1, <3>2 DEF CalledOK
  <2>6. Sorted'
    <3> SUFFICES ASSUME NEW j \in 1..(Len(delayed) + 1),
                        NEW k \in 1..(Len(delayed) + 1), j < k
                 PROVE  Before(delayed'[j], delayed'[k])
      BY <2>2 DEF Sorted, Before
    <3>1. \A a, b \in 1..Len(delayed) : a < b => Before(delayed[a], delayed[b])
      BY <1>1 DEF Sorted
    <3>2. \A a \in 1..Len(delayed) : a < n <=> delayed[a].time <= At(next).time
      BY <1>1
    <3>3. At(next).time \in Nat
      <4>1. next \in 0..(Ticket - 1)
        BY <1>2 DEF Consumes, Types, LogTypes
      <4>2. Times \subseteq Nat
        OBVIOUS
      <4> QED BY <4>1, <4>2, LogHas DEF Types
    <3>4. CASE j < n /\ k < n
      BY <1>1, <2>3, <3>1, <3>4
    <3>5. CASE j < n /\ k = n
      <4>1. /\ delayed'[j] = delayed[j] /\ delayed[j].id < next
            /\ delayed[j].time <= At(next).time /\ delayed[j].time \in Nat
            /\ delayed'[k] = [time |-> At(next).time, id |-> next]
        BY <1>1, <1>7, <2>3, <3>2, <3>5
      <4> QED BY <3>3, <4>1 DEF Before
    <3>6. CASE j < n /\ n < k
      BY <1>1, <2>3, <3>1, <3>6
    <3>7. CASE j = n
      <4>1. /\ k - 1 \in 1..Len(delayed) /\ ~(k - 1 < n)
            /\ delayed'[k] = delayed[k - 1]
            /\ delayed'[j] = [time |-> At(next).time, id |-> next]
        BY <1>1, <2>3, <3>7
      <4>2. ~(delayed[k - 1].time <= At(next).time) /\ delayed[k - 1].time \in Nat
        BY <1>1, <3>2, <4>1
      <4> QED BY <3>3, <4>1, <4>2, SMTT(30) DEF Before
    <3>8. CASE n < j
      BY <1>1, <2>3, <3>1, <3>8, SMTT(30)
    <3> QED BY <1>1, <3>4, <3>5, <3>6, <3>7, <3>8
  <2> QED BY <2>4, <2>5, <2>6
<1>14. ASSUME NEW n \in 1..Len(delayed), NEW err \in Results, Dropped(n, err)
       PROVE  ListOK' /\ CalledOK' /\ Sorted'
  <2> DEFINE d == delayed[n].id
  <2> USE <1>14 DEF Dropped
  <2>1. /\ d \in Tickets /\ d < next /\ ran[d] = <<>>
        /\ At(d).kind = "delayed" /\ At(d).time = delayed[n].time
        /\ log'[d + 1] = At(d)
    BY <1>1, <1>7
  <2>2. /\ ran'[d] # <<>> /\ Len(ran'[d]) = 1 /\ ran'[d][1] = err
        /\ \A i \in Tickets : i # d => ran'[i] = ran[i]
    BY <2>1, CalledOnce DEF Types
  <2>3. \A j \in 1..Len(delayed) : j # n => delayed[j].id # d
    BY Distinct
  <2> HIDE DEF d
  <2>4. DOMAIN delayed' = 1..(Len(delayed) - 1) /\ Len(delayed') = Len(delayed) - 1
    BY LenProperties
  <2>5. ASSUME NEW j \in 1..(Len(delayed) - 1)
        PROVE  \/ j < n /\ j \in 1..Len(delayed) /\ delayed'[j] = delayed[j]
               \/ /\ n <= j /\ j + 1 \in 1..Len(delayed)
                  /\ delayed'[j] = delayed[j + 1]
    BY <1>1
  <2>6. next <= next' /\ next' \in Nat
    BY <1>2, <1>10 DEF LogTypes
  <2>7. ListOK'
    <3>1. ASSUME NEW j \in 1..(Len(delayed) - 1)
          PROVE  \E a \in 1..Len(delayed) : a # n /\ delayed'[j] = delayed[a]
      <4>1. CASE j < n /\ j \in 1..Len(delayed) /\ delayed'[j] = delayed[j]
        <5>1. j # n
          BY <4>1
        <5> QED BY ONLY <4>1, <5>1, Zenon
      <4>2. CASE /\ n <= j /\ j + 1 \in 1..Len(delayed)
                 /\ delayed'[j] = delayed[j + 1]
        <5>1. j + 1 # n
          BY <4>2
        <5> QED BY ONLY <4>2, <5>1, Zenon
      <4> QED BY <2>5, <4>1, <4>2
    <3>2. ASSUME NEW a \in 1..Len(delayed), a # n
          PROVE  /\ delayed[a].id < next' /\ ran'[delayed[a].id] = <<>>
                 /\ log'[delayed[a].id + 1].kind = "delayed"
                 /\ log'[delayed[a].id + 1].time = delayed[a].time
      <4>1. /\ delayed[a].id \in Tickets /\ delayed[a].id \in Nat
            /\ delayed[a].id # d
        BY <1>1, <2>3, <3>2
      <4>2. delayed[a].id < next'
        BY <1>2, <1>7, <2>6, <4>1
      <4> QED BY <1>7, <2>2, <4>1, <4>2
    <3> QED BY <2>4, <3>1, <3>2, SMTT(30) DEF ListOK, At
  <2>8. CalledOK'
    <3>1. ASSUME NEW i \in Tickets, ran'[i] # <<>>
          PROVE  i < next' /\ At(i)'.kind # "cancel" /\ Len(ran'[i]) = 1
      BY <1>2, <1>5, <1>8, <2>1, <2>2, <2>6, <3>1, SMTT(30)
    <3>2. ASSUME NEW i \in Tickets, i < next', At(i)'.kind # "cancel"
          PROVE  ran'[i] # <<>> \/ \E j \in 1..(Len(delayed) - 1) : delayed'[j].id = i
      <4> SUFFICES ASSUME ran'[i] = <<>> PROVE \E j \in 1..(Len(delayed) - 1) : delayed'[j].id = i
        OBVIOUS
      <4>1. i # d /\ ran[i] = <<>>
        BY <2>2
      <4>2. PICK a \in 1..Len(delayed) : delayed[a].id = i
        BY <1>9, <1>10, <3>2, <4>1
      <4>3. a # n
        BY <4>1, <4>2 DEF d
      <4>4. CASE a < n
        <5>1. a \in 1..(Len(delayed) - 1) /\ delayed'[a] = delayed[a]
          BY <1>1, <4>4
        <5> QED BY <4>2, <5>1
      <4>5. CASE n < a
        <5>1. a - 1 \in 1..(Len(delayed) - 1) /\ ~(a - 1 < n) /\ a - 1 + 1 = a
          BY <1>1, <4>5
        <5> QED BY <4>2, <5>1
      <4> QED BY <4>3, <4>4, <4>5
    <3> QED BY <2>4, <3>1, <3>2 DEF CalledOK
  <2>9. Sorted'
    <3> SUFFICES ASSUME NEW j \in 1..(Len(delayed) - 1),
                        NEW k \in 1..(Len(delayed) - 1), j < k
                 PROVE  Before(delayed'[j], delayed'[k])
      BY <2>4 DEF Sorted, Before
    <3>1. \A a, b \in 1..Len(delayed) : a < b => Before(delayed[a], delayed[b])
      BY <1>1 DEF Sorted
    <3> QED BY <1>1, <2>5, <3>1, SMTT(30)
  <2> QED BY <2>7, <2>8, <2>9
<1> QED BY <1>11, <1>12, <1>13, <1>14 DEF Effect

---------------------------------------------------------------------------
(* Time points.                                                            *)

(* Time points less than half a turn apart compare as the moments do.      *)
LEMMA CompareIs ==
  ASSUME NEW a \in Int, NEW b \in Int, a - b < HalfTurn, b - a < HalfTurn
  PROVE  Compare(a, b) = a - b
<1>1. HalfTurn \in Nat
  BY ClockAssumption
<1>2. a - b + HalfTurn \in Nat /\ a - b + HalfTurn < 2 * HalfTurn
      /\ 2 * HalfTurn \in Nat
  BY <1>1
<1>3. (a - b + HalfTurn) % (2 * HalfTurn) = a - b + HalfTurn
  BY ONLY <1>2, SmallNumber
<1> QED BY <1>1, <1>3 DEF Compare

(* So what somebody waits for is told by the clock when it is due, ...     *)
LEMMA NearCompare ==
  ASSUME NEW t \in Int, now \in Nat, Near(t)
  PROVE  Compare(t, now) = t - now
<1>1. /\ MaxDelay \in Nat /\ MaxLate \in Nat /\ HalfTurn \in Nat
      /\ MaxDelay + MaxLate < HalfTurn
  BY ClockAssumption
<1>2. t - now < HalfTurn /\ now - t < HalfTurn
  BY <1>1 DEF Near
<1> QED BY <1>2, CompareIs

(* ... the first task of the list among them.                              *)
LEMMA FirstNear ==
  ASSUME Types, TimesOK, delayed # <<>>
  PROVE  First.time \in Nat /\ Near(First.time)
<1>1. 1 \in DOMAIN delayed /\ First.time \in Nat
  BY ListHas, EmptySeq DEF Types, ListTypes, First
<1>2. First.time \in Awaited
  BY <1>1 DEF Awaited, First
<1> QED BY <1>1, <1>2 DEF TimesOK

---------------------------------------------------------------------------
(* The worker.                                                             *)

(* The deadline the worker sleeps to is the earlier of the user's and the  *)
(* list's, if there is one.                                                *)
LEMMA DeadlineIs ==
  ASSUME Types
  PROVE  /\ Deadline \in Moments
         /\ \/ Deadline = worker.until
            \/ delayed # <<>> /\ Deadline = First.time
         /\ Deadline = Never => worker.until = Never
         /\ worker.until # Never => Deadline <= worker.until
<1> DEFINE ends == {worker.until} \cup (IF delayed = <<>> THEN {} ELSE {First.time})
           set  == ends \ {Never}
<1>1. worker.until \in Moments
  BY DEF Types, WorkerTypes, WorkerRec
<1>2. delayed # <<>> => First.time \in 0..MaxTime
  <2>1. delayed # <<>> => 1 \in 1..Len(delayed)
    BY EmptySeq, ListHas DEF Types, ListTypes
  <2>2. Times \subseteq 0..MaxTime
    OBVIOUS
  <2> QED BY <2>1, <2>2, ListHas DEF Types, First
<1>3. set \subseteq 0..MaxTime
  BY <1>1, <1>2 DEF Moments
<1>4. set = {} => worker.until = Never /\ Deadline = Never
  BY DEF Deadline
<1>5. ASSUME set # {} PROVE Deadline \in set /\ \A u \in set : Deadline <= u
  <2>1. \E t \in set : \A u \in set : t <= u
    <3>1. set \in SUBSET Nat
      BY <1>3
    <3> HIDE DEF set
    <3> QED BY <1>5, <3>1, Smallest
  <2>2. Deadline = CHOOSE t \in set : \A u \in set : t <= u
    BY <1>5 DEF Deadline
  <2> HIDE DEF set
  <2> QED BY <2>1, <2>2
<1>6. Never \notin 0..MaxTime
  BY DEF Never
<1> QED BY <1>1, <1>3, <1>4, <1>5, <1>6 DEF Moments

LEMMA WorkerHas ==
  ASSUME Types
  PROVE  /\ worker.at \in Places /\ worker.call \in {"try", "run"}
         /\ worker.slow \in BOOLEAN
         /\ worker.timeout \in Nat /\ worker.timeout \in Timeouts \cup {0}
         /\ worker.due \in Moments /\ worker.until \in Moments
         /\ worker.heard \in Signals /\ worker.ierr \in {"ok", "timeout"}
         /\ worker.err \in Errors
         /\ Idle \in WorkerRec
<1>1. Timeouts \subseteq Nat
  OBVIOUS
<1>2. Idle \in WorkerRec
  BY DEF Idle, WorkerRec, Places, Moments, Never, Signals, Errors
<1>3. worker \in WorkerRec
  BY DEF Types, WorkerTypes
<1>4. /\ worker.at \in Places /\ worker.call \in {"try", "run"}
      /\ worker.slow \in BOOLEAN
  BY <1>3 DEF WorkerRec
<1>5. /\ worker.timeout \in Timeouts \cup {0}
      /\ worker.due \in Moments /\ worker.until \in Moments
  BY <1>3 DEF WorkerRec
<1>6. /\ worker.heard \in Signals /\ worker.ierr \in {"ok", "timeout"}
      /\ worker.err \in Errors
  BY <1>3 DEF WorkerRec
<1>7. worker.timeout \in Nat
  <2>1. \A t \in Timeouts \cup {0} : t \in Nat
    BY ONLY <1>1
  <2> QED BY ONLY <1>5, <2>1
<1> QED BY <1>2, <1>4, <1>5, <1>6, <1>7

(* The user's deadline is near, unless the timeout is too long.            *)
LEMMA UserDeadlineIs ==
  ASSUME Types
  PROVE  /\ UserDeadline \in Moments
         /\ UserDeadline # Never => worker.timeout > 0
         /\ UserDeadline # Never /\ ~TooLong(worker.timeout) => Near(UserDeadline)
<1>1. worker.timeout \in Nat /\ now \in 0..MaxTime /\ MaxTime \in Nat
  BY WorkerHas DEF Types, WorkerTypes
<1>2. MaxDelay \in Nat /\ MaxLate \in Nat
  BY ClockAssumption
<1>3. ~TooLong(worker.timeout) => worker.timeout <= MaxDelay
  <2>1. worker.timeout \in Timeouts \cup {0}
    BY WorkerHas
  <2>2. \A t \in Timeouts : t <= MaxDelay \/ TooLong(t)
    BY ClockAssumption
  <2> HIDE TaskQueueAssumption
  <2> QED BY <1>2, <2>1, <2>2
<1>4. UserDeadline # Never => UserDeadline \in now..MaxTime /\ UserDeadline <= now + worker.timeout
  BY <1>1 DEF UserDeadline
<1> QED BY <1>1, <1>2, <1>3, <1>4 DEF UserDeadline, Moments, Never, Near

(* The types of the signal, the semaphore, the clock and the worker.       *)
LEMMA WorkerTypesStep ==
  ASSUME Types, [Next]_vars
  PROVE  WorkerTypes'
<1> DEFINE Rest == /\ signal' \in Signals /\ sem' \in Nat
                   /\ now' \in 0..MaxTime /\ offset' \in 0..now'
<1>1. /\ signal \in Signals /\ sem \in Nat /\ now \in 0..MaxTime
      /\ offset \in 0..now /\ worker \in WorkerRec
  BY DEF Types, WorkerTypes
<1>2. \A p \in Places : [worker EXCEPT !.at = p] \in WorkerRec
  BY <1>1 DEF WorkerRec
<1>3. \A c \in {"try", "run"}, e \in Errors :
        [Idle EXCEPT !.call = c, !.err = e] \in WorkerRec
  BY WorkerHas DEF WorkerRec
<1>4. ASSUME NEW p \in Places, Go(p) PROVE worker' \in WorkerRec
  BY <1>2, <1>4 DEF Go, Become
<1>5. ASSUME NEW e \in Errors, Returns(e) PROVE worker' \in WorkerRec
  BY <1>3, <1>5, WorkerHas DEF Returns, Become
<1>6. {"ok", "nothing_to_do", "timeout", "invalid"} \subseteq Errors
      /\ {"ok", "waiting", "blocked"} \subseteq Signals
      /\ Never \in Moments
  BY DEF Errors, Signals, Moments
<1>7. {"idle", "expired", "consume", "plan", "announce", "sleep", "done",
       "cancel", "destroyed"} \subseteq Places
  BY DEF Places
<1>8. ASSUME NEW p \in Posters, Post(p) PROVE WorkerTypes'
  BY <1>1, <1>6, <1>8 DEF Post, Refuse, Reserve, Commit, WakeWorker, vars, shared,
     WorkerTypes
<1>9. ASSUME NEW b \in Blockers, Block(b) PROVE WorkerTypes'
  BY <1>1, <1>6, <1>9 DEF Block, BlockStart, BlockSet, BlockRetry, BlockWake,
     shared, WorkerTypes
<1>10. CASE Tick \/ Destroy \/ UNCHANGED vars
  BY <1>1, <1>4, <1>7, <1>10 DEF Tick, Destroy, vars, shared, WorkerTypes
<1>11. ASSUME Worker PROVE Rest
  <2>1. CASE Announce
    BY <1>1, <1>6, <2>1 DEF Announce
  <2>2. CASE Awakes
    BY <1>1, <2>2 DEF Awakes, shared
  <2>3. CASE Plan \/ TimesOut \/ StartTry \/ StartRun \/ Stop \/ SeesFlag
    BY <1>1, <2>3 DEF Plan, TimesOut, StartTry, StartRun, Stop, SeesFlag, shared
  <2>4. CASE TryRunOne
    BY <1>1, <2>4 DEF TryRunOne, RunExpired, NoneExpired, ConsumeTask,
       ConsumeDelayed, ConsumeCancel, ConsumeNothing, Consumes, shared,
       GetHeadIfExpired
  <2>5. CASE CancelOne
    BY <1>1, <2>5 DEF CancelOne, Consumes, shared
  <2> QED BY <1>11, <2>1, <2>2, <2>3, <2>4, <2>5 DEF Worker, RunOne
<1>12. ASSUME Worker PROVE worker' \in WorkerRec
  <2>1. CASE StartTry \/ SeesFlag
    BY <1>7, <2>1, WorkerHas DEF StartTry, SeesFlag, Become, WorkerRec
  <2>2. CASE StartRun
    BY <1>7, <2>2, WorkerHas DEF StartRun, Become, WorkerRec
  <2>3. CASE RunExpired \/ ConsumeTask
    BY <1>5, <1>6, <2>3 DEF RunExpired, ConsumeTask, Did
  <2>4. CASE NoneExpired \/ Stop
    BY <1>4, <1>7, <2>4 DEF NoneExpired, Stop
  <2>5. CASE ConsumeDelayed \/ ConsumeCancel
    BY <1>4, <1>5, <1>6, <1>7, <2>5 DEF ConsumeDelayed, ConsumeCancel, Did
  <2>6. CASE ConsumeNothing
    <3>1. \/ Returns("nothing_to_do") \/ Returns("invalid") \/ Go("plan")
          \/ worker' = [Idle EXCEPT !.call = "run", !.err = "timeout",
                        !.timeout = worker.timeout, !.due = worker.due]
          \/ \E d \in Moments :
               worker' = [worker EXCEPT !.at = "plan", !.slow = TRUE,
                                        !.due = d, !.until = d]
      <4>1. UserDeadline \in Moments
        BY UserDeadlineIs
      <4> QED BY <2>6, <4>1 DEF ConsumeNothing, DidNothing, GoRound, EnterSlow, Become
    <3>2. [Idle EXCEPT !.call = "run", !.err = "timeout",
           !.timeout = worker.timeout, !.due = worker.due] \in WorkerRec
      BY <1>6, WorkerHas DEF WorkerRec
    <3>3. ASSUME NEW d \in Moments
          PROVE  [worker EXCEPT !.at = "plan", !.slow = TRUE,
                                !.due = d, !.until = d] \in WorkerRec
      BY <1>1, <1>7 DEF WorkerRec
    <3> QED BY <1>4, <1>5, <1>6, <1>7, <3>1, <3>2, <3>3
  <2>7. CASE Plan
    <3>1. Deadline \in Moments
      BY DeadlineIs
    <3>2. PICK e \in {"ok", "timeout"}, p \in {"expired", "announce"} :
            worker' = [worker EXCEPT !.until = Deadline, !.heard = "ok",
                                     !.ierr = e, !.at = p]
      BY <2>7 DEF Plan, Become
    <3>3. p \in Places /\ "ok" \in Signals
      BY <1>6, <1>7
    <3> QED BY <1>1, <3>1, <3>2, <3>3 DEF WorkerRec
  <2>8. CASE Announce
    <3>1. PICK p \in {"expired", "sleep"} :
            worker' = [worker EXCEPT !.heard = signal, !.at = p]
      BY <2>8 DEF Announce, Become
    <3>2. p \in Places
      BY <1>7
    <3> QED BY <1>1, <3>1, <3>2 DEF WorkerRec
  <2>9. CASE Awakes \/ TimesOut
    BY <1>1, <1>7, <2>9, ZenonT(40) DEF Awakes, TimesOut, Become, WorkerRec
  <2>10. CASE CancelOne
    BY <1>1, <1>4, <1>7, <2>10 DEF CancelOne
  <2> QED BY <1>12, <2>1, <2>2, <2>3, <2>4, <2>5, <2>6, <2>7, <2>8, <2>9, <2>10
       DEF Worker, TryRunOne, RunOne
<1> QED BY <1>8, <1>9, <1>10, <1>11, <1>12 DEF Next, WorkerTypes

(* The worker's announcement is about the ticket it has, and a block is    *)
(* for ever.                                                               *)
LEMMA SignalStep ==
  ASSUME Types, SignalOK, [Next]_vars
  PROVE  SignalOK'
<1> USE DEF SignalOK, Ticket
<1>1. Ticket \in Nat /\ next \in 0..Ticket
  BY LenProperties DEF Types, LogTypes
<1>2. ASSUME UNCHANGED <<log, signal, next, worker>> PROVE SignalOK'
  BY <1>2
<1>3. Idle.heard = "ok" /\ worker \in WorkerRec
  BY DEF Idle, Types, WorkerTypes
<1>4. ASSUME NEW p \in Posters, Post(p) PROVE SignalOK'
  <2>1. CASE Reserve(p)
    BY <1>1, <2>1 DEF Reserve
  <2>2. CASE Refuse(p) \/ Commit(p) \/ WakeWorker(p)
    BY <1>2, <2>2 DEF Refuse, Commit, WakeWorker, vars, shared
  <2> QED BY <1>4, <2>1, <2>2 DEF Post
<1>5. ASSUME NEW b \in Blockers, Block(b) PROVE SignalOK'
  <2>1. CASE BlockSet(b)
    BY <2>1 DEF BlockSet
  <2>2. CASE BlockStart(b) \/ BlockRetry(b) \/ BlockWake(b)
    BY <1>2, <2>2 DEF BlockStart, BlockRetry, BlockWake, shared
  <2> QED BY <1>5, <2>1, <2>2 DEF Block
<1>6. ASSUME Consumes PROVE signal' = signal /\ signal # "waiting"
  BY <1>1, <1>6 DEF Consumes, Types, LogTypes
<1>7. ASSUME worker'.heard \in {worker.heard, "ok"},
             Consumes \/ UNCHANGED <<log, signal, next>>
      PROVE  SignalOK'
  BY <1>6, <1>7
<1>8. ASSUME NEW e \in Errors, Returns(e) PROVE worker'.heard = "ok"
  BY <1>8 DEF Returns, Become, Idle
<1>9. ASSUME NEW q \in Places, Go(q) PROVE worker'.heard = worker.heard
  BY <1>3, <1>9 DEF Go, Become, WorkerRec
<1>10. /\ {"ok", "nothing_to_do", "invalid"} \subseteq Errors
       /\ {"plan", "expired", "consume", "done", "destroyed"} \subseteq Places
  BY DEF Errors, Places
<1>11. CASE Worker
  <2>1. CASE StartTry \/ StartRun \/ SeesFlag
    BY <1>7, <2>1 DEF StartTry, StartRun, SeesFlag, Become, Idle, shared
  <2>2. CASE RunExpired \/ NoneExpired \/ Stop
    BY <1>7, <1>8, <1>9, <1>10, <2>2 DEF RunExpired, NoneExpired, Stop, Did, shared
  <2>3. CASE ConsumeTask \/ ConsumeDelayed \/ ConsumeCancel
    BY <1>7, <1>8, <1>9, <1>10, <2>3 DEF ConsumeTask, ConsumeDelayed,
       ConsumeCancel, Did
  <2>4. CASE ConsumeNothing
    <3>1. \/ Returns("nothing_to_do") \/ Returns("invalid") \/ Go("plan")
          \/ worker'.heard \in {worker.heard, "ok"}
      BY <1>3, <2>4, ZenonT(40) DEF ConsumeNothing, DidNothing, EnterSlow,
         GoRound, Become, Idle, WorkerRec
    <3> QED BY <1>7, <1>8, <1>9, <1>10, <2>4, <3>1 DEF ConsumeNothing, shared
  <2>5. CASE Plan \/ Awakes \/ TimesOut
    BY <1>3, <1>7, <2>5 DEF Plan, Awakes, TimesOut, Become, WorkerRec, shared
  <2>6. CASE Announce
    BY <1>3, <2>6 DEF Announce, Become, WorkerRec
  <2>7. CASE CancelOne
    BY <1>7, <1>9, <1>10, <2>7 DEF CancelOne, shared
  <2> QED BY <1>11, <2>1, <2>2, <2>3, <2>4, <2>5, <2>6, <2>7 DEF Worker,
       TryRunOne, RunOne
<1>12. CASE Destroy
  BY <1>7, <1>9, <1>10, <1>12 DEF Destroy, shared
<1>13. CASE Tick \/ UNCHANGED vars
  BY <1>2, <1>13 DEF Tick, vars, shared
<1> QED BY <1>4, <1>5, <1>11, <1>12, <1>13 DEF Next

(* A step that puts or leaves the worker asleep leaves somebody to wake it.*)
LEMMA WakeStep ==
  ASSUME Types, SignalOK, NoLostWakeup, [Next]_vars
  PROVE  NoLostWakeup'
<1> DEFINE Waking == \E t \in Posters \cup Blockers : at[t] = "wake"
           Writing == \E p \in Posters : at[p] = "write" /\ op[p].sig = "waiting"
<1>1. /\ at \in [Callers -> {"idle", "write", "set", "wake", "done"}]
      /\ op \in [Callers -> Op] /\ worker \in WorkerRec /\ sem \in Nat
      /\ signal = "waiting" => Ticket = next
  BY DEF Types, CallerTypes, WorkerTypes, SignalOK
<1>2. ASSUME worker'.at # "sleep" PROVE NoLostWakeup'
  BY <1>2 DEF NoLostWakeup
<1>3. ASSUME sem' # 0 PROVE NoLostWakeup'
  BY <1>3 DEF NoLostWakeup
<1>4. ASSUME UNCHANGED <<log, signal, next, sem, at, op, worker>>
      PROVE  NoLostWakeup'
  BY <1>4 DEF NoLostWakeup, Ticket
<1>5. ASSUME NEW p \in Posters, Post(p) PROVE NoLostWakeup'
  <2>1. CASE Refuse(p)
    BY <1>4, <2>1 DEF Refuse, vars
  <2>2. CASE Reserve(p)
    <3>1. /\ at[p] = "idle" /\ at' = [at EXCEPT ![p] = "write"]
          /\ op' = [op EXCEPT ![p] = [ticket |-> Ticket, sig |-> signal]]
          /\ sem' = sem /\ worker' = worker
      BY <2>2 DEF Reserve
    <3>2. at'[p] = "write" /\ op'[p].sig = signal
      BY <1>1, <3>1 DEF Callers
    <3>3. \A q \in Callers : q # p => at'[q] = at[q] /\ op'[q] = op[q]
      BY <1>1, <3>1
    <3>4. Waking => Waking'
      BY <3>1, <3>3 DEF Callers
    <3>5. Writing => Writing'
      BY <3>1, <3>3 DEF Callers
    <3> QED BY <3>1, <3>2, <3>4, <3>5 DEF NoLostWakeup
  <2>3. CASE Commit(p)
    <3>1. \A q \in Callers : q # p => at'[q] = at[q] /\ op'[q] = op[q]
      BY <1>1, <2>3 DEF Commit, Leave
    <3>2. op[p].sig = "waiting" => at'[p] = "wake"
      BY <1>1, <2>3 DEF Commit, Callers
    <3>3. Waking => Waking'
      BY <2>3, <3>1 DEF Commit, Callers
    <3>4. Writing => Waking' \/ Writing'
      BY <3>1, <3>2 DEF Callers
    <3>5. UNCHANGED <<log, signal, next, sem, worker>>
      BY <2>3 DEF Commit
    <3> QED BY <3>3, <3>4, <3>5 DEF NoLostWakeup, Ticket
  <2>4. CASE WakeWorker(p)
    BY <1>1, <1>3, <2>4 DEF WakeWorker
  <2> QED BY <1>5, <2>1, <2>2, <2>3, <2>4 DEF Post
<1>6. ASSUME NEW b \in Blockers, Block(b) PROVE NoLostWakeup'
  <2>1. CASE BlockStart(b) \/ BlockRetry(b)
    <3>1. \A q \in Callers : q # b => at'[q] = at[q] /\ op'[q] = op[q]
      BY <1>1, <2>1 DEF BlockStart, BlockRetry
    <3>2. at[b] # "wake" /\ b \notin Posters
      BY <2>1 DEF BlockStart, BlockRetry
    <3>3. (Waking => Waking') /\ (Writing => Writing')
      BY <3>1, <3>2 DEF Callers
    <3>4. UNCHANGED <<log, signal, next, sem, worker>>
      BY <2>1 DEF BlockStart, BlockRetry, shared
    <3> QED BY <3>3, <3>4 DEF NoLostWakeup, Ticket
  <2>2. CASE BlockSet(b)
    <3>1. at'[b] = "wake"
      BY <1>1, <2>2 DEF BlockSet, Leave, Callers
    <3> QED BY <3>1 DEF NoLostWakeup
  <2>3. CASE BlockWake(b)
    BY <1>1, <1>3, <2>3 DEF BlockWake
  <2> QED BY <1>6, <2>1, <2>2, <2>3 DEF Block
<1>7. ASSUME NEW e \in Errors, Returns(e) PROVE worker'.at # "sleep"
  BY <1>7 DEF Returns, Become, Idle
<1>8. ASSUME NEW q \in Places \ {"sleep"}, Go(q) PROVE worker'.at # "sleep"
  BY <1>1, <1>8 DEF Go, Become, WorkerRec
<1>9. /\ {"ok", "nothing_to_do", "invalid"} \subseteq Errors
      /\ {"plan", "expired", "consume", "done", "destroyed"} \subseteq Places \ {"sleep"}
  BY DEF Errors, Places
<1>10. CASE Worker
  <2>1. CASE StartTry \/ StartRun \/ SeesFlag
    BY <1>2, <2>1 DEF StartTry, StartRun, SeesFlag, Become, Idle
  <2>2. CASE RunExpired \/ NoneExpired \/ Stop
    BY <1>2, <1>7, <1>8, <1>9, <2>2 DEF RunExpired, NoneExpired, Stop, Did
  <2>3. CASE ConsumeTask \/ ConsumeDelayed \/ ConsumeCancel
    BY <1>2, <1>7, <1>8, <1>9, <2>3 DEF ConsumeTask, ConsumeDelayed,
       ConsumeCancel, Did
  <2>4. CASE ConsumeNothing
    <3>1. \/ Returns("nothing_to_do") \/ Returns("invalid") \/ Go("plan")
          \/ worker'.at # "sleep"
      BY <1>1, <2>4, ZenonT(40) DEF ConsumeNothing, DidNothing, EnterSlow,
         GoRound, Become, Idle, WorkerRec
    <3> QED BY <1>2, <1>7, <1>8, <1>9, <3>1
  <2>5. CASE Plan \/ Awakes \/ TimesOut
    BY <1>1, <1>2, <2>5 DEF Plan, Awakes, TimesOut, Become, WorkerRec
  <2>6. CASE Announce
    <3>1. worker'.at = "sleep" => signal' = "waiting" /\ Ticket = next
      BY <1>1, <2>6 DEF Announce, Become, WorkerRec
    <3> QED BY <2>6, <3>1 DEF Announce, NoLostWakeup, Ticket
  <2>7. CASE CancelOne
    BY <1>2, <1>8, <1>9, <2>7 DEF CancelOne
  <2> QED BY <1>10, <2>1, <2>2, <2>3, <2>4, <2>5, <2>6, <2>7 DEF Worker,
       TryRunOne, RunOne
<1>11. CASE Destroy
  BY <1>2, <1>8, <1>9, <1>11 DEF Destroy
<1>12. CASE Tick \/ UNCHANGED vars
  BY <1>4, <1>12 DEF Tick, vars, shared, posting
<1> QED BY <1>5, <1>6, <1>10, <1>11, <1>12 DEF Next

(* What a task inserted in the list makes first is no later than what was. *)
LEMMA FirstStays ==
  ASSUME Types, NEW n \in 1..(Len(delayed) + 1), Inserted(n), delayed # <<>>
  PROVE  /\ delayed' # <<>> /\ First.time \in Nat
         /\ First'.time \in Nat /\ First'.time <= First.time
<1>1. /\ Len(delayed) \in Nat /\ DOMAIN delayed = 1..Len(delayed)
      /\ delayed' \in Seq(Entry) /\ Len(delayed') = Len(delayed) + 1
      /\ delayed \in Seq(Entry) /\ Len(delayed) # 0
  BY ListHas, EmptySeq DEF Types, ListTypes, Inserted
<1>2. 1 \in 1..Len(delayed) /\ delayed[1].time \in Nat
  BY <1>1, ListHas DEF Types
<1>3. delayed'[1] = IF 1 < n THEN delayed[1]
                    ELSE [time |-> At(next).time, id |-> next]
  BY <1>1, <1>2 DEF Inserted
<1>4. At(next).time \in Nat
  <2>1. next \in 0..(Ticket - 1) /\ At(next).kind = "delayed"
    BY DEF Inserted, Consumes, Types, LogTypes
  <2>2. Times \subseteq Nat
    OBVIOUS
  <2> QED BY <2>1, <2>2, LogHas DEF Types
<1>5. CASE 1 < n
  BY <1>1, <1>2, <1>3, <1>5, EmptySeq DEF First
<1>6. CASE ~(1 < n)
  <2>1. ~(delayed[1].time <= At(next).time)
    BY <1>1, <1>2, <1>6 DEF Inserted
  <2>2. delayed'[1].time = At(next).time
    BY <1>3, <1>6
  <2> QED BY <1>1, <1>2, <1>4, <2>1, <2>2, EmptySeq DEF First
<1> QED BY <1>5, <1>6

(* The answers of run_one, along the turns of its slow path.               *)
LEMMA SlowStep ==
  ASSUME Types, SignalOK, SlowOK, AnswersAreTrue, TimesOK, Effect, [Next]_vars,
         SignalOK', WorkerTypes'
  PROVE  SlowOK' /\ AnswersAreTrue'
<1>1. /\ worker \in WorkerRec /\ worker' \in WorkerRec /\ now \in Nat
      /\ worker.until \in Moments /\ worker.due \in Moments
      /\ worker.timeout \in Nat /\ worker.slow \in BOOLEAN
  BY WorkerHas DEF Types, WorkerTypes
<1>2. ASSUME worker'.slow = FALSE, worker'.ierr = "ok",
             worker'.at \in {"idle", "expired", "cancel"},
             worker'.at = "cancel" => worker'.err = "ok"
      PROVE  SlowOK'
  BY <1>2 DEF SlowOK
<1>3. ASSUME worker'.at = "idle" => worker'.err = "ok", worker'.at # "done"
      PROVE  AnswersAreTrue'
  BY <1>3 DEF AnswersAreTrue, Between
<1>4. ASSUME NEW e \in Errors, Returns(e)
      PROVE  /\ SlowOK' /\ worker'.at = "idle" /\ worker'.err = e
             /\ worker'.call = worker.call /\ worker'.heard = "ok"
  <2>1. /\ worker'.at = "idle" /\ worker'.err = e /\ worker'.heard = "ok"
        /\ worker'.call = worker.call /\ worker'.slow = FALSE /\ worker'.ierr = "ok"
    BY <1>4 DEF Returns, Become, Idle
  <2> QED BY <1>2, <2>1
<1>5. ASSUME Did PROVE SlowOK' /\ AnswersAreTrue'
  BY <1>3, <1>4, <1>5 DEF Did, Errors
<1>6. ASSUME NEW q \in Places, Go(q)
      PROVE  /\ worker'.at = q /\ worker'.slow = worker.slow
             /\ worker'.ierr = worker.ierr /\ worker'.err = worker.err
             /\ worker'.timeout = worker.timeout /\ worker'.due = worker.due
             /\ worker'.until = worker.until /\ worker'.call = worker.call
  BY <1>1, <1>6 DEF Go, Become, WorkerRec
<1>7. ASSUME UNCHANGED <<signal, worker>>, worker.slow => UNCHANGED delayed,
             now <= now'
      PROVE  SlowOK' /\ AnswersAreTrue'
  <2>1. now' \in Nat /\ worker.until \in Moments
    <3>1. now' \in 0..MaxTime
      BY DEF WorkerTypes
    <3> QED BY <1>1, <3>1
  <2>2. AnswersAreTrue'
    <3>1. worker.due <= now => worker.due <= now'
      BY <1>1, <1>7, <2>1 DEF Moments, Never
    <3> QED BY <1>7, <3>1 DEF AnswersAreTrue, Between
  <2>3. SlowOK'
    <3>1. worker.until <= now => worker.until <= now'
      BY <1>1, <1>7, <2>1 DEF Moments, Never
    <3> QED BY <1>1, <1>7, <3>1 DEF SlowOK, First
  <2> QED BY <2>2, <2>3
<1>8. /\ {"ok", "nothing_to_do", "invalid"} \subseteq Errors
      /\ {"plan", "expired", "consume", "done", "destroyed"} \subseteq Places
  BY DEF Errors, Places
<1>9. CASE StartTry \/ StartRun \/ SeesFlag
  BY <1>2, <1>3, <1>9 DEF StartTry, StartRun, SeesFlag, Become, Idle
<1>10. CASE RunExpired \/ ConsumeTask
  BY <1>5, <1>10 DEF RunExpired, ConsumeTask
<1>11. CASE NoneExpired
  <2>1. /\ worker.at = "expired" /\ UNCHANGED <<delayed, now>>
        /\ delayed # <<>> => ~ExpiredBy(now)
        /\ worker'.at = "consume" /\ Go("consume")
    BY <1>6, <1>8, <1>11 DEF NoneExpired, GetHeadIfExpired
  <2>2. AnswersAreTrue'
    BY <1>3, <2>1
  <2>3. ASSUME worker.slow, worker.ierr = "timeout"
        PROVE  worker.until = worker.due
    <3>1. worker.until \in Nat /\ worker.until <= now
      BY <1>1, <2>3 DEF SlowOK, Moments, Never
    <3>2. ASSUME delayed # <<>>, First.time <= worker.until PROVE FALSE
      <4>1. First.time \in Nat /\ Near(First.time)
        BY <3>2, FirstNear
      <4>2. ExpiredBy(now) <=> First.time <= now
        BY <1>1, <4>1, NearCompare DEF ExpiredBy
      <4> QED BY <1>1, <2>1, <3>1, <3>2, <4>1, <4>2
    <3> QED BY <2>3, <3>2 DEF SlowOK
  <2>4. SlowOK'
    BY <1>1, <1>6, <1>8, <2>1, <2>3 DEF SlowOK, Looking, First
  <2> QED BY <2>2, <2>4
<1>12. ASSUME Go("expired"), worker.at \in Looking, UNCHANGED now,
              UNCHANGED delayed \/ \E n \in 1..(Len(delayed) + 1) : Inserted(n)
       PROVE  SlowOK' /\ AnswersAreTrue'
  <2>1. /\ worker'.at = "expired" /\ worker'.slow = worker.slow
        /\ worker'.ierr = worker.ierr /\ worker'.timeout = worker.timeout
        /\ worker'.due = worker.due /\ worker'.until = worker.until
    BY <1>6, <1>8, <1>12
  <2>2. AnswersAreTrue'
    BY <1>3, <2>1
  <2>3. ASSUME delayed # <<>>, First.time <= worker.until
        PROVE  delayed' # <<>> /\ First'.time <= worker.until
    <3>1. CASE UNCHANGED delayed
      BY <2>3, <3>1 DEF First
    <3>2. CASE \E n \in 1..(Len(delayed) + 1) : Inserted(n)
      <4>1. /\ delayed' # <<>> /\ First.time \in Nat
            /\ First'.time \in Nat /\ First'.time <= First.time
        BY <2>3, <3>2, FirstStays
      <4>2. worker.until \in Int
        BY <1>1 DEF Moments, Never
      <4> QED BY <2>3, <4>1, <4>2
    <3> QED BY <1>12, <3>1, <3>2
  <2>4. SlowOK'
    BY <1>1, <1>12, <2>1, <2>3 DEF SlowOK, Looking
  <2> QED BY <2>2, <2>4
<1>13. CASE ConsumeDelayed
  <2>1. CASE Did
    BY <1>5, <2>1
  <2>2. CASE Go("expired")
    <3>1. Consumes /\ At(next).kind = "delayed" /\ worker.at = "consume" /\ now' = now
      BY <1>13 DEF ConsumeDelayed
    <3>2. next' # next
      BY <3>1 DEF Consumes, Types, LogTypes
    <3>3. UNCHANGED delayed \/ \E n \in 1..(Len(delayed) + 1) : Inserted(n)
      BY <3>1, <3>2 DEF Effect, Quiet, Called, Dropped
    <3> QED BY <1>12, <2>2, <3>1, <3>3 DEF Looking
  <2> QED BY <1>13, <2>1, <2>2 DEF ConsumeDelayed
<1>14. CASE ConsumeCancel
  BY <1>5, <1>12, <1>14 DEF ConsumeCancel, Looking
<1>15. CASE ConsumeNothing
  <2>1. worker.at = "consume" /\ UNCHANGED <<delayed, now, signal>>
    BY <1>15 DEF ConsumeNothing, shared
  <2>2. CASE worker.call = "try"
    <3>1. Returns("nothing_to_do")
      BY <1>15, <2>2 DEF ConsumeNothing, DidNothing
    <3> QED BY <1>4, <1>8, <2>2, <3>1 DEF AnswersAreTrue
  <2>3. CASE worker.call # "try" /\ ~worker.slow /\ ~TooLong(worker.timeout)
    <3>1. worker' = [worker EXCEPT !.at = "plan", !.slow = TRUE,
                                   !.due = UserDeadline, !.until = UserDeadline]
      BY <1>15, <2>3 DEF ConsumeNothing, DidNothing, EnterSlow, Become
    <3>2. UserDeadline # Never => worker.timeout > 0
      BY UserDeadlineIs
    <3>3. /\ worker'.at = "plan" /\ worker'.slow = TRUE /\ worker'.due = UserDeadline
          /\ worker'.until = UserDeadline /\ worker'.ierr = worker.ierr
          /\ worker'.timeout = worker.timeout
      BY <1>1, <3>1 DEF WorkerRec
    <3>4. AnswersAreTrue'
      BY <1>3, <3>3
    <3>5. SlowOK'
      BY <2>3, <3>2, <3>3 DEF SlowOK, Looking
    <3> QED BY <3>4, <3>5
  <2>7. CASE worker.call # "try" /\ ~worker.slow /\ TooLong(worker.timeout)
    <3>1. Returns("invalid")
      BY <1>15, <2>7 DEF ConsumeNothing, DidNothing
    <3> QED BY <1>4, <1>8, <3>1 DEF AnswersAreTrue
  <2>4. CASE worker.call # "try" /\ worker.slow /\ worker.heard = "blocked"
    <3>1. Returns("nothing_to_do")
      BY <1>15, <2>4 DEF ConsumeNothing, DidNothing, GoRound
    <3>2. signal' = "blocked"
      BY <2>1, <2>4 DEF SignalOK
    <3> QED BY <1>4, <1>8, <3>1, <3>2 DEF AnswersAreTrue
  <2>5. CASE /\ worker.call # "try" /\ worker.slow /\ worker.heard # "blocked"
             /\ worker.ierr = "timeout"
    <3>1. worker' = [Idle EXCEPT !.call = "run", !.err = "timeout",
                     !.timeout = worker.timeout, !.due = worker.due]
      BY <1>15, <2>5 DEF ConsumeNothing, DidNothing, GoRound, Become
    <3>2. /\ worker'.at = "idle" /\ worker'.slow = FALSE /\ worker'.ierr = "ok"
          /\ worker'.err = "timeout" /\ worker'.timeout = worker.timeout
          /\ worker'.due = worker.due
      BY <3>1 DEF Idle
    <3>3. worker.timeout > 0 /\ worker.due <= now
      BY <2>1, <2>5 DEF SlowOK
    <3> QED BY <1>2, <2>1, <3>2, <3>3 DEF AnswersAreTrue
  <2>6. CASE /\ worker.call # "try" /\ worker.slow /\ worker.heard # "blocked"
             /\ worker.ierr # "timeout"
    <3>1. Go("plan")
      BY <1>15, <2>6 DEF ConsumeNothing, DidNothing, GoRound
    <3>2. AnswersAreTrue'
      BY <1>3, <1>6, <1>8, <3>1
    <3>3. SlowOK'
      BY <1>6, <1>8, <2>1, <2>6, <3>1 DEF SlowOK, Looking, First
    <3> QED BY <3>2, <3>3
  <2> QED BY <1>1, <2>2, <2>3, <2>4, <2>5, <2>6, <2>7
<1>16. CASE Plan
  <2>1. PICK e \in {"ok", "timeout"}, q \in {"expired", "announce"} :
          /\ worker' = [worker EXCEPT !.until = Deadline, !.heard = "ok",
                                      !.ierr = e, !.at = q]
          /\ e = "timeout" => Deadline # Never /\ Deadline <= now
    BY <1>16 DEF Plan, Become
  <2>2. /\ worker'.at = q /\ worker'.until = Deadline /\ worker'.ierr = e
        /\ worker'.slow = worker.slow /\ worker'.due = worker.due
        /\ worker'.timeout = worker.timeout
    BY <1>1, <2>1 DEF WorkerRec
  <2>3. worker.at = "plan" /\ worker.slow /\ UNCHANGED <<delayed, now>>
    BY <1>16 DEF Plan, SlowOK
  <2>4. AnswersAreTrue'
    BY <1>3, <2>2
  <2>5. \/ Deadline = worker.due
        \/ delayed # <<>> /\ First.time <= Deadline
    <3>1. CASE Deadline = worker.until
      BY <2>3, <3>1 DEF SlowOK
    <3>2. CASE delayed # <<>> /\ Deadline = First.time
      <4>1. First.time \in Nat
        BY <3>2, ListHas, EmptySeq DEF Types, ListTypes, First
      <4> QED BY <3>2, <4>1
    <3> QED BY <3>1, <3>2, DeadlineIs
  <2>6. SlowOK'
    BY <2>1, <2>2, <2>3, <2>5 DEF SlowOK, Looking, First
  <2> QED BY <2>4, <2>6
<1>17. CASE Announce
  <2>1. /\ worker.at = "announce" /\ worker'.at \in {"sleep", "expired"}
        /\ UNCHANGED <<delayed, now>>
        /\ worker'.until = worker.until /\ worker'.ierr = worker.ierr
        /\ worker'.slow = worker.slow /\ worker'.due = worker.due
        /\ worker'.timeout = worker.timeout
    BY <1>1, <1>17 DEF Announce, Become, WorkerRec
  <2>2. AnswersAreTrue'
    BY <1>3, <2>1
  <2>3. SlowOK'
    BY <2>1 DEF SlowOK, Looking, First
  <2> QED BY <2>2, <2>3
<1>18. CASE Awakes \/ TimesOut
  <2>1. /\ worker.at = "sleep" /\ worker'.at = "expired"
        /\ UNCHANGED <<delayed, now>>
        /\ worker'.until = worker.until
        /\ worker'.slow = worker.slow /\ worker'.due = worker.due
        /\ worker'.timeout = worker.timeout
        /\ \/ worker'.ierr = "ok"
           \/ worker'.ierr = "timeout" /\ worker.until # Never /\ worker.until <= now
    BY <1>1, <1>18, ZenonT(40) DEF Awakes, TimesOut, Become, WorkerRec
  <2>2. AnswersAreTrue'
    BY <1>3, <2>1
  <2>3. SlowOK'
    BY <2>1 DEF SlowOK, Looking, First
  <2> QED BY <2>2, <2>3
<1>19. CASE Stop
  <2>1. /\ worker.at = "idle" /\ worker'.at = "done" /\ UNCHANGED <<signal, now>>
        /\ worker'.slow = worker.slow /\ worker'.ierr = worker.ierr
        /\ worker'.err = worker.err /\ worker'.timeout = worker.timeout
        /\ worker'.due = worker.due /\ worker'.call = worker.call
    BY <1>6, <1>8, <1>19 DEF Stop, shared
  <2>2. AnswersAreTrue'
    BY <2>1 DEF AnswersAreTrue, Between
  <2>3. SlowOK'
    BY <1>1, <2>1 DEF SlowOK, Looking
  <2> QED BY <2>2, <2>3
<1>20. CASE CancelOne
  <2>1. worker.at = "cancel" /\ worker.slow = FALSE /\ UNCHANGED <<signal, now>>
    BY <1>1, <1>20 DEF CancelOne, Consumes, shared, SlowOK, Looking
  <2>2. CASE UNCHANGED worker
    BY <1>1, <1>7, <2>1, <2>2
  <2>3. CASE Go("done")
    <3>1. /\ worker'.at = "done" /\ worker'.slow = FALSE /\ worker'.ierr = "ok"
          /\ worker'.err = "ok"
      BY <1>6, <1>8, <2>1, <2>3 DEF SlowOK
    <3> QED BY <3>1 DEF SlowOK, AnswersAreTrue
  <2> QED BY <1>20, <2>2, <2>3 DEF CancelOne
<1>21. CASE Destroy
  <2>1. /\ worker.at = "done" /\ worker'.at = "destroyed"
        /\ worker'.slow = worker.slow /\ worker'.ierr = worker.ierr
    BY <1>6, <1>8, <1>21 DEF Destroy
  <2> QED BY <1>1, <2>1 DEF SlowOK, Looking, AnswersAreTrue, Between
<1>22. CASE Tick \/ UNCHANGED vars
  BY <1>1, <1>7, <1>22 DEF Tick, vars, shared
<1>23. ASSUME UNCHANGED <<worker, delayed, now>>, signal # "blocked" \/ signal' = "blocked"
       PROVE  SlowOK' /\ AnswersAreTrue'
  BY <1>23 DEF SlowOK, AnswersAreTrue, Between, First
<1>24. ASSUME NEW p \in Posters, Post(p) PROVE SlowOK' /\ AnswersAreTrue'
  BY <1>23, <1>24 DEF Post, Refuse, Reserve, Commit, WakeWorker, vars, shared
<1>25. ASSUME NEW b \in Blockers, Block(b) PROVE SlowOK' /\ AnswersAreTrue'
  BY <1>23, <1>25 DEF Block, BlockStart, BlockSet, BlockRetry, BlockWake, shared
<1> QED BY <1>9, <1>10, <1>11, <1>13, <1>14, <1>15, <1>16, <1>17, <1>18, <1>19,
     <1>20, <1>21, <1>22, <1>24, <1>25 DEF Next, Worker, TryRunOne, RunOne

---------------------------------------------------------------------------
(* What is waited for.                                                     *)

LEMMA AwaitedHas ==
  ASSUME Types
  PROVE  /\ Awaited \subseteq Nat
         /\ \A j \in 1..Len(delayed) : delayed[j].time \in Awaited
         /\ \A k \in next..(Ticket - 1) :
              At(k).kind = "delayed" => At(k).time \in Awaited
         /\ worker.slow /\ worker.until # Never => worker.until \in Awaited
<1>1. /\ DOMAIN delayed = 1..Len(delayed)
      /\ \A j \in 1..Len(delayed) : delayed[j].time \in Nat
  BY ListHas DEF Types
<1>2. ASSUME NEW k \in next..(Ticket - 1), At(k).kind = "delayed"
      PROVE  At(k).time \in Nat
  <2>1. k \in 0..(Ticket - 1)
    BY <1>2, LenProperties DEF Types, LogTypes, Ticket
  <2>2. Times \subseteq Nat
    OBVIOUS
  <2> QED BY <1>2, <2>1, <2>2, LogHas DEF Types
<1>3. worker.until # Never => worker.until \in Nat
  BY WorkerHas DEF Moments
<1> QED BY <1>1, <1>2, <1>3 DEF Awaited

(* Only a poll of the list sets the offset, to the clock.                  *)
LEMMA ClockStep ==
  ASSUME [Next]_vars
  PROVE  Tick \/ (now' = now /\ (offset' = offset \/ offset' = now))
<1>1. ASSUME NEW p \in Posters, Post(p) PROVE now' = now /\ offset' = offset
  BY <1>1 DEF Post, Refuse, Reserve, Commit, WakeWorker, vars
<1>2. ASSUME NEW b \in Blockers, Block(b) PROVE now' = now /\ offset' = offset
  BY <1>2 DEF Block, BlockStart, BlockSet, BlockRetry, BlockWake
<1>3. CASE RunExpired \/ NoneExpired
  BY <1>3 DEF RunExpired, NoneExpired, GetHeadIfExpired
<1>4. CASE Worker /\ ~RunExpired /\ ~NoneExpired
  BY <1>4 DEF Worker, StartTry, StartRun, TryRunOne, RunOne, Stop, SeesFlag,
     CancelOne, ConsumeTask, ConsumeDelayed, ConsumeCancel, ConsumeNothing, Plan,
     Announce, Awakes, TimesOut
<1>5. CASE Destroy \/ UNCHANGED vars
  BY <1>5 DEF Destroy, vars
<1> QED BY <1>1, <1>2, <1>3, <1>4, <1>5 DEF Next

(* A task of the list after a step was there or in the queue before it.    *)
LEMMA ListAwaited ==
  ASSUME Types, Effect, NEW j \in DOMAIN delayed'
  PROVE  delayed'[j].time \in Awaited
<1>1. /\ Len(delayed) \in Nat /\ DOMAIN delayed = 1..Len(delayed)
      /\ \A a \in 1..Len(delayed) : delayed[a].time \in Awaited
  BY ListHas, AwaitedHas DEF Types
<1>2. CASE Quiet
  BY <1>1, <1>2 DEF Quiet
<1>3. CASE \E err \in Results : Called(err)
  BY <1>1, <1>3 DEF Called
<1>4. ASSUME NEW n \in 1..(Len(delayed) + 1), Inserted(n)
      PROVE  delayed'[j].time \in Awaited
  <2>1. next \in next..(Ticket - 1) /\ At(next).kind = "delayed"
    BY <1>4, LenProperties DEF Inserted, Consumes, Types, LogTypes, Ticket
  <2>2. At(next).time \in Awaited
    BY <2>1, AwaitedHas
  <2>3. j \in 1..(Len(delayed) + 1)
    BY <1>4, LenProperties DEF Inserted
  <2>4. \/ \E a \in 1..Len(delayed) : delayed'[j] = delayed[a]
        \/ delayed'[j] = [time |-> At(next).time, id |-> next]
    <3>1. CASE j < n
      BY <1>1, <1>4, <2>3, <3>1 DEF Inserted
    <3>2. CASE j = n
      BY <1>1, <1>4, <2>3, <3>2 DEF Inserted
    <3>3. CASE j > n
      <4>1. j - 1 \in 1..Len(delayed) /\ ~(j < n) /\ j # n
        BY <1>1, <2>3, <3>3
      <4>2. delayed'[j] = delayed[j - 1]
        BY <1>4, <2>3, <4>1 DEF Inserted
      <4> QED BY <4>1, <4>2
    <3> QED BY <1>1, <2>3, <3>1, <3>2, <3>3
  <2> QED BY <1>1, <2>2, <2>4
<1>5. ASSUME NEW n \in 1..Len(delayed), NEW err \in Results, Dropped(n, err)
      PROVE  delayed'[j].time \in Awaited
  <2>1. j \in 1..(Len(delayed) - 1)
    BY <1>5, LenProperties DEF Dropped
  <2>2. j \in 1..Len(delayed) /\ j + 1 \in 1..Len(delayed)
    BY <1>1, <2>1
  <2>3. delayed'[j] = delayed[j] \/ delayed'[j] = delayed[j + 1]
    BY <1>5, <2>1 DEF Dropped
  <2> QED BY <1>1, <2>2, <2>3
<1> QED BY <1>2, <1>3, <1>4, <1>5 DEF Effect

(* A delayed task of the queue was there or is posted for a moment near.   *)
LEMMA LogAwaited ==
  ASSUME Types, Kept, Effect, [Next]_vars, LogTypes',
         NEW k \in next'..(Ticket' - 1), At(k)'.kind = "delayed"
  PROVE  At(k)'.time \in Awaited \/ (now' = now /\ Near(At(k)'.time))
<1>1. Ticket \in Nat /\ next \in 0..Ticket /\ Ticket' \in Nat /\ next' \in 0..Ticket'
  BY LenProperties DEF Types, LogTypes, Ticket
<1>2. next <= next'
  BY <1>1 DEF Effect, Quiet, Called, Inserted, Dropped, Consumes
<1>3. CASE k < Ticket
  <2>1. k \in next..(Ticket - 1) /\ k \in 0..(Ticket - 1)
    BY <1>1, <1>2, <1>3
  <2>2. At(k)' = At(k)
    BY <2>1 DEF Kept
  <2> QED BY <2>1, <2>2, AwaitedHas
<1>4. CASE ~(k < Ticket)
  <2>1. log' # log
    BY <1>1, <1>4 DEF Ticket
  <2>2. PICK p \in Posters : Reserve(p)
    <3>1. ~Worker /\ ~Destroy /\ ~Tick /\ ~UNCHANGED vars
      BY <2>1 DEF Worker, StartTry, StartRun, TryRunOne, RunOne, Stop, SeesFlag,
         CancelOne, RunExpired, NoneExpired, ConsumeTask, ConsumeDelayed,
         ConsumeCancel, ConsumeNothing, Consumes, Plan, Announce, Awakes, TimesOut,
         Destroy, Tick, vars, shared
    <3>2. \A b \in Blockers : ~Block(b)
      BY <2>1 DEF Block, BlockStart, BlockSet, BlockRetry, BlockWake, shared
    <3> QED BY <2>1, <3>1, <3>2 DEF Next, Post, Refuse, Commit, WakeWorker, vars,
         shared
  <2>3. PICK c \in Commands : log' = Append(log, c) /\ now' = now
    BY <2>2 DEF Reserve
  <2>4. Len(log') = Len(log) + 1 /\ log'[Len(log) + 1] = c
    BY <2>3, CommandsTyped, AppendProperties DEF Types, LogTypes
  <2>5. k = Ticket /\ At(k)' = c
    BY <1>1, <1>4, <2>4 DEF Ticket, At
  <2>6. c.kind = "delayed" => Near(c.time)
    BY DEF Commands, Near
  <2> QED BY <2>3, <2>5, <2>6
<1> QED BY <1>3, <1>4

(* The worker sleeps to what was waited for, or to the user's deadline.    *)
LEMMA UntilAwaited ==
  ASSUME Types, SlowOK, [Next]_vars, worker'.slow, worker'.until # Never
  PROVE  worker'.until \in Awaited \/ (now' = now /\ Near(worker'.until))
<1>1. worker \in WorkerRec
  BY DEF Types, WorkerTypes
<1>2. ASSUME worker'.slow = worker.slow, worker'.until = worker.until
      PROVE  worker'.until \in Awaited
  BY <1>2, AwaitedHas
<1>3. ASSUME NEW e \in Errors, Returns(e) PROVE FALSE
  BY <1>3 DEF Returns, Become, Idle
<1>4. ASSUME NEW q \in Places, Go(q) PROVE worker'.until \in Awaited
  <2>1. worker'.slow = worker.slow /\ worker'.until = worker.until
    BY <1>1, <1>4 DEF Go, Become, WorkerRec
  <2> QED BY <1>2, <2>1
<1>5. /\ {"ok", "nothing_to_do", "invalid"} \subseteq Errors
      /\ {"plan", "expired", "consume", "done", "destroyed"} \subseteq Places
  BY DEF Errors, Places
<1>6. CASE StartTry \/ StartRun \/ SeesFlag
  BY <1>6 DEF StartTry, StartRun, SeesFlag, Become, Idle
<1>7. CASE RunExpired \/ NoneExpired \/ Stop \/ ConsumeTask \/ ConsumeDelayed
             \/ ConsumeCancel
  BY <1>3, <1>4, <1>5, <1>7 DEF RunExpired, NoneExpired, Stop, ConsumeTask,
     ConsumeDelayed, ConsumeCancel, Did
<1>8. CASE ConsumeNothing
  <2>1. CASE EnterSlow /\ ~TooLong(worker.timeout)
    <3>1. worker'.until = UserDeadline
      BY <1>1, <2>1 DEF EnterSlow, Become, WorkerRec
    <3> QED BY <1>8, <2>1, <3>1, UserDeadlineIs DEF ConsumeNothing
  <2>2. CASE GoRound
    <3>1. ~(worker' = [Idle EXCEPT !.call = "run", !.err = "timeout",
                       !.timeout = worker.timeout, !.due = worker.due])
      BY DEF Idle
    <3> QED BY <1>3, <1>4, <1>5, <2>2, <3>1 DEF GoRound, Become
  <2> QED BY <1>3, <1>5, <1>8, <2>1, <2>2 DEF ConsumeNothing, DidNothing
<1>9. CASE Plan
  <2>1. worker'.until = Deadline /\ worker.slow
    BY <1>1, <1>9 DEF Plan, Become, WorkerRec, SlowOK
  <2>2. CASE Deadline = worker.until
    BY <2>1, <2>2, AwaitedHas
  <2>3. CASE delayed # <<>> /\ Deadline = First.time
    <3>1. 1 \in 1..Len(delayed)
      BY <2>3, ListHas, EmptySeq DEF Types, ListTypes
    <3> QED BY <2>1, <2>3, <3>1, AwaitedHas DEF First
  <2> QED BY <2>2, <2>3, DeadlineIs
<1>10. CASE Announce \/ Awakes \/ TimesOut
  <2>1. worker'.slow = worker.slow /\ worker'.until = worker.until
    BY <1>1, <1>10, ZenonT(40) DEF Announce, Awakes, TimesOut, Become, WorkerRec
  <2> QED BY <1>2, <2>1
<1>11. CASE CancelOne
  BY <1>2, <1>4, <1>5, <1>11 DEF CancelOne
<1>12. CASE Destroy
  BY <1>4, <1>5, <1>12 DEF Destroy
<1>13. ASSUME UNCHANGED worker PROVE worker'.until \in Awaited
  BY <1>2, <1>13
<1>14. ASSUME NEW p \in Posters, Post(p) PROVE UNCHANGED worker
  BY <1>14 DEF Post, Refuse, Reserve, Commit, WakeWorker, vars
<1>15. ASSUME NEW b \in Blockers, Block(b) PROVE UNCHANGED worker
  BY <1>15 DEF Block, BlockStart, BlockSet, BlockRetry, BlockWake
<1>16. CASE Tick \/ UNCHANGED vars
  BY <1>13, <1>16 DEF Tick, vars
<1> QED BY <1>6, <1>7, <1>8, <1>9, <1>10, <1>11, <1>12, <1>13, <1>14, <1>15, <1>16
     DEF Next, Worker, TryRunOne, RunOne

LEMMA TimesStep ==
  ASSUME Types, SlowOK, TimesOK, Kept, Effect, [Next]_vars, LogTypes'
  PROVE  TimesOK'
<1>1. /\ now \in Nat /\ offset \in 0..now /\ Awaited \subseteq Nat
      /\ MaxDelay \in Nat /\ MaxLate \in Nat /\ MaxStale \in Nat
  BY AwaitedHas, ClockAssumption DEF Types, WorkerTypes
<1>2. ASSUME NEW t \in Awaited' PROVE t \in Awaited \/ (now' = now /\ Near(t))
  <2>1. \/ \E j \in DOMAIN delayed' : t = delayed'[j].time
        \/ \E k \in next'..(Ticket' - 1) : At(k)'.kind = "delayed" /\ t = At(k)'.time
        \/ worker'.slow /\ worker'.until # Never /\ t = worker'.until
    BY DEF Awaited
  <2> QED BY <2>1, ListAwaited, LogAwaited, UntilAwaited
<1>3. CASE Tick
  <2>1. /\ now' = now + 1 /\ now < offset + MaxStale /\ offset' = offset
        /\ \A t \in Awaited : now < t + MaxLate
    BY <1>3 DEF Tick
  <2>2. \A t \in Awaited' : t \in Awaited
    BY <1>1, <1>2, <2>1
  <2>3. ASSUME NEW t \in Awaited PROVE t <= now + 1 + MaxDelay /\ now + 1 <= t + MaxLate
    BY <1>1, <2>1 DEF TimesOK, Near
  <2>4. now + 1 <= offset + MaxStale
    BY <1>1, <2>1
  <2> QED BY <2>1, <2>2, <2>3, <2>4 DEF TimesOK, Near
<1>4. CASE now' = now /\ (offset' = offset \/ offset' = now)
  <2>1. \A t \in Awaited' : Near(t)
    BY <1>2 DEF TimesOK
  <2>2. now <= offset' + MaxStale
    BY <1>1, <1>4 DEF TimesOK
  <2> QED BY <1>4, <2>1, <2>2 DEF TimesOK, Near
<1> QED BY <1>3, <1>4, ClockStep

---------------------------------------------------------------------------
(* The theorems.                                                           *)

LEMMA InitInv == Init => Inv
<1> SUFFICES ASSUME Init PROVE Inv
  OBVIOUS
<1> USE DEF Init
<1>1. Len(log) = 0 /\ DOMAIN log = {} /\ log \in Seq(Command)
      /\ delayed \in Seq(Entry) /\ Len(delayed) = 0 /\ DOMAIN delayed = {}
  BY EmptySeq
<1>2. LogTypes
  BY <1>1 DEF LogTypes, Ticket
<1>3. CallerTypes
  <2>1. NoOp \in Op
    BY DEF NoOp, Op, Signals
  <2> QED BY <2>1 DEF CallerTypes, Callers
<1>4. ListTypes
  <2>1. ran \in [Tickets -> Seq(Results)]
    BY EmptySeq
  <2> QED BY <1>1, <2>1 DEF ListTypes
<1>5. WorkerTypes
  <2>1. Idle \in WorkerRec
    BY DEF Idle, WorkerRec, Places, Moments, Never, Signals, Errors
  <2>2. now \in 0..MaxTime /\ offset \in 0..now
    BY ClockAssumption
  <2> QED BY <2>1, <2>2 DEF WorkerTypes, Signals
<1>6. SignalOK /\ NoLostWakeup /\ SlowOK /\ AnswersAreTrue
  BY DEF Idle, SignalOK, NoLostWakeup, SlowOK, AnswersAreTrue
<1>7. ListOK /\ Sorted
  BY <1>1 DEF ListOK, Sorted
<1>8. CalledOK
  <2>1. \A i \in Tickets : ran[i] = <<>> /\ i \in Nat
    BY DEF Tickets
  <2> QED BY <2>1 DEF CalledOK
<1>9. TimesOK
  <2>1. now \in Nat /\ MaxStale \in Nat
    BY ClockAssumption
  <2>2. Ticket = 0 /\ next..(Ticket - 1) = {} /\ ~worker.slow
    BY <1>1 DEF Ticket, Idle
  <2> QED BY <1>1, <2>1, <2>2 DEF TimesOK, Awaited
<1> QED BY <1>2, <1>3, <1>4, <1>5, <1>6, <1>7, <1>8, <1>9 DEF Inv, Types

LEMMA StepInv ==
  ASSUME Inv, [Next]_vars
  PROVE  Inv'
<1> USE DEF Inv
<1>1. Kept /\ Effect
  BY KeptStep, EffectStep
<1>2. LogTypes'
  BY LogTypesStep
<1>3. CallerTypes'
  BY <1>2, CallerTypesStep
<1>4. ListTypes'
  BY <1>1, ListTypesStep
<1>5. WorkerTypes'
  BY WorkerTypesStep
<1>6. SignalOK' /\ NoLostWakeup'
  BY SignalStep, WakeStep
<1>7. SlowOK' /\ AnswersAreTrue'
  BY <1>1, <1>5, <1>6, SlowStep
<1>8. ListOK' /\ CalledOK' /\ Sorted'
  BY <1>1, <1>2, ListStep
<1>9. TimesOK'
  BY <1>1, <1>2, <1>5, TimesStep
<1> QED BY <1>2, <1>3, <1>4, <1>5, <1>6, <1>7, <1>8, <1>9 DEF Types

(* The invariant holds in every state of task_queue.c's model.             *)
THEOREM Invariance == Spec => []Inv
BY InitInv, StepInv, PTL DEF Spec

(* Every variable holds a value of its type, and bl_taskq's worker         *)
(* consumes a command only once its post has committed it.                 *)
THEOREM TypeCorrect == Spec => []TypeOK
<1>1. Inv => TypeOK
  BY TypesImply DEF Inv
<1> QED BY <1>1, Invariance, PTL

(* bl_taskq_run_one's worker is never asleep with an empty semaphore and   *)
(* nobody that will wake it, for any number of threads that post or block. *)
THEOREM NoWakeupIsLost == Spec => []NoLostWakeup
<1>1. Inv => NoLostWakeup
  BY DEF Inv
<1> QED BY <1>1, Invariance, PTL

(* bl_taskq_run_one answers "timeout" only to a caller whose timeout has   *)
(* passed, and "nothing to do" only once the queue is blocked.             *)
THEOREM AnswersTrue == Spec => []AnswersAreTrue
<1>1. Inv => AnswersAreTrue
  BY DEF Inv
<1> QED BY <1>1, Invariance, PTL

(* Whatever the deadline list and run_one compare is less than half a turn *)
(* apart, so that the wrapped time points tell which is later; that a      *)
(* timeout too long is refused is part of it.                              *)
THEOREM WrapIsHarmless == Spec => []Comparable
<1>1. ASSUME Inv PROVE Comparable
  <2>1. /\ now \in Nat /\ Awaited \subseteq Nat
        /\ MaxDelay \in Nat /\ MaxLate \in Nat /\ HalfTurn \in Nat
        /\ MaxDelay + MaxLate < HalfTurn
    BY <1>1, AwaitedHas, ClockAssumption DEF Inv, Types, WorkerTypes
  <2>2. ASSUME NEW t \in Awaited \cup {now}
        PROVE  t \in Nat /\ t <= now + MaxDelay /\ now <= t + MaxLate
    BY <1>1, <2>1, <2>2 DEF Inv, TimesOK, Near
  <2>3. ASSUME NEW t \in Awaited \cup {now}, NEW u \in Awaited \cup {now}
        PROVE  Compare(t, u) = t - u
    <3>1. t \in Nat /\ u \in Nat /\ t - u < HalfTurn /\ u - t < HalfTurn
      <4>1. /\ t \in Nat /\ t <= now + MaxDelay /\ now <= t + MaxLate
            /\ u \in Nat /\ u <= now + MaxDelay /\ now <= u + MaxLate
        BY <2>2
      <4> QED BY <2>1, <4>1
    <3> QED BY <3>1, CompareIs
  <2> QED BY <2>3 DEF Comparable
<1> QED BY <1>1, Invariance, PTL

(* The offset of the deadline list stays near enough for the tasks.        *)
TurnSuffices == MaxStale + MaxDelay < HalfTurn

(* A task told as expired, by the offset or by the clock, is due.          *)
LEMMA ExpiredIsDue ==
  ASSUME TurnSuffices, Inv, delayed # <<>>, ExpiredBy(offset) \/ ExpiredBy(now)
  PROVE  First.time <= now
<1>1. First.time \in Nat /\ Near(First.time)
  BY FirstNear DEF Inv
<1>2. /\ now \in Nat /\ offset \in 0..now /\ now <= offset + MaxStale
      /\ MaxDelay \in Nat /\ MaxLate \in Nat /\ MaxStale \in Nat
      /\ HalfTurn \in Nat /\ MaxDelay + MaxLate < HalfTurn
      /\ MaxStale + MaxDelay < HalfTurn
  BY ClockAssumption DEF Inv, Types, WorkerTypes, TimesOK, TurnSuffices
<1>3. First.time - offset < HalfTurn /\ offset - First.time < HalfTurn
  BY <1>1, <1>2 DEF Near
<1>4. Compare(First.time, offset) = First.time - offset
  BY <1>1, <1>2, <1>3, CompareIs
<1>5. Compare(First.time, now) = First.time - now
  BY <1>1, <1>2, NearCompare
<1> QED BY <1>1, <1>2, <1>4, <1>5 DEF ExpiredBy

LEMMA OnTimeStep ==
  ASSUME TurnSuffices, Inv, OnTime, [Next]_vars
  PROVE  OnTime'
<1> SUFFICES ASSUME NEW i \in Tickets, ran'[i] = <<"ok">>, At(i)'.kind = "delayed"
             PROVE  At(i)'.time <= now'
  BY DEF OnTime
<1>1. Types /\ Kept /\ Effect /\ ListTypes
  BY KeptStep, EffectStep DEF Inv, Types
<1>2. /\ Ticket \in Nat /\ next \in 0..Ticket /\ now \in Nat /\ i \in Nat
      /\ now <= now' /\ now' \in Nat /\ <<"ok">> # <<>>
  BY <1>1, LenProperties DEF Types, LogTypes, WorkerTypes, Ticket, Kept, Tickets
<1>3. ASSUME i < next
      PROVE  At(i)' = At(i) /\ (At(i).kind = "delayed" => At(i).time \in Nat)
  <2>1. i \in 0..(Ticket - 1) /\ Times \subseteq Nat
    BY <1>2, <1>3
  <2> QED BY <1>1, <2>1, LogHas DEF Types, Kept
<1>4. CASE ran'[i] = ran[i]
  <2>1. ran[i] = <<"ok">> /\ i < next
    BY <1>2, <1>4 DEF Inv, CalledOK
  <2>2. At(i).time <= now
    BY <1>3, <2>1 DEF OnTime
  <2> QED BY <1>2, <1>3, <2>1, <2>2
<1>5. CASE ran'[i] # ran[i]
  <2>1. ~Quiet /\ \A n \in 1..(Len(delayed) + 1) : ~Inserted(n)
    BY <1>5 DEF Quiet, Inserted
  <2>2. ASSUME NEW err \in Results, Called(err) PROVE FALSE
    <3>1. next \in 0..(Ticket - 1) /\ next \in Tickets
      BY <1>1, <2>2, LogHas DEF Called, Consumes, Types, LogTypes
    <3>2. i = next
      BY <1>1, <1>5, <2>2, <3>1, RunEffect DEF Called
    <3>3. ran[i] = <<>>
      BY <1>2, <3>2 DEF Inv, CalledOK
    <3>4. err = "ok"
      <4>1. ran'[i][1] = err
        BY <1>1, <2>2, <3>2, <3>3, CalledOnce DEF Called
      <4> QED BY <4>1
    <3>5. At(i)' = At(i)
      BY <1>1, <3>1, <3>2 DEF Kept
    <3> QED BY <2>2, <3>2, <3>4, <3>5 DEF Called
  <2>3. PICK n \in 1..Len(delayed), err \in Results : Dropped(n, err)
    BY <1>1, <2>1, <2>2 DEF Effect
  <2>4. /\ Len(delayed) \in Nat /\ DOMAIN delayed = 1..Len(delayed)
        /\ delayed[n].id \in Tickets
    BY <1>1, ListHas
  <2>5. i = delayed[n].id
    BY <1>1, <1>5, <2>3, <2>4, RunEffect DEF Dropped
  <2>6. i < next /\ ran[i] = <<>> /\ At(i).time = delayed[n].time
    BY <2>4, <2>5 DEF Inv, ListOK
  <2>7. err = "ok"
    <3>1. ran'[i][1] = err
      BY <1>1, <2>3, <2>5, <2>6, CalledOnce DEF Dropped
    <3> QED BY <3>1
  <2>8. n = 1 /\ (ExpiredBy(offset) \/ ExpiredBy(now)) /\ delayed # <<>>
    BY <2>3, <2>4, <2>7, EmptySeq DEF Dropped
  <2>9. At(i).time <= now
    BY <2>6, <2>8, ExpiredIsDue DEF First
  <2>10. At(i).time \in Nat /\ At(i)' = At(i)
    BY <1>3, <2>4, <2>5, <2>6 DEF Inv, ListOK
  <2> QED BY <1>2, <2>9, <2>10
<1> QED BY <1>4, <1>5

(* A delayed task never runs before the time it was posted for, wherever   *)
(* the clock wraps, as long as the offset that a poll left on the list is  *)
(* less than half a turn away from what users post.  Without that it does: *)
(* see the run taskq_idle.                                                 *)
THEOREM NeverEarly ==
  ASSUME TurnSuffices
  PROVE  Spec => []OnTime
<1>1. Init => OnTime
  BY DEF Init, OnTime
<1>2. ASSUME Inv, OnTime, [Next]_vars PROVE OnTime'
  BY <1>2, OnTimeStep
<1>3. OnTime /\ Inv /\ [Next]_vars => OnTime'
  BY <1>2
<1> QED BY <1>1, <1>3, Invariance, PTL DEF Spec

(* The tasks of the deadline list and their places.                        *)
LEMMA OnePlace ==
  ASSUME Inv, NEW i \in Tickets
  PROVE  /\ \A j \in DOMAIN delayed : delayed[j].id = i => Pending(i) = {j}
         /\ Pending(i) # {} => i < next /\ ran[i] = <<>> /\ At(i).kind = "delayed"
         /\ Pending(i) = {} <=> \A j \in DOMAIN delayed : delayed[j].id # i
<1>1. DOMAIN delayed = 1..Len(delayed)
  BY ListHas DEF Inv, Types
<1>2. \A j, k \in DOMAIN delayed : delayed[j].id = delayed[k].id => j = k
  BY <1>1, Distinct DEF Inv
<1> QED BY <1>2 DEF Pending, Inv, ListOK

(* Every task consumed gets its callback exactly once or is exactly once   *)
(* on the deadline list, whatever cancels, expirations, overflows and      *)
(* shutdown do to it.                                                      *)
THEOREM Conservation == Spec => []Conserved
<1>1. ASSUME Inv PROVE Conserved
  <2> SUFFICES ASSUME NEW i \in Tickets
               PROVE  Len(ran[i]) + Cardinality(Pending(i)) =
                        IF i < next /\ At(i).kind # "cancel" THEN 1 ELSE 0
    BY DEF Conserved
  <2>1. /\ ran[i] # <<>> => i < next /\ At(i).kind # "cancel" /\ Len(ran[i]) = 1
        /\ i < next /\ At(i).kind # "cancel" =>
             ran[i] # <<>> \/ \E j \in DOMAIN delayed : delayed[j].id = i
    BY <1>1 DEF Inv, CalledOK
  <2>2. Len(<<>>) = 0 /\ Cardinality({}) = 0
    BY EmptySeq, FS_EmptySet
  <2>3. CASE Pending(i) = {}
    <3>1. Cardinality(Pending(i)) = 0
      BY <2>2, <2>3
    <3>2. \A j \in DOMAIN delayed : delayed[j].id # i
      BY <1>1, <2>3, OnePlace
    <3>3. CASE ran[i] = <<>>
      <4>1. ~(i < next /\ At(i).kind # "cancel") /\ Len(ran[i]) = 0
        BY <2>1, <2>2, <3>2, <3>3
      <4> QED BY <3>1, <4>1
    <3>4. CASE ran[i] # <<>>
      <4>1. i < next /\ At(i).kind # "cancel" /\ Len(ran[i]) = 1
        BY <2>1, <3>4
      <4> QED BY <3>1, <4>1
    <3> QED BY <3>3, <3>4
  <2>4. CASE Pending(i) # {}
    <3>1. PICK j \in DOMAIN delayed : delayed[j].id = i
      BY <2>4 DEF Pending
    <3>2. Cardinality(Pending(i)) = 1
      <4>1. Pending(i) = {j}
        BY <1>1, <3>1, OnePlace
      <4> QED BY <4>1, FS_Singleton
    <3>3. i < next /\ ran[i] = <<>> /\ At(i).kind # "cancel"
      BY <1>1, <2>4, OnePlace
    <3> QED BY <2>2, <3>2, <3>3
  <2> QED BY <2>3, <2>4
<1> QED BY <1>1, Invariance, PTL

(* bl_taskq_block is irreversible: nothing enters the queue afterwards,    *)
(* not even a post that was under way, and the signal stays.               *)
THEOREM BlockSeals == Spec => Sealed
<1>1. ASSUME [Next]_vars
      PROVE  [signal = "blocked" => signal' = "blocked" /\ log' = log]_vars
  <2> SUFFICES ASSUME signal = "blocked" PROVE signal' = "blocked" /\ log' = log
    OBVIOUS
  <2>1. ASSUME NEW p \in Posters, Post(p) PROVE signal' = "blocked" /\ log' = log
    BY <2>1 DEF Post, Refuse, Reserve, Commit, WakeWorker, vars, shared
  <2>2. ASSUME NEW b \in Blockers, Block(b) PROVE signal' = "blocked" /\ log' = log
    BY <2>2 DEF Block, BlockStart, BlockSet, BlockRetry, BlockWake, shared
  <2>3. CASE Worker
    BY <2>3 DEF Worker, StartTry, StartRun, TryRunOne, RunOne, Stop,
       SeesFlag, CancelOne, RunExpired, NoneExpired, ConsumeTask, ConsumeDelayed,
       ConsumeCancel, ConsumeNothing, Consumes, Plan, Announce, Awakes, TimesOut,
       shared
  <2>4. CASE Destroy \/ Tick \/ UNCHANGED vars
    BY <2>4 DEF Destroy, Tick, vars, shared
  <2> QED BY <1>1, <2>1, <2>2, <2>3, <2>4 DEF Next
<1> QED BY <1>1, PTL DEF Spec, Sealed

(* The delayed tasks run in the order of their times and, for one time, of *)
(* their posts: none that should have gone before is still on the list.    *)
THEOREM InDueOrder == Spec => DueOrder
<1> DEFINE Good ==
      \A i \in Tickets :
        Pending(i) # {} /\ ran'[i] = <<"ok">> =>
          \A j \in DOMAIN delayed' :
            Before([time |-> At(i).time, id |-> i], delayed'[j])
<1>1. ASSUME Inv, [Next]_vars PROVE Good
  <2> SUFFICES ASSUME NEW i \in Tickets, Pending(i) # {}, ran'[i] = <<"ok">>,
                      NEW j \in DOMAIN delayed'
               PROVE  Before([time |-> At(i).time, id |-> i], delayed'[j])
    OBVIOUS
  <2>1. PICK k \in DOMAIN delayed : delayed[k].id = i
    BY DEF Pending
  <2>2. ran[i] = <<>> /\ i < next /\ <<"ok">> # <<>> /\ ran'[i] # ran[i]
    BY <1>1, OnePlace
  <2>3. Effect
    BY <1>1, EffectStep DEF Inv
  <2>4. ListTypes /\ next \in Nat
    BY <1>1 DEF Inv, Types, LogTypes
  <2>5. ~Quiet /\ \A n \in 1..(Len(delayed) + 1) : ~Inserted(n)
    BY <2>2 DEF Quiet, Inserted
  <2>6. ASSUME NEW err \in Results, Called(err) PROVE FALSE
    <3>1. next \in Tickets
      BY <1>1, <2>6, LogHas DEF Called, Consumes, Inv, Types, LogTypes
    <3>2. i # next
      BY <2>2, <2>4
    <3> QED BY <2>2, <2>4, <2>6, <3>1, <3>2, RunEffect DEF Called
  <2>7. PICK n \in 1..Len(delayed), err \in Results : Dropped(n, err)
    BY <2>3, <2>5, <2>6 DEF Effect
  <2>8. /\ Len(delayed) \in Nat /\ DOMAIN delayed = 1..Len(delayed)
        /\ delayed[n].id \in Tickets
    BY <2>4, ListHas
  <2>9. delayed[n].id = i
    BY <2>2, <2>4, <2>7, <2>8, RunEffect DEF Dropped
  <2>10. ran[delayed[n].id] = <<>> /\ Run(delayed[n].id, err)
    BY <2>2, <2>7, <2>9 DEF Dropped
  <2>11. err = "ok"
    <3>1. ran'[i][1] = err
      BY <2>4, <2>8, <2>9, <2>10, CalledOnce
    <3> QED BY <3>1
  <2>12. n = 1 /\ DOMAIN delayed' = 1..(Len(delayed) - 1)
    BY <2>7, <2>11, LenProperties DEF Dropped
  <2>13. delayed'[j] = delayed[j + 1] /\ j + 1 \in 1..Len(delayed) /\ 1 < j + 1
    BY <2>7, <2>8, <2>12 DEF Dropped
  <2>14. Before(delayed[1], delayed[j + 1])
    BY <1>1, <2>8, <2>12, <2>13 DEF Inv, Sorted
  <2>15. delayed[1].time = At(i).time /\ delayed[1].id = i
    BY <1>1, <2>8, <2>9, <2>12 DEF Inv, ListOK
  <2> QED BY <2>13, <2>14, <2>15 DEF Before
<1>2. Inv /\ [Next]_vars => [Good]_vars
  BY <1>1
<1> QED BY <1>2, Invariance, PTL DEF Spec, DueOrder
=============================================================================
