# base_library in TLA+

A verification development for `base_library`, a set of small C libraries. It
models the parts that other code builds on, first those whose correctness
depends on the order in which threads act, then the containers under them. TLC
checks them on small instances and TLAPS proves the main results for every value
of the constants.

`PROJECT.json` is the index: components, runs, mutants, the map from each
definition to the source lines it models, findings, hazards and theorems.

## 1. The system

| Component | State | Operations | Models |
|---|---|---|---|
| bounded MPMC queue `bl_mpmc_b` (`nonblock/mpmc_b*.c`) | two operation words (26 bit ticket, 6 bit signal), a version and a payload per slot, the blocked flag | prepare and commit in multi, single and fifo (fetch-and-add) mode, signals, `block_producers` | `MpmcB`, `TicketFifo` |
| typed MPMC queue `bl_mpmc_bt` | the same | prepare, memcpy and commit in one call | `MpmcB` |
| multislot MPMC queue and allocator `bl_mpmc_bpm` | the same words, chunks of adjacent slots, one version per slot | produce / consume prepare and commit, signals, alloc, dealloc | `MpmcBpm`, `PooledQueue` |
| intrusive MPSC queue `bl_mpsc_i` | head, tail, stable node, the `next` word of each node with its tag | produce, produce_many, consume | `MpscI`, `PooledQueue` |
| timed semaphore, linux `bl_tm_sem` (`base/semaphore_linux.c`) | one futex word: signals and waiters | wait with and without timeout, signal, destroy | `TmSem`, `CountingSem` |
| task queue `bl_taskq` (`task_queue/*.c`) | a typed MPMC queue, `last_consumed`, a semaphore, a deadline list | post, post delayed, cancel, try_run_one, run_one, try_cancel_one, block, destroy | `TaskQueue` |
| deadline list `bl_flat_deadlines`, `bl_deadline` | an ordered ring, `time_offset` | insert, head if expired, get and drop, drop head | `FlatDeadlines`, and in `TaskQueue` |
| ordered ring `bl_oringb` (`base/ordered_ringbuffer.c`) | an array used as a ring, kept sorted | binary search, three insertions | `OrderedRing` |
| ring buffer `bl_ringb` | begin, size, array | push and drop at both ends, insert, drop a range, set start | `RingBuffer` |
| array linked lists, singly and doubly linked | next / previous indexes, head, tail, size | insert at either end and behind a node, drop, iterate | `ArrayLinkedList`, `ArrayDoublyLinkedList` |
| dynamic arrays and strings `bl_dynarray`, `bl_autoarray`, `bl_dstr` | a block, the cells in use | resize, grow, append, insert, erase, trim, replace, find, format, read a file | `DynArray`, `DynString` |
| back-off `bl_nonblock_backoff` | spin, yield, sleep time | init, run | no: sequential, used by no other part |
| semaphore, windows | the system's | wrapper | no: the system's semaphore does it |
| time points and conversions | none | clock reads, generated conversions | no: inputs of the other parts |
| `itostr`, `getopt`, hexadecimal strings, serial, errors, allocator, threads, atomics | local, sequential | formatting, text parsing, device set up, wrappers of the system | no |

How they interact:

* Users reach `bl_mpmc_b` directly or through `bl_mpmc_bt`. Threads communicate
  through shared words only; a thread loads an operation word, checks the
  version of the slot it names, and tries a compare and swap (multi), a plain
  store (single) or has taken its ticket with fetch-and-add already (fifo).
* `bl_mpmc_bpm` is used as a queue whose elements have different sizes, or as an
  allocator: `alloc` is a produce, and `dealloc` gives slots back in any order.
  Its header names the use that `PooledQueue` composes: nodes of a `bl_mpsc_i`
  allocated by the producers and deallocated by the consumer.
* `bl_taskq` holds a `bl_mpmc_bt` with multi mode producers and a single mode
  consumer, the worker. The *signal* beside the producer ticket is a second
  channel: the worker sets it to `waiting_sem` before it sleeps on its
  `bl_tm_sem`; the post whose CAS replaces it must signal the semaphore;
  `bl_taskq_block` sets it to `blocked`, on which every later post falls back.
* The worker moves delayed tasks from the queue to its deadline list, an ordered
  ring, which is a ring buffer. Callbacks are called from the worker and are
  user code.

What is hard about each, and what makes it correct:

* `bl_mpmc_b`: an answer is computed from a word loaded some steps before; the
  ticket field wraps; block happens in two steps. Correct: chunks are
  exclusive, a consumer reads the payload of its ticket, "full", "empty" and
  "locked" are true of some moment of the call, a block is final, a signal to
  fall back on is honoured, every ticket taken is consumed.
* `bl_mpmc_bpm`: a chunk is taken with one CAS after its slots were looked at one
  by one, and its size is known later only from the first slot's version, while
  the payload lies over the versions of the others. Correct: chunks never
  share memory, a release frees what was reserved, answers are true.
* `bl_mpsc_i`: between the exchange of the tail and the store of the link the
  list is cut in two; the stable node goes in and out of it; a producer writes
  into a node of another. Correct: nodes come out once and in order, none is
  written to after its release, "busy" only while a producer is in between.
* `bl_tm_sem`: a signal can arrive between a waiter's registration and its
  futex call, or beside its timeout; both counts share one word. Correct: no
  wake up is lost, waiters are counted, the fields never run into each other,
  and the whole is a counting semaphore.
* `bl_taskq`: the wake up handshake, a block that races posts and the worker's
  announcement, time outs of two origins (the user's and the list's), cancels
  that race expirations. Correct: the worker never sleeps with nobody to wake
  it, each task gets one callback, delayed ones in order and not early, a block
  is final and ends the worker's call, `run_one` answers truly.
* Rings and deadlines: moves across the end of the array, a binary search whose
  ends are tested apart, equal keys in their order, a clock that wraps while
  `time_offset` turns the order. Correct: the ring holds what was put in it, in
  order; nothing expires early or out of order.
* Linked lists: four cases of a node's place with four links each. Correct:
  both directions, the size and the nodes returned agree with what was inserted.
* Arrays and strings: every edit may be refused by the allocator half way; a
  replacement that grows the text keeps its places of match inside the text
  itself. Correct: an edit is the one asked for, or the text is as it was, and
  it ends in its terminator either way.

## 2. The modules

### MpmcB: the queue

One action per access to shared memory. `pc` says where each thread is:
`idle`, `reload`, `check` (the word is loaded, the version not yet read), `cas`,
`store`, `poll` and `ahead` (a fifo producer that waits for its slot), `own`
(the chunk is the thread's), `used` (written or read, not yet committed), and
`sigcas`, `jump` for signals and blocking. `tkt`/`sig` are the
two operation words, `ver` the slots' versions, `flags` the blocked flag;
`now`/`sg` are the word a thread holds, `arg` its call, `res` its last answer.
`data`, `val` stand for the payload: the ticket under which it was written and
the one a consumer read. `fence` is history: where the push ticket was when
`block_producers` jumped.

A ticket is a number that never wraps, and the code sees only `Tk(t)`, the
ticket modulo `TicketMod`. Every comparison in the model goes through `Tk`, as
in the code through `ticket_decode`, so wraps are in the model, and properties
can still say which lap a ticket belongs to. `Verdict` is `check_ver` with its
unsigned difference as the code computes it. Fetch-and-add on the word carries
out of the ticket into the signal (`Carried`), as in the source, where a TODO
says so.

`MpmcB` takes one thing as given, `MaxLag`: while a thread is between loading a
word and its CAS, the tickets do not advance by a whole turn of the field (2^26
operations during one loop iteration). Without it the ABA problem of the field
is real; the hazards list it.

`TicketFifo` is the promise: a log of written payloads, tickets taken, and
readers that hold each a ticket of their own. `MpmcB!ImplementsPromise` says that
the queue implements it, under the mapping of the named operators before it:
`Ready` (committed, not consumed), `Claimed` (taken by a fifo producer that still
waits), `Writing`, `Reads`, `Got`, `Blocked` and `Answers`.

The memory model is sequentially consistent: an atomic operation is a step. The
acquire and release orderings are not modelled, except by their visible intent
(a payload is written before its version is published).

### MpmcBpm, MpscI and PooledQueue: the pool and its list

`MpmcBpm` is written as `MpmcB` is, one action per access, with the same names
for the words. A chunk is the ticket of its first slot and its number of slots;
`Ceil` is `get_slot_ceil`, which ends a chunk at the end of the array (the memory
of the last slots goes on behind it). `at` is the loop index of the look at the
slots after the first. The payload covers the versions of the chunk's other
slots, so filling it makes them `Junk`, and an operation that reads a junk
version computes any difference (`Diffs`). `live` is history: the chunks
reserved and not released. A release writes the version of every slot, the
first slot's last, one step each. The initial states choose the use, `"queue"` or
`"allocator"`, as the caller does. Tickets stay below the wrap.

`MpscI` has `tail`, `head` and `next`, a word of pointer and tag; `place` says
where each thread is in an operation, `old` is the node its exchange gave, `front`
the first node it links. `order` is history: nodes in the order of their
exchange. The last node of the list, whose tag and link a producer reads and
writes, belongs to another user: that is where a late write would land.

`PooledQueue` composes the two: a producer allocs up to `MaxBatch` chunks, fills
them and produces them as one batch; the consumer deallocs the node it was given,
after which the pool may hand its memory out again. A node's address is the slot
its chunk starts with, so the two modules' states are tied by one number.

### TmSem: the semaphore

`sem` is the futex word, with its two fields apart; `seen` is the word a thread
has read (`prev` before its CAS, `curr` at the futex). Weak CASes fail
spuriously, the futex call compares and sleeps in one step, wakes
any one sleeper, and may return with EINTR or a stray wake up; a timed waiter may
expire at any moment it sleeps. `bl_tm_sem_destroy` is called when no call is
active but sleepers may be there. `CountingSem` is the promise: each call takes
effect in one step, between its begin and its return.

### TaskQueue: the task queue

An operation of the queue and of the semaphore is one step here, which is what
`MpmcB` and `TmSem` are shown to promise; reserving a ticket and committing it
stay apart, because `bl_mpmc_bt` does them in two. `log` is the queue's content
by ticket, `next` the ticket after `last_consumed`, `signal` the signal beside
the producer ticket. `worker` holds the place of the worker and its local
variables: `due` is the user's deadline, `until` the one it sleeps to, `heard`
the signal in `expect`, `ierr` how the last sleep ended. A `BlockStart` reads
`last_consumed` without synchronisation while the worker writes it: the value is
any it has had. The deadline list is a sequence; `InsertDelayed`,
`GetHeadIfExpired`, `Reach` and `Found` are what `flat_deadlines.c` and the ring
under it do; that they do it is what the run `containers` shows.
`try_get_and_drop` compares the id also with the entry that follows those of the
time given (`Reach`). The worker of the model follows either shutdown procedure
of `task_queue.h`.

Moments (`now`, the times of tasks, `due`, `until`) are numbers that do not wrap;
the code sees them modulo `2 * HalfTurn` and compares two by the sign of their
difference, `Compare`. `offset` is the list's `time_offset`: `GetHeadIfExpired` takes
the first task as expired by the offset that was set last, sets it to the clock only
if that did not do, and not at all when the list is empty. This is where a
comparison can go wrong (`taskq_idle`), so expiry goes through `Compare`. The other
comparisons, of the list's order and of `run_one`'s deadlines, are written on the moments,
which is the same as long as what is compared is less than half a turn apart:
`Comparable` says so and is checked and proved, from `MaxDelay` (how far ahead a task
or an accepted timeout may lie; a timeout that is `TooLong` is refused with
`bl_invalid`) and `MaxLate` (how long after a task's moment, or the deadline of a call, the
worker is still to look at it).

### Containers: rings, lists, blocks

`Containers` picks one kind of container in its initial state and lets its user
call every operation in any order. An operation is one step, since one thread
uses a container; inside it the order of the copies matters and is kept.

* `RingBuffer`: `ring` is the begin, the size and the array of the code. `Copy`
  is a memmove inside the array, `Place` the index modulo the capacity;
  `MoveForward` and `MoveBackward` are the moves across its end, in pieces as in
  the code. `items` is history: the sequence that the user's calls define, the
  reference for all of them.
* `OrderedRing` extends it: the search, which tests the head and the tail before
  it halves the range between (`search[k]` is the range after k turns of the
  loop), and the three insertions (a new key, behind equals, before equals), with
  the side they move. `answer` is what an operation returned. What the insertions
  mean is said by counting: the new element goes behind as many as are sooner.
* `FlatDeadlines` extends that: times are numbers modulo `TimeMod`, compared by
  the sign of their difference, turned by `offset`. `now` is the clock, without
  wrap; `seen` and `polled` are history, and bound the user's behaviour: the
  header asks that `get_head_if_expired` be called often enough (`PollEvery`),
  and `MaxStale` bounds how far the offset may be behind.
* `ArrayLinkedList` and `ArrayDoublyLinkedList`: `nodes`, `head` and `size` are
  the code's; `list` is history, `mine` the nodes the user holds, `told` the node
  the last operation returned. One node value, `End`, ends a list.
* `DynArray` and `DynString`: `mem` is the block, a cell per element, with the
  length in use; `text` is history. Every request is granted or refused (`granted`);
  reading or writing outside the block makes the whole block `Junk`, so an
  overrun cannot pass. `Edited` says what a replacement should
  make of `text`. The array on the stack of `replace_gt_match` and the links it writes into the
  text (`CharValues`, `Word`) are modelled as bytes are used, since that is
  where the algorithm can fail. `Faults` names what the code does not stand
  (section 4): three failures that it does not undo, and `"signed"`, a char that is
  signed, whose upper half of values `LinkAt` reads back as negative (`Negative`) and so
  makes the place negative; from there on the block is junk. In `containers` none of
  them happens; each member given to it makes `TextHolds` fail.

### Proof modules

`MpmcBProofs`, `TmSemProofs`, `TaskQueueProofs` and `MpscIProofs` each extend the
module they are named after and begin with its inductive invariant.
`PooledQueueProofs` has the proofs about `MpmcBpm`, then instantiates `MpscIProofs` for
the composition. `ContainersProofs` and `TextProofs` extend `Containers`: the one has
the linked lists and the rings from the copies up to the clock, the other
arrays and strings. `Lemmas` has the facts about sequences, sets and numbers that
five of them need. Section 5 tells what they prove.

### MC modules and mutants

`MCMpmcB`, `MCTmSem`, `MCTaskQueue`, `MCPooledQueue` and `MCContainers` declare
threads as model values and define symmetry and argument sets. A definition
whose name ends in `Mutant` is not part of a model: it is a plausible mistake in
the definition after it, and each property of a passing run has one that breaks
it.

## 3. The runs

| Run | Instance | What it shows |
|---|---|---|
| `mpmc_wrap` | one multi and one fifo producer, 2 consumers, 2 slots, 8 tickets, producers begin up to ticket 9 | exclusive chunks, payloads under their tickets and the inductive invariant of the proofs, past the wrap |
| `mpmc_block` | 2 producers that fall back on a signal, a consumer, a signaller with both functions, a blocker that may call again | the block is final, it alone makes "locked", fall backs are honoured, errors true when given, the promise is kept |
| `mpmc_fifo` | 2 fifo producers on 4 slots, single mode consumer, fairness | every ticket taken is consumed, the promise is kept |
| `mpmc_single` | single mode producer, 2 multi mode consumers, fairness | stores in place of CASes keep the promise, errors true when given, every operation returns |
| `mpmc_locked` | as `mpmc_fifo`, up to ticket 9, expected to fail | section 4 |
| `tm_sem` | 2 signallers, a timed and an untimed waiter, an owner, both fields up to 2 | no lost wake up, waiters counted, signals taken, a counting semaphore |
| `taskq` | 2 posters, a blocker, the worker; 3 commands of all kinds, queue and list of 2, timeouts good and too long, clock of 10 time points over its wrap | wake ups, one callback each, delayed tasks in order and not early, answers, the block is final; the moments compared lie within half a turn |
| `taskq_live` | the same threads, 2 commands, queue and list of 1, `Tmin` 1, fairness | accepted tasks are called unless the worker stops; a block ends the worker's call |
| `pool` | 4 slots, chunks of 1 and 2; as a queue a producer, 2 consumers and a signaller over 6 tickets, as an allocator 2 producers and the consumer of the list | chunks apart, payloads and sizes kept, nodes in order with their tags, no write after a release, true answers |
| `containers` | rings and lists of 4, clock of 12 time points that wraps, texts of 6 characters | rings, lists and texts hold what their users put in; indexes, nodes and expiries told are right |
| `taskq_planned` | as `taskq`, expected to fail | section 4 |
| `taskq_idle` | one delayed task, an idle worker that polls, clock of 8 time points, expected to fail | section 4 |

Why the bounds are enough. Two slots with three or four tickets take the queue
through full, empty and a second lap with every pair of threads in each other's
way, and a block adds its jump of two laps; nine tickets of a field of eight go
through four laps and its wrap. Four slots with six tickets let a fifo producer wait a lap
behind, and are too few to overtake it by a lap after it looked at its slot:
nine tickets are enough for that, and `mpmc_locked` shows what happens then. What
the runs leave out (other modes past the wrap, more threads) is proved. In `tm_sem` two
signallers and two waiters suffice for every race of the code, which never
relates more than one signaller, one waiter and the one that steals the signal;
the count of signals reaches its limit. The limit on waiters is not reached by
two waiters (the check of it is covered by the proof, for every width). In
`taskq` two posters race each other, the blocker and the worker; three commands
are a task with its cancel and a third, or a full list and one more; two moments give
"same time" and "earlier". The clock starts two ticks before it wraps, and what is ahead of it
lies beyond the wrap; `MaxStale` and `MaxDelay` together are one tick less than
half a turn, the most that is right, and `taskq_idle` shows what happens beyond. In `pool` chunks of two in four slots start at every
place, the array's last slot included; the queue uses half of its slots a second
time; the allocator's slots go through the list and back while the other producer
is anywhere. In `containers` a ring of four has a middle between two tested ends
and every begin; lists of four have inner nodes with inner neighbours; `TimeMod`
12 is the smallest clock in which the times a user may list, with the offset as
stale as `MaxStale` allows, span less than half of it, as the header demands;
six characters hold more matches than the stack array of the instance has
places, and characters of two bits need two or more of them for a link.

Bounds, all named constants: `MaxTicket` (nobody begins past it), `MaxLag`,
`MaxPosts`, `MaxTime` and `MaxNow` (the clock and the deadlines stop there),
`MaxLate` and `MaxStale` (the clock waits for the worker), `MaxBatch`, `MaxLen`, `MaxReplaced`.
`CHECK_DEADLOCK FALSE` is given where the system stops: after destroy, and in
the task queue when no more commands are left to post and the worker sleeps
without deadline.

Fairness:

* `MpmcB` (`FairSpec`): the scheduler runs a thread inside a call (weak fairness
  on its steps), a weak CAS that could succeed again and again does not fail
  spuriously for ever (strong fairness of its success), and consumers poll.
  Producers need not call again, and no one need block or signal. A CAS that
  fails because another thread moved the word is not covered by the fairness:
  that the loop ends is a consequence of the bound on tickets.
* `TmSem`: weak fairness of threads inside a call, strong fairness of a CAS (a
  weak CAS tried for ever succeeds in the end). Nobody need call, time out
  before time, or be interrupted; an untimed sleeper is woken by others only.
* `TaskQueue`: the worker calls again and again, as its header asks, threads
  inside a call run, the clock runs. Posting, blocking and winning a CAS are
  not fair.
* `PooledQueue` and `Containers` state no liveness.

## 4. Findings

Three runs are expected to fail; each states what the repository says.

* `mpmc_locked`: `bl_mpmc_b_fifo_produce_prepare_is_ready` reads the version of its
  slot, finds it not free, and then loads `push_slot` to see whether the queue
  was blocked (`mpmc_b.c:197-200`). When the slot was freed in between and other
  producers took `slot_count` further tickets, the caller is told `bl_locked`,
  although nobody called `block_producers` and there are more slots than fifo
  producers, as `mpmc_b.h:66` asks. `mpmc_b.h:241` says "The queue is blocked for
  producers, you can safely fall back": a producer that does leaves a hole that
  the consumers never pass.
* `taskq_planned`: a post that reserved its ticket before the block and commits
  after the worker found nothing returns `bl_ok` and is never called, against
  "Will run every planned task" of the first shutdown procedure.
* `taskq_idle`: `get_head_if_expired` on an empty list leaves `time_offset`
  where it was (`flat_deadlines.c:31`). `bl_taskq_try_run_one` polls its list
  before every command (`task_queue.c:152`), as `flat_deadlines.h:12` asks ("it should
  be updated frequently"), but a worker that has had no delayed task for half of the
  clock's range (2^31 time points) runs the next one at once, although it was
  posted for later (`task_queue.h:111`, "Posts an delayed/timed event"). A list of
  deadlines of its own, polled while empty, fails in the same way.

Limits of the code met while modelling, which the models keep out by a named
precondition or bound; no run is spent on them:

* `bl_mpmc_b`: the difference in `check_ver` (`mpmc_b.c:89`) is not sign extended
  from 26 bits, so at the wrap of the field an operation on a full or empty queue
  is told `busy`: the assertion in `prepare_s` (`:164`) fails there, a multi mode
  operation spins until somebody else moves the queue, a producer of a full queue
  is told that it is locked. `NoBusy` is proved before the wrap
  (`NeverBusy`), and no run checks it. `mpmc_bpm.c:111`
  has the same difference.
* With fifo producers and multi mode producers on one queue and two consumers, a
  multi mode producer can be told "would overflow" of a slot that a fifo producer
  has claimed since, before it was free, when the slot after it is free
  already: the answer was true when the word was loaded and is not when
  it is given. `ErrorsAreTrue` and `ImplementsPromise` are stated of the step that
  gives the answer; they are proved for queues that do not mix the two modes
  (`Unmixed`), and no run checks them on one that does.
* A second `block_producers` finds the flag set and returns before the first has
  jumped (`mpmc_b.c:68`): a producer may enter after it. `BlockHolds` is checked
  and proved for one blocker; for several it is proved of the jump (`JumpIsFinal`).
* After a block a waiting fifo producer is told it can fall back
  (`mpmc_b.c:200`), but its ticket is in front of committed ones, and the consumer
  is told empty for ever. `Consumed` is checked without a blocker.
* `bl_mpmc_bpm`: a thread that a whole lap overtook looks for a version where a
  payload lies, and answers `would_overflow` or `empty` by chance
  (`AnswersAreTrue` says so). `bl_locked` is documented and never returned,
  `*mem` is not cleared on an error, and the flag that enables fairness has the
  value zero, so it has no effect.
* `bl_ringb_drop_range` copies the elements before the range upwards over
  themselves when they are more than those dropped, and sets `begin` to a count
  (`ringbuffer_extended.c:102`): `DropsRight` is where it works.
  `bl_ringb_adjacent_elems_from` (`ringbuffer.h:85`) leaves `begin` out.
* `drop` of the first of several nodes of a singly linked list loses the others
  (`array_linked_list_u16_extended.c:72`): `DropsLater`. `drop_head` and
  `drop_tail` of an empty doubly linked list fail an assertion.
* `bl_flat_deadlines_get_tail` (`flat_deadlines.h:67`) returns the head;
  `try_get_and_drop` compares the id of one entry more than those of the time.
* A replacement that grows links the matches through the text and reads the places
  back through a plain `char` pointer (`dynamic_string_replace.c:106`). Where `char` is
  signed, as with gcc on x86 (the build sets no `-funsigned-char`), a byte of 128 or
  more is sign extended and sets all bits above it: the place of the match before
  becomes one in front of the string, and the loop goes on to read and write there. It
  takes two matches, the first at place 128 or more. `Faults` has it as `"signed"`.
* Strings: when the second request of a formatting is refused (`string.c:31`),
  the text written is cut and `len` has no terminator behind it; a read error of
  a file overwrites the terminator; the answer of a replacement whose array of
  matches cannot grow is `bl_ok`, the inner `err` hides the outer
  (`dynamic_string_replace.c:146`). These are the other three `Faults`. Also:
  `insert_va` before the last character appends
  (`dynamic_string.c:151`), and does not free its string on an error; inserting
  an empty string is an error while appending one is not.
* `run_one` after a block returns nothing to do while delayed tasks are pending,
  though the first shutdown procedure says it waits for them; the second shutdown
  example skips its cancel loop when `run_one` returned nothing to do or a time
  out.
* The microsecond assertion of `timept32_deadline` uses the nanosecond maximum;
  `mpmc_b.h` asks for more slots than fifo producers at line 66 and for no fewer
  at line 214; `sleep_ns * 2048` in the back-off overflows with 32 bit time offsets from
  about one millisecond on.

## 5. Proofs

Eight modules of theorems: `MpmcBProofs`, `TmSemProofs`, `TaskQueueProofs`,
`MpscIProofs`, `PooledQueueProofs`, `ContainersProofs`, `TextProofs`, and `Lemmas`
under five of them.
Assumptions are the named `ASSUME`s of the modules: `SizeAssumption`
(the slots divide the tickets, at least four laps fit, `MaxLag` leaves three laps
of a turn), `ModeAssumption` (a single mode side has one thread and no other mode;
both from `mpmc_b.h`), `SemAssumption` (finite, disjoint sets of threads; fields
of at least one bit), `TaskQueueAssumption`, `ClockAssumption` (`MaxDelay` and `MaxLate` together
are less than half a turn, and a timeout is within `MaxDelay` or too long), `PoolAssumption` and `PullerAssumption`;
and of the containers `RingAssumption` (the capacity is a power of two, as
`bl_ringb_init_extern` demands), `TimeAssumption` (an even number of time points, users that
begin within the clock's bound), `ValuesAssumption` (the times in a plain ring are
time points), `EndAssumption`, `WordAssumption` (the range of a word is well above the
lengths) and `LengthsAssumption` (the unit of allocation and the default hint are not 0, a char has
two values or more). A theorem that needs more names it in its statement:

* `BelowWrap` (`MpmcB`, `MpmcBpm`): the push ticket and one lap more fit in the
  field. What is said of answers is false at the wrap (section 4), and
  `MpmcBpm` models none. `NeverWraps`, in either module, derives it from
  `FieldSuffices`: the field has room for `MaxTicket`, for what every producer
  inside may still take, and for the jump of a block. The real field holds 2^26
  tickets.
* `NoneOvertaken` (`MpmcB`): no fifo producer that waits is a lap behind the push
  ticket. It is what the comparison at `mpmc_b.c:200` presumes and the code does
  not ensure: `mpmc_locked`. It also excludes a block while one waits, which leaves
  its ticket to nobody (section 4). It says nothing when there are no fifo producers.
* `Unmixed` (`MpmcB`): fifo and multi mode producers do not share a queue (section 4).
* `ListAssumption` (`MpscI`): distinct roles, nodes and marks. It is a hypothesis so that the
  theorems can be instantiated; `PooledQueueProofs` proves it of the pool.
* `Near` (`Containers`): the time points that a list of deadlines compares lie less
  than half a turn of the clock apart, without which the sign of their difference says
  nothing. It is true of every other kind of container. `FreshRunsAreNear` derives it
  from `TurnSuffices`, a condition on the constants.
* `TurnSuffices` (`TaskQueue`, for `NeverEarly` only): `MaxStale` and `MaxDelay` together are
  less than half a turn. The code does not ensure it: `taskq_idle`.
* `Undone` (`Containers`, strings only): none of the three failures of section 4 that the
  code does not undo happens, and if a char is signed then a string has no more characters
  than a char has values that are not negative (128), beyond which links
  are misread (section 4). Every other refusal and failure may happen, at any time.

**MpmcB.** The properties are not inductive: that two producers cannot hold one
slot depends on what the version of the slot is, which depends on who
holds the tickets a lap before and after. `Inv` says it all:

* `ThreadsOK`: the word a thread holds is at most `MaxLag` behind (`LoopOK`); a
  version found good is still good if the word has not moved (`CheckOK`); a
  producer's ticket is not yet consumed and its slot's version is its own
  once it owns the chunk (`ProducerOK`); a consumer's chunk is committed and
  holds its ticket's payload (`ConsumerOK`);
* `TicketsOK`: a ticket has one producer and one consumer at most;
* `WordsOK`: pop never passes push, or the fence once blocked, and they never
  drift apart by as much as the field can tell; `BlockersOK`: one blocker jumps;
* `VersionsOK`: the version of every slot is that of its next consumer's
  ticket, free, being written or ready, or still in use a lap before.

The argument: `VerdictExact` shows that within `MaxLag` the wrapped difference
decides as the unwrapped would where the answer is "ok"; `MatchExact` that a
CAS succeeds only on an unchanged ticket; the steps then follow action by
action. From `Inv` follow `Invariance`, `TypeCorrect`, `Exclusion` (no two
threads in a chunk), `ReadsCorrect`, `FallbackRespected`, and `JumpIsFinal`: once
the push ticket was jumped ahead no producer gets a new chunk, however many threads block. `BlockIsFinal`
says it of a call that has returned, and assumes one blocker: with two it is false
(section 4). These hold past any number of wraps.

Answers need more than `Inv`: that no slot is forgotten. `Accounted` says it below
the wrap, in four parts: every ticket taken and not ready has its producer
(`Outstanding`), every slot that is still a lap behind has its consumer
(`Reading`), the word a producer has loaded is none of those the jump skipped
(`BeforeJump`), and a consumer has no payload before it reads one (`Unread`). It is inductive beside `Inv` (`NothingForgotten`), with `NoneOvertaken`,
since a fifo producer that falls back leaves a ticket to nobody. `StepEffect`
sums each step up by what it does to the shared words, so that the proofs about
answers go by a few kinds of step and not by twenty actions. From it come

* `NeverBusy`: the assertion of single mode and that multi mode answers no "busy";
* `WhyLocked`: "locked" is the answer of a blocked queue only;
* `ErrorsTrue`: "would overflow" and "empty" are true at the step that gives them;
* `KeepsPromise`: each step is one of `TicketFifo` or a stutter. The step that
  matters is a CAS: the ticket it takes in the model is the next of the promise,
  the slot is free there too, and nobody claimed it;
* `NeverWraps`, by counting: push plus the producers inside a loop is bounded;
* `WithoutFifo`, which puts them together: in multi and single mode, with a field
  that suffices, all four hold with no further hypothesis.

**TmSem.** `Inv` is `TypeOK`, `WaitersCounted`, `NoLostWakeup` and `SeenOK`. The
types need the count: a waiter that gives up subtracts one unread, which
borrows unless it was counted. `NoLostWakeup` needs `SeenOK`, since whether a
signaller wakes anybody depends on the word it replaced. Theorems `TypeCorrect`,
`WaitersAreCounted`, `NoWakeupIsLost`, and `KeepsPromise`: each step of the
semaphore is a step of `CountingSem` or a stutter under the mapping.

**TaskQueue.** The invariant adds to the types: `SignalOK` (a worker announced as
waiting has consumed every ticket taken; a block that it heard of stays),
`NoLostWakeup`, `SlowOK` (in `run_one`'s slow path the worker sleeps to the user's
deadline or to one that its list's first task does not pass, and when a sleep
timed out with no task expired it was the user's), `ListOK` and `CalledOK` (the list
holds, once each, the delayed tasks that were consumed and had no callback;
every other consumed task had one), `Sorted` (by time, then by ticket) and `TimesOK` (what
anybody waits for is at most `MaxDelay` ahead of the clock and `MaxLate` behind it, and the
offset at most `MaxStale` behind).
`CalledOK` says of a ticket what happened to it, and so needs `ListOK`: a task that is
expired or cancelled leaves the list as it gets its callback. `AnswersAreTrue`
needs `SlowOK`, the reason for an answer being found steps earlier. `Effect` sums
up what a step does to tasks as one of four: nothing, a call, an insertion, or a
task leaving the list. Since `TimesOK` keeps all
moments within half a turn, the code's comparisons are those of the numbers (`NearCompare`),
past any number of wraps: `WrapIsHarmless`. It says nothing of the offset, of which the code
promises less; `NeverEarly` needs `TurnSuffices` for it. Proved for any number of
threads, capacities and times: `TypeCorrect`, `NoWakeupIsLost`, `AnswersTrue`,
`NeverEarly`, `Conservation` (one callback each), `InDueOrder` and `BlockSeals`: all
safety properties that its runs check and that hold.

**MpmcBpm.** `Held` are the chunks reserved and not wholly free. `HeldOK`: they are of
the last lap of tickets and share no memory, and the first slot's version tells
whether a chunk is committed. `OwnersOK`: who has which. `CheckOK`: what a thread
has found in the slots it looked at one by one still holds if its word has not
changed; this is what makes one CAS for many slots right. `FreeOK`: a release
frees slot after slot, the first one last. `VersionsOK`: a version is that of the next lap,
or the slot is held; a payload lies only over slots after the first. `DataOK`
and `QueueOK`: payloads stay, and the chunks not consumed follow one another
from word to word. From it `TypeCorrect`, `ChunksNeverShare` and `PayloadStays`. `AnswersTrue`
rests on three facts more (`Passed`): versions never lag behind the last lap,
consumers do not pass a chunk that is not committed, and their word never
points inside one. `PromisesKept` combines them with `NeverWraps`.

**MpscI.** The list is cut in two wherever a producer has exchanged the tail and not
yet linked. `Shape(k)` says that each node of `order`, with the stable node at
place k among them or nowhere, is linked to the one after it, or that a thread is
about to. `PullerOK` ties k to where the consumer is; `Owners` keeps the nodes
in the queue distinct and apart from those of the users; `TagsOK` keeps each tag
with its node. The invariant is that there is such a k. A step either keeps the
shape (a link is made), extends it (an exchange) or shortens it (a node
is given). `LateWritesNever`, `AnswersTrue` and `OutInOrder` follow.

**PooledQueue.** The invariants of the two parts, and what ties them (`Joined`): a
node in the list or at the consumer is a chunk in use, and the chunks that
producers hold are in use, each held once, and no nodes yet. Each step of the composition is a step of one part that
keeps to the other's rules (`PoolStep`): so the composition implements the
allocator's specification (`KeepsToAllocator`), and what was proved of it carries
over (`PoolKeepsPromises`); the list's steps are those of `MpscI`, which gives
`NodesComeInOrder`, `ListTellsTruth` and `LinksLandInNodes`: no late link lands in
memory that was allocated again.

**Containers, linked lists.** `ListInv` adds to `ListHolds` that no node is in the history
twice and that links are nodes or the end. Without it a node found by its link would
not have one place. `NodeAt(s, i)` is the node at place i of a sequence, or the end
beside it: read with it, all four cases of a node's place are one (`Linked`, `Chained`).
An insertion at either end and the removal of the node at place i are each a lemma on
links and sequences (`Unlinking`, `Unchaining`); an operation only has to be shown
to write those links. That following the links visits the history, which is how
`ListHolds` and the walk of the singly linked list's drop are stated, is a recursive
function over places, settled by a least place where it would fail. `ListsAreLinked` is
the result, for every number of nodes.

**Containers, rings.** `RingIs(r, s)` says that the ring r holds the sequence s: place i is
`Wrapped(s[i])`, wherever the array's end lies between. The argument goes up in layers:
`Copy` (a memmove within the array); `MoveForward` and `MoveBackward`, which
do in three or four copies what one move modulo the capacity would (`MovingForward`,
`MovingBackward`: each piece may overlap the last and must come in this order);
`Insert`, `Drop` and `DropRange`, which choose the shorter side to move, against
`InsertAt`, `RemoveAt` and `SubSeq` of the sequence; then the
search (`Searching`). Its loop is reasoned about by one lemma of `Lemmas`, `Iterating`: a
function given by its turns has an invariant if each turn keeps it. With it
`FindEqOrGt` and `AfterEquals` count the elements sooner than, and not later than, the
one sought, if the ring is in order, so that an insertion there keeps it so.

`RingInv` is `RingIs` of the ring and the history, the order of the ordered kinds, the
times a kind may hold, and, of deadlines, that the offset is the time point of a moment since
the list was made. `RingsHold`, `AnswersAreRight` (no hypothesis) and, with `[]Near`,
`DeadlinesAreRight` and `NoneIsEarly` follow, for every capacity and start of the clock. `Comparing` is
the fact they need of the clock: within half a turn the wrapped difference is the real one,
and turning both time points by the offset changes nothing.

`[]Near` is what users must ensure and what a list left empty for half a turn breaks (section 4).
`FreshInv` shows how: the offset is at most `MaxStale` behind, an entry is not due more than
`MaxStale` before the offset or was inserted since. It is inductive because the offset is set
only when the head is not yet due by the old one (`FreshHead`): the code's early return, which
leaves the offset alone when the head has expired, is needed there. So
`DutyIsEnough`: if half a turn holds the delays and twice the staleness
(`TurnSuffices`), the deadlines' results hold with no further hypothesis and for a clock that wraps
any number of times. The instance of `containers` (staleness 2, delays from -1 to 2, half a turn of 6)
satisfies it with nothing to spare.

**Containers, arrays and strings.** `TextInv` says `Carries(mem, text)`, the block has the
text in its first cells and as many in use, and of a string that there is a terminator
behind it (`Ended`) and that the text is within its bound. It is inductive because
an operation's result says the same of its block whether it succeeds or not (`Made`):
the edited text if it answers ok, what was there before if not. The proof goes from
`Put`, `Cells`, `Move` and `Fit` (what each leaves in which cell) over the requests of the
allocator (`Resized`, `Roomy`) to one lemma for each operation; reading or writing outside
the block makes it junk in the model, so each proof shows that every copy stays inside.
`FindLIs` shows that the search, which looks for the first character and then
compares the rest, gives the least place of a match. From it come `ArraysHold` (no hypothesis)
and, under `Undone`, `TextsHold`: all of `TextHolds`.

A replacement is the long part, since what it should make of the text (`Edited`) is
recursive over the text from the left, and the code makes it in three ways.
`EditsAre` opens the recursion: from place p on with c matches allowed, the edited text is the
text up to the first match, the replacement, and the edited text behind the match
with c - 1 (`Goes`). It is stated of the function that the recursion defines, for
which `EditExists` finds a witness, and settled by a greatest place where it would fail.

* By no more characters (`ReplacedLessIs`): one pass over the block. `LessIs` is the loop's
  invariant: the cells in front of the write position show what is edited so far, and
  from the read position on they are the text's.
* With an array of places (`ReplacedKeptIs`): the search collects the places p (`Found`:
  they are those of the matches that the edited text replaces, and it goes on behind
  the last). The pass backwards moves the part behind match j up by j times the
  difference (`Lift`) and puts the replacement before it; `BackIs` says that from there on
  the cells show the edited text's end, and before it they are untouched (`BackStep`).
* Through links (`ReplacedLinkedIs`): the same pass, but the places are in the matches:
  each holds that of the one before, as chars. `LinkIs` shows that a place below the length is read
  as it was written if `LenBytes` chars are used and none of them is negative (`Legible`); `LinksIn` that a link is
  never written over before it is read, and that nothing outside the matches changes
  (`Outside`), since the search for the next match runs over a text that is already cut up.

That a loop makes enough turns, and has stopped by then, is the same argument
each time (`LessEnds`, `KeepEnds`, `LinkEnds`): each turn counts one more match or
changes nothing, and a text has no more matches than characters.

Only model-checked: liveness (`Consumed`, `Returns`, `SignalTaken`,
`AcceptedIsCalled`, `BlockEndsCall`), which TLAPS does not reach here. Every safety
property and action property of a passing run is proved. That `LockedIsTrue` fails
without `NoneOvertaken` is shown by the run `mpmc_locked`.

## 6. Not modelled

* Relaxed memory: every atomic operation is a step of its own, in one order.
* Allocation failures and sizes in the init functions of the queues; the
  variant of the semaphore that returns on EINTR, and kernel errors other than
  EINTR and ETIMEDOUT.
* In `bl_mpmc_bpm` the wrap of the ticket field, `signal_try_set_tmatch` (the same
  functions as in `MpmcB`) and the loop that gives other threads a turn.
* `bl_nonblock_backoff`: two counters and a sleep time that one thread advances;
  no other part of the library calls it.
* The generated instances of 8, 32 and 64 bits of the linked lists, which differ
  in the width of a link.
* Time conversions (generated arithmetic), `itostr` and hexadecimal strings
  (formatting), `getopt` (text), serial ports, threads and the semaphore of
  windows (wrappers of the operating system), error codes, the portability
  headers (macros).

The map covers a small share of the tree's lines. Most of the others are macro
tables (`preprocessor_inc_dec.h` alone has 8297 lines), vendored headers
(`bsd_queue.h`, `bsd_tree.h`), one wrapper per compiler of each atomic operation,
device set up, and the generated instances named above: no state changes there
that a model could relate to another.

## 7. Plan

Done: `MpmcB` with `TicketFifo`; `TmSem` with `CountingSem`; `TaskQueue`, which
composes what both promise; `MpmcBpm` and `MpscI`, composed in `PooledQueue`; the
containers. Every safety property that a passing run checks is proved, and so are both
refinements.

Left:

1. The `Faults` with a weaker promise: what a string still holds after one.
2. The wrap of the ticket field in `MpmcBpm`, as `MpmcB` has it.
