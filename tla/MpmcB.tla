------------------------------- MODULE MpmcB -------------------------------
(***************************************************************************)
(* bl_mpmc_b, the bounded multi producer multi consumer queue              *)
(* (src/src/bl/nonblock/mpmc_b.c, mpmc_b_common.c), one action per access  *)
(* to shared memory.                                                       *)
(*                                                                         *)
(* The two operation words, push_slot and pop_slot, hold a ticket in their *)
(* low 26 bits and a signal in the 6 above.  A ticket variable here holds  *)
(* the number the ticket field would have reached had it never wrapped;    *)
(* the code sees it only through ticket_decode, and so does every          *)
(* comparison below.  The constants give the width of both fields.         *)
(***************************************************************************)
EXTENDS Integers

CONSTANTS
  MP, FP, SP,   \* threads that produce in multi, fifo and single mode
  MC, SC,       \* threads that consume in multi and single mode
  Blockers,     \* threads that call bl_mpmc_b_block_producers
  Signallers,   \* threads that call the signal_try_set functions
  SlotCount,    \* slot_count, after init has rounded it
  TicketMod,    \* 2^bl_mpmc_b_ticket_bits
  SigMod,       \* 2^bl_mpmc_b_signal_bits
  Calls,        \* arguments of prepare_sig_fallback
  SigCalls,     \* arguments of the signal_try_set functions
  MaxTicket,    \* bound: no producer begins past this ticket
  MaxLag        \* bound: tickets that pass while a thread is inside a CAS loop

Producers == MP \cup FP \cup SP
Consumers == MC \cup SC
Single    == SP \cup SC
Threads   == Producers \cup Consumers \cup Blockers \cup Signallers
Sides     == {"push", "pop"}
Sigs      == 0..(SigMod - 1)
None      == -1          \* no ticket; also the ticket of bl_mpmc_b_first_op

(* The fallback mask and match stand for the set of signals they select.   *)
Call    == [replace : BOOLEAN, sig : Sigs, fallback : SUBSET Sigs]
SigCall == [side : Sides, tmatch : BOOLEAN, expected : Sigs, desired : Sigs]

(* A queue is used in one mode per side, block_producers only in mp mode   *)
(* (mpmc_b.h), and slot_count is at most a quarter of the tickets.         *)
ASSUME SizeAssumption ==
  /\ SlotCount \in Nat /\ SlotCount >= 2
  /\ TicketMod \in Nat /\ TicketMod % SlotCount = 0
  /\ TicketMod >= 4 * SlotCount
  /\ MaxTicket \in Nat
  /\ MaxLag \in Nat /\ MaxLag >= SlotCount
  /\ MaxLag + 3 * SlotCount <= TicketMod
  /\ SigMod \in Nat /\ SigMod >= 1
  /\ Calls \subseteq Call /\ SigCalls \subseteq SigCall

ASSUME ModeAssumption ==
  /\ Producers \cap Consumers = {}
  /\ (Producers \cup Consumers) \cap (Blockers \cup Signallers) = {}
  /\ Blockers \cap Signallers = {}
  /\ MP \cap FP = {}
  /\ SP # {} => MP \cup FP \cup Blockers = {} /\ \A p, q \in SP : p = q
  /\ SC # {} => MC = {} /\ \A c, d \in SC : c = d

VARIABLES
  tkt, sig,   \* the ticket and the signal of each operation word, by side
  ver,        \* each slot's version
  data,       \* the ticket under which each slot's payload was written
  flags,      \* block_producers is set
  pc,         \* where each thread is
  now, sg,    \* the operation word each thread holds: ticket and signal
  arg,        \* the arguments of each thread's call
  val,        \* the payload each consumer has read
  res,        \* what each thread's last operation returned
  fence       \* history: the push ticket that block_producers jumped from

queue  == <<tkt, sig, ver, data, flags, fence>>
locals == <<pc, now, sg, arg, val, res>>
vars   == <<tkt, sig, ver, data, flags, pc, now, sg, arg, val, res, fence>>

(* A definition whose name ends in "Mutant" is not part of the model: it is *)
(* a wrong version of the definition after it, kept to show that a property *)
(* would notice the mistake.                                               *)

(* The mask of another field.                                              *)
TkMutant(t) == t % SlotCount

Tk(t)   == t % TicketMod          \* ticket_decode
Slot(t) == t % SlotCount          \* slot_addr: slot_count divides TicketMod

Side(t) == IF t \in Producers THEN "push" ELSE "pop"
(* A consumer looks for the version of a slot that is free.                *)
OffsetMutant(t) == 0

Offset(t) == IF t \in Producers THEN 0 ELSE 1
NoData(t) == IF t \in Producers THEN "would_overflow" ELSE "empty"

NoCall    == [replace |-> FALSE, sig |-> 0, fallback |-> {}]
NoSigCall == [side |-> "push", tmatch |-> FALSE, expected |-> 0, desired |-> 0]

Init ==
  /\ tkt  = [s \in Sides |-> 0]
  /\ sig  = [s \in Sides |-> 0]
  /\ ver  = [i \in 0..(SlotCount - 1) |-> i]
  /\ data = [i \in 0..(SlotCount - 1) |-> None]
  /\ flags = FALSE
  /\ pc   = [t \in Threads |-> "idle"]
  /\ now  = [t \in Threads |-> None]
  /\ sg   = [t \in Threads |-> 0]
  /\ arg  = [t \in Threads |-> IF t \in Signallers THEN NoSigCall ELSE NoCall]
  /\ val  = [t \in Threads |-> None]
  /\ res  = [t \in Threads |-> "none"]
  /\ fence = None

---------------------------------------------------------------------------
(* Shared by the operations.                                               *)

(* Threads that hold an operation word they are going to compare or use.   *)
InLoop(t, s) ==
  \/ pc[t] \in {"check", "cas", "store"} /\ Side(t) = s
  \/ pc[t] = "sigcas" /\ arg[t].side = s

(* The word of a side may grow by k tickets: MaxLag is not exceeded.       *)
Room(s, k) ==
  \A t \in Threads : InLoop(t, s) => tkt[s] + k - now[t] <= MaxLag

(* The ticket field grew to n by an addition to the whole word: what it    *)
(* carries out of its bits is added to the signal.                         *)
Carried(s, n) ==
  (sig[s] + (n \div TicketMod) - (tkt[s] \div TicketMod)) % SigMod

(* The thread was late, and takes that for a queue with no data.           *)
VerdictLateMutant(t) ==
  LET status == Tk(ver[Slot(now[t])]) - Tk(now[t] + Offset(t))
  IN  CASE status = 0                -> "ok"
        [] status > -(2 * SlotCount) /\ status # 0 -> NoData(t)
        [] OTHER                     -> "locked"

(* One lap less is taken for a blocked queue.                              *)
VerdictLapMutant(t) ==
  LET status == Tk(ver[Slot(now[t])]) - Tk(now[t] + Offset(t))
  IN  CASE status = 0          -> "ok"
        [] status > 0          -> "busy"
        [] status > -SlotCount /\ status < 0 -> NoData(t)
        [] OTHER               -> "locked"

(* prepare_m_check_ver: what the version of the slot says of t's ticket.   *)
Verdict(t) ==
  LET status == Tk(ver[Slot(now[t])]) - Tk(now[t] + Offset(t))
  IN  CASE status = 0                -> "ok"
        [] status > 0                -> "busy"
        [] status < 0 /\ status > -(2 * SlotCount) -> NoData(t)
        [] OTHER                     -> "locked"

Return(t, why) ==
  /\ pc'  = [pc EXCEPT ![t] = "idle"]
  /\ now' = [now EXCEPT ![t] = None]
  /\ sg'  = [sg EXCEPT ![t] = 0]
  /\ arg' = [arg EXCEPT ![t] = NoCall]
  /\ res' = [res EXCEPT ![t] = why]

Goto(t, place) == pc' = [pc EXCEPT ![t] = place]

---------------------------------------------------------------------------
(* Multi mode: prepare_sig_fallback_m, for producers and consumers.        *)

(* The word was loaded: give up on the caller's signals, or check the slot.*)
Loaded(t, a) ==
  LET s == Side(t)
  IN  IF sig[s] \in a.fallback
        THEN Return(t, "preconditions")
        ELSE /\ Goto(t, "check")
             /\ now' = [now EXCEPT ![t] = tkt[s]]
             /\ sg'  = [sg EXCEPT ![t] = sig[s]]
             /\ arg' = [arg EXCEPT ![t] = a]
             /\ UNCHANGED res

Prepare(t, a) ==
  /\ pc[t] = "idle" /\ (t \in MP => tkt["push"] < MaxTicket)
  /\ Loaded(t, a)
  /\ UNCHANGED <<queue, val>>

Reload(t) ==
  /\ pc[t] = "reload"
  /\ Loaded(t, arg[t])
  /\ UNCHANGED <<queue, val>>

(* The check is retried with the word that was found to be old.            *)
CheckMultiMutant(t) ==
  /\ pc[t] = "check" /\ t \notin Single
  /\ LET v == Verdict(t)
     IN  \/ v = "ok" /\ Goto(t, "cas") /\ UNCHANGED <<now, sg, arg, res>>
         \/ v = "busy" /\ Goto(t, "check") /\ UNCHANGED <<now, sg, arg, res>>
         \/ v \notin {"ok", "busy"} /\ Return(t, v)
  /\ UNCHANGED <<queue, val>>

CheckMulti(t) ==
  /\ pc[t] = "check" /\ t \notin Single
  /\ LET v == Verdict(t)
     IN  \/ v = "ok" /\ Goto(t, "cas") /\ UNCHANGED <<now, sg, arg, res>>
         \/ v = "busy" /\ Goto(t, "reload") /\ UNCHANGED <<now, sg, arg, res>>
         \/ v \notin {"ok", "busy"} /\ Return(t, v)
  /\ UNCHANGED <<queue, val>>

(* Only one field of the word is compared.                                 *)
MatchesTicketMutant(t, s) == Tk(tkt[s]) = Tk(now[t])
MatchesSignalMutant(t, s) == sig[s] = sg[t]

(* The words are equal and the weak CAS does not fail spuriously.          *)
Matches(t, s) == Tk(tkt[s]) = Tk(now[t]) /\ sig[s] = sg[t]

CasTakes(t) ==
  LET s == Side(t)
  IN  /\ pc[t] = "cas" /\ Matches(t, s) /\ Room(s, 1)
      /\ tkt' = [tkt EXCEPT ![s] = @ + 1]
      /\ sig' = [sig EXCEPT ![s] = IF arg[t].replace THEN arg[t].sig ELSE @]
      /\ now' = [now EXCEPT ![t] = tkt[s]]
      /\ Goto(t, "own")
      /\ UNCHANGED <<ver, data, flags, sg, arg, val, res, fence>>

(* The word has changed, or the weak CAS fails although it has not.        *)
CasFails(t) ==
  /\ pc[t] = "cas"
  /\ Loaded(t, arg[t])
  /\ UNCHANGED <<queue, val>>

---------------------------------------------------------------------------
(* Single mode: prepare_s.  The word is stored, with signal 0, not CASed.  *)

PrepareSingle(t) ==
  /\ pc[t] = "idle" /\ (t \in SP => tkt["push"] < MaxTicket)
  /\ Loaded(t, NoCall)
  /\ UNCHANGED <<queue, val>>

(* A full queue is not noticed.                                            *)
CheckSingleMutant(t) ==
  /\ pc[t] = "check" /\ t \in Single
  /\ LET v == Verdict(t)
     IN  \/ v \in {"ok", "would_overflow"} /\ Goto(t, "store")
                                       /\ UNCHANGED <<now, sg, arg, res>>
         \/ v \notin {"ok", "would_overflow"} /\ Return(t, v)
  /\ UNCHANGED <<queue, val>>

(* An error other than "no data" fails the assertion; without assertions   *)
(* it is returned.                                                         *)
CheckSingle(t) ==
  /\ pc[t] = "check" /\ t \in Single
  /\ LET v == Verdict(t)
     IN  \/ v = "ok" /\ Goto(t, "store") /\ UNCHANGED <<now, sg, arg, res>>
         \/ v # "ok" /\ Return(t, v)
  /\ UNCHANGED <<queue, val>>

StoreSingle(t) ==
  LET s == Side(t)
  IN  /\ pc[t] = "store" /\ Room(s, 1)
      /\ tkt' = [tkt EXCEPT ![s] = now[t] + 1]
      /\ sig' = [sig EXCEPT ![s] = 0]
      /\ Goto(t, "own")
      /\ UNCHANGED <<ver, data, flags, now, sg, arg, val, res, fence>>

---------------------------------------------------------------------------
(* Fifo mode: a fetch_add takes the ticket, then the producer polls.       *)

(* A load and a store instead of fetch_add: one of two additions is lost.  *)
FifoPrepareMutant(t) ==
  /\ pc[t] = "idle" /\ tkt["push"] < MaxTicket
  /\ \E added \in {0, 1} : tkt' = [tkt EXCEPT !["push"] = @ + added]
  /\ now' = [now EXCEPT ![t] = tkt["push"]]
  /\ Goto(t, "poll")
  /\ UNCHANGED <<sig, ver, data, flags, sg, arg, val, res, fence>>

FifoPrepare(t) ==
  /\ pc[t] = "idle" /\ tkt["push"] < MaxTicket
  /\ Room("push", 1) /\ tkt["push"] + 1 - tkt["pop"] <= MaxLag
  /\ tkt' = [tkt EXCEPT !["push"] = @ + 1]
  /\ sig' = [sig EXCEPT !["push"] = Carried("push", tkt["push"] + 1)]
  /\ now' = [now EXCEPT ![t] = tkt["push"]]
  /\ Goto(t, "poll")
  /\ UNCHANGED <<ver, data, flags, sg, arg, val, res, fence>>

(* fifo_produce_prepare_is_ready: the version first ...                    *)
FifoReady(t) ==
  /\ pc[t] = "poll"
  /\ LET v == Verdict(t)
     IN  \/ v = "ok" /\ Goto(t, "own") /\ UNCHANGED <<now, sg, arg, res>>
         \/ v = "would_overflow" /\ Goto(t, "ahead")
                                 /\ UNCHANGED <<now, sg, arg, res>>
         \/ v \notin {"ok", "would_overflow"} /\ Return(t, v)
  /\ UNCHANGED <<queue, val>>

(* ... then how far the word is ahead, compared as unsigned.  On any error *)
(* but would_overflow the caller falls back.                               *)
FifoAhead(t) ==
  /\ pc[t] = "ahead"
  /\ LET status == Tk(tkt["push"]) - Tk(now[t])
     IN  IF status \in 0..(SlotCount - 1)
           THEN Goto(t, "poll") /\ UNCHANGED <<now, sg, arg, res>>
           ELSE Return(t, "locked")
  /\ UNCHANGED <<queue, val>>

---------------------------------------------------------------------------
(* The owner of a chunk uses it and commits it.                            *)

WriteData(p) ==
  /\ pc[p] = "own" /\ p \in Producers
  /\ data' = [data EXCEPT ![Slot(now[p])] = now[p]]
  /\ Goto(p, "used")
  /\ UNCHANGED <<tkt, sig, ver, flags, now, sg, arg, val, res, fence>>

ReadData(c) ==
  /\ pc[c] = "own" /\ c \in Consumers
  /\ val' = [val EXCEPT ![c] = data[Slot(now[c])]]
  /\ Goto(c, "used")
  /\ UNCHANGED <<queue, now, sg, arg, res>>

(* The owner stores the slot's version v.                                  *)
Commit(t, v) ==
  /\ pc[t] = "used"
  /\ ver' = [ver EXCEPT ![Slot(now[t])] = v]
  /\ val' = [val EXCEPT ![t] = None]
  /\ Return(t, "ok")
  /\ UNCHANGED <<tkt, sig, data, flags, fence>>

(* The version is not advanced.                                            *)
ProduceCommitMutant(p) == p \in Producers /\ Commit(p, now[p])

ProduceCommit(p) == p \in Producers /\ Commit(p, now[p] + 1)

(* Not a whole lap, and a lap in the wrong direction.                      *)
ConsumeCommitShortMutant(c) == c \in Consumers /\ Commit(c, now[c] + 1)
ConsumeCommitBackMutant(c)  == c \in Consumers /\ Commit(c, now[c] - SlotCount)

ConsumeCommit(c) == c \in Consumers /\ Commit(c, now[c] + SlotCount)

---------------------------------------------------------------------------
(* bl_mpmc_b_block_producers.                                              *)

BlockFlag(b) ==
  /\ pc[b] = "idle"
  /\ IF flags
       THEN Return(b, "ok") /\ UNCHANGED flags
       ELSE flags' = TRUE /\ Goto(b, "jump") /\ UNCHANGED <<now, sg, arg, res>>
  /\ UNCHANGED <<tkt, sig, ver, data, val, fence>>

Jump(b, k) ==
  /\ pc[b] = "jump" /\ Room("push", k)
  /\ tkt' = [tkt EXCEPT !["push"] = @ + k]
  /\ sig' = [sig EXCEPT !["push"] = Carried("push", tkt["push"] + k)]
  /\ fence' = tkt["push"]
  /\ Return(b, "ok")
  /\ UNCHANGED <<ver, data, flags, val>>

(* The jump goes no further than the next slot.                            *)
BlockJumpMutant(b) == Jump(b, 1)

BlockJump(b) == Jump(b, 2 * SlotCount)

---------------------------------------------------------------------------
(* signal_try_set and signal_try_set_tmatch.  A caller of tmatch keeps the *)
(* word it is given back, which is the one it expects next time.           *)

SigReturn(t, why, n, g) ==
  /\ pc'  = [pc EXCEPT ![t] = "idle"]
  /\ now' = [now EXCEPT ![t] = n]
  /\ sg'  = [sg EXCEPT ![t] = g]
  /\ arg' = [arg EXCEPT ![t] = NoSigCall]
  /\ res' = [res EXCEPT ![t] = why]

(* The word was loaded: does it hold what the caller expects?              *)
SigLoaded(t, a) ==
  LET s == a.side
      agrees == IF a.tmatch
                  THEN Tk(tkt[s]) = Tk(now[t] + 1) /\ sig[s] = sg[t]
                  ELSE sig[s] = a.expected
  IN  IF agrees
        THEN /\ Goto(t, "sigcas")
             /\ now' = [now EXCEPT ![t] = tkt[s]]
             /\ sg'  = [sg EXCEPT ![t] = sig[s]]
             /\ arg' = [arg EXCEPT ![t] = a]
             /\ UNCHANGED res
        ELSE IF a.tmatch
               THEN SigReturn(t, "preconditions", tkt[s] - 1, sig[s])
               ELSE SigReturn(t, "preconditions", None, 0)

SigLoad(t, a) ==
  /\ pc[t] = "idle"
  /\ SigLoaded(t, a)
  /\ UNCHANGED <<queue, val>>

SigCasSets(t) ==
  LET s == arg[t].side
  IN  /\ pc[t] = "sigcas" /\ Matches(t, s)
      /\ sig' = [sig EXCEPT ![s] = arg[t].desired]
      /\ IF arg[t].tmatch
           THEN SigReturn(t, "ok", tkt[s] - 1, sig[s])
           ELSE SigReturn(t, "ok", None, 0)
      /\ UNCHANGED <<tkt, ver, data, flags, val, fence>>

SigCasFails(t) ==
  LET s == arg[t].side
  IN  /\ pc[t] = "sigcas"
      /\ IF arg[t].tmatch
           THEN SigReturn(t, "preconditions", tkt[s] - 1, sig[s])
           ELSE SigLoaded(t, arg[t])
      /\ UNCHANGED <<queue, val>>

---------------------------------------------------------------------------
(* One thread runs one operation at a time.                                *)

Multi(t)  == \/ \E a \in Calls : Prepare(t, a)
             \/ Reload(t) \/ CheckMulti(t) \/ CasTakes(t) \/ CasFails(t)
OnePerSide(t) == PrepareSingle(t) \/ CheckSingle(t) \/ StoreSingle(t)
Fifo(t)   == FifoPrepare(t) \/ FifoReady(t) \/ FifoAhead(t)
Produce(p) == WriteData(p) \/ ProduceCommit(p)
Consume(c) == ReadData(c) \/ ConsumeCommit(c)
Blocks(b) == BlockFlag(b) \/ BlockJump(b)
Signals(t) == \/ \E a \in SigCalls : SigLoad(t, a)
              \/ SigCasSets(t) \/ SigCasFails(t)

Next ==
  \/ \E t \in MP \cup MC : Multi(t)
  \/ \E t \in Single : OnePerSide(t)
  \/ \E t \in FP : Fifo(t)
  \/ \E p \in Producers : Produce(p)
  \/ \E c \in Consumers : Consume(c)
  \/ \E b \in Blockers : Blocks(b)
  \/ \E t \in Signallers : Signals(t)

Spec == Init /\ [][Next]_vars

(* The scheduler runs every thread that is inside an operation, and a weak *)
(* CAS that could succeed again and again does not fail spuriously for     *)
(* ever.  Consumers poll the queue; producers need not call again.         *)
Inside(t) ==
  \/ Reload(t) \/ CheckMulti(t) \/ CheckSingle(t) \/ StoreSingle(t)
  \/ FifoReady(t) \/ FifoAhead(t) \/ Produce(t) \/ Consume(t)
  \/ BlockJump(t) \/ CasFails(t) \/ SigCasFails(t)

Polls(c) == (\E a \in Calls : Prepare(c, a)) \/ PrepareSingle(c)

Fairness ==
  /\ \A t \in Threads : WF_vars(Inside(t)) /\ SF_vars(CasTakes(t))
                         /\ SF_vars(SigCasSets(t))
  /\ \A c \in Consumers : WF_vars(Polls(c))

FairSpec == Spec /\ Fairness

---------------------------------------------------------------------------
(* Properties.                                                             *)

Places == {"idle", "reload", "check", "cas", "store", "poll", "ahead",
           "own", "used", "jump", "sigcas"}
Results == {"none", "ok", "preconditions", "would_overflow", "empty",
            "locked", "busy"}

(* Every variable holds a value of its type; tickets and versions are the  *)
(* unwrapped numbers.                                                      *)
TypeOK ==
  /\ tkt \in [Sides -> Nat] /\ sig \in [Sides -> Sigs]
  /\ ver \in [0..(SlotCount - 1) -> Nat]
  /\ data \in [0..(SlotCount - 1) -> Nat \cup {None}]
  /\ flags \in BOOLEAN /\ fence \in Nat \cup {None}
  /\ pc \in [Threads -> Places]
  /\ now \in [Threads -> Nat \cup {None}] /\ sg \in [Threads -> Sigs]
  /\ arg \in [Threads -> Call \cup SigCall]
  /\ val \in [Threads -> Nat \cup {None}]
  /\ res \in [Threads -> Results]

Owns(t) == t \in Producers \cup Consumers /\ pc[t] \in {"own", "used"}

(* No data race on a payload: between prepare and commit a thread has its  *)
(* chunk for itself, against producers and consumers alike, although       *)
(* nothing but two relaxed words and the versions is shared.               *)
ExclusiveChunk ==
  \A t, u \in Threads :
    Owns(t) /\ Owns(u) /\ t # u => Slot(now[t]) # Slot(now[u])

(* A consumer reads what the producer of the same ticket wrote: nothing is *)
(* lost, duplicated, reordered or overwritten before it is released.       *)
ReadsItsTicket ==
  \A c \in Consumers : pc[c] = "used" => val[c] = now[c]

(* The push ticket producers stopped at: block_producers jumps over two    *)
(* laps of tickets nobody will write.                                      *)
Lim == IF fence = None THEN tkt["push"] ELSE fence

Fails(t, why) == pc[t] # "idle" /\ pc'[t] = "idle" /\ res'[t] = why

(* "would_overflow" is given only when the chunk the next ticket needs is  *)
(* still in use: not taken by a consumer or not released by it, although   *)
(* the ticket the producer looked at may be old when it answers.  "empty"  *)
(* is given only when no ticket is outstanding or the oldest one belongs   *)
(* to a producer that has not committed.                                   *)
ErrorsAreTrue ==
  [][/\ \A p \in Producers : Fails(p, "would_overflow") =>
          \/ tkt["pop"] <= Lim - SlotCount
          \/ \E c \in Consumers : Owns(c) /\ now[c] = Lim - SlotCount
     /\ \A c \in Consumers : Fails(c, "empty") =>
          \/ tkt["pop"] = Lim
          \/ \E p \in Producers : /\ pc[p] \in {"own", "used", "poll", "ahead"}
                                  /\ now[p] = tkt["pop"]]_vars

(* "locked" is given only after block_producers was called.                *)
LockedIsTrue ==
  [][\A t \in Threads : Fails(t, "locked") => flags]_vars

(* Once a call of block_producers has returned no producer comes to own a  *)
(* chunk, but for a fifo producer whose ticket is older than the call.     *)
BlockHolds ==
  [][\A p \in Producers :
       (\E b \in Blockers : res[b] = "ok") /\ pc[p] # "own" /\ pc'[p] = "own"
         => p \in FP /\ now[p] < Lim]_vars

(* Single mode never meets an error its assertion does not expect          *)
(* (mpmc_b.c:164), and multi mode gives "busy" to nobody.                  *)
NoBusy == \A t \in Threads : res[t] # "busy"

(* An operation never takes a ticket while the signal is one its caller    *)
(* told it to fall back on, whatever signallers did in between.            *)
FallbackHolds ==
  [][\A t \in MP \cup MC :
       pc[t] = "cas" /\ pc'[t] = "own"
         => sig[Side(t)] \notin arg[t].fallback]_vars

(* A ticket taken is a ticket consumed, as long as consumers poll.         *)
Consumed ==
  \A k \in 0..MaxTicket : k < Lim ~> tkt["pop"] > k

(* Every operation begun in multi or single mode comes to an end, with its *)
(* chunk or with an answer: no thread is left spinning inside the queue.   *)
Returns ==
  \A t \in MP \cup MC \cup Single :
     pc[t] # "idle" ~> pc[t] \in {"idle", "own"}

---------------------------------------------------------------------------
(* The inductive invariant: why the queue is safe.                         *)

(* Where a thread can be, and that it holds a ticket there.                *)
PlaceOK(t) ==
  /\ pc[t] \in {"own", "used"} => t \in Producers \cup Consumers
  /\ pc[t] = "check" => t \in MP \cup MC \cup Single
  /\ pc[t] \in {"reload", "cas"} => t \in MP \cup MC
  /\ pc[t] = "store" => t \in Single
  /\ pc[t] \in {"poll", "ahead"} => t \in FP
  /\ pc[t] = "jump" => t \in Blockers
  /\ pc[t] = "sigcas" => t \in Signallers
  /\ pc[t] \in {"check", "cas", "store", "poll", "ahead", "own", "used",
                "sigcas"} => now[t] \in Nat
  /\ IF t \in Signallers THEN arg[t] \in SigCall ELSE arg[t] \in Call

(* A ticket held inside a loop is not ahead of the word nor too far behind,*)
(* and is the word's own in single mode.                                   *)
LoopOK(t) ==
  /\ pc[t] \in {"check", "cas", "store"} =>
       /\ now[t] <= tkt[Side(t)] /\ tkt[Side(t)] - now[t] <= MaxLag
       /\ t \in Single => now[t] = tkt[Side(t)]
  /\ pc[t] = "sigcas" =>
       now[t] <= tkt[arg[t].side] /\ tkt[arg[t].side] - now[t] <= MaxLag

(* A version found good is still good if the word has not moved.           *)
CheckOK(t) ==
  pc[t] \in {"cas", "store"} /\ now[t] = tkt[Side(t)] =>
    /\ ver[Slot(now[t])] = now[t] + Offset(t)
    /\ t \in Producers => fence = None

(* A producer's ticket: not consumed, not ready, and its slot's version if *)
(* it owns the chunk.                                                      *)
HasTicket(p) == p \in Producers /\ pc[p] \in {"poll", "ahead", "own", "used"}

ProducerOK(p) ==
  /\ tkt["pop"] <= now[p] /\ now[p] < tkt["push"]
  /\ now[p] < Lim \/ fence + 2 * SlotCount <= now[p]
  /\ ver[Slot(now[p])] # now[p] + 1
  /\ Owns(p) => ver[Slot(now[p])] = now[p] /\ now[p] < Lim
  /\ pc[p] = "used" => data[Slot(now[p])] = now[p]

(* A consumer's chunk: ready and holding what its producer wrote.          *)
ConsumerOK(c) ==
  /\ now[c] < tkt["pop"]
  /\ ver[Slot(now[c])] = now[c] + 1 /\ data[Slot(now[c])] = now[c]
  /\ pc[c] = "used" => val[c] = now[c]

ThreadsOK ==
  /\ \A t \in Threads : PlaceOK(t) /\ LoopOK(t) /\ CheckOK(t)
  /\ \A p \in Producers : HasTicket(p) => ProducerOK(p)
  /\ \A c \in Consumers : Owns(c) => ConsumerOK(c)

(* No two producers hold the same ticket, and no two consumers do.         *)
TicketsOK ==
  /\ \A p, q \in Producers :
       HasTicket(p) /\ HasTicket(q) /\ now[p] = now[q] => p = q
  /\ \A c, d \in Consumers :
       Owns(c) /\ Owns(d) /\ now[c] = now[d] => c = d

(* Consumers never pass producers, and the words never drift apart by as   *)
(* much as the ticket field can tell.                                      *)
WordsOK ==
  /\ tkt["pop"] <= Lim /\ Lim <= tkt["push"]
  /\ tkt["push"] - tkt["pop"] <= MaxLag + 2 * SlotCount
  /\ fence = None => tkt["push"] - tkt["pop"] <= MaxLag
  /\ fence # None => flags /\ tkt["push"] >= fence + 2 * SlotCount
  /\ Blockers = {} => fence = None

(* Only one caller of block_producers ever jumps.                          *)
BlockersOK ==
  \A b, d \in Threads :
    pc[b] = "jump" => flags /\ fence = None /\ (pc[d] = "jump" => d = b)

(* The version of every slot, told by the ticket k of its next consumer:   *)
(* still read under the ticket a lap before, free or being written, ready. *)
VersionsOK ==
  \A k \in tkt["pop"]..(tkt["pop"] + SlotCount - 1) :
    /\ ver[Slot(k)] \in {k - SlotCount + 1, k, k + 1}
    /\ ver[Slot(k)] = k + 1 => k < Lim /\ data[Slot(k)] = k

Inv == /\ TypeOK /\ ThreadsOK /\ TicketsOK
       /\ WordsOK /\ BlockersOK /\ VersionsOK

---------------------------------------------------------------------------
(* The queue implements its promise.                                       *)

Holds(t, places) == IF pc[t] \in places THEN now[t] ELSE None

Ready   == {k \in tkt["pop"]..(Lim - 1) : ver[Slot(k)] = k + 1}
Claimed == [p \in Producers |-> IF now[p] < Lim
                                  THEN Holds(p, {"poll", "ahead"}) ELSE None]
Writing == [p \in Producers |-> Holds(p, {"own", "used"})]
Reads   == [c \in Consumers |-> Holds(c, {"own", "used"})]
Got     == [c \in Consumers |-> val[c]]
Blocked == fence # None
Answers == [t \in Producers \cup Consumers |-> res[t]]

Promise == INSTANCE TicketFifo WITH
  next <- Lim, out <- tkt["pop"], ready <- Ready, claimed <- Claimed,
  writing <- Writing, reading <- Reads, got <- Got, blocked <- Blocked,
  answer <- Answers

ImplementsPromise == Promise!FifoSpec
=============================================================================
