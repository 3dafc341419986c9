------------------------------ MODULE MpmcBpm ------------------------------
(***************************************************************************)
(* bl_mpmc_bpm (src/src/bl/nonblock/mpmc_bpm.c), the bounded queue whose   *)
(* producers reserve several adjacent slots at once.  It is used either as *)
(* a queue or, with alloc and dealloc, as an allocator.  One action per    *)
(* access to shared memory.                                                *)
(*                                                                         *)
(* Tickets and versions are the numbers the fields would reach if they     *)
(* never wrapped; the code sees them through ticket_decode, Tk below.  A   *)
(* chunk is the ticket of its first slot and its number of slots.          *)
(***************************************************************************)
EXTENDS Integers

CONSTANTS
  Producers,    \* threads that call produce_prepare or alloc
  Consumers,    \* threads that call consume_prepare or dealloc
  Signallers,   \* threads that call the signal_try_set functions
  SlotCount,    \* slots, after init has rounded it
  SlotMax,      \* slot_max: the most slots of a chunk
  TicketMod,    \* 2^bl_mpmc_b_ticket_bits
  SigMod,       \* 2^bl_mpmc_b_signal_bits
  Calls,        \* by use: arguments of the prepare functions
  SigCalls,     \* arguments of the signal_try_set functions
  Uses,         \* what the queue may be used as
  Members,      \* by use: the threads that call its functions
  MaxTicket     \* bound, by use: no producer begins at or past this ticket

Threads == Producers \cup Consumers \cup Signallers
Sides   == {"push", "pop"}
Sigs    == 0..(SigMod - 1)
Slots   == 0..(SlotCount - 1)
Memory  == 0..(SlotCount + SlotMax - 2)   \* the slots and the tail after them
None    == -1
Junk    == -2        \* a payload lies where the version was

(* The fallback mask and match stand for the set of signals they select.   *)
Call    == [slots : 1..SlotMax, replace : BOOLEAN, sig : Sigs,
            fallback : SUBSET Sigs]
SigCall == [side : Sides, expected : Sigs, desired : Sigs]

(* init demands slot_max < slot_count.  The run ends before the ticket     *)
(* field wraps.                                                            *)
ASSUME PoolAssumption ==
  /\ SlotCount \in Nat /\ SlotMax \in 1..(SlotCount - 1)
  /\ TicketMod \in Nat /\ TicketMod % SlotCount = 0
  /\ MaxTicket \in [Uses -> Nat] /\ SigMod \in Nat \ {0}
  /\ Members \in [Uses -> SUBSET Threads]
  /\ Calls \in [Uses -> SUBSET Call] /\ SigCalls \subseteq SigCall
  /\ Uses \subseteq {"queue", "allocator"}
  /\ Producers \cap Consumers = {}
  /\ (Producers \cup Consumers) \cap Signallers = {}

VARIABLES
  use,        \* what the caller of init uses it as
  tkt, sig,   \* ticket and signal of push_slot and pop_slot
  ver,        \* each slot's version
  data,       \* the ticket under which each slot in use was filled
  pc,         \* where each thread is
  now, sg,    \* the operation word each thread holds: ticket and signal
  arg,        \* the arguments of each thread's call
  at,         \* the loop index of each thread: slots after the first
  own,        \* the chunk each thread got from its last operation
  res,        \* what each thread's operation returned, ok until it does
  live        \* history: the chunks reserved and not yet released

shared == <<use, tkt, sig, ver, data, live>>
locals == <<pc, now, sg, arg, at, own, res>>
vars   == <<use, tkt, sig, ver, data, pc, now, sg, arg, at, own, res, live>>

Tk(t)   == t % TicketMod          \* ticket_decode
Slot(t) == t % SlotCount
Side(t) == IF t \in Producers THEN "push" ELSE "pop"
AtMost(a, b) == IF a < b THEN a ELSE b

(* get_slot_ceil: a chunk takes no more tickets than are left to the end.  *)
Ceil(t, n) == AtMost(n, SlotCount - Slot(t))

(* The chunk's slots, those past the end of the array included, and those  *)
(* of them whose version its payload covers.                               *)
Mem(ch)      == Slot(ch.tk)..(Slot(ch.tk) + ch.n - 1)
Interior(ch) == (Mem(ch) \cap Slots) \ {Slot(ch.tk)}

NoChunk == [tk |-> None, n |-> 0]
NoCall  == [slots |-> 1, replace |-> FALSE, sig |-> 0, fallback |-> {}]

Init ==
  /\ use \in Uses
  /\ tkt  = [s \in Sides |-> 0] /\ sig = [s \in Sides |-> 0]
  /\ ver  = [i \in Slots |-> i]
  /\ data = [i \in Memory |-> None]
  /\ pc   = [t \in Threads |-> "idle"]
  /\ now  = [t \in Threads |-> None] /\ sg = [t \in Threads |-> 0]
  /\ arg  = [t \in Threads |-> NoCall]
  /\ at   = [t \in Threads |-> 0]
  /\ own  = [t \in Threads |-> NoChunk]
  /\ res  = [t \in Threads |-> "ok"]
  /\ live = {}

---------------------------------------------------------------------------
(* Shared by the operations.                                               *)

(* What a thread may compute from version v and ticket k: a payload in the *)
(* version's place can be any number.                                      *)
Diffs(v, k) ==
  IF v = Junk THEN {-1, 0, 1, SlotCount} ELSE {Tk(v) - Tk(k)}

Goto(t, place) == pc' = [pc EXCEPT ![t] = place]

Return(t, why) ==
  /\ pc'  = [pc EXCEPT ![t] = "idle"]
  /\ now' = [now EXCEPT ![t] = None] /\ sg' = [sg EXCEPT ![t] = 0]
  /\ arg' = [arg EXCEPT ![t] = NoCall]
  /\ at'  = [at EXCEPT ![t] = 0]
  /\ own' = [own EXCEPT ![t] = NoChunk]
  /\ res' = [res EXCEPT ![t] = why]

(* The word was loaded: give up on the caller's signals, or look at the    *)
(* first slot.                                                             *)
Loaded(t, a) ==
  LET s == Side(t)
  IN  IF sig[s] \in a.fallback
        THEN Return(t, "preconditions")
        ELSE /\ Goto(t, "head")
             /\ now' = [now EXCEPT ![t] = tkt[s]]
             /\ sg'  = [sg EXCEPT ![t] = sig[s]]
             /\ arg' = [arg EXCEPT ![t] = a]
             /\ at'  = [at EXCEPT ![t] = 0]
             /\ res' = [res EXCEPT ![t] = "ok"]
             /\ UNCHANGED own

(* produce_prepare and consume_prepare; alloc calls it with no signals.    *)
Prepare(t, a) ==
  /\ pc[t] = "idle" /\ t \in Members[use]
  /\ t \in Producers => tkt["push"] < MaxTicket[use]
  /\ t \in Consumers => use = "queue" /\ a.slots = 1
  /\ Loaded(t, a)
  /\ UNCHANGED shared

Reload(t) ==
  /\ pc[t] = "reload"
  /\ Loaded(t, arg[t])
  /\ UNCHANGED shared

(* The words are equal and the weak CAS does not fail spuriously.          *)
Matches(t) ==
  LET s == Side(t)
  IN  Tk(tkt[s]) = Tk(now[t]) /\ sig[s] = sg[t]

(* The CAS puts the ticket after the chunk ch, and the caller's signal.    *)
TakeWord(t, ch) ==
  LET s == Side(t)
  IN  /\ Matches(t)
      /\ tkt' = [tkt EXCEPT ![s] = @ + Ceil(ch.tk, ch.n)]
      /\ sig' = [sig EXCEPT ![s] = IF arg[t].replace THEN arg[t].sig ELSE @]
      /\ own' = [own EXCEPT ![t] = ch]
      /\ Goto(t, "own")

(* The word has changed, or the weak CAS fails although it has not.        *)
CasFails(t) ==
  /\ pc[t] = "cas"
  /\ Loaded(t, arg[t])
  /\ UNCHANGED shared

---------------------------------------------------------------------------
(* produce_prepare_sig_fallback.                                           *)

CheckHead(p) ==
  /\ pc[p] = "head" /\ p \in Producers
  /\ \E diff \in Diffs(ver[Slot(now[p])], now[p]) :
       \/ diff < 0 /\ Return(p, "would_overflow")
       \/ diff > 0 /\ Goto(p, "reload") /\ UNCHANGED <<now, sg, arg, at, own, res>>
       \/ /\ diff = 0
          /\ at' = [at EXCEPT ![p] = 1]
          /\ Goto(p, IF Ceil(now[p], arg[p].slots) = 1 THEN "cas" ELSE "tail")
          /\ UNCHANGED <<now, sg, arg, own, res>>
  /\ UNCHANGED shared

(* Only the first slot is looked at.                                       *)
CheckTailMutant(p) ==
  /\ pc[p] = "tail"
  /\ Goto(p, "cas")
  /\ UNCHANGED <<shared, now, sg, arg, at, own, res>>

(* The slots after the first, one by one.                                  *)
CheckTail(p) ==
  /\ pc[p] = "tail"
  /\ \E diff \in Diffs(ver[Slot(now[p] + at[p])], now[p] + at[p]) :
       IF diff # 0
         THEN Goto(p, "recheck") /\ UNCHANGED at
         ELSE /\ at' = [at EXCEPT ![p] = @ + 1]
              /\ Goto(p, IF at[p] + 1 = Ceil(now[p], arg[p].slots)
                           THEN "cas" ELSE "tail")
  /\ UNCHANGED <<shared, now, sg, arg, own, res>>

(* fetch_add of zero: was the slot taken, or was the word old?             *)
Recheck(p) ==
  /\ pc[p] = "recheck"
  /\ IF tkt["push"] = now[p] /\ sig["push"] = sg[p]
       THEN Return(p, "would_overflow")
       ELSE Loaded(p, arg[p])
  /\ UNCHANGED shared

ProduceTakes(p) ==
  /\ pc[p] = "cas" /\ p \in Producers
  /\ LET ch == [tk |-> tkt["push"], n |-> arg[p].slots]
     IN  TakeWord(p, ch) /\ live' = live \cup {ch}
  /\ UNCHANGED <<use, ver, data, now, sg, arg, at, res>>

(* The owner fills its chunk: before it commits, or after alloc returned.  *)
Fill(p) ==
  /\ p \in Producers
  /\ data' = [i \in Memory |-> IF i \in Mem(own[p]) THEN own[p].tk ELSE data[i]]
  /\ ver'  = [i \in Slots |-> IF i \in Interior(own[p]) THEN Junk ELSE ver[i]]
  /\ \/ use = "queue" /\ pc[p] = "own" /\ Goto(p, "used")
                      /\ UNCHANGED <<now, sg, arg, at, own, res>>
     \/ use = "allocator" /\ pc[p] = "got" /\ Return(p, "ok")
  /\ UNCHANGED <<use, tkt, sig, live>>

(* The version is that of the chunk's last slot.                           *)
ProduceCommitMutant(p) ==
  /\ p \in Producers
  /\ ver' = [ver EXCEPT ![Slot(own[p].tk)] = own[p].tk + own[p].n - 1]
  /\ \/ use = "queue" /\ pc[p] = "used" /\ Return(p, "ok")
     \/ use = "allocator" /\ pc[p] = "own" /\ Goto(p, "got")
                          /\ UNCHANGED <<now, sg, arg, at, own, res>>
  /\ UNCHANGED <<use, tkt, sig, data, live>>

(* produce_commit: the first slot's version tells how many slots there are.*)
ProduceCommit(p) ==
  /\ p \in Producers
  /\ ver' = [ver EXCEPT ![Slot(own[p].tk)] = own[p].tk + own[p].n]
  /\ \/ use = "queue" /\ pc[p] = "used" /\ Return(p, "ok")
     \/ use = "allocator" /\ pc[p] = "own" /\ Goto(p, "got")
                          /\ UNCHANGED <<now, sg, arg, at, own, res>>
  /\ UNCHANGED <<use, tkt, sig, data, live>>

---------------------------------------------------------------------------
(* consume_prepare_sig_fallback.                                           *)

CheckConsume(c) ==
  /\ pc[c] = "head" /\ c \in Consumers
  /\ \E diff \in Diffs(ver[Slot(now[c])], now[c]) :
       \/ diff <= 0 /\ Return(c, "empty")
       \/ diff >= SlotCount /\ Goto(c, "reload")
                            /\ UNCHANGED <<now, sg, arg, at, own, res>>
       \/ /\ diff \in 1..(SlotCount - 1) /\ Goto(c, "cas")
          /\ at' = [at EXCEPT ![c] = diff]
          /\ UNCHANGED <<now, sg, arg, own, res>>
  /\ UNCHANGED shared

ConsumeTakes(c) ==
  /\ pc[c] = "cas" /\ c \in Consumers
  /\ TakeWord(c, [tk |-> tkt["pop"], n |-> at[c]])
  /\ UNCHANGED <<use, ver, data, now, sg, arg, at, res, live>>

(* What the slots of a chunk out of use hold is of no interest.            *)
LeaveUse(ch) ==
  /\ live' = live \ {ch}
  /\ data' = [i \in Memory |-> IF i \in Mem(ch) THEN None ELSE data[i]]

(* The owner has read its chunk and gives it back: consume_commit begins.  *)
GiveBack(c) ==
  /\ pc[c] = "own" /\ c \in Consumers
  /\ LeaveUse(own[c])
  /\ at' = [at EXCEPT ![c] = 1]
  /\ Goto(c, "free")
  /\ UNCHANGED <<use, tkt, sig, ver, now, sg, arg, own, res>>

(* dealloc of a chunk by whoever holds it: the number of slots is told by  *)
(* the first slot's version, and a wrong one raises SIGSEGV.               *)
Dealloc(c, ch) ==
  LET v == ver[Slot(ch.tk)]
      n == (Tk(v) - Slot(ch.tk)) % SlotCount
  IN  /\ pc[c] = "idle" /\ c \in Consumers /\ use = "allocator"
      /\ LeaveUse(ch)
      /\ own' = [own EXCEPT ![c] = [tk |-> v - n, n |-> n]]
      /\ at' = [at EXCEPT ![c] = 1]
      /\ Goto(c, IF n = ch.n THEN "free" ELSE "trap")
      /\ UNCHANGED <<use, tkt, sig, ver, now, sg, arg, res>>

(* consume_commit frees the slots after the first, then the first.         *)
FreeTail(c) ==
  LET k == own[c].tk + at[c]
  IN  /\ pc[c] = "free" /\ at[c] < Ceil(own[c].tk, own[c].n)
      /\ ver' = [ver EXCEPT ![Slot(k)] = k + SlotCount]
      /\ at' = [at EXCEPT ![c] = @ + 1]
      /\ UNCHANGED <<use, tkt, sig, data, live, pc, now, sg, arg, own, res>>

FreeHead(c) ==
  LET k == own[c].tk
  IN  /\ pc[c] = "free" /\ at[c] >= Ceil(k, own[c].n)
      /\ ver' = [ver EXCEPT ![Slot(k)] = k + SlotCount]
      /\ Return(c, "ok")
      /\ UNCHANGED <<use, tkt, sig, data, live>>

---------------------------------------------------------------------------
(* signal_try_set, whose CAS loop takes effect in one step.                *)

SignalTrySet(s, a) ==
  /\ s \in Members[use]
  /\ IF sig[a.side] = a.expected
       THEN /\ sig' = [sig EXCEPT ![a.side] = a.desired]
            /\ res' = [res EXCEPT ![s] = "ok"]
       ELSE /\ res' = [res EXCEPT ![s] = "preconditions"]
            /\ UNCHANGED sig
  /\ UNCHANGED <<use, tkt, ver, data, pc, now, sg, arg, at, own, live>>

---------------------------------------------------------------------------
(* Chunks that alloc has returned and that are in no operation.            *)
InUse == live \ {own[t] : t \in Threads}

Loop(t)    == (\E a \in Calls[use] : Prepare(t, a)) \/ Reload(t) \/ CasFails(t)
Produce(p) == \/ CheckHead(p) \/ CheckTail(p) \/ Recheck(p)
              \/ ProduceTakes(p) \/ Fill(p) \/ ProduceCommit(p)
Consume(c) == CheckConsume(c) \/ ConsumeTakes(c) \/ GiveBack(c)
Free(c)    == FreeTail(c) \/ FreeHead(c)
Signal(s)  == \E a \in SigCalls : SignalTrySet(s, a)

Next ==
  \/ \E t \in Producers \cup Consumers : Loop(t)
  \/ \E p \in Producers : Produce(p)
  \/ \E c \in Consumers : Consume(c) \/ Free(c) \/ \E ch \in InUse : Dealloc(c, ch)
  \/ \E s \in Signallers : Signal(s)

Spec == Init /\ [][Next]_vars

---------------------------------------------------------------------------
(* Properties.                                                             *)

Places  == {"idle", "reload", "head", "tail", "recheck", "cas", "own", "used",
            "got", "free", "trap"}
Results == {"ok", "preconditions", "would_overflow", "empty"}
Chunk   == [tk : Nat, n : 1..SlotMax]

(* Every variable holds a value of its type; a chunk has 1 to slot_max     *)
(* slots, so the version arithmetic of dealloc never yields another number.*)
TypeOK ==
  /\ use \in Uses
  /\ tkt \in [Sides -> Nat] /\ sig \in [Sides -> Sigs]
  /\ ver \in [Slots -> Nat \cup {Junk}]
  /\ data \in [Memory -> Nat \cup {None}]
  /\ pc \in [Threads -> Places]
  /\ now \in [Threads -> Nat \cup {None}] /\ sg \in [Threads -> Sigs]
  /\ arg \in [Threads -> Call]
  /\ at \in [Threads -> 0..SlotCount]
  /\ own \in [Threads -> Chunk \cup {NoChunk}]
  /\ res \in [Threads -> Results]
  /\ live \subseteq Chunk

(* Threads that may touch their chunk's memory.                            *)
Using(t) == pc[t] \in {"own", "used", "got"}

(* Chunks reserved and not released never share memory, the slots past the *)
(* end of the array included, and no two threads hold the same one.        *)
ChunksApart ==
  /\ \A a, b \in live : a # b => Mem(a) \cap Mem(b) = {}
  /\ \A t, u \in Threads : Using(t) /\ Using(u) /\ t # u => own[t] # own[u]

(* A chunk its producer is done with keeps all its payload until it is     *)
(* released, a consumer gets chunks as they were reserved, and dealloc     *)
(* finds the number of slots in the version, so it never traps.            *)
PayloadKept ==
  /\ \A ch \in live : (\A p \in Producers : own[p] # ch)
                        => \A i \in Mem(ch) : data[i] = ch.tk
  /\ \A c \in Consumers : pc[c] = "own" => own[c] \in live
  /\ \A t \in Threads : pc[t] # "trap"

Fails(t, why) == pc[t] # "idle" /\ pc'[t] = "idle" /\ res'[t] = why

(* Does a chunk in use, or one whose release has not ended, need slot i?   *)
Occupied(i) ==
  \E ch \in live \cup {own[c] : c \in {d \in Consumers : pc[d] = "free"}} :
    i \in Mem(ch)

(* Thread p finds a slot it needs in use: it gives up, or looks whether    *)
(* its word is old.                                                        *)
FindsNoRoom(p) ==
  \/ pc[p] = "head" /\ Fails(p, "would_overflow")
  \/ pc[p] = "tail" /\ pc'[p] = "recheck"

(* "would_overflow" and "empty" are told only by a thread whose word is    *)
(* still current; at the moment it looked a slot it needs was in use, or   *)
(* the next chunk was not committed.  The exception is a thread that was   *)
(* overtaken by a whole lap and finds a payload where it looks for a       *)
(* version: its answer is what the payload happens to say.                 *)
AnswersAreTrue ==
  [][/\ \A p \in Producers :
          /\ FindsNoRoom(p) /\ now[p] = tkt["push"] =>
               \E k \in now[p]..(now[p] + Ceil(now[p], arg[p].slots) - 1) :
                 Occupied(Slot(k))
          /\ Fails(p, "would_overflow") =>
               \/ now[p] = tkt["push"]
               \/ pc[p] = "head" /\ ver[Slot(now[p])] = Junk
     /\ \A c \in Consumers : Fails(c, "empty") =>
          \/ now[c] < tkt["pop"] /\ ver[Slot(now[c])] = Junk
          \/ /\ now[c] = tkt["pop"]
             /\ \/ tkt["pop"] = tkt["push"]
                \/ \E p \in Producers : Using(p) /\ own[p].tk = now[c]]_vars
=============================================================================
