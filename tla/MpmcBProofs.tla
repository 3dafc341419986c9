----------------------------- MODULE MpmcBProofs -----------------------------
(***************************************************************************)
(* Proofs about MpmcB, for any number of threads in any mode, any slot     *)
(* count, field widths and bounds the assumptions of MpmcB allow.          *)
(***************************************************************************)
EXTENDS MpmcB, Lemmas, TLAPS

---------------------------------------------------------------------------
(* Arithmetic of wrapped tickets and of slots.                             *)

(* The sizes, as facts to cite.                                            *)
LEMMA Sizes ==
  /\ SlotCount \in Nat /\ SlotCount >= 2
  /\ TicketMod \in Nat /\ TicketMod >= 4 * SlotCount /\ TicketMod >= 1
  /\ MaxLag \in Nat /\ MaxLag >= SlotCount
  /\ MaxLag + 3 * SlotCount <= TicketMod
  /\ MaxTicket \in Nat
  /\ SigMod \in Nat /\ SigMod >= 1 /\ 0 \in Sigs
  /\ Calls \subseteq Call /\ SigCalls \subseteq SigCall
BY SizeAssumption DEF SizeAssumption, Sigs

LEMMA SlotRange ==
  ASSUME NEW k \in Int
  PROVE  Slot(k) \in 0..(SlotCount - 1)
BY DivMod, Sizes DEF Slot

LEMMA FirstLap ==
  ASSUME NEW k \in 0..(SlotCount - 1)
  PROVE  Slot(k) = k
<1>1. k \in Nat /\ k < SlotCount /\ SlotCount \in Nat
  BY Sizes
<1>2. k % SlotCount = k
  BY <1>1, SmallNumber
<1> QED BY <1>2 DEF Slot

LEMMA TicketRange ==
  ASSUME NEW k \in Int
  PROVE  Tk(k) \in Int
BY DivMod, Sizes DEF Tk

(* Tickets of one slot that are less than a lap apart are the same.        *)
LEMMA SlotOnce ==
  ASSUME NEW k \in Int, NEW j \in Int, Slot(k) = Slot(j),
         k - j < SlotCount, j - k < SlotCount
  PROVE  k = j
<1>1. k % SlotCount = j % SlotCount
  BY DEF Slot
<1>2. SlotCount \in Nat /\ SlotCount >= 1
  BY Sizes
<1> QED BY <1>1, <1>2, SameWrapped

LEMMA SlotNext ==
  ASSUME NEW k \in Int
  PROVE  Slot(k + 1) # Slot(k)
BY SlotOnce, Sizes

LEMMA SlotLap ==
  ASSUME NEW k \in Int
  PROVE  Slot(k + SlotCount) = Slot(k) /\ Slot(k - SlotCount) = Slot(k)
<1>1. /\ k + SlotCount = k + Laps(1, SlotCount)
      /\ k - SlotCount = k + Laps(-1, SlotCount)
  BY Sizes DEF Laps
<1>2. /\ (k + SlotCount) % SlotCount = k % SlotCount
      /\ (k - SlotCount) % SlotCount = k % SlotCount
  BY <1>1, LapsVanish, Sizes
<1> QED BY <1>2 DEF Slot

(* Every slot has one ticket in each lap that starts at n.                 *)
LEMMA SlotInLap ==
  ASSUME NEW k \in Int, NEW n \in Int
  PROVE  \E j \in n..(n + SlotCount - 1) : Slot(j) = Slot(k)
<1> DEFINE q == (k - n) \div SlotCount
           r == (k - n) % SlotCount
<1>1. q \in Int /\ r \in 0..(SlotCount - 1) /\ k - n = SlotCount * q + r
  BY DivMod, Sizes
<1> HIDE DEF q, r
<1>2. k = (n + r) + Laps(q, SlotCount)
  BY <1>1, Sizes DEF Laps
<1>3. k % SlotCount = (n + r) % SlotCount
  BY <1>1, <1>2, LapsVanish, Sizes
<1>4. Slot(n + r) = Slot(k)
  BY <1>3 DEF Slot
<1>5. n + r \in n..(n + SlotCount - 1)
  BY <1>1, Sizes
<1> QED BY <1>4, <1>5

---------------------------------------------------------------------------
(* The initial state.                                                      *)

LEMMA Classes ==
  /\ Producers \cap Consumers = {}
  /\ \A t \in Producers \cup Consumers : t \notin Blockers /\ t \notin Signallers
  /\ \A t \in Blockers : t \notin Signallers
  /\ \A t \in MP : t \notin FP
  /\ \A t \in Single : t \notin MP \cup MC \cup FP
  /\ \A t, u \in Single : Side(t) = Side(u) => t = u
  /\ \A t \in SP : Blockers = {} /\ MP = {} /\ FP = {}
  /\ \A t \in SC : MC = {}
<1> USE DEF Producers, Consumers, Single
<1>1. /\ Producers \cap Consumers = {}
      /\ \A t \in Producers \cup Consumers : t \notin Blockers /\ t \notin Signallers
      /\ \A t \in Blockers : t \notin Signallers
      /\ \A t \in MP : t \notin FP
  BY ModeAssumption DEF ModeAssumption
<1>2. ASSUME NEW p \in SP
      PROVE  MP \cup FP \cup Blockers = {} /\ \A q \in SP : q = p
  BY ModeAssumption DEF ModeAssumption
<1>3. ASSUME NEW c \in SC
      PROVE  MC = {} /\ \A d \in SC : d = c
  BY ModeAssumption DEF ModeAssumption
<1>4. \A t \in Single : t \notin MP \cup MC \cup FP
  BY <1>1, <1>2, <1>3
<1>5. \A t, u \in Single : Side(t) = Side(u) => t = u
  BY <1>1, <1>2, <1>3 DEF Side
<1> QED BY <1>1, <1>2, <1>3, <1>4, <1>5

THEOREM InitInv == Init => Inv
<1> SUFFICES ASSUME Init PROVE Inv
  OBVIOUS
<1> USE Sizes DEF Init
<1>1. NoCall \in Call /\ NoSigCall \in SigCall
  BY DEF NoCall, NoSigCall, Call, SigCall, Sides
<1>2. TypeOK
  <2>1. /\ tkt \in [Sides -> Nat] /\ sig \in [Sides -> Sigs]
        /\ flags \in BOOLEAN /\ fence \in Nat \cup {None}
    OBVIOUS
  <2>4. ver \in [0..(SlotCount - 1) -> Nat]
    OBVIOUS
  <2>5. data \in [0..(SlotCount - 1) -> Nat \cup {None}]
    OBVIOUS
  <2>2. /\ pc \in [Threads -> Places]
        /\ now \in [Threads -> Nat \cup {None}] /\ sg \in [Threads -> Sigs]
        /\ val \in [Threads -> Nat \cup {None}]
        /\ res \in [Threads -> Results]
    BY DEF Places, Results
  <2>3. arg \in [Threads -> Call \cup SigCall]
    BY <1>1
  <2> QED BY <2>1, <2>2, <2>3, <2>4, <2>5 DEF TypeOK
<1>3. \A t \in Threads : pc[t] = "idle"
  OBVIOUS
<1>4. WordsOK /\ BlockersOK
  BY <1>3 DEF WordsOK, BlockersOK, Lim, None, Sides
<1>5. ThreadsOK
  <2>1. \A t \in Threads : PlaceOK(t)
    BY <1>1, <1>3 DEF PlaceOK
  <2>2. \A t \in Threads : LoopOK(t) /\ CheckOK(t)
    BY <1>3 DEF LoopOK, CheckOK
  <2> QED BY <1>3, <2>1, <2>2 DEF ThreadsOK, HasTicket, Owns, Threads
<1>7. TicketsOK
  BY <1>3 DEF TicketsOK, HasTicket, Owns, Threads
<1>6. VersionsOK
  <2>1. tkt["pop"] = 0 /\ tkt["pop"] + SlotCount - 1 = SlotCount - 1
    BY DEF Sides
  <2>2. ASSUME NEW k \in 0..(SlotCount - 1)
        PROVE  ver[Slot(k)] = k /\ k # k + 1
    BY FirstLap
  <2> QED BY <2>1, <2>2 DEF VersionsOK
<1> QED BY <1>2, <1>4, <1>5, <1>6, <1>7 DEF Inv

---------------------------------------------------------------------------
(* What the invariant says of the numbers a step looks at.                 *)

LEMMA Numbers ==
  ASSUME TypeOK
  PROVE  /\ tkt["push"] \in Nat /\ tkt["pop"] \in Nat
         /\ fence # None => fence \in Nat
         /\ Lim \in Nat
         /\ \A k \in Int : ver[Slot(k)] \in Nat
         /\ \A t \in Threads : Side(t) \in Sides /\ tkt[Side(t)] \in Nat
BY SlotRange DEF TypeOK, Sides, Lim, Side

(* The version of any slot is within a lap of the consumers' ticket, and a *)
(* version that is the ticket's own or the next one says which lap it is.  *)
LEMMA VersionNear ==
  ASSUME TypeOK, VersionsOK, WordsOK, NEW k \in Int
  PROVE  /\ ver[Slot(k)] <= tkt["pop"] + SlotCount
         /\ ver[Slot(k)] >= tkt["pop"] - SlotCount + 1
         /\ ver[Slot(k)] = k => k < tkt["pop"] + SlotCount
         /\ ver[Slot(k)] = k + 1 => k < Lim
<1> DEFINE v == ver[Slot(k)]
<1>1. v \in Nat /\ tkt["pop"] \in Nat
  BY Numbers
<1>2. PICK j \in tkt["pop"]..(tkt["pop"] + SlotCount - 1) : Slot(j) = Slot(k)
  <2> DEFINE n == tkt["pop"]
  <2>1. n \in Int
    BY <1>1
  <2> HIDE DEF n
  <2>2. \E i \in n..(n + SlotCount - 1) : Slot(i) = Slot(k)
    BY <2>1, SlotInLap
  <2> QED BY <2>2 DEF n
<1>3. v \in {j - SlotCount + 1, j, j + 1} /\ (v = j + 1 => j < Lim)
  BY <1>2 DEF VersionsOK
<1>4. j \in Int /\ SlotCount \in Nat
  BY <1>1, <1>2, Sizes
<1>5. Slot(j + 1) # Slot(j) /\ Slot(j - 1) # Slot(j)
  BY <1>4, SlotNext
<1>6. Slot(j - SlotCount + 1) = Slot(j + 1)
  BY <1>4, SlotLap
<1>7. v = k => j = k
  BY <1>2, <1>3, <1>4, <1>5, <1>6
<1>8. v = k + 1 => k < Lim
  <2>1. v = k + 1 /\ v = j => k = j - 1
    BY <1>4
  <2>2. tkt["pop"] <= Lim /\ Lim \in Nat
    BY Numbers DEF WordsOK
  <2>3. v = k + 1 /\ v = j - SlotCount + 1 => k < tkt["pop"]
    BY <1>1, <1>2, <1>4
  <2>4. v = k + 1 /\ v = j + 1 => k = j
    BY <1>4
  <2> QED BY <1>1, <1>2, <1>3, <1>5, <2>1, <2>2, <2>3, <2>4
<1>9. v <= tkt["pop"] + SlotCount /\ v >= tkt["pop"] - SlotCount + 1
  BY <1>1, <1>2, <1>3, <1>4
<1> QED BY <1>1, <1>2, <1>4, <1>7, <1>8, <1>9

(* An "ok" of the version check is exact: the truncated comparison cannot  *)
(* take another lap's version for this one.                                *)
LEMMA VerdictExact ==
  ASSUME Inv, NEW t \in Threads, pc[t] \in {"check", "poll"},
         Verdict(t) = "ok"
  PROVE  ver[Slot(now[t])] = now[t] + Offset(t)
<1> DEFINE k == now[t]
           v == ver[Slot(k)]
           e == k + Offset(t)
<1>1. /\ k \in Nat /\ v \in Nat /\ t \in Producers \cup Consumers
      /\ PlaceOK(t) /\ LoopOK(t)
  BY Numbers DEF Inv, ThreadsOK, PlaceOK, Producers, Consumers, Single
<1>2. e \in Int /\ Offset(t) \in 0..1
  BY <1>1 DEF Offset
<1>3. Tk(v) = Tk(e)
  <2>1. Tk(v) \in Int /\ Tk(e) \in Int
    BY <1>1, <1>2, TicketRange
  <2> QED BY <2>1 DEF Verdict, NoData
<1>4. v <= tkt["pop"] + SlotCount /\ v >= tkt["pop"] - SlotCount + 1
  BY <1>1, VersionNear DEF Inv
<1>5. /\ tkt["push"] \in Nat /\ tkt["pop"] \in Nat
      /\ tkt["pop"] <= tkt["push"]
      /\ tkt["push"] - tkt["pop"] <= MaxLag + 2 * SlotCount
  BY Numbers DEF Inv, WordsOK
<1>6. v - e < TicketMod /\ e - v < TicketMod
  <2>1. CASE t \in Producers /\ pc[t] = "check"
    <3>1. k <= tkt["push"] /\ tkt["push"] - k <= MaxLag
      BY <1>1, <2>1 DEF LoopOK, Side
    <3> QED BY <1>1, <1>4, <1>5, <2>1, <3>1, Sizes DEF Offset
  <2>2. CASE t \in Producers /\ pc[t] = "poll"
    <3>1. tkt["pop"] <= k /\ k < tkt["push"]
      BY <2>2 DEF Inv, ThreadsOK, ProducerOK, HasTicket
    <3> QED BY <1>1, <1>4, <1>5, <2>2, <3>1, Sizes DEF Offset
  <2>3. CASE t \notin Producers
    <3>1. pc[t] = "check" /\ Side(t) = "pop"
      BY <1>1, <2>3 DEF PlaceOK, Producers, Consumers, Single, Side
    <3>2. k <= tkt["pop"] /\ tkt["pop"] - k <= MaxLag
      BY <1>1, <3>1 DEF LoopOK
    <3> QED BY <1>1, <1>4, <1>5, <2>3, <3>2, Sizes DEF Offset
  <2> QED BY <2>1, <2>2, <2>3
<1>7. v \in Int /\ v % TicketMod = e % TicketMod
  BY <1>1, <1>3 DEF Tk
<1>8. TicketMod \in Nat /\ TicketMod >= 1
  BY Sizes
<1> HIDE DEF v, e
<1>9. v = e
  BY <1>2, <1>6, <1>7, <1>8, SameWrapped
<1> QED BY <1>9 DEF v, e

---------------------------------------------------------------------------
(* Steps that touch only what a thread holds.                              *)

(* Such a step keeps the invariant if it is right about the thread that    *)
(* takes it, which gains no chunk, no ticket and no turn to jump.          *)
LEMMA LocalStep ==
  ASSUME Inv, TypeOK', UNCHANGED <<tkt, ver, data, flags, fence, val>>,
         NEW t \in Threads,
         \A u \in Threads \ {t} :
           pc'[u] = pc[u] /\ now'[u] = now[u] /\ arg'[u] = arg[u],
         PlaceOK(t)', LoopOK(t)', CheckOK(t)',
         pc'[t] \notin {"own", "used", "jump"},
         pc'[t] \in {"poll", "ahead"} =>
           pc[t] \in {"poll", "ahead"} /\ now'[t] = now[t]
  PROVE  Inv'
<1>1. WordsOK' /\ VersionsOK' /\ BlockersOK' /\ Lim' = Lim
  BY DEF Inv, WordsOK, VersionsOK, BlockersOK, Lim
<1>2. ASSUME NEW u \in Threads
      PROVE  PlaceOK(u)' /\ LoopOK(u)' /\ CheckOK(u)'
  <2>1. CASE u = t BY <2>1
  <2>2. CASE u # t BY <2>2 DEF Inv, ThreadsOK, PlaceOK, LoopOK, CheckOK
  <2> QED BY <2>1, <2>2
<1>3. ASSUME NEW p \in Producers, HasTicket(p)'
      PROVE  HasTicket(p) /\ now'[p] = now[p] /\ (Owns(p)' => pc'[p] = pc[p])
  BY <1>3 DEF HasTicket, Owns, Threads
<1>4. ASSUME NEW p \in Producers, HasTicket(p)'
      PROVE  ProducerOK(p)'
  BY <1>1, <1>3, <1>4 DEF Inv, ThreadsOK, ProducerOK, Owns
<1>5. ASSUME NEW c \in Consumers, Owns(c)'
      PROVE  Owns(c) /\ now'[c] = now[c] /\ pc'[c] = pc[c]
  BY <1>5 DEF Owns, Threads
<1>6. ASSUME NEW c \in Consumers, Owns(c)'
      PROVE  ConsumerOK(c)'
  BY <1>5, <1>6 DEF Inv, ThreadsOK, ConsumerOK
<1>7. TicketsOK'
  BY <1>3, <1>5 DEF Inv, TicketsOK
<1> QED BY <1>1, <1>2, <1>4, <1>6, <1>7 DEF Inv, ThreadsOK

LEMMA VerdictType ==
  ASSUME NEW t \in Threads
  PROVE  Verdict(t) \in {"ok", "busy", NoData(t), "locked"}
BY DEF Verdict

(* Returning to the caller keeps the invariant.                            *)
LEMMA ReturnStep ==
  ASSUME Inv, UNCHANGED <<queue, val>>, NEW t \in Threads \ Signallers,
         NEW why \in Results, Return(t, why)
  PROVE  Inv'
<1> USE DEF Return, queue
<1>1. NoCall \in Call
  BY Sizes DEF NoCall, Call
<1>2. TypeOK'
  BY <1>1, Sizes DEF Inv, TypeOK, Places
<1>3. pc'[t] = "idle" /\ arg'[t] \in Call
  BY <1>1 DEF Inv, TypeOK
<1>4. PlaceOK(t)' /\ LoopOK(t)' /\ CheckOK(t)'
  BY <1>3 DEF PlaceOK, LoopOK, CheckOK
<1>5. \A u \in Threads \ {t} :
        pc'[u] = pc[u] /\ now'[u] = now[u] /\ arg'[u] = arg[u]
  BY DEF Inv, TypeOK
<1> QED BY <1>2, <1>3, <1>4, <1>5, LocalStep

(* Moving on with the same ticket in hand.                                 *)
LEMMA GotoStep ==
  ASSUME Inv, UNCHANGED <<queue, val, now, sg, arg, res>>,
         NEW t \in Threads, NEW place \in Places, Goto(t, place),
         PlaceOK(t)', LoopOK(t)', CheckOK(t)',
         place \notin {"own", "used", "jump"},
         place \in {"poll", "ahead"} => pc[t] \in {"poll", "ahead"}
  PROVE  Inv'
<1> USE DEF Goto, queue
<1>1. TypeOK' /\ pc'[t] = place
  BY DEF Inv, TypeOK
<1>2. \A u \in Threads \ {t} :
        pc'[u] = pc[u] /\ now'[u] = now[u] /\ arg'[u] = arg[u]
  BY DEF Inv, TypeOK
<1> QED BY <1>1, <1>2, LocalStep

(* A load of the word, at the start of an operation or again.              *)
LEMMA LoadedStep ==
  ASSUME Inv, UNCHANGED <<queue, val>>, NEW t \in MP \cup MC \cup Single,
         pc[t] \in {"idle", "reload", "cas"}, NEW a \in Call, Loaded(t, a)
  PROVE  Inv'
<1> DEFINE s == Side(t)
<1>1. t \in Threads \ Signallers /\ tkt[s] \in Nat /\ s \in Sides
  BY Classes, Numbers DEF Inv, Threads, Producers, Consumers, Single
<1>2. CASE sig[s] \in a.fallback
  BY <1>1, <1>2, ReturnStep DEF Loaded, Results
<1>3. CASE sig[s] \notin a.fallback
  <2> USE DEF Goto, queue
  <2>1. /\ pc'  = [pc EXCEPT ![t] = "check"]
        /\ now' = [now EXCEPT ![t] = tkt[s]]
        /\ sg'  = [sg EXCEPT ![t] = sig[s]]
        /\ arg' = [arg EXCEPT ![t] = a]
        /\ UNCHANGED res
    BY <1>3 DEF Loaded
  <2>2. TypeOK'
    BY <1>1, <2>1 DEF Inv, TypeOK, Places
  <2>3. pc'[t] = "check" /\ now'[t] = tkt[s] /\ arg'[t] \in Call
    BY <1>1, <2>1 DEF Inv, TypeOK
  <2>4. PlaceOK(t)'
    BY <1>1, <2>3 DEF PlaceOK
  <2>5. LoopOK(t)' /\ CheckOK(t)'
    BY <1>1, <2>3, Sizes DEF LoopOK, CheckOK
  <2>6. \A u \in Threads \ {t} :
          pc'[u] = pc[u] /\ now'[u] = now[u] /\ arg'[u] = arg[u]
    BY <2>1 DEF Inv, TypeOK
  <2> QED BY <1>1, <2>2, <2>3, <2>4, <2>5, <2>6, LocalStep
<1> QED BY <1>2, <1>3

LEMMA PrepareInv ==
  ASSUME Inv, NEW t \in MP \cup MC, NEW a \in Calls, Prepare(t, a)
  PROVE  Inv'
BY LoadedStep, Sizes DEF Prepare, Producers, Consumers

LEMMA PrepareSingleInv ==
  ASSUME Inv, NEW t \in Single, PrepareSingle(t)
  PROVE  Inv'
<1>1. NoCall \in Call
  BY Sizes DEF NoCall, Call
<1> QED BY <1>1, LoadedStep DEF PrepareSingle, Single, Producers, Consumers

LEMMA LoadAgainInv ==
  ASSUME Inv, NEW t \in Threads, Reload(t) \/ CasFails(t)
  PROVE  Inv'
<1>1. pc[t] \in {"reload", "cas"} /\ Loaded(t, arg[t])
      /\ UNCHANGED <<queue, val>>
  BY DEF Reload, CasFails
<1>2. t \in MP \cup MC
  BY <1>1 DEF Inv, ThreadsOK, PlaceOK
<1>3. arg[t] \in Call
  BY <1>2, Classes DEF Inv, ThreadsOK, PlaceOK, Producers, Consumers
<1> QED BY <1>1, <1>2, <1>3, LoadedStep

(* The slot's version is checked: the answers that end the operation.      *)
LEMMA VerdictReturns ==
  ASSUME Inv, UNCHANGED <<queue, val>>, NEW t \in Producers \cup Consumers,
         Return(t, Verdict(t))
  PROVE  Inv'
<1>1. t \in Threads \ Signallers
  BY Classes DEF Threads
<1>2. Verdict(t) \in Results
  BY <1>1, VerdictType DEF NoData, Results
<1> QED BY <1>1, <1>2, ReturnStep

(* A good version lets the thread go on, and after block_producers no      *)
(* producer's version is good.                                             *)
LEMMA CheckGood ==
  ASSUME Inv, NEW t \in Threads, pc[t] = "check", Verdict(t) = "ok",
         now[t] = tkt[Side(t)]
  PROVE  /\ ver[Slot(now[t])] = now[t] + Offset(t)
         /\ t \in Producers => fence = None
<1>1. ver[Slot(now[t])] = now[t] + Offset(t)
  BY VerdictExact
<1>2. ASSUME t \in Producers, fence # None
      PROVE  FALSE
  <2>1. /\ now[t] = tkt["push"] /\ tkt["push"] \in Nat /\ tkt["pop"] \in Nat
        /\ fence \in Nat
    BY <1>2, Numbers DEF Inv, Side
  <2>2. ver[Slot(now[t])] = now[t]
    BY <1>1, <1>2, <2>1 DEF Offset
  <2>3. now[t] < tkt["pop"] + SlotCount
    BY <2>1, <2>2, VersionNear DEF Inv
  <2>4. tkt["pop"] <= fence /\ tkt["push"] >= fence + 2 * SlotCount
    BY <1>2 DEF Inv, WordsOK, Lim
  <2> QED BY <2>1, <2>3, <2>4, Sizes
<1> QED BY <1>1, <1>2

LEMMA CheckMultiInv ==
  ASSUME Inv, NEW t \in Threads, CheckMulti(t)
  PROVE  Inv'
<1>1. /\ pc[t] = "check" /\ t \notin Single /\ PlaceOK(t) /\ LoopOK(t)
      /\ UNCHANGED <<queue, val>>
  BY DEF CheckMulti, Inv, ThreadsOK
<1>2. t \in MP \cup MC
  BY <1>1 DEF PlaceOK
<1>3. CASE Verdict(t) = "ok" /\ Goto(t, "cas") /\ UNCHANGED <<now, sg, arg, res>>
  <2>1. pc'[t] = "cas"
    BY <1>3 DEF Inv, TypeOK, Goto
  <2>2. PlaceOK(t)' /\ LoopOK(t)'
    BY <1>1, <1>2, <1>3, <2>1 DEF PlaceOK, LoopOK, queue
  <2>3. CheckOK(t)'
    BY <1>1, <1>3, CheckGood DEF CheckOK, queue
  <2> QED BY <1>1, <1>3, <2>2, <2>3, GotoStep DEF Places
<1>4. CASE Verdict(t) = "busy" /\ Goto(t, "reload")
           /\ UNCHANGED <<now, sg, arg, res>>
  <2>1. pc'[t] = "reload"
    BY <1>4 DEF Inv, TypeOK, Goto
  <2>2. PlaceOK(t)' /\ LoopOK(t)' /\ CheckOK(t)'
    BY <1>1, <1>2, <1>4, <2>1 DEF PlaceOK, LoopOK, CheckOK, queue
  <2> QED BY <1>1, <1>4, <2>2, GotoStep DEF Places
<1>5. CASE Return(t, Verdict(t))
  BY <1>1, <1>2, <1>5, VerdictReturns DEF Producers, Consumers
<1> QED BY <1>3, <1>4, <1>5 DEF CheckMulti

LEMMA CheckSingleInv ==
  ASSUME Inv, NEW t \in Threads, CheckSingle(t)
  PROVE  Inv'
<1>1. /\ pc[t] = "check" /\ t \in Single /\ PlaceOK(t) /\ LoopOK(t)
      /\ UNCHANGED <<queue, val>>
  BY DEF CheckSingle, Inv, ThreadsOK
<1>2. CASE Verdict(t) = "ok" /\ Goto(t, "store")
           /\ UNCHANGED <<now, sg, arg, res>>
  <2>1. pc'[t] = "store"
    BY <1>2 DEF Inv, TypeOK, Goto
  <2>2. PlaceOK(t)' /\ LoopOK(t)'
    BY <1>1, <1>2, <2>1 DEF PlaceOK, LoopOK, queue
  <2>3. CheckOK(t)'
    BY <1>1, <1>2, CheckGood DEF CheckOK, queue
  <2> QED BY <1>1, <1>2, <2>2, <2>3, GotoStep DEF Places
<1>3. CASE Return(t, Verdict(t))
  BY <1>1, <1>3, VerdictReturns DEF Producers, Consumers, Single
<1> QED BY <1>2, <1>3 DEF CheckSingle

LEMMA FifoAheadInv ==
  ASSUME Inv, NEW t \in FP, FifoAhead(t)
  PROVE  Inv'
<1>1. /\ pc[t] = "ahead" /\ UNCHANGED <<queue, val>>
      /\ t \in Threads \ Signallers /\ PlaceOK(t)
  BY Classes DEF FifoAhead, Inv, ThreadsOK, Threads, Producers
<1>2. CASE Return(t, "locked")
  BY <1>1, <1>2, ReturnStep DEF Results
<1>3. CASE Goto(t, "poll") /\ UNCHANGED <<now, sg, arg, res>>
  <2>1. pc'[t] = "poll"
    BY <1>1, <1>3 DEF Inv, TypeOK, Goto
  <2>2. PlaceOK(t)' /\ LoopOK(t)' /\ CheckOK(t)'
    BY <1>1, <1>3, <2>1 DEF PlaceOK, LoopOK, CheckOK
  <2> QED BY <1>1, <1>3, <2>2, GotoStep DEF Places
<1> QED BY <1>2, <1>3 DEF FifoAhead

(* A signaller that returns or goes round its loop changes nothing shared. *)
LEMMA SigReturnStep ==
  ASSUME Inv, UNCHANGED <<tkt, ver, data, flags, fence, val>>,
         sig' \in [Sides -> Sigs], NEW t \in Signallers,
         NEW why \in Results, NEW n \in Nat \cup {None}, NEW g \in Sigs,
         SigReturn(t, why, n, g)
  PROVE  Inv'
<1> USE DEF SigReturn
<1>0. t \in Threads
  BY DEF Threads
<1>1. NoSigCall \in SigCall
  BY Sizes DEF NoSigCall, SigCall, Sides
<1>2. TypeOK'
  BY <1>1, Sizes DEF Inv, TypeOK, Places
<1>3. pc'[t] = "idle" /\ arg'[t] \in SigCall
  BY <1>0, <1>1 DEF Inv, TypeOK
<1>4. PlaceOK(t)' /\ LoopOK(t)' /\ CheckOK(t)'
  BY <1>3 DEF PlaceOK, LoopOK, CheckOK
<1>5. \A u \in Threads \ {t} :
        pc'[u] = pc[u] /\ now'[u] = now[u] /\ arg'[u] = arg[u]
  BY DEF Inv, TypeOK
<1> QED BY <1>0, <1>2, <1>3, <1>4, <1>5, LocalStep

LEMMA SigLoadedStep ==
  ASSUME Inv, UNCHANGED <<queue, val>>, NEW t \in Signallers,
         NEW a \in SigCall, SigLoaded(t, a)
  PROVE  Inv'
<1> DEFINE s == a.side
<1>1. /\ t \in Threads /\ s \in Sides /\ tkt[s] \in Nat /\ sig[s] \in Sigs
      /\ tkt[s] - 1 \in Nat \cup {None}
  BY DEF Inv, TypeOK, Threads, SigCall, None
<1>5. UNCHANGED <<tkt, ver, data, flags, fence, val>> /\ sig' \in [Sides -> Sigs]
  BY DEF queue, Inv, TypeOK
<1>2. CASE SigReturn(t, "preconditions", tkt[s] - 1, sig[s])
  BY <1>1, <1>2, <1>5, SigReturnStep DEF Results
<1>3. CASE SigReturn(t, "preconditions", None, 0)
  BY <1>1, <1>3, <1>5, Sizes, SigReturnStep DEF Results
<1>4. CASE /\ Goto(t, "sigcas") /\ UNCHANGED res
           /\ now' = [now EXCEPT ![t] = tkt[s]]
           /\ sg'  = [sg EXCEPT ![t] = sig[s]]
           /\ arg' = [arg EXCEPT ![t] = a]
  <2> USE DEF Goto, queue
  <2>1. TypeOK'
    BY <1>1, <1>4 DEF Inv, TypeOK, Places
  <2>2. pc'[t] = "sigcas" /\ now'[t] = tkt[s] /\ arg'[t] = a
    BY <1>1, <1>4 DEF Inv, TypeOK
  <2>3. PlaceOK(t)' /\ CheckOK(t)'
    BY <1>1, <2>2 DEF PlaceOK, CheckOK
  <2>4. LoopOK(t)'
    BY <1>1, <2>2, Sizes DEF LoopOK
  <2>5. \A u \in Threads \ {t} :
          pc'[u] = pc[u] /\ now'[u] = now[u] /\ arg'[u] = arg[u]
    BY <1>4 DEF Inv, TypeOK
  <2> QED BY <1>1, <2>1, <2>2, <2>3, <2>4, <2>5, LocalStep
<1> QED BY <1>2, <1>3, <1>4 DEF SigLoaded

LEMMA SigLoadInv ==
  ASSUME Inv, NEW t \in Signallers, NEW a \in SigCalls, SigLoad(t, a)
  PROVE  Inv'
BY SigLoadedStep, Sizes DEF SigLoad

LEMMA SigCasFailsInv ==
  ASSUME Inv, NEW t \in Signallers, SigCasFails(t)
  PROVE  Inv'
<1> DEFINE s == arg[t].side
<1>1. arg[t] \in SigCall /\ t \in Threads
  BY DEF Inv, ThreadsOK, PlaceOK, Threads
<1>2. s \in Sides /\ tkt[s] - 1 \in Nat \cup {None} /\ sig[s] \in Sigs
  BY <1>1 DEF Inv, TypeOK, SigCall, None
<1>3. CASE SigReturn(t, "preconditions", tkt[s] - 1, sig[s])
  <2>1. UNCHANGED <<tkt, ver, data, flags, fence, val>> /\ sig' \in [Sides -> Sigs]
    BY DEF SigCasFails, queue, Inv, TypeOK
  <2> QED BY <1>2, <1>3, <2>1, SigReturnStep DEF Results
<1>4. CASE SigLoaded(t, arg[t])
  BY <1>1, <1>4, SigLoadedStep DEF SigCasFails
<1> QED BY <1>3, <1>4 DEF SigCasFails

LEMMA SigCasSetsInv ==
  ASSUME Inv, NEW t \in Signallers, SigCasSets(t)
  PROVE  Inv'
<1> DEFINE s == arg[t].side
<1>1. arg[t] \in SigCall /\ t \in Threads
  BY DEF Inv, ThreadsOK, PlaceOK, Threads
<1>2. /\ s \in Sides /\ tkt[s] - 1 \in Nat \cup {None} /\ sig[s] \in Sigs
      /\ arg[t].desired \in Sigs
  BY <1>1 DEF Inv, TypeOK, SigCall, None
<1>3. UNCHANGED <<tkt, ver, data, flags, fence, val>> /\ sig' \in [Sides -> Sigs]
  BY <1>2 DEF SigCasSets, Inv, TypeOK
<1>4. CASE SigReturn(t, "ok", tkt[s] - 1, sig[s])
  BY <1>2, <1>3, <1>4, SigReturnStep DEF Results
<1>5. CASE SigReturn(t, "ok", None, 0)
  BY <1>3, <1>5, Sizes, SigReturnStep DEF Results
<1> QED BY <1>4, <1>5 DEF SigCasSets

---------------------------------------------------------------------------
(* Steps that take a ticket.                                               *)

(* The ticket of a thread whose CAS matches is the word's, not one of      *)
(* another lap: MaxLag keeps it near.                                      *)
LEMMA MatchExact ==
  ASSUME Inv, NEW t \in MP \cup MC, pc[t] = "cas", Matches(t, Side(t))
  PROVE  now[t] = tkt[Side(t)]
<1> DEFINE w == tkt[Side(t)]
<1>1. t \in Threads
  BY DEF Threads, Producers, Consumers
<1>2. /\ now[t] \in Nat /\ w \in Nat /\ now[t] <= w /\ w - now[t] <= MaxLag
  BY <1>1, Numbers DEF Inv, ThreadsOK, PlaceOK, LoopOK
<1>3. w % TicketMod = now[t] % TicketMod
  BY DEF Matches, Tk
<1> HIDE DEF w
<1>4. w \in Int /\ now[t] \in Int /\ w - now[t] < TicketMod /\ now[t] - w < TicketMod
  BY <1>2, Sizes
<1>5. w = now[t]
  BY <1>3, <1>4, SameWrapped, Sizes
<1> QED BY <1>5 DEF w

(* A producer that finds the version of the push ticket good takes that    *)
(* ticket and owns its chunk.                                              *)
LEMMA PushStep ==
  ASSUME Inv, TypeOK', NEW p \in Producers,
         pc[p] \in {"cas", "store"}, now[p] = tkt["push"],
         tkt' = [tkt EXCEPT !["push"] = @ + 1],
         pc' = [pc EXCEPT ![p] = "own"], now'[p] = now[p],
         \A u \in Threads \ {p} : now'[u] = now[u],
         UNCHANGED <<ver, data, flags, arg, val, fence>>, Room("push", 1)
  PROVE  Inv'
<1> DEFINE n == tkt["push"]
<1>1. /\ n \in Nat /\ tkt["pop"] \in Nat /\ p \in Threads
      /\ tkt'["push"] = n + 1 /\ tkt'["pop"] = tkt["pop"]
  BY Numbers DEF Inv, TypeOK, Sides, Threads
<1>2. Side(p) = "push" /\ Offset(p) = 0
  BY DEF Side, Offset
<1>3. ver[Slot(n)] = n /\ fence = None
  BY <1>1, <1>2 DEF Inv, ThreadsOK, CheckOK
<1>4. n < tkt["pop"] + SlotCount
  BY <1>1, <1>3, VersionNear DEF Inv
<1>5. Lim = n /\ Lim' = n + 1
  BY <1>1, <1>3 DEF Lim
<1>6. WordsOK'
  BY <1>1, <1>3, <1>4, <1>5, Sizes DEF Inv, WordsOK
<1>7. BlockersOK'
  BY <1>1 DEF Inv, BlockersOK, TypeOK
<1>8. VersionsOK'
  BY <1>1, <1>5, Sizes DEF Inv, VersionsOK
<1>9. ASSUME NEW u \in Threads
      PROVE  PlaceOK(u)' /\ LoopOK(u)' /\ CheckOK(u)'
  <2>1. CASE u = p
    BY <1>1, <2>1 DEF Inv, TypeOK, ThreadsOK, PlaceOK, LoopOK, CheckOK
  <2>2. CASE u # p
    <3>1. pc'[u] = pc[u] /\ now'[u] = now[u] /\ arg'[u] = arg[u]
      BY <2>2 DEF Inv, TypeOK
    <3>2. PlaceOK(u)'
      BY <3>1 DEF Inv, ThreadsOK, PlaceOK
    <3>3. LoopOK(u)'
      <4>1. u \in Single => Side(u) # "push"
        BY <2>2, <1>1, Classes DEF Inv, ThreadsOK, PlaceOK, Single, Producers, Consumers, Side
      <4> QED BY <1>1, <3>1, <4>1 DEF Inv, ThreadsOK, PlaceOK, LoopOK, Room, InLoop, Side, Sides
    <3>4. CheckOK(u)'
      BY <1>1, <3>1 DEF Inv, ThreadsOK, PlaceOK, LoopOK, CheckOK, Side
    <3> QED BY <3>2, <3>3, <3>4
  <2> QED BY <2>1, <2>2
<1>10. ASSUME NEW q \in Producers, HasTicket(q)'
       PROVE  ProducerOK(q)' /\ (q # p => HasTicket(q) /\ now'[q] = now[q] /\ now[q] < n)
  <2>1. CASE q = p
    BY <1>1, <1>3, <1>5, <2>1 DEF Inv, WordsOK, ProducerOK, Owns, TypeOK
  <2>2. CASE q # p
    <3>1. HasTicket(q) /\ now'[q] = now[q] /\ pc'[q] = pc[q] /\ q \in Threads
      BY <1>10, <2>2 DEF HasTicket, Inv, TypeOK, Threads
    <3>2. now[q] < Lim \/ fence + 2 * SlotCount <= now[q]
      BY <3>1 DEF Inv, ThreadsOK, ProducerOK
    <3>3. now[q] \in Nat /\ now[q] < n
      BY <1>1, <3>1 DEF Inv, ThreadsOK, ProducerOK, PlaceOK, HasTicket
    <3> QED BY <1>1, <1>5, <3>1, <3>2, <3>3 DEF Inv, ThreadsOK, ProducerOK, Owns
  <2> QED BY <2>1, <2>2
<1>11. ASSUME NEW c \in Consumers, Owns(c)'
       PROVE  ConsumerOK(c)' /\ Owns(c) /\ now'[c] = now[c]
  <2>1. c # p /\ c \in Threads
    BY Classes DEF Threads
  <2>2. Owns(c) /\ now'[c] = now[c] /\ pc'[c] = pc[c]
    BY <1>11, <2>1 DEF Owns, Inv, TypeOK
  <2> QED BY <1>1, <2>2 DEF Inv, ThreadsOK, ConsumerOK
<1>12. TicketsOK'
  <2>1. ASSUME NEW q \in Producers, NEW r \in Producers,
               HasTicket(q)', HasTicket(r)', now'[q] = now'[r]
        PROVE  q = r
    BY <1>1, <1>10, <2>1 DEF Inv, TicketsOK
  <2>2. ASSUME NEW c \in Consumers, NEW d \in Consumers,
               Owns(c)', Owns(d)', now'[c] = now'[d]
        PROVE  c = d
    BY <1>11, <2>2 DEF Inv, TicketsOK
  <2> QED BY <2>1, <2>2 DEF TicketsOK
<1> QED BY <1>6, <1>7, <1>8, <1>9, <1>10, <1>11, <1>12 DEF Inv, ThreadsOK

(* A consumer that finds the version of the pop ticket good takes that     *)
(* ticket and owns its chunk.                                              *)
LEMMA PopStep ==
  ASSUME Inv, TypeOK', NEW c \in Consumers,
         pc[c] \in {"cas", "store"}, now[c] = tkt["pop"],
         tkt' = [tkt EXCEPT !["pop"] = @ + 1],
         pc' = [pc EXCEPT ![c] = "own"], now'[c] = now[c],
         \A u \in Threads \ {c} : now'[u] = now[u],
         UNCHANGED <<ver, data, flags, arg, val, fence>>, Room("pop", 1)
  PROVE  Inv'
<1> DEFINE n == tkt["pop"]
<1>1. /\ n \in Nat /\ tkt["push"] \in Nat /\ c \in Threads /\ Lim \in Nat
      /\ tkt'["pop"] = n + 1 /\ tkt'["push"] = tkt["push"] /\ Lim' = Lim
  BY Numbers DEF Inv, TypeOK, Sides, Threads, Lim
<1>2. Side(c) = "pop" /\ Offset(c) = 1
  BY Classes DEF Side, Offset
<1>3. ver[Slot(n)] = n + 1
  BY <1>1, <1>2 DEF Inv, ThreadsOK, CheckOK
<1>4. n < Lim /\ data[Slot(n)] = n
  BY <1>1, <1>3, Sizes DEF Inv, VersionsOK
<1>5. WordsOK'
  BY <1>1, <1>4, Sizes DEF Inv, WordsOK
<1>6. BlockersOK'
  BY <1>1 DEF Inv, BlockersOK, TypeOK
<1>7. VersionsOK'
  <2> SUFFICES ASSUME NEW k \in (n + 1)..(n + SlotCount)
               PROVE  /\ ver[Slot(k)] \in {k - SlotCount + 1, k, k + 1}
                      /\ ver[Slot(k)] = k + 1 => k < Lim /\ data[Slot(k)] = k
    <3>1. tkt'["pop"] + SlotCount - 1 = n + SlotCount
      BY <1>1, Sizes
    <3> QED BY <1>1, <3>1 DEF VersionsOK
  <2>1. CASE k = n + SlotCount
    BY <1>1, <1>3, <2>1, SlotLap, Sizes
  <2>2. CASE k # n + SlotCount
    <3>1. k \in n..(n + SlotCount - 1)
      BY <1>1, <2>2, Sizes
    <3> QED BY <3>1 DEF Inv, VersionsOK
  <2> QED BY <2>1, <2>2
<1>8. ASSUME NEW u \in Threads
      PROVE  PlaceOK(u)' /\ LoopOK(u)' /\ CheckOK(u)'
  <2>1. CASE u = c
    BY <1>1, <2>1 DEF Inv, TypeOK, ThreadsOK, PlaceOK, LoopOK, CheckOK
  <2>2. CASE u # c
    <3>1. pc'[u] = pc[u] /\ now'[u] = now[u] /\ arg'[u] = arg[u]
      BY <2>2 DEF Inv, TypeOK
    <3>2. PlaceOK(u)'
      BY <3>1 DEF Inv, ThreadsOK, PlaceOK
    <3>3. LoopOK(u)'
      <4>1. u \in Single => Side(u) # "pop"
        BY <2>2, <1>1, Classes DEF Inv, ThreadsOK, PlaceOK, Single, Producers, Consumers, Side
      <4> QED BY <1>1, <3>1, <4>1 DEF Inv, ThreadsOK, PlaceOK, LoopOK, Room, InLoop, Side, Sides
    <3>4. CheckOK(u)'
      BY <1>1, <3>1 DEF Inv, ThreadsOK, PlaceOK, LoopOK, CheckOK, Side
    <3> QED BY <3>2, <3>3, <3>4
  <2> QED BY <2>1, <2>2
<1>9. ASSUME NEW q \in Producers, HasTicket(q)'
      PROVE  ProducerOK(q)' /\ HasTicket(q) /\ now'[q] = now[q]
  <2>1. HasTicket(q) /\ now'[q] = now[q] /\ pc'[q] = pc[q] /\ q \in Threads
    BY <1>9, Classes DEF HasTicket, Inv, TypeOK, Threads
  <2>2. ProducerOK(q) /\ now[q] \in Nat
    BY <2>1 DEF Inv, ThreadsOK, PlaceOK, HasTicket
  <2>3. now[q] # n
    BY <1>3, <2>2 DEF ProducerOK
  <2> QED BY <1>1, <2>1, <2>2, <2>3 DEF ProducerOK, Owns
<1>10. ASSUME NEW d \in Consumers, Owns(d)'
       PROVE  ConsumerOK(d)' /\ (d # c => Owns(d) /\ now'[d] = now[d] /\ now[d] < n)
  <2>1. CASE d = c
    BY <1>1, <1>3, <1>4, <2>1 DEF ConsumerOK, Inv, TypeOK
  <2>2. CASE d # c
    <3>1. Owns(d) /\ now'[d] = now[d] /\ pc'[d] = pc[d] /\ d \in Threads
      BY <1>10, <2>2 DEF Owns, Inv, TypeOK, Threads
    <3>2. ConsumerOK(d) /\ now[d] \in Nat
      BY <3>1 DEF Inv, ThreadsOK, PlaceOK, Owns
    <3> QED BY <1>1, <3>1, <3>2 DEF ConsumerOK
  <2> QED BY <2>1, <2>2
<1>11. TicketsOK'
  <2>1. ASSUME NEW q \in Producers, NEW r \in Producers,
               HasTicket(q)', HasTicket(r)', now'[q] = now'[r]
        PROVE  q = r
    BY <1>9, <2>1 DEF Inv, TicketsOK
  <2>2. ASSUME NEW d \in Consumers, NEW e \in Consumers,
               Owns(d)', Owns(e)', now'[d] = now'[e]
        PROVE  d = e
    BY <1>1, <1>10, <2>2 DEF Inv, TicketsOK
  <2> QED BY <2>1, <2>2 DEF TicketsOK
<1> QED BY <1>5, <1>6, <1>7, <1>8, <1>9, <1>10, <1>11 DEF Inv, ThreadsOK

LEMMA CasTakesInv ==
  ASSUME Inv, NEW t \in Threads, CasTakes(t)
  PROVE  Inv'
<1> DEFINE s == Side(t)
<1>1. t \in MP \cup MC /\ pc[t] = "cas" /\ arg[t] \in Call
  BY Classes DEF CasTakes, Inv, ThreadsOK, PlaceOK, Producers, Consumers
<1>2. now[t] = tkt[s]
  BY <1>1, MatchExact DEF CasTakes
<1>3. s \in Sides /\ tkt[s] \in Nat
  BY Numbers DEF Inv
<1>4. TypeOK'
  BY <1>1, <1>3 DEF CasTakes, Goto, Inv, TypeOK, Places, Call
<1>5. now'[t] = now[t] /\ \A u \in Threads \ {t} : now'[u] = now[u]
  BY <1>2 DEF CasTakes, Inv, TypeOK
<1>6. CASE t \in Producers
  <2>1. s = "push"
    BY <1>6 DEF Side
  <2> QED BY <1>1, <1>2, <1>4, <1>5, <1>6, <2>1, PushStep DEF CasTakes, Goto
<1>7. CASE t \in Consumers
  <2>1. s = "pop"
    BY <1>7, Classes DEF Side
  <2> QED BY <1>1, <1>2, <1>4, <1>5, <1>7, <2>1, PopStep DEF CasTakes, Goto
<1> QED BY <1>1, <1>6, <1>7 DEF Producers, Consumers

LEMMA StoreSingleInv ==
  ASSUME Inv, NEW t \in Threads, StoreSingle(t)
  PROVE  Inv'
<1> DEFINE s == Side(t)
<1>1. t \in Single /\ pc[t] = "store"
  BY DEF StoreSingle, Inv, ThreadsOK, PlaceOK
<1>2. now[t] = tkt[s]
  BY <1>1 DEF Inv, ThreadsOK, LoopOK
<1>3. s \in Sides /\ tkt[s] \in Nat
  BY Numbers DEF Inv
<1>4. TypeOK'
  BY <1>1, <1>2, <1>3, Sizes DEF StoreSingle, Goto, Inv, TypeOK, Places
<1>5. tkt' = [tkt EXCEPT ![s] = @ + 1]
  BY <1>2 DEF StoreSingle
<1>6. CASE t \in Producers
  <2>1. s = "push"
    BY <1>6 DEF Side
  <2> QED BY <1>1, <1>2, <1>4, <1>5, <1>6, <2>1, PushStep DEF StoreSingle, Goto
<1>7. CASE t \in Consumers
  <2>1. s = "pop"
    BY <1>7, Classes DEF Side
  <2> QED BY <1>1, <1>2, <1>4, <1>5, <1>7, <2>1, PopStep DEF StoreSingle, Goto
<1> QED BY <1>1, <1>6, <1>7 DEF Single, Producers, Consumers

(* The signal a carry leaves behind is a signal.                           *)
LEMMA CarriedType ==
  ASSUME TypeOK, NEW s \in Sides, NEW n \in Nat
  PROVE  Carried(s, n) \in Sigs
<1> DEFINE c == sig[s] + (n \div TicketMod) - (tkt[s] \div TicketMod)
<1>1. n \div TicketMod \in Int /\ tkt[s] \div TicketMod \in Int /\ sig[s] \in Int
  BY DivMod, Sizes DEF TypeOK, Sigs
<1>2. c \in Int
  BY <1>1
<1> HIDE DEF c
<1>3. c % SigMod \in 0..(SigMod - 1)
  BY <1>2, DivMod, Sizes
<1> QED BY <1>3 DEF Carried, Sigs, c

(* A fifo producer takes the next ticket whatever the state of its slot.   *)
LEMMA FifoPrepareInv ==
  ASSUME Inv, NEW p \in FP, FifoPrepare(p)
  PROVE  Inv'
<1> DEFINE n == tkt["push"]
<1>1. /\ n \in Nat /\ tkt["pop"] \in Nat /\ p \in Threads /\ p \in Producers
      /\ p \notin Consumers /\ pc[p] = "idle" /\ Lim \in Nat
  BY Classes, Numbers DEF FifoPrepare, Inv, Threads, Producers
<1>2. /\ tkt' = [tkt EXCEPT !["push"] = n + 1]
      /\ now' = [now EXCEPT ![p] = n] /\ pc' = [pc EXCEPT ![p] = "poll"]
      /\ UNCHANGED <<ver, data, flags, arg, val, fence, sg, res>>
  BY DEF FifoPrepare, Goto
<1>3. TypeOK'
  BY <1>1, <1>2, CarriedType DEF FifoPrepare, Inv, TypeOK, Places, Sides
<1>4. /\ tkt'["push"] = n + 1 /\ tkt'["pop"] = tkt["pop"]
      /\ now'[p] = n /\ pc'[p] = "poll"
      /\ \A u \in Threads \ {p} : pc'[u] = pc[u] /\ now'[u] = now[u]
  BY <1>1, <1>2 DEF Inv, TypeOK, Sides
<1>5. Lim <= Lim' /\ Lim' <= n + 1 /\ (fence = None => Lim = n /\ Lim' = n + 1)
      /\ (fence # None => Lim' = Lim)
  BY <1>1, <1>2, <1>4 DEF Lim, Inv, WordsOK
<1>6. WordsOK'
  BY <1>1, <1>2, <1>4, <1>5, Sizes DEF FifoPrepare, Inv, WordsOK, Lim
<1>7. BlockersOK'
  BY <1>2, <1>4 DEF Inv, BlockersOK
<1>8. VersionsOK'
  BY <1>1, <1>2, <1>4, <1>5 DEF Inv, VersionsOK
<1>9. ASSUME NEW u \in Threads
      PROVE  PlaceOK(u)' /\ LoopOK(u)' /\ CheckOK(u)'
  <2>1. CASE u = p
    BY <1>1, <1>2, <1>4, <2>1 DEF Inv, ThreadsOK, PlaceOK, LoopOK, CheckOK
  <2>2. CASE u # p
    <3>1. PlaceOK(u)'
      BY <1>2, <1>4, <2>2 DEF Inv, ThreadsOK, PlaceOK
    <3>2. LoopOK(u)'
      <4>1. u \in Single => Side(u) # "push"
        BY Classes DEF Single, Producers, Consumers, Side
      <4> QED BY <1>1, <1>2, <1>4, <2>2, <4>1
              DEF FifoPrepare, Inv, ThreadsOK, PlaceOK, LoopOK, Room, InLoop, Side
    <3>3. CheckOK(u)'
      BY <1>1, <1>2, <1>4, <2>2 DEF Inv, ThreadsOK, PlaceOK, LoopOK, CheckOK, Side
    <3> QED BY <3>1, <3>2, <3>3
  <2> QED BY <2>1, <2>2
<1>10. ver[Slot(n)] # n + 1
  BY <1>1, VersionNear DEF Inv, WordsOK, Lim
<1>11. ASSUME NEW q \in Producers, HasTicket(q)'
       PROVE  ProducerOK(q)' /\ (q # p => HasTicket(q) /\ now'[q] = now[q] /\ now[q] < n)
  <2>1. CASE q = p
    <3>1. tkt["pop"] <= n /\ (n < Lim' \/ fence + 2 * SlotCount <= n)
      BY <1>1, <1>2, <1>5 DEF Inv, WordsOK
    <3>2. ~Owns(p)' /\ pc'[p] # "used"
      BY <1>4 DEF Owns
    <3> QED BY <1>1, <1>2, <1>4, <1>10, <2>1, <3>1, <3>2 DEF ProducerOK
  <2>2. CASE q # p
    <3>1. HasTicket(q) /\ now'[q] = now[q] /\ pc'[q] = pc[q] /\ q \in Threads
      BY <1>4, <1>11, <2>2 DEF HasTicket, Threads
    <3>2. ProducerOK(q) /\ now[q] \in Nat
      BY <3>1 DEF Inv, ThreadsOK, PlaceOK, HasTicket
    <3> QED BY <1>1, <1>2, <1>4, <1>5, <3>1, <3>2 DEF ProducerOK, Owns
  <2> QED BY <2>1, <2>2
<1>12. ASSUME NEW c \in Consumers, Owns(c)'
       PROVE  ConsumerOK(c)' /\ Owns(c) /\ now'[c] = now[c]
  <2>1. Owns(c) /\ now'[c] = now[c] /\ pc'[c] = pc[c]
    BY <1>1, <1>4, <1>12 DEF Owns, Threads
  <2> QED BY <1>2, <1>4, <2>1 DEF Inv, ThreadsOK, ConsumerOK
<1>13. TicketsOK'
  <2>1. ASSUME NEW q \in Producers, NEW r \in Producers,
               HasTicket(q)', HasTicket(r)', now'[q] = now'[r]
        PROVE  q = r
    BY <1>1, <1>4, <1>11, <2>1 DEF Inv, TicketsOK
  <2>2. ASSUME NEW c \in Consumers, NEW d \in Consumers,
               Owns(c)', Owns(d)', now'[c] = now'[d]
        PROVE  c = d
    BY <1>12, <2>2 DEF Inv, TicketsOK
  <2> QED BY <2>1, <2>2 DEF TicketsOK
<1> QED BY <1>3, <1>6, <1>7, <1>8, <1>9, <1>11, <1>12, <1>13 DEF Inv, ThreadsOK

(* Its poll succeeds only on its own slot's turn, and never for a ticket   *)
(* past the jump of block_producers.                                       *)
LEMMA FifoReadyInv ==
  ASSUME Inv, NEW p \in FP, FifoReady(p)
  PROVE  Inv'
<1>1. /\ p \in Threads \ Signallers /\ p \in Producers /\ p \notin Consumers
      /\ pc[p] = "poll" /\ UNCHANGED <<queue, val>>
  BY Classes DEF FifoReady, Threads, Producers
<1>2. CASE Return(p, Verdict(p))
  BY <1>1, <1>2, VerdictReturns
<1>3. CASE Goto(p, "ahead") /\ UNCHANGED <<now, sg, arg, res>>
  <2>1. pc'[p] = "ahead"
    BY <1>1, <1>3 DEF Inv, TypeOK, Goto
  <2>2. PlaceOK(p)' /\ LoopOK(p)' /\ CheckOK(p)'
    BY <1>1, <1>3, <2>1 DEF Inv, ThreadsOK, PlaceOK, LoopOK, CheckOK
  <2> QED BY <1>1, <1>3, <2>2, GotoStep DEF Places
<1>4. CASE Verdict(p) = "ok" /\ Goto(p, "own") /\ UNCHANGED <<now, sg, arg, res>>
  <2> DEFINE n == now[p]
  <2>1. n \in Nat /\ ProducerOK(p) /\ HasTicket(p)
    BY <1>1 DEF Inv, ThreadsOK, PlaceOK, HasTicket
  <2>2. ver[Slot(n)] = n
    BY <1>1, <1>4, <2>1, VerdictExact DEF Offset
  <2>3. n < Lim
    <3>1. n < tkt["pop"] + SlotCount
      BY <2>1, <2>2, VersionNear DEF Inv
    <3> QED BY <2>1, <3>1, Numbers, Sizes DEF ProducerOK, Inv, WordsOK, Lim
  <2>4. /\ TypeOK' /\ pc'[p] = "own"
        /\ \A u \in Threads \ {p} : pc'[u] = pc[u]
    BY <1>1, <1>4 DEF Inv, TypeOK, Places, Goto, queue
  <2>5. WordsOK' /\ VersionsOK' /\ BlockersOK' /\ Lim' = Lim
    BY <1>1, <1>4, <2>4 DEF Inv, WordsOK, VersionsOK, BlockersOK, Lim, queue
  <2>6. ASSUME NEW u \in Threads
        PROVE  PlaceOK(u)' /\ LoopOK(u)' /\ CheckOK(u)'
    BY <1>1, <1>4, <2>4 DEF Inv, ThreadsOK, PlaceOK, LoopOK, CheckOK, queue
  <2>7. ASSUME NEW q \in Producers, HasTicket(q)'
        PROVE  ProducerOK(q)' /\ HasTicket(q)
    <3>1. CASE q = p
      BY <1>1, <1>4, <2>1, <2>2, <2>3, <2>4, <2>5, <3>1 DEF ProducerOK, queue
    <3>2. CASE q # p
      <4>1. HasTicket(q) /\ pc'[q] = pc[q]
        BY <2>4, <2>7, <3>2 DEF HasTicket, Threads
      <4> QED BY <1>1, <1>4, <2>5, <4>1 DEF Inv, ThreadsOK, ProducerOK, Owns, queue
    <3> QED BY <3>1, <3>2
  <2>8. ASSUME NEW c \in Consumers, Owns(c)'
        PROVE  ConsumerOK(c)' /\ Owns(c)
    <3>1. Owns(c) /\ pc'[c] = pc[c]
      BY <1>1, <2>4, <2>8 DEF Owns, Threads
    <3> QED BY <1>1, <1>4, <3>1 DEF Inv, ThreadsOK, ConsumerOK, queue
  <2>9. TicketsOK'
    BY <1>4, <2>7, <2>8 DEF Inv, TicketsOK
  <2> QED BY <2>4, <2>5, <2>6, <2>7, <2>8, <2>9 DEF Inv, ThreadsOK
<1> QED BY <1>2, <1>3, <1>4 DEF FifoReady

---------------------------------------------------------------------------
(* The owner of a chunk.                                                   *)

(* A step of an owner that leaves the words alone: what remains to be      *)
(* shown is about the versions and the payloads.                           *)
LEMMA OwnerStep ==
  ASSUME Inv, TypeOK', UNCHANGED <<tkt, flags, fence>>, NEW t \in Threads,
         Owns(t), pc'[t] \in {"idle", "used"}, arg'[t] \in Call,
         pc'[t] = "used" => now'[t] = now[t],
         \A u \in Threads \ {t} :
           pc'[u] = pc[u] /\ now'[u] = now[u] /\ arg'[u] = arg[u]
  PROVE  /\ WordsOK' /\ BlockersOK' /\ TicketsOK' /\ Lim' = Lim
         /\ \A u \in Threads : PlaceOK(u)' /\ LoopOK(u)'
         /\ \A p \in Producers : HasTicket(p)' =>
              HasTicket(p) /\ now'[p] = now[p] /\ (Owns(p)' => Owns(p))
         /\ \A c \in Consumers : Owns(c)' => Owns(c) /\ now'[c] = now[c]
<1>1. WordsOK' /\ Lim' = Lim
  BY DEF Inv, WordsOK, Lim
<1>2. BlockersOK'
  BY DEF Inv, BlockersOK
<1>3. t \notin Signallers
  BY Classes DEF Owns
<1>4. ASSUME NEW u \in Threads
      PROVE  PlaceOK(u)' /\ LoopOK(u)'
  <2>1. CASE u = t
    BY <1>3, <2>1 DEF Inv, ThreadsOK, PlaceOK, LoopOK, Owns
  <2>2. CASE u # t
    BY <2>2 DEF Inv, ThreadsOK, PlaceOK, LoopOK
  <2> QED BY <2>1, <2>2
<1>5. ASSUME NEW p \in Producers, HasTicket(p)'
      PROVE  HasTicket(p) /\ now'[p] = now[p] /\ (Owns(p)' => Owns(p))
  <2>1. CASE p = t
    BY <1>5, <2>1 DEF HasTicket, Owns
  <2>2. CASE p # t
    BY <1>5, <2>2 DEF HasTicket, Owns, Threads
  <2> QED BY <2>1, <2>2
<1>6. ASSUME NEW c \in Consumers, Owns(c)'
      PROVE  Owns(c) /\ now'[c] = now[c]
  <2>1. CASE c = t
    BY <1>6, <2>1 DEF Owns
  <2>2. CASE c # t
    BY <1>6, <2>2 DEF Owns, Threads
  <2> QED BY <2>1, <2>2
<1>7. TicketsOK'
  BY <1>5, <1>6 DEF Inv, TicketsOK
<1> QED BY <1>1, <1>2, <1>4, <1>5, <1>6, <1>7

(* The facts the invariant gives about a chunk's owner.                    *)
LEMMA ProducerOwns ==
  ASSUME Inv, NEW p \in Producers, Owns(p)
  PROVE  /\ p \in Threads /\ p \notin Consumers /\ HasTicket(p)
         /\ now[p] \in Nat /\ ver[Slot(now[p])] = now[p]
         /\ now[p] < Lim /\ now[p] < tkt["push"] /\ tkt["pop"] <= now[p]
         /\ pc[p] = "used" => data[Slot(now[p])] = now[p]
<1>1. p \in Threads /\ p \notin Consumers /\ HasTicket(p)
  BY Classes DEF Threads, Owns, HasTicket
<1>2. ProducerOK(p) /\ PlaceOK(p)
  BY <1>1 DEF Inv, ThreadsOK
<1> QED BY <1>1, <1>2 DEF ProducerOK, PlaceOK, Owns

LEMMA ConsumerOwns ==
  ASSUME Inv, NEW c \in Consumers, Owns(c)
  PROVE  /\ c \in Threads /\ c \notin Producers
         /\ now[c] \in Nat /\ ver[Slot(now[c])] = now[c] + 1
         /\ now[c] < tkt["pop"] /\ data[Slot(now[c])] = now[c]
<1>1. c \in Threads /\ c \notin Producers
  BY Classes DEF Threads
<1>2. ConsumerOK(c) /\ PlaceOK(c)
  BY <1>1 DEF Inv, ThreadsOK
<1> QED BY <1>1, <1>2 DEF ConsumerOK, PlaceOK, Owns

(* The version of an owned slot is its owner's: nobody else's payload is   *)
(* there.                                                                  *)
LEMMA WriteDataInv ==
  ASSUME Inv, NEW p \in Producers, WriteData(p)
  PROVE  Inv'
<1> DEFINE n == now[p]
<1>1. /\ pc[p] = "own" /\ Owns(p)
      /\ data' = [data EXCEPT ![Slot(n)] = n] /\ pc' = [pc EXCEPT ![p] = "used"]
      /\ UNCHANGED <<tkt, sig, ver, flags, now, sg, arg, val, res, fence>>
  BY DEF WriteData, Goto, Owns
<1>2. /\ p \in Threads /\ p \notin Consumers /\ n \in Nat
      /\ ver[Slot(n)] = n /\ n < Lim
  BY <1>1, ProducerOwns
<1>3. TypeOK'
  BY <1>1, <1>2 DEF Inv, TypeOK, Places
<1>4. /\ pc'[p] = "used" /\ data'[Slot(n)] = n
      /\ \A u \in Threads \ {p} : pc'[u] = pc[u]
      /\ \A k \in Int : Slot(k) # Slot(n) => data'[Slot(k)] = data[Slot(k)]
  BY <1>1, <1>2, SlotRange DEF Inv, TypeOK
<1>5. arg'[p] \in Call
  BY <1>1, <1>2, Classes DEF Inv, ThreadsOK, PlaceOK
<1>6. /\ WordsOK' /\ BlockersOK' /\ TicketsOK' /\ Lim' = Lim
      /\ \A u \in Threads : PlaceOK(u)' /\ LoopOK(u)'
      /\ \A q \in Producers : HasTicket(q)' =>
           HasTicket(q) /\ now'[q] = now[q] /\ (Owns(q)' => Owns(q))
      /\ \A c \in Consumers : Owns(c)' => Owns(c) /\ now'[c] = now[c]
  BY <1>1, <1>2, <1>3, <1>4, <1>5, OwnerStep
<1>7. ASSUME NEW u \in Threads
      PROVE  CheckOK(u)'
  BY <1>1, <1>4 DEF Inv, ThreadsOK, CheckOK
<1>8. ASSUME NEW q \in Producers, HasTicket(q)'
      PROVE  ProducerOK(q)'
  <2>1. HasTicket(q) /\ ProducerOK(q) /\ (Owns(q)' => Owns(q)) /\ q \in Threads
    BY <1>6, <1>8 DEF Inv, ThreadsOK, Threads
  <2>2. pc'[q] = "used" => data'[Slot(now[q])] = now[q]
    <3>1. CASE q = p BY <1>4, <3>1
    <3>2. CASE q # p /\ pc'[q] = "used"
      <4>1. pc[q] = "used" /\ Owns(q)
        BY <1>4, <2>1, <3>2 DEF Owns
      <4>2. ver[Slot(now[q])] = now[q] /\ data[Slot(now[q])] = now[q] /\ now[q] \in Nat
        BY <4>1, ProducerOwns
      <4>3. now[q] # n
        BY <1>1, <2>1, <3>2, ProducerOwns DEF Inv, TicketsOK
      <4>4. Slot(now[q]) # Slot(n)
        BY <1>2, <4>2, <4>3
      <4> QED BY <1>4, <4>2, <4>4
    <3> QED BY <3>1, <3>2
  <2> QED BY <1>1, <1>6, <2>1, <2>2 DEF ProducerOK
<1>9. ASSUME NEW c \in Consumers, Owns(c)'
      PROVE  ConsumerOK(c)'
  <2>1. Owns(c) /\ c \in Threads /\ c # p
    BY <1>2, <1>6, <1>9 DEF Threads
  <2>2. ConsumerOK(c) /\ now[c] \in Nat /\ ver[Slot(now[c])] = now[c] + 1
    BY <2>1, ConsumerOwns DEF Inv, ThreadsOK
  <2>3. Slot(now[c]) # Slot(n)
    BY <1>2, <2>2, SlotNext
  <2> QED BY <1>1, <1>4, <2>1, <2>2, <2>3 DEF ConsumerOK
<1>10. VersionsOK'
  <2>1. ASSUME NEW k \in Int, ver[Slot(k)] = k + 1
        PROVE  data'[Slot(k)] = data[Slot(k)]
    BY <1>2, <1>4, <2>1, SlotNext
  <2> QED BY <1>1, <1>6, <2>1, Numbers DEF Inv, VersionsOK
<1> QED BY <1>3, <1>6, <1>7, <1>8, <1>9, <1>10 DEF Inv, ThreadsOK

LEMMA ReadDataInv ==
  ASSUME Inv, NEW c \in Consumers, ReadData(c)
  PROVE  Inv'
<1> DEFINE n == now[c]
<1>1. /\ pc[c] = "own" /\ Owns(c)
      /\ val' = [val EXCEPT ![c] = data[Slot(n)]] /\ pc' = [pc EXCEPT ![c] = "used"]
      /\ UNCHANGED <<tkt, sig, ver, data, flags, now, sg, arg, res, fence>>
  BY DEF ReadData, Goto, Owns, queue
<1>2. /\ c \in Threads /\ c \notin Producers /\ n \in Nat /\ data[Slot(n)] = n
  BY <1>1, ConsumerOwns
<1>3. TypeOK'
  BY <1>1, <1>2 DEF Inv, TypeOK, Places
<1>4. /\ pc'[c] = "used" /\ val'[c] = n
      /\ \A u \in Threads \ {c} : pc'[u] = pc[u] /\ val'[u] = val[u]
  BY <1>1, <1>2 DEF Inv, TypeOK
<1>5. arg'[c] \in Call
  BY <1>1, <1>2, Classes DEF Inv, ThreadsOK, PlaceOK
<1>6. /\ WordsOK' /\ BlockersOK' /\ TicketsOK' /\ Lim' = Lim
      /\ \A u \in Threads : PlaceOK(u)' /\ LoopOK(u)'
      /\ \A q \in Producers : HasTicket(q)' =>
           HasTicket(q) /\ now'[q] = now[q] /\ (Owns(q)' => Owns(q))
      /\ \A d \in Consumers : Owns(d)' => Owns(d) /\ now'[d] = now[d]
  BY <1>1, <1>2, <1>3, <1>4, <1>5, OwnerStep
<1>7. ASSUME NEW u \in Threads
      PROVE  CheckOK(u)'
  BY <1>1, <1>4 DEF Inv, ThreadsOK, CheckOK
<1>8. ASSUME NEW q \in Producers, HasTicket(q)'
      PROVE  ProducerOK(q)'
  <2>1. HasTicket(q) /\ ProducerOK(q) /\ (Owns(q)' => Owns(q)) /\ pc'[q] = pc[q]
    BY <1>2, <1>4, <1>6, <1>8 DEF Inv, ThreadsOK, Threads
  <2> QED BY <1>1, <1>6, <2>1 DEF ProducerOK
<1>9. ASSUME NEW d \in Consumers, Owns(d)'
      PROVE  ConsumerOK(d)'
  <2>1. Owns(d) /\ d \in Threads /\ ConsumerOK(d)
    BY <1>6, <1>9 DEF Threads, Inv, ThreadsOK
  <2> QED BY <1>1, <1>4, <2>1 DEF ConsumerOK
<1>10. VersionsOK'
  BY <1>1, <1>6 DEF Inv, VersionsOK
<1> QED BY <1>3, <1>6, <1>7, <1>8, <1>9, <1>10 DEF Inv, ThreadsOK

(* A commit makes the slot's version the next one.  No other chunk has the *)
(* slot, and no thread is between its version check and its CAS with a     *)
(* ticket for which the old version was good.                              *)
LEMMA ProduceCommitInv ==
  ASSUME Inv, NEW p \in Producers, ProduceCommit(p)
  PROVE  Inv'
<1> DEFINE n == now[p]
<1>1. /\ pc[p] = "used" /\ Owns(p)
      /\ ver' = [ver EXCEPT ![Slot(n)] = n + 1] /\ pc' = [pc EXCEPT ![p] = "idle"]
      /\ now' = [now EXCEPT ![p] = None] /\ sg' = [sg EXCEPT ![p] = 0]
      /\ arg' = [arg EXCEPT ![p] = NoCall] /\ res' = [res EXCEPT ![p] = "ok"]
      /\ val' = [val EXCEPT ![p] = None]
      /\ UNCHANGED <<tkt, sig, data, flags, fence>>
  BY DEF ProduceCommit, Commit, Return, Owns
<1>2. /\ p \in Threads /\ p \notin Consumers /\ n \in Nat /\ HasTicket(p)
      /\ ver[Slot(n)] = n /\ n < Lim /\ n < tkt["push"] /\ tkt["pop"] <= n
      /\ data[Slot(n)] = n
  BY <1>1, ProducerOwns
<1>3. NoCall \in Call
  BY Sizes DEF NoCall, Call
<1>4. TypeOK'
  <2>1. ver' \in [0..(SlotCount - 1) -> Nat]
    <3>1. n + 1 \in Nat
      BY <1>2
    <3> HIDE DEF n
    <3> QED BY <1>1, <3>1 DEF Inv, TypeOK
  <2> QED BY <1>1, <1>2, <1>3, <2>1, Sizes DEF Inv, TypeOK, Places, Results
<1>5. /\ pc'[p] = "idle" /\ arg'[p] \in Call /\ ver'[Slot(n)] = n + 1
      /\ \A u \in Threads \ {p} :
           /\ pc'[u] = pc[u] /\ now'[u] = now[u] /\ arg'[u] = arg[u]
           /\ val'[u] = val[u]
      /\ \A k \in Int : Slot(k) # Slot(n) => ver'[Slot(k)] = ver[Slot(k)]
  BY <1>1, <1>2, <1>3, SlotRange DEF Inv, TypeOK
<1>6. /\ WordsOK' /\ BlockersOK' /\ TicketsOK' /\ Lim' = Lim
      /\ \A u \in Threads : PlaceOK(u)' /\ LoopOK(u)'
      /\ \A q \in Producers : HasTicket(q)' =>
           HasTicket(q) /\ now'[q] = now[q] /\ (Owns(q)' => Owns(q))
      /\ \A c \in Consumers : Owns(c)' => Owns(c) /\ now'[c] = now[c]
  BY <1>1, <1>2, <1>4, <1>5, OwnerStep
<1>7. ASSUME NEW u \in Threads
      PROVE  CheckOK(u)'
  <2> SUFFICES ASSUME u # p, pc[u] \in {"cas", "store"}, now[u] = tkt[Side(u)]
               PROVE  Slot(now[u]) # Slot(n)
    BY <1>1, <1>5, Numbers DEF Inv, ThreadsOK, CheckOK
  <2>1. ver[Slot(now[u])] = now[u] + Offset(u)
    BY DEF Inv, ThreadsOK, CheckOK
  <2>2. CASE u \in Producers
    BY <1>2, <2>1, <2>2, Numbers DEF Inv, Side, Offset
  <2>3. CASE u \notin Producers
    <3>1. now[u] = tkt["pop"] /\ Offset(u) = 1 /\ now[u] \in Int
      BY <2>3, Numbers DEF Inv, Side, Offset
    <3> QED BY <1>2, <2>1, <3>1, SlotNext
  <2> QED BY <2>2, <2>3
<1>8. ASSUME NEW q \in Producers, HasTicket(q)'
      PROVE  ProducerOK(q)'
  <2>1. /\ HasTicket(q) /\ ProducerOK(q) /\ (Owns(q)' => Owns(q)) /\ q \in Threads
        /\ now[q] \in Nat /\ q # p
    BY <1>5, <1>6, <1>8 DEF Inv, ThreadsOK, Threads, PlaceOK, HasTicket
  <2>2. now[q] # n
    BY <1>2, <2>1 DEF Inv, TicketsOK
  <2>3. Owns(q) => Slot(now[q]) # Slot(n)
    BY <1>2, <2>1, <2>2 DEF ProducerOK
  <2>4. pc'[q] = pc[q] /\ now'[q] = now[q]
    BY <1>5, <2>1
  <2>5. ver'[Slot(now[q])] # now[q] + 1
    <3>1. CASE Slot(now[q]) = Slot(n)
      BY <1>2, <1>5, <2>1, <2>2, <3>1
    <3>2. CASE Slot(now[q]) # Slot(n)
      BY <1>5, <2>1, <3>2 DEF ProducerOK
    <3> QED BY <3>1, <3>2
  <2> QED BY <1>1, <1>5, <1>6, <2>1, <2>3, <2>4, <2>5 DEF ProducerOK
<1>9. ASSUME NEW c \in Consumers, Owns(c)'
      PROVE  ConsumerOK(c)'
  <2>1. Owns(c) /\ c \in Threads /\ c # p
    BY <1>2, <1>6, <1>9 DEF Threads
  <2>2. ConsumerOK(c) /\ now[c] \in Nat /\ ver[Slot(now[c])] = now[c] + 1
    BY <2>1, ConsumerOwns DEF Inv, ThreadsOK
  <2>3. Slot(now[c]) # Slot(n)
    BY <1>2, <2>2, SlotNext
  <2> QED BY <1>1, <1>5, <2>1, <2>2, <2>3 DEF ConsumerOK
<1>10. VersionsOK'
  <2> SUFFICES ASSUME NEW k \in tkt["pop"]..(tkt["pop"] + SlotCount - 1)
               PROVE  /\ ver'[Slot(k)] \in {k - SlotCount + 1, k, k + 1}
                      /\ ver'[Slot(k)] = k + 1 => k < Lim /\ data[Slot(k)] = k
    BY <1>1, <1>6 DEF VersionsOK
  <2>1. k \in Int /\ SlotCount \in Nat
    BY Numbers, Sizes DEF Inv
  <2>2. /\ ver[Slot(k)] \in {k - SlotCount + 1, k, k + 1}
        /\ ver[Slot(k)] = k + 1 => k < Lim /\ data[Slot(k)] = k
    BY DEF Inv, VersionsOK
  <2>3. CASE Slot(k) # Slot(n)
    BY <1>5, <2>1, <2>2, <2>3
  <2>4. CASE Slot(k) = Slot(n)
    <3>1. n # k + 1
      BY <2>1, <2>4, SlotNext
    <3>2. n # k - SlotCount + 1
      <4>1. Slot(k - SlotCount + 1) = Slot(k + 1)
        BY <2>1, SlotLap
      <4> QED BY <2>1, <2>4, <4>1, SlotNext
    <3>3. n = k
      BY <1>2, <2>2, <2>4, <3>1, <3>2
    <3> QED BY <1>2, <1>5, <3>3
  <2> QED BY <2>3, <2>4
<1> QED BY <1>4, <1>6, <1>7, <1>8, <1>9, <1>10 DEF Inv, ThreadsOK

LEMMA ConsumeCommitInv ==
  ASSUME Inv, NEW c \in Consumers, ConsumeCommit(c)
  PROVE  Inv'
<1> DEFINE n == now[c]
<1>1. /\ pc[c] = "used" /\ Owns(c)
      /\ ver' = [ver EXCEPT ![Slot(n)] = n + SlotCount]
      /\ pc' = [pc EXCEPT ![c] = "idle"] /\ val' = [val EXCEPT ![c] = None]
      /\ now' = [now EXCEPT ![c] = None] /\ sg' = [sg EXCEPT ![c] = 0]
      /\ arg' = [arg EXCEPT ![c] = NoCall] /\ res' = [res EXCEPT ![c] = "ok"]
      /\ UNCHANGED <<tkt, sig, data, flags, fence>>
  BY DEF ConsumeCommit, Commit, Return, Owns
<1>2. /\ c \in Threads /\ c \notin Producers /\ n \in Nat
      /\ ver[Slot(n)] = n + 1 /\ n < tkt["pop"]
  BY <1>1, ConsumerOwns
<1>3. NoCall \in Call
  BY Sizes DEF NoCall, Call
<1>4. TypeOK'
  <2>1. ver' \in [0..(SlotCount - 1) -> Nat]
    <3>1. n + SlotCount \in Nat
      BY <1>2, Sizes
    <3> HIDE DEF n
    <3> QED BY <1>1, <3>1 DEF Inv, TypeOK
  <2> QED BY <1>1, <1>2, <1>3, <2>1, Sizes DEF Inv, TypeOK, Places, Results
<1>5. /\ pc'[c] = "idle" /\ arg'[c] \in Call /\ ver'[Slot(n)] = n + SlotCount
      /\ \A u \in Threads \ {c} :
           /\ pc'[u] = pc[u] /\ now'[u] = now[u] /\ arg'[u] = arg[u]
           /\ val'[u] = val[u]
      /\ \A k \in Int : Slot(k) # Slot(n) => ver'[Slot(k)] = ver[Slot(k)]
  BY <1>1, <1>2, <1>3, SlotRange DEF Inv, TypeOK
<1>6. /\ WordsOK' /\ BlockersOK' /\ TicketsOK' /\ Lim' = Lim
      /\ \A u \in Threads : PlaceOK(u)' /\ LoopOK(u)'
      /\ \A q \in Producers : HasTicket(q)' =>
           HasTicket(q) /\ now'[q] = now[q] /\ (Owns(q)' => Owns(q))
      /\ \A d \in Consumers : Owns(d)' => Owns(d) /\ now'[d] = now[d]
  BY <1>1, <1>2, <1>4, <1>5, OwnerStep
<1>7. ASSUME NEW u \in Threads
      PROVE  CheckOK(u)'
  <2> SUFFICES ASSUME u # c, pc[u] \in {"cas", "store"}, now[u] = tkt[Side(u)]
               PROVE  Slot(now[u]) # Slot(n)
    BY <1>1, <1>5, Numbers DEF Inv, ThreadsOK, CheckOK
  <2>1. /\ ver[Slot(now[u])] = now[u] + Offset(u) /\ now[u] \in Nat
        /\ tkt["pop"] \in Nat
    BY Numbers DEF Inv, ThreadsOK, CheckOK
  <2>2. CASE u \in Producers
    <3>1. Slot(now[u]) = Slot(n) => now[u] = n + 1
      BY <1>2, <2>1, <2>2 DEF Offset
    <3> QED BY <1>2, <3>1, SlotNext
  <2>3. CASE u \notin Producers
    BY <1>2, <2>1, <2>3 DEF Side, Offset
  <2> QED BY <2>2, <2>3
<1>8. ASSUME NEW q \in Producers, HasTicket(q)'
      PROVE  ProducerOK(q)'
  <2>1. /\ HasTicket(q) /\ ProducerOK(q) /\ (Owns(q)' => Owns(q)) /\ q \in Threads
        /\ now[q] \in Nat /\ q # c
    BY <1>2, <1>6, <1>8 DEF Inv, ThreadsOK, Threads, PlaceOK, HasTicket
  <2>2. Owns(q) => Slot(now[q]) # Slot(n)
    <3>1. Owns(q) /\ Slot(now[q]) = Slot(n) => now[q] = n + 1
      BY <1>2, <2>1 DEF ProducerOK
    <3> QED BY <1>2, <3>1, SlotNext
  <2>3. pc'[q] = pc[q] /\ now'[q] = now[q]
    BY <1>5, <2>1
  <2>4. ver'[Slot(now[q])] # now[q] + 1
    <3>1. CASE Slot(now[q]) = Slot(n)
      <4>1. Slot(n + SlotCount) = Slot(now[q]) /\ Slot(now[q] + 1) # Slot(now[q])
        BY <1>2, <2>1, <3>1, SlotLap, SlotNext
      <4> QED BY <1>5, <3>1, <4>1
    <3>2. CASE Slot(now[q]) # Slot(n)
      BY <1>5, <2>1, <3>2 DEF ProducerOK
    <3> QED BY <3>1, <3>2
  <2> QED BY <1>1, <1>5, <1>6, <2>1, <2>2, <2>3, <2>4 DEF ProducerOK
<1>9. ASSUME NEW d \in Consumers, Owns(d)'
      PROVE  ConsumerOK(d)'
  <2>1. Owns(d) /\ d \in Threads /\ d # c /\ now'[d] = now[d] /\ pc'[d] = pc[d]
    BY <1>5, <1>6, <1>9 DEF Threads, Owns
  <2>2. ConsumerOK(d) /\ now[d] \in Nat /\ ver[Slot(now[d])] = now[d] + 1
    BY <2>1, ConsumerOwns DEF Inv, ThreadsOK
  <2>3. now[d] # n
    BY <1>1, <2>1 DEF Inv, TicketsOK
  <2>4. Slot(now[d]) # Slot(n)
    BY <1>2, <2>2, <2>3
  <2> QED BY <1>1, <1>5, <2>1, <2>2, <2>4 DEF ConsumerOK
<1>10. VersionsOK'
  <2> SUFFICES ASSUME NEW k \in tkt["pop"]..(tkt["pop"] + SlotCount - 1)
               PROVE  /\ ver'[Slot(k)] \in {k - SlotCount + 1, k, k + 1}
                      /\ ver'[Slot(k)] = k + 1 => k < Lim /\ data[Slot(k)] = k
    BY <1>1, <1>6 DEF VersionsOK
  <2>1. k \in Int /\ SlotCount \in Nat /\ tkt["pop"] <= k
    BY Numbers, Sizes DEF Inv
  <2>2. /\ ver[Slot(k)] \in {k - SlotCount + 1, k, k + 1}
        /\ ver[Slot(k)] = k + 1 => k < Lim /\ data[Slot(k)] = k
    BY DEF Inv, VersionsOK
  <2>3. CASE Slot(k) # Slot(n)
    BY <1>5, <2>1, <2>2, <2>3
  <2>4. CASE Slot(k) = Slot(n)
    <3>1. k # n + 1
      BY <1>2, <2>4, SlotNext
    <3>2. k # n
      BY <1>2, <2>1, Numbers DEF Inv
    <3>3. k = n + SlotCount
      BY <1>2, <2>1, <2>2, <2>4, <3>1, <3>2
    <3> QED BY <1>2, <1>5, <2>4, <3>3, Sizes
  <2> QED BY <2>3, <2>4
<1> QED BY <1>4, <1>6, <1>7, <1>8, <1>9, <1>10 DEF Inv, ThreadsOK

---------------------------------------------------------------------------
(* Blocking the producers.                                                 *)

(* The flag stays up, so nobody else will jump.                            *)
LEMMA BlockFlagInv ==
  ASSUME Inv, NEW b \in Blockers, BlockFlag(b)
  PROVE  Inv'
<1>1. b \in Threads \ Signallers /\ b \notin Producers \cup Consumers
  BY Classes DEF Threads
<1>2. CASE flags
  <2>1. UNCHANGED <<queue, val>> /\ Return(b, "ok")
    BY <1>2 DEF BlockFlag, queue
  <2> QED BY <1>1, <2>1, ReturnStep DEF Results
<1>3. CASE ~flags
  <2>1. /\ flags' = TRUE /\ pc' = [pc EXCEPT ![b] = "jump"]
        /\ UNCHANGED <<tkt, sig, ver, data, now, sg, arg, val, res, fence>>
        /\ pc[b] = "idle"
    BY <1>3 DEF BlockFlag, Goto
  <2>2. TypeOK'
    BY <2>1 DEF Inv, TypeOK, Places
  <2>3. pc'[b] = "jump" /\ \A u \in Threads \ {b} : pc'[u] = pc[u] /\ pc[u] # "jump"
    BY <1>1, <1>3, <2>1 DEF Inv, TypeOK, BlockersOK
  <2>4. fence = None
    BY <1>3 DEF Inv, WordsOK
  <2>5. WordsOK' /\ BlockersOK' /\ VersionsOK' /\ Lim' = Lim
    BY <2>1, <2>3, <2>4 DEF Inv, WordsOK, BlockersOK, VersionsOK, Lim
  <2>6. ASSUME NEW u \in Threads
        PROVE  PlaceOK(u)' /\ LoopOK(u)' /\ CheckOK(u)'
    <3>1. CASE u = b
      BY <1>1, <2>1, <2>3, <3>1 DEF Inv, ThreadsOK, PlaceOK, LoopOK, CheckOK
    <3>2. CASE u # b
      BY <2>1, <2>3, <3>2 DEF Inv, ThreadsOK, PlaceOK, LoopOK, CheckOK
    <3> QED BY <3>1, <3>2
  <2>7. \A u \in Producers \cup Consumers : u \in Threads /\ pc'[u] = pc[u]
    BY <1>1, <2>3 DEF Threads
  <2>8. ASSUME NEW q \in Producers, HasTicket(q)'
        PROVE  ProducerOK(q)'
    BY <2>1, <2>5, <2>7, <2>8 DEF Inv, ThreadsOK, HasTicket, ProducerOK, Owns
  <2>9. ASSUME NEW c \in Consumers, Owns(c)'
        PROVE  ConsumerOK(c)'
    BY <2>1, <2>7, <2>9 DEF Inv, ThreadsOK, Owns, ConsumerOK
  <2>10. TicketsOK'
    BY <2>1, <2>7 DEF Inv, TicketsOK, HasTicket, Owns
  <2> QED BY <2>2, <2>5, <2>6, <2>8, <2>9, <2>10 DEF Inv, ThreadsOK
<1> QED BY <1>2, <1>3

(* The jump strands every ticket a producer may have looked at: a CAS that *)
(* was going to succeed no longer matches.                                 *)
LEMMA BlockJumpInv ==
  ASSUME Inv, NEW b \in Blockers, BlockJump(b)
  PROVE  Inv'
<1> DEFINE n == tkt["push"]
           m == n + 2 * SlotCount
<1>1. /\ pc[b] = "jump" /\ Room("push", 2 * SlotCount)
      /\ tkt' = [tkt EXCEPT !["push"] = m]
      /\ sig' = [sig EXCEPT !["push"] = Carried("push", m)]
      /\ fence' = n /\ pc' = [pc EXCEPT ![b] = "idle"]
      /\ now' = [now EXCEPT ![b] = None] /\ sg' = [sg EXCEPT ![b] = 0]
      /\ arg' = [arg EXCEPT ![b] = NoCall] /\ res' = [res EXCEPT ![b] = "ok"]
      /\ UNCHANGED <<ver, data, flags, val>>
  BY DEF BlockJump, Jump, Return
<1>2. /\ b \in Threads /\ b \notin Signallers /\ b \notin Producers \cup Consumers
      /\ n \in Nat /\ m \in Nat /\ m > n /\ tkt["pop"] \in Nat
  BY Classes, Numbers, Sizes DEF Inv, Threads
<1>3. fence = None /\ flags /\ \A u \in Threads : pc[u] = "jump" => u = b
  BY <1>1, <1>2 DEF Inv, BlockersOK
<1>4. NoCall \in Call
  BY Sizes DEF NoCall, Call
<1>5. TypeOK'
  <2>1. Carried("push", m) \in Sigs
    <3> HIDE DEF m
    <3> QED BY <1>2, CarriedType DEF Inv, Sides
  <2>2. tkt' \in [Sides -> Nat] /\ sig' \in [Sides -> Sigs]
    <3> HIDE DEF m
    <3> QED BY <1>1, <1>2, <2>1 DEF Inv, TypeOK
  <2> QED BY <1>1, <1>2, <1>4, <2>2, Sizes DEF Inv, TypeOK, Places, Results
<1>6. /\ tkt'["push"] = m /\ tkt'["pop"] = tkt["pop"]
      /\ pc'[b] = "idle" /\ arg'[b] \in Call
      /\ \A u \in Threads \ {b} :
           pc'[u] = pc[u] /\ now'[u] = now[u] /\ arg'[u] = arg[u]
  BY <1>1, <1>2, <1>4 DEF Inv, TypeOK, Sides
<1>7. Lim = n /\ Lim' = n /\ fence' # None
  BY <1>1, <1>2, <1>3 DEF Lim, None
<1>8. WordsOK'
  BY <1>1, <1>2, <1>3, <1>6, <1>7, Sizes DEF Inv, WordsOK
<1>9. BlockersOK'
  BY <1>3, <1>6 DEF BlockersOK
<1>10. VersionsOK'
  BY <1>1, <1>6, <1>7 DEF Inv, VersionsOK
<1>11. ASSUME NEW u \in Threads
       PROVE  PlaceOK(u)' /\ LoopOK(u)' /\ CheckOK(u)'
  <2>1. CASE u = b
    BY <1>2, <1>6, <2>1 DEF PlaceOK, LoopOK, CheckOK
  <2>2. CASE u # b
    <3>1. PlaceOK(u)'
      BY <1>6, <2>2 DEF Inv, ThreadsOK, PlaceOK
    <3>2. PlaceOK(u) /\ LoopOK(u) /\ CheckOK(u)
      BY DEF Inv, ThreadsOK
    <3>3. u \in Single => Side(u) # "push"
      BY Classes DEF Single, Producers, Side
    <3>4. LoopOK(u)'
      <4>1. ASSUME NEW s \in Sides, InLoop(u, s)
            PROVE  now[u] \in Nat /\ now[u] <= tkt'[s] /\ tkt'[s] - now[u] <= MaxLag
        <5>1. now[u] \in Nat /\ now[u] <= tkt[s] /\ tkt[s] - now[u] <= MaxLag
          BY <3>2, <4>1 DEF PlaceOK, LoopOK, InLoop
        <5>2. CASE s = "push"
          <6>1. m - now[u] <= MaxLag
            <7>1. Room("push", 2 * SlotCount) /\ InLoop(u, "push")
              BY <1>1, <4>1, <5>2
            <7> QED BY <1>2, <5>1, <7>1, Sizes DEF Room
          <6>2. now[u] <= m /\ tkt'[s] = m
            BY <1>2, <1>6, <5>1, <5>2
          <6> QED BY <5>1, <6>1, <6>2
        <5>3. CASE s = "pop"
          BY <1>6, <5>1, <5>3
        <5> QED BY <5>2, <5>3 DEF Sides
      <4>2. Side(u) \in Sides /\ (pc[u] = "sigcas" => arg[u].side \in Sides)
        BY <3>2 DEF PlaceOK, SigCall, Side, Sides
      <4>3. u \in Single => tkt'[Side(u)] = tkt[Side(u)]
        BY <1>6, <3>3, <4>2 DEF Sides
      <4> QED BY <1>6, <2>2, <3>2, <4>1, <4>2, <4>3 DEF LoopOK, InLoop
    <3>5. CheckOK(u)'
      BY <1>1, <1>2, <1>6, <2>2, <3>2 DEF PlaceOK, LoopOK, CheckOK, Side
    <3> QED BY <3>1, <3>4, <3>5
  <2> QED BY <2>1, <2>2
<1>12. \A u \in Producers \cup Consumers :
         u \in Threads /\ pc'[u] = pc[u] /\ now'[u] = now[u]
  BY <1>2, <1>6 DEF Threads
<1>13. ASSUME NEW q \in Producers, HasTicket(q)'
       PROVE  ProducerOK(q)'
  <2>1. ProducerOK(q) /\ now[q] \in Nat /\ HasTicket(q)
    BY <1>12, <1>13 DEF Inv, ThreadsOK, PlaceOK, HasTicket
  <2> QED BY <1>1, <1>2, <1>6, <1>7, <1>12, <2>1 DEF ProducerOK, Owns
<1>14. ASSUME NEW c \in Consumers, Owns(c)'
       PROVE  ConsumerOK(c)'
  BY <1>1, <1>6, <1>12, <1>14 DEF Inv, ThreadsOK, Owns, ConsumerOK
<1>15. TicketsOK'
  BY <1>12 DEF Inv, TicketsOK, HasTicket, Owns
<1> QED BY <1>5, <1>8, <1>9, <1>10, <1>11, <1>13, <1>14, <1>15 DEF Inv, ThreadsOK

---------------------------------------------------------------------------
(* The invariant holds, and with it what the users of the queue rely on.   *)

(* Every step of every thread keeps the invariant.                         *)
THEOREM Inductive == Inv /\ [Next]_vars => Inv'
<1> SUFFICES ASSUME Inv, [Next]_vars PROVE Inv'
  OBVIOUS
<1>1. CASE UNCHANGED vars
  BY <1>1 DEF vars, Inv, TypeOK, ThreadsOK, TicketsOK, WordsOK, BlockersOK,
     VersionsOK, PlaceOK, LoopOK, CheckOK, HasTicket, Owns, ProducerOK,
     ConsumerOK, Lim
<1>2. ASSUME NEW t \in MP \cup MC, Multi(t) PROVE Inv'
  <2>1. t \in Threads
    BY DEF Threads, Producers, Consumers
  <2> QED BY <1>2, <2>1, PrepareInv, LoadAgainInv, CheckMultiInv, CasTakesInv
          DEF Multi
<1>3. ASSUME NEW t \in Single, OnePerSide(t) PROVE Inv'
  <2>1. t \in Threads
    BY DEF Threads, Single, Producers, Consumers
  <2> QED BY <1>3, <2>1, PrepareSingleInv, CheckSingleInv, StoreSingleInv
          DEF OnePerSide
<1>4. ASSUME NEW t \in FP, Fifo(t) PROVE Inv'
  BY <1>4, FifoPrepareInv, FifoReadyInv, FifoAheadInv DEF Fifo
<1>5. ASSUME NEW p \in Producers, Produce(p) PROVE Inv'
  BY <1>5, WriteDataInv, ProduceCommitInv DEF Produce
<1>6. ASSUME NEW c \in Consumers, Consume(c) PROVE Inv'
  BY <1>6, ReadDataInv, ConsumeCommitInv DEF Consume
<1>7. ASSUME NEW b \in Blockers, Blocks(b) PROVE Inv'
  BY <1>7, BlockFlagInv, BlockJumpInv DEF Blocks
<1>8. ASSUME NEW t \in Signallers, Signals(t) PROVE Inv'
  BY <1>8, SigLoadInv, SigCasSetsInv, SigCasFailsInv DEF Signals
<1> QED BY <1>1, <1>2, <1>3, <1>4, <1>5, <1>6, <1>7, <1>8 DEF Next

THEOREM Invariance == Spec => []Inv
<1> QED BY InitInv, Inductive, PTL DEF Spec

(* Every variable keeps its type.                                          *)
THEOREM TypeCorrect == Spec => []TypeOK
<1>1. Inv => TypeOK
  BY DEF Inv
<1> QED BY <1>1, Invariance, PTL

(* No two threads use one chunk: the versions of two owned slots would     *)
(* have to be equal, and the tickets with them.                            *)
THEOREM Exclusion == Spec => []ExclusiveChunk
<1>1. Inv => ExclusiveChunk
  <2> SUFFICES ASSUME Inv, NEW t \in Threads, NEW u \in Threads,
                      Owns(t), Owns(u), Slot(now[t]) = Slot(now[u])
               PROVE  t = u
    BY DEF ExclusiveChunk
  <2>1. CASE t \in Producers /\ u \in Producers
    BY <2>1, ProducerOwns DEF Inv, TicketsOK
  <2>2. CASE t \in Consumers /\ u \in Consumers
    <3>1. now[t] = now[u]
      BY <2>2, ConsumerOwns
    <3> QED BY <2>2, <3>1 DEF Inv, TicketsOK
  <2>3. ASSUME NEW p \in Producers, NEW c \in Consumers, Owns(p), Owns(c)
        PROVE  Slot(now[p]) # Slot(now[c])
    <3>1. Slot(now[p]) = Slot(now[c]) => now[p] = now[c] + 1
      BY <2>3, ProducerOwns, ConsumerOwns
    <3>2. now[c] \in Int
      BY <2>3, ConsumerOwns
    <3> QED BY <3>1, <3>2, SlotNext
  <2> QED BY <2>1, <2>2, <2>3 DEF Owns
<1> QED BY <1>1, Invariance, PTL

(* A consumer reads what was written under its ticket.                     *)
THEOREM ReadsCorrect == Spec => []ReadsItsTicket
<1>1. Inv => ReadsItsTicket
  BY DEF Inv, ThreadsOK, ConsumerOK, ReadsItsTicket, Owns
<1> QED BY <1>1, Invariance, PTL

---------------------------------------------------------------------------
(* The fallback on a signal.                                               *)

(* The signal a thread holds is one its caller accepts.                    *)
Accepted ==
  \A t \in MP \cup MC :
    pc[t] \in {"check", "cas"} => sg[t] \notin arg[t].fallback

LEMMA AcceptedLoaded ==
  ASSUME Inv, Accepted, NEW t \in MP \cup MC \cup Single, NEW a \in Call,
         Loaded(t, a)
  PROVE  Accepted'
<1>1. t \in Threads
  BY DEF Threads, Single, Producers, Consumers
<1> SUFFICES ASSUME NEW u \in MP \cup MC, pc'[u] \in {"check", "cas"}
             PROVE  sg'[u] \notin arg'[u].fallback
  BY DEF Accepted
<1>2. u \in Threads
  BY DEF Threads, Producers, Consumers
<1>3. CASE u = t
  BY <1>1, <1>3 DEF Loaded, Return, Goto, Inv, TypeOK
<1>4. CASE u # t
  BY <1>1, <1>2, <1>4 DEF Accepted, Loaded, Return, Goto, Inv, TypeOK
<1> QED BY <1>3, <1>4

(* A step that leaves other threads alone, and in which the thread that    *)
(* takes it does not begin to look at a slot.                              *)
LEMMA AcceptedOther ==
  ASSUME Accepted, NEW t \in Threads,
         \A u \in Threads \ {t} :
           pc'[u] = pc[u] /\ sg'[u] = sg[u] /\ arg'[u] = arg[u],
         pc'[t] = "cas" => pc[t] = "check" /\ sg'[t] = sg[t] /\ arg'[t] = arg[t],
         pc'[t] # "check"
  PROVE  Accepted'
<1> SUFFICES ASSUME NEW u \in MP \cup MC, pc'[u] \in {"check", "cas"}
             PROVE  sg'[u] \notin arg'[u].fallback
  BY DEF Accepted
<1>1. u \in Threads
  BY DEF Threads, Producers, Consumers
<1> QED BY <1>1 DEF Accepted

LEMMA AcceptedStep == Inv /\ Accepted /\ [Next]_vars => Accepted'
<1> SUFFICES ASSUME Inv, Accepted, [Next]_vars PROVE Accepted'
  OBVIOUS
<1>1. CASE UNCHANGED vars
  BY <1>1 DEF vars, Accepted
<1>2. ASSUME NEW t \in MP \cup MC, Multi(t) PROVE Accepted'
  <2>1. t \in Threads /\ t \notin Single /\ t \notin Signallers
    BY Classes DEF Threads, Producers, Consumers
  <2>2. arg[t] \in Call
    BY <2>1 DEF Inv, ThreadsOK, PlaceOK
  <2>3. CASE (\E a \in Calls : Prepare(t, a)) \/ Reload(t) \/ CasFails(t)
    BY <2>2, <2>3, Sizes, AcceptedLoaded DEF Prepare, Reload, CasFails
  <2>4. CASE CheckMulti(t)
    BY <2>1, <2>4, AcceptedOther DEF CheckMulti, Goto, Return, Inv, TypeOK
  <2>5. CASE CasTakes(t)
    BY <2>1, <2>5, AcceptedOther DEF CasTakes, Goto, Inv, TypeOK
  <2> QED BY <1>2, <2>3, <2>4, <2>5 DEF Multi
<1>3. ASSUME NEW t \in Single, OnePerSide(t) PROVE Accepted'
  <2>1. t \in Threads /\ t \notin MP \cup MC
    BY Classes DEF Threads, Single, Producers, Consumers
  <2>2. NoCall \in Call
    BY Sizes DEF NoCall, Call
  <2>3. CASE PrepareSingle(t)
    BY <2>2, <2>3, AcceptedLoaded DEF PrepareSingle
  <2>4. CASE CheckSingle(t)
    BY <2>1, <2>4, AcceptedOther DEF CheckSingle, Goto, Return, Inv, TypeOK
  <2>5. CASE StoreSingle(t)
    BY <2>1, <2>5, AcceptedOther DEF StoreSingle, Goto, Inv, TypeOK
  <2> QED BY <1>3, <2>3, <2>4, <2>5 DEF OnePerSide
<1>4. ASSUME NEW t \in FP, Fifo(t) PROVE Accepted'
  <2>1. t \in Threads
    BY DEF Threads, Producers
  <2> QED BY <1>4, <2>1, AcceptedOther
          DEF Fifo, FifoPrepare, FifoReady, FifoAhead, Goto, Return, Inv, TypeOK
<1>5. ASSUME NEW p \in Producers, Produce(p) PROVE Accepted'
  <2>1. p \in Threads
    BY DEF Threads
  <2> QED BY <1>5, <2>1, AcceptedOther
          DEF Produce, WriteData, ProduceCommit, Commit, Goto, Return, Inv, TypeOK
<1>6. ASSUME NEW c \in Consumers, Consume(c) PROVE Accepted'
  <2>1. c \in Threads
    BY DEF Threads
  <2> QED BY <1>6, <2>1, AcceptedOther
          DEF Consume, ReadData, ConsumeCommit, Commit, Goto, Return, Inv, TypeOK
<1>7. ASSUME NEW b \in Blockers, Blocks(b) PROVE Accepted'
  <2>1. b \in Threads
    BY DEF Threads
  <2> QED BY <1>7, <2>1, AcceptedOther
          DEF Blocks, BlockFlag, BlockJump, Jump, Goto, Return, Inv, TypeOK
<1>8. ASSUME NEW t \in Signallers, Signals(t) PROVE Accepted'
  <2>1. t \in Threads
    BY DEF Threads
  <2>2. ASSUME NEW a, SigLoaded(t, a) PROVE Accepted'
    BY <2>1, <2>2, AcceptedOther DEF SigLoaded, SigReturn, Goto, Inv, TypeOK
  <2>3. ASSUME NEW why, NEW n, NEW g, SigReturn(t, why, n, g) PROVE Accepted'
    BY <2>1, <2>3, AcceptedOther DEF SigReturn, Inv, TypeOK
  <2> QED BY <1>8, <2>2, <2>3 DEF Signals, SigLoad, SigCasSets, SigCasFails
<1> QED BY <1>1, <1>2, <1>3, <1>4, <1>5, <1>6, <1>7, <1>8 DEF Next

(* A thread comes to own a chunk only by a CAS, a store or a poll.         *)
LEMMA ComesToOwn ==
  ASSUME Inv, Next, NEW t \in Threads, pc[t] # "own", pc'[t] = "own"
  PROVE  \/ t \in MP \cup MC /\ CasTakes(t)
         \/ t \in Single /\ StoreSingle(t)
         \/ t \in FP /\ FifoReady(t)
<1>1. ASSUME NEW u \in Threads, pc' = [pc EXCEPT ![u] = "own"]
      PROVE  u = t
  BY <1>1 DEF Inv, TypeOK
<1>2. ASSUME NEW u \in Threads, NEW place, place # "own",
             pc' = [pc EXCEPT ![u] = place]
      PROVE  FALSE
  BY <1>2 DEF Inv, TypeOK
<1>3. ASSUME NEW u \in MP \cup MC, Multi(u) PROVE CasTakes(u) /\ u = t
  <2>1. u \in Threads
    BY DEF Threads, Producers, Consumers
  <2>2. ASSUME NEW a, Loaded(u, a) PROVE FALSE
    BY <1>2, <2>1, <2>2 DEF Loaded, Goto, Return
  <2>3. CASE CheckMulti(u)
    BY <1>2, <2>1, <2>3 DEF CheckMulti, Goto, Return
  <2>4. CasTakes(u)
    BY <1>3, <2>2, <2>3 DEF Multi, Prepare, Reload, CasFails
  <2> QED BY <1>1, <2>1, <2>4 DEF CasTakes, Goto
<1>4. ASSUME NEW u \in Single, OnePerSide(u) PROVE StoreSingle(u) /\ u = t
  <2>1. u \in Threads
    BY DEF Threads, Single, Producers, Consumers
  <2>2. ~PrepareSingle(u) /\ ~CheckSingle(u)
    BY <1>2, <2>1 DEF PrepareSingle, Loaded, CheckSingle, Goto, Return
  <2>3. StoreSingle(u)
    BY <1>4, <2>2 DEF OnePerSide
  <2> QED BY <1>1, <2>1, <2>3 DEF StoreSingle, Goto
<1>5. ASSUME NEW u \in FP, Fifo(u) PROVE FifoReady(u) /\ u = t
  <2>1. u \in Threads
    BY DEF Threads, Producers
  <2>2. ~FifoPrepare(u) /\ ~FifoAhead(u)
    BY <1>2, <2>1 DEF FifoPrepare, FifoAhead, Goto, Return
  <2>3. FifoReady(u)
    BY <1>5, <2>2 DEF Fifo
  <2> QED BY <1>1, <1>2, <2>1, <2>3 DEF FifoReady, Goto, Return
<1>6. ASSUME NEW u \in Producers, Produce(u) PROVE FALSE
  <2>1. u \in Threads
    BY DEF Threads
  <2> QED BY <1>2, <1>6, <2>1 DEF Produce, WriteData, ProduceCommit, Commit, Goto, Return
<1>7. ASSUME NEW u \in Consumers, Consume(u) PROVE FALSE
  <2>1. u \in Threads
    BY DEF Threads
  <2> QED BY <1>2, <1>7, <2>1 DEF Consume, ReadData, ConsumeCommit, Commit, Goto, Return
<1>8. ASSUME NEW u \in Blockers, Blocks(u) PROVE FALSE
  <2>1. u \in Threads
    BY DEF Threads
  <2> QED BY <1>2, <1>8, <2>1 DEF Blocks, BlockFlag, BlockJump, Jump, Goto, Return
<1>9. ASSUME NEW u \in Signallers, Signals(u) PROVE FALSE
  <2>1. u \in Threads
    BY DEF Threads
  <2>2. ASSUME NEW a, SigLoaded(u, a) PROVE FALSE
    BY <1>2, <2>1, <2>2 DEF SigLoaded, SigReturn, Goto
  <2> QED BY <1>2, <1>9, <2>1, <2>2
          DEF Signals, SigLoad, SigCasSets, SigCasFails, SigReturn
<1> QED BY <1>3, <1>4, <1>5, <1>6, <1>7, <1>8, <1>9 DEF Next

(* No ticket is taken under a signal the caller falls back on: the CAS     *)
(* compares the signal with one that was found acceptable.                 *)
THEOREM FallbackRespected == Spec => FallbackHolds
<1> DEFINE Step == \A t \in MP \cup MC :
                     pc[t] = "cas" /\ pc'[t] = "own"
                       => sig[Side(t)] \notin arg[t].fallback
<1>1. Init => Accepted
  BY DEF Init, Accepted, Threads, Producers, Consumers
<1>2. Inv /\ Accepted /\ [Next]_vars => [Step]_vars
  <2> SUFFICES ASSUME Inv, Accepted, Next, NEW t \in MP \cup MC,
                      pc[t] = "cas", pc'[t] = "own"
               PROVE  sig[Side(t)] \notin arg[t].fallback
    BY DEF vars
  <2>1. t \in Threads
    BY DEF Threads, Producers, Consumers
  <2>2. CasTakes(t)
    BY <2>1, ComesToOwn DEF StoreSingle, FifoReady
  <2> QED BY <2>2 DEF CasTakes, Matches, Accepted
<1>3. Spec => []Inv /\ []Accepted
  BY <1>1, InitInv, Inductive, AcceptedStep, PTL DEF Spec
<1>4. Spec => [][Step]_vars
  BY <1>2, <1>3, PTL DEF Spec
<1> QED BY <1>4 DEF FallbackHolds

---------------------------------------------------------------------------
(* Blocking, when one thread blocks.                                       *)

(* The flag is raised by the one blocker, and its call returns after the   *)
(* jump.                                                                   *)
BlockerState ==
  \A b \in Blockers :
    /\ res[b] = "none" /\ pc[b] = "idle" => ~flags
    /\ res[b] # "none" => fence # None

LEMMA BlockerStep ==
  ASSUME \A b, d \in Blockers : b = d
  PROVE  Inv /\ BlockerState /\ [Next]_vars => BlockerState'
<1> SUFFICES ASSUME Inv, BlockerState, [Next]_vars, NEW b \in Blockers
             PROVE  /\ res'[b] = "none" /\ pc'[b] = "idle" => ~flags'
                    /\ res'[b] # "none" => fence' # None
  BY DEF BlockerState
<1>1. /\ b \in Threads /\ b \notin Producers \cup Consumers /\ b \notin Signallers
      /\ \A t \in Producers \cup Consumers \cup Signallers : t # b /\ t \in Threads
      /\ b \notin Single /\ b \notin MP \cup MC /\ b \notin FP
  BY Classes DEF Threads, Single, Producers, Consumers
<1>2. /\ res[b] = "none" /\ pc[b] = "idle" => ~flags
      /\ res[b] # "none" => fence # None
  BY DEF BlockerState
<1>3. CASE UNCHANGED <<flags, fence>> /\ pc'[b] = pc[b] /\ res'[b] = res[b]
  BY <1>2, <1>3
<1>4. ASSUME NEW t \in Threads \ {b}, NEW why, Return(t, why)
      PROVE  pc'[b] = pc[b] /\ res'[b] = res[b]
  BY <1>1, <1>4 DEF Return, Inv, TypeOK
<1>5. ASSUME NEW t \in Threads \ {b}, NEW place, Goto(t, place)
      PROVE  pc'[b] = pc[b]
  BY <1>1, <1>5 DEF Goto, Inv, TypeOK
<1>6. ASSUME NEW t \in Threads \ {b}, NEW a, Loaded(t, a)
      PROVE  pc'[b] = pc[b] /\ res'[b] = res[b]
  BY <1>4, <1>5, <1>6 DEF Loaded
<1>7. CASE UNCHANGED vars
  BY <1>3, <1>7 DEF vars
<1>8. ASSUME NEW t \in MP \cup MC, Multi(t)
      PROVE  UNCHANGED <<flags, fence>> /\ pc'[b] = pc[b] /\ res'[b] = res[b]
  <2>1. t \in Threads \ {b}
    BY <1>1 DEF Producers, Consumers
  <2> QED BY <1>4, <1>5, <1>6, <1>8, <2>1
          DEF Multi, Prepare, Reload, CheckMulti, CasTakes, CasFails, queue
<1>9. ASSUME NEW t \in Single, OnePerSide(t)
      PROVE  UNCHANGED <<flags, fence>> /\ pc'[b] = pc[b] /\ res'[b] = res[b]
  <2>1. t \in Threads \ {b}
    BY <1>1 DEF Single, Producers, Consumers
  <2> QED BY <1>4, <1>5, <1>6, <1>9, <2>1
          DEF OnePerSide, PrepareSingle, CheckSingle, StoreSingle, queue
<1>10. ASSUME NEW t \in FP, Fifo(t)
       PROVE  UNCHANGED <<flags, fence>> /\ pc'[b] = pc[b] /\ res'[b] = res[b]
  <2>1. t \in Threads \ {b}
    BY <1>1 DEF Producers
  <2> QED BY <1>4, <1>5, <1>10, <2>1
          DEF Fifo, FifoPrepare, FifoReady, FifoAhead, queue
<1>11. ASSUME NEW p \in Producers, Produce(p)
       PROVE  UNCHANGED <<flags, fence>> /\ pc'[b] = pc[b] /\ res'[b] = res[b]
  BY <1>1, <1>4, <1>5, <1>11 DEF Produce, WriteData, ProduceCommit, Commit
<1>12. ASSUME NEW c \in Consumers, Consume(c)
       PROVE  UNCHANGED <<flags, fence>> /\ pc'[b] = pc[b] /\ res'[b] = res[b]
  BY <1>1, <1>4, <1>5, <1>12 DEF Consume, ReadData, ConsumeCommit, Commit, queue
<1>13. ASSUME NEW t \in Signallers, Signals(t)
       PROVE  UNCHANGED <<flags, fence>> /\ pc'[b] = pc[b] /\ res'[b] = res[b]
  <2>1. t \in Threads \ {b}
    BY <1>1
  <2>2. ASSUME NEW why, NEW n, NEW g, SigReturn(t, why, n, g)
        PROVE  pc'[b] = pc[b] /\ res'[b] = res[b]
    BY <1>1, <2>1, <2>2 DEF SigReturn, Inv, TypeOK
  <2>3. ASSUME NEW a, SigLoaded(t, a)
        PROVE  pc'[b] = pc[b] /\ res'[b] = res[b]
    BY <1>5, <2>1, <2>2, <2>3 DEF SigLoaded
  <2> QED BY <1>13, <2>2, <2>3
          DEF Signals, SigLoad, SigCasSets, SigCasFails, queue
<1>14. ASSUME NEW d \in Blockers, Blocks(d)
       PROVE  /\ res'[b] = "none" /\ pc'[b] = "idle" => ~flags'
              /\ res'[b] # "none" => fence' # None
  <2>1. d = b
    OBVIOUS
  <2>2. CASE BlockFlag(d) /\ res[b] = "none"
    <3>1. pc[b] = "idle" /\ ~flags
      BY <1>2, <2>1, <2>2 DEF BlockFlag
    <3> QED BY <1>1, <2>1, <2>2, <3>1 DEF BlockFlag, Goto, Inv, TypeOK
  <2>4. CASE BlockFlag(d) /\ res[b] # "none"
    <3>1. fence' # None
      BY <1>2, <2>4 DEF BlockFlag
    <3>2. pc[b] = "idle" /\ flags /\ Return(b, "ok")
      BY <1>2, <2>1, <2>4 DEF BlockFlag, Inv, WordsOK
    <3> QED BY <1>1, <3>1, <3>2 DEF Return, Inv, TypeOK
  <2>3. CASE BlockJump(d)
    <3>1. res'[b] = "ok" /\ fence' = tkt["push"] /\ tkt["push"] \in Nat
      BY <1>1, <2>1, <2>3, Numbers DEF BlockJump, Jump, Return, Inv, TypeOK
    <3> QED BY <3>1 DEF None
  <2> QED BY <1>14, <2>2, <2>3, <2>4 DEF Blocks
<1> QED BY <1>3, <1>7, <1>8, <1>9, <1>10, <1>11, <1>12, <1>13, <1>14 DEF Next

(* The jump happens once.                                                  *)
LEMMA FenceStays ==
  ASSUME Inv, Next, fence # None
  PROVE  fence' = fence
<1>1. \A d \in Blockers : ~BlockJump(d)
  BY DEF BlockJump, Jump, Inv, BlockersOK, Threads
<1> QED BY <1>1 DEF Next, Multi, OnePerSide, Fifo, Produce, Consume, Blocks,
        Signals, Prepare, PrepareSingle, Reload, CheckMulti, CasTakes,
        CasFails, CheckSingle, StoreSingle, FifoPrepare, FifoReady,
        FifoAhead, WriteData, ReadData, ProduceCommit, ConsumeCommit, Commit,
        BlockFlag, SigLoad, SigCasSets, SigCasFails, queue

(* Once the push ticket was jumped ahead no producer comes to own a chunk, *)
(* but for a fifo producer with a ticket older than the jump.              *)
JumpHolds ==
  [][\A p \in Producers :
       fence # None /\ pc[p] # "own" /\ pc'[p] = "own" => p \in FP /\ now[p] < Lim]_vars

LEMMA NoneEnters ==
  ASSUME Inv, Next, fence # None, NEW p \in Producers, pc[p] # "own", pc'[p] = "own"
  PROVE  p \in FP /\ now[p] < Lim
<1>1. p \in Threads /\ SP = {} /\ p \notin Consumers
  BY Classes DEF Inv, WordsOK, Threads
<1>2. fence' = fence /\ Lim' = Lim
  BY FenceStays DEF Lim
<1>3. Inv'
  BY Inductive
<1>4. now'[p] < Lim
  <2>1. HasTicket(p)' /\ Owns(p)'
    BY DEF HasTicket, Owns
  <2>2. ProducerOK(p)'
    BY <1>1, <1>3, <2>1 DEF Inv, ThreadsOK
  <2> QED BY <1>2, <2>1, <2>2 DEF ProducerOK
<1>5. CASE p \in FP /\ FifoReady(p)
  BY <1>1, <1>4, <1>5 DEF FifoReady, Return, Goto, Inv, TypeOK
<1>6. CASE p \in MP /\ CasTakes(p)
  BY <1>1, <1>6, MatchExact DEF CasTakes, Inv, ThreadsOK, CheckOK
<1>7. (p \in FP /\ FifoReady(p)) \/ (p \in MP /\ CasTakes(p))
  BY <1>1, ComesToOwn DEF Single, Consumers
<1> QED BY <1>5, <1>6, <1>7

(* However many threads call block_producers, the jump closes the queue    *)
(* to producers: those that saw the flag unset, or look late, included.    *)
THEOREM JumpIsFinal == Spec => JumpHolds
<1> DEFINE Step == \A p \in Producers :
                     fence # None /\ pc[p] # "own" /\ pc'[p] = "own"
                       => p \in FP /\ now[p] < Lim
<1>1. Inv /\ [Next]_vars => [Step]_vars
  BY NoneEnters
<1>2. Spec => []Inv
  BY InitInv, Inductive, PTL DEF Spec
<1>3. Spec => [][Step]_vars
  BY <1>1, <1>2, PTL DEF Spec
<1> QED BY <1>3 DEF JumpHolds

(* With one blocker a call has returned after the jump only, so no         *)
(* producer comes to own a chunk after block_producers has returned, but   *)
(* for a fifo producer with an older ticket.  With two blockers one may:   *)
(* the second returns at once, before the first has jumped.                *)
THEOREM BlockIsFinal ==
  ASSUME \A b, d \in Blockers : b = d
  PROVE  Spec => BlockHolds
<1> DEFINE Step == \A p \in Producers :
                     (\E b \in Blockers : res[b] = "ok") /\ pc[p] # "own" /\ pc'[p] = "own"
                       => p \in FP /\ now[p] < Lim
<1>1. Init => BlockerState
  BY DEF Init, BlockerState, Threads
<1>2. Inv /\ BlockerState /\ [Next]_vars => [Step]_vars
  <2> SUFFICES ASSUME Inv, BlockerState, Next, NEW b \in Blockers, res[b] = "ok",
                      NEW p \in Producers, pc[p] # "own", pc'[p] = "own"
               PROVE  p \in FP /\ now[p] < Lim
    BY DEF vars
  <2>1. fence # None
    BY DEF BlockerState
  <2> QED BY <2>1, NoneEnters
<1>3. Spec => []Inv /\ []BlockerState
  BY <1>1, InitInv, Inductive, BlockerStep, PTL DEF Spec
<1>4. Spec => [][Step]_vars
  BY <1>2, <1>3, PTL DEF Spec
<1> QED BY <1>4 DEF BlockHolds

---------------------------------------------------------------------------
(* What the version check says before the ticket field wraps.              *)

(* The tickets in use, and those of the lap to come, fit in the field.     *)
BelowWrap == tkt["push"] + SlotCount < TicketMod

LEMMA TicketBelow ==
  ASSUME NEW k \in Nat, k < TicketMod
  PROVE  Tk(k) = k
BY SmallNumber, Sizes DEF Tk

(* Tickets of one slot are whole laps apart.                               *)
LEMMA LapsApart ==
  ASSUME NEW k \in Int, NEW j \in Int, Slot(k) = Slot(j)
  PROVE  \/ k = j \/ k = j + SlotCount \/ j = k + SlotCount
         \/ k >= j + 2 * SlotCount \/ j >= k + 2 * SlotCount
<1>1. ASSUME NEW a \in Int, NEW b \in Int, Slot(a) = Slot(b), b <= a,
             a < b + 2 * SlotCount
      PROVE  a = b \/ a = b + SlotCount
  <2>1. CASE a < b + SlotCount
    BY <1>1, <2>1, SlotOnce, Sizes
  <2>2. CASE a >= b + SlotCount
    <3> DEFINE d == a - SlotCount
    <3>1. d \in Int /\ Slot(d) = Slot(b) /\ d - b < SlotCount /\ b - d < SlotCount
      BY <1>1, <2>2, SlotLap, Sizes
    <3> HIDE DEF d
    <3>2. d = b
      BY <1>1, <3>1, SlotOnce
    <3> QED BY <1>1, <3>2, Sizes DEF d
  <2> QED BY <1>1, <2>1, <2>2, Sizes
<1> QED BY <1>1, Sizes

(* A slot's version, told by the next ticket consumers will use the slot   *)
(* under: a lap before that ticket, free, or ready.                        *)
LEMMA SlotTicket ==
  ASSUME Inv, NEW k \in Int
  PROVE  \E j \in tkt["pop"]..(tkt["pop"] + SlotCount - 1) :
           /\ Slot(k) = Slot(j)
           /\ ver[Slot(k)] \in {j - SlotCount + 1, j, j + 1}
           /\ ver[Slot(k)] = j + 1 => j < Lim
<1> DEFINE n == tkt["pop"]
<1>1. n \in Int
  BY Numbers DEF Inv
<1> HIDE DEF n
<1>2. PICK j \in n..(n + SlotCount - 1) : Slot(j) = Slot(k)
  BY <1>1, SlotInLap
<1>3. /\ ver[Slot(j)] \in {j - SlotCount + 1, j, j + 1}
      /\ ver[Slot(j)] = j + 1 => j < Lim
  BY <1>2 DEF n, Inv, VersionsOK
<1> QED BY <1>2, <1>3 DEF n

(* The comparison of wrapped numbers is that of the numbers.               *)
LEMMA VerdictBelow ==
  ASSUME Inv, BelowWrap, NEW t \in Producers \cup Consumers,
         pc[t] \in {"check", "poll"},
         NEW v, v = ver[Slot(now[t])], NEW e, e = now[t] + Offset(t)
  PROVE  /\ v \in Nat /\ e \in Nat /\ now[t] \in Nat
         /\ Verdict(t) = "ok" => v = e
         /\ Verdict(t) = "busy" => v > e
         /\ Verdict(t) = NoData(t) => v < e /\ v > e - 2 * SlotCount
         /\ Verdict(t) = "locked" => v <= e - 2 * SlotCount
<1>1. t \in Threads /\ PlaceOK(t) /\ LoopOK(t)
  BY DEF Threads, Inv, ThreadsOK
<1>2. now[t] \in Nat /\ Offset(t) \in 0..1
  BY <1>1 DEF PlaceOK, Offset
<1>3. v \in Nat /\ e \in Nat
  BY <1>2, Numbers DEF Inv
<1>4. /\ tkt["push"] \in Nat /\ tkt["pop"] \in Nat /\ tkt["pop"] <= tkt["push"]
      /\ tkt["push"] + SlotCount < TicketMod
  BY Numbers DEF Inv, WordsOK, BelowWrap
<1>5. now[t] <= tkt["push"]
  <2>1. CASE pc[t] = "check"
    BY <1>1, <1>2, <1>4, <2>1 DEF LoopOK, Side
  <2>2. CASE pc[t] = "poll"
    <3>1. t \in FP /\ HasTicket(t) /\ t \in Producers
      BY <1>1, <2>2 DEF PlaceOK, HasTicket, Producers
    <3> QED BY <1>2, <1>4, <3>1 DEF Inv, ThreadsOK, ProducerOK
  <2> QED BY <2>1, <2>2
<1>6. v < TicketMod /\ e < TicketMod
  <2>1. v <= tkt["pop"] + SlotCount
    BY <1>2, VersionNear DEF Inv
  <2> QED BY <1>2, <1>3, <1>4, <1>5, <2>1, Sizes
<1>7. Tk(v) = v /\ Tk(e) = e
  BY <1>3, <1>6, TicketBelow
<1> DEFINE d == v - e
<1>8. Verdict(t) = CASE d = 0 -> "ok"
                     [] d > 0 -> "busy"
                     [] d < 0 /\ d > -(2 * SlotCount) -> NoData(t)
                     [] OTHER -> "locked"
  BY <1>7 DEF Verdict
<1>9. NoData(t) \in {"would_overflow", "empty"} /\ d \in Int
  BY <1>3 DEF NoData
<1> HIDE DEF d
<1>10. d = 0 => Verdict(t) = "ok"
  BY <1>8, <1>9, Sizes
<1>11. d > 0 => Verdict(t) = "busy"
  BY <1>8, <1>9, Sizes
<1>12. d < 0 /\ d > -(2 * SlotCount) => Verdict(t) = NoData(t)
  BY <1>8, <1>9, Sizes
<1>13. d <= -(2 * SlotCount) => Verdict(t) = "locked"
  BY <1>8, <1>9, Sizes
<1>14. d = 0 \/ d > 0 \/ (d < 0 /\ d > -(2 * SlotCount)) \/ d <= -(2 * SlotCount)
  BY <1>9, Sizes
<1>15. /\ d = 0 => v = e
       /\ d > 0 => v > e
       /\ d < 0 => v < e
       /\ d > -(2 * SlotCount) => v > e - 2 * SlotCount
       /\ d <= -(2 * SlotCount) => v <= e - 2 * SlotCount
  BY <1>3, Sizes DEF d
<1> QED BY <1>2, <1>3, <1>9, <1>10, <1>11, <1>12, <1>13, <1>14, <1>15

(* A thread of single mode has the word's own ticket, and a fifo producer  *)
(* a ticket of its own: neither can be late.                               *)
LEMMA NeverLate ==
  ASSUME Inv, BelowWrap, NEW t \in Threads,
         (t \in Single /\ pc[t] = "check") \/ pc[t] = "poll"
  PROVE  Verdict(t) # "busy"
<1> DEFINE n == now[t]
           v == ver[Slot(n)]
<1>1. t \in Producers \cup Consumers /\ PlaceOK(t) /\ LoopOK(t)
  BY DEF Inv, ThreadsOK, PlaceOK, Single, Producers, Consumers
<1>2. /\ n \in Nat /\ v \in Nat
      /\ Verdict(t) = "busy" => v > n + Offset(t)
  BY <1>1, VerdictBelow
<1>3. PICK j \in tkt["pop"]..(tkt["pop"] + SlotCount - 1) :
        /\ Slot(n) = Slot(j) /\ v \in {j - SlotCount + 1, j, j + 1}
        /\ v = j + 1 => j < Lim
  BY <1>2, SlotTicket
<1>4. /\ tkt["pop"] \in Nat /\ tkt["push"] \in Nat /\ j \in Int
      /\ tkt["pop"] <= tkt["push"] /\ Lim <= tkt["push"] /\ Lim \in Nat
  BY <1>3, Numbers DEF Inv, WordsOK
<1>5. n = j \/ n = j + SlotCount \/ j = n + SlotCount
      \/ n >= j + 2 * SlotCount \/ j >= n + 2 * SlotCount
  BY <1>2, <1>3, <1>4, LapsApart
<1>6. tkt["pop"] <= n
  <2>1. CASE pc[t] = "check"
    BY <1>1, <1>4, <2>1 DEF LoopOK, Side
  <2>2. CASE pc[t] = "poll"
    <3>1. HasTicket(t) /\ t \in Producers
      BY <1>1, <2>2 DEF PlaceOK, HasTicket, Producers
    <3> QED BY <3>1 DEF Inv, ThreadsOK, ProducerOK
  <2> QED BY <2>1, <2>2
<1> HIDE DEF n, v
<1>7. n = j \/ n >= j + SlotCount
  BY <1>2, <1>3, <1>4, <1>5, <1>6, Sizes
<1>8. n >= j + SlotCount => v <= n
  BY <1>2, <1>3, <1>4, Sizes
<1>9. n = j => v <= n + Offset(t)
  <2>1. CASE t \in Producers
    <3>1. v # n + 1
      <4>1. CASE pc[t] = "check"
        <5>1. n = tkt["push"]
          BY <1>1, <2>1, <4>1 DEF n, LoopOK, Side
        <5> QED BY <1>2, <1>3, <1>4, <1>7, <5>1, Sizes
      <4>2. CASE pc[t] = "poll"
        <5>1. HasTicket(t)
          BY <2>1, <4>2 DEF HasTicket
        <5> QED BY <2>1, <5>1 DEF n, v, Inv, ThreadsOK, ProducerOK
      <4> QED BY <4>1, <4>2
    <3> QED BY <1>2, <1>3, <1>4, <2>1, <3>1, Sizes DEF Offset
  <2>2. CASE t \notin Producers
    BY <1>2, <1>3, <1>4, <2>2, Sizes DEF Offset
  <2> QED BY <2>1, <2>2
<1>10. Offset(t) \in 0..1
  BY DEF Offset
<1> QED BY <1>2, <1>7, <1>8, <1>9, <1>10

---------------------------------------------------------------------------
(* What each step does to the words, the versions and the thread that      *)
(* takes it.                                                               *)

Others(t) ==
  \A u \in Threads \ {t} :
    pc'[u] = pc[u] /\ now'[u] = now[u] /\ val'[u] = val[u] /\ res'[u] = res[u]

Still   == UNCHANGED <<tkt, ver, fence>>
Same(t) == now'[t] = now[t] /\ val'[t] = val[t] /\ res'[t] = res[t]
Goes(t) == pc'[t] # "idle" /\ res'[t] = res[t]
Ends(t, why) == pc'[t] = "idle" /\ res'[t] = why

(* A blocker or a signaller.                                               *)
Aside(t) == /\ t \in Blockers \cup Signallers /\ Still
            /\ Goes(t) \/ Ends(t, "ok") \/ Ends(t, "preconditions")

(* A word loaded, or the version of a slot looked at.                      *)
Looked(t) ==
  /\ t \in MP \cup MC \cup Single /\ Still /\ val'[t] = val[t]
  /\ pc[t] \in {"idle", "reload", "check", "cas"}
  /\ pc[t] = "idle" /\ t \in Producers => tkt["push"] < MaxTicket
  /\ pc'[t] \in {"idle", "reload", "check", "cas", "store"}
  /\ pc'[t] \in {"check", "cas", "store"} =>
       now'[t] = tkt[Side(t)] \/ (pc[t] = "check" /\ now'[t] = now[t])
  /\ \/ Goes(t)
     \/ Ends(t, "preconditions")
     \/ /\ pc[t] = "check" /\ Verdict(t) # "ok" /\ Ends(t, Verdict(t))
        /\ t \notin Single => Verdict(t) # "busy"

(* A fifo producer that waits, enters its chunk, and is told to give up.   *)
Waited(t) ==
  /\ t \in FP /\ Still /\ Same(t)
  /\ pc[t] \in {"poll", "ahead"} /\ pc'[t] \in {"poll", "ahead"}

Entered(t) ==
  /\ t \in FP /\ Still /\ Same(t)
  /\ pc[t] = "poll" /\ Verdict(t) = "ok" /\ pc'[t] = "own"

GaveUp(t) ==
  /\ t \in FP /\ Still /\ val'[t] = val[t]
  /\ \/ /\ pc[t] = "poll" /\ Verdict(t) \notin {"ok", "would_overflow"}
        /\ Ends(t, Verdict(t))
     \/ /\ pc[t] = "ahead" /\ Ends(t, "locked")
        /\ Tk(tkt["push"]) - Tk(now[t]) \notin 0..(SlotCount - 1)

(* A ticket taken, by the word's CAS or store or by fetch_add.             *)
Took(t) ==
  /\ t \in MP \cup MC \cup Single /\ pc[t] \in {"cas", "store"}
  /\ now[t] = tkt[Side(t)] /\ tkt' = [tkt EXCEPT ![Side(t)] = @ + 1]
  /\ pc'[t] = "own" /\ Same(t) /\ UNCHANGED <<ver, fence>>

Joined(t) ==
  /\ t \in FP /\ pc[t] = "idle" /\ tkt["push"] < MaxTicket
  /\ tkt' = [tkt EXCEPT !["push"] = @ + 1]
  /\ pc'[t] = "poll" /\ now'[t] = tkt["push"]
  /\ val'[t] = val[t] /\ res'[t] = res[t] /\ UNCHANGED <<ver, fence>>

(* A chunk used and committed.                                             *)
Used(t) ==
  /\ t \in Producers \cup Consumers /\ Still
  /\ pc[t] = "own" /\ pc'[t] = "used" /\ now'[t] = now[t] /\ res'[t] = res[t]
  /\ val'[t] = IF t \in Producers THEN val[t] ELSE now[t]

Committed(t) ==
  /\ t \in Producers \cup Consumers /\ pc[t] = "used" /\ Ends(t, "ok")
  /\ val'[t] = None /\ UNCHANGED <<tkt, fence>>
  /\ ver' = [ver EXCEPT ![Slot(now[t])] =
               now[t] + IF t \in Producers THEN 1 ELSE SlotCount]

Jumped(t) ==
  /\ t \in Blockers /\ fence = None /\ fence' = tkt["push"] /\ ver' = ver
  /\ tkt' = [tkt EXCEPT !["push"] = @ + 2 * SlotCount]
  /\ Ends(t, "ok")

Effect(t) ==
  /\ Others(t)
  /\ \/ Aside(t) \/ Looked(t) \/ Waited(t) \/ Entered(t) \/ GaveUp(t)
     \/ Took(t) \/ Joined(t) \/ Used(t) \/ Committed(t) \/ Jumped(t)

LEMMA LoadedEffect ==
  ASSUME Inv, NEW t \in MP \cup MC \cup Single, NEW a, Loaded(t, a),
         UNCHANGED <<queue, val>>, pc[t] \in {"idle", "reload", "cas"},
         pc[t] = "idle" /\ t \in Producers => tkt["push"] < MaxTicket
  PROVE  Effect(t)
<1>1. t \in Threads
  BY DEF Threads, Single, Producers, Consumers
<1>2. CASE Return(t, "preconditions")
  <2>1. Others(t) /\ Ends(t, "preconditions")
    BY <1>1, <1>2 DEF Return, Others, Ends, Inv, TypeOK
  <2>2. Looked(t)
    BY <1>1, <1>2, <2>1 DEF Looked, Still, Ends, queue
  <2> QED BY <2>1, <2>2 DEF Effect
<1>3. CASE /\ Goto(t, "check") /\ UNCHANGED res
           /\ now' = [now EXCEPT ![t] = tkt[Side(t)]]
  <2>1. Others(t) /\ pc'[t] = "check" /\ now'[t] = tkt[Side(t)] /\ res' = res
    BY <1>1, <1>3 DEF Goto, Others, Inv, TypeOK
  <2>2. Still /\ val'[t] = val[t] /\ res'[t] = res[t] /\ pc'[t] # "idle"
    BY <2>1 DEF Still, queue
  <2>3. /\ pc[t] \in {"idle", "reload", "check", "cas"}
        /\ pc'[t] \in {"idle", "reload", "check", "cas", "store"}
    BY <2>1
  <2>4. Looked(t)
    BY <2>1, <2>2, <2>3 DEF Looked, Goes
  <2> QED BY <2>1, <2>4 DEF Effect
<1>4. CASE sig[Side(t)] \in a.fallback
  BY <1>2, <1>4 DEF Loaded
<1>5. CASE sig[Side(t)] \notin a.fallback
  BY <1>3, <1>5 DEF Loaded
<1> QED BY <1>4, <1>5

LEMMA MultiEffect ==
  ASSUME Inv, NEW t \in MP \cup MC, Multi(t)
  PROVE  Effect(t)
<1>1. t \in Threads /\ t \notin Single
  BY Classes DEF Threads, Producers, Consumers
<1>2. ASSUME NEW a \in Calls, Prepare(t, a) PROVE Effect(t)
  <2>1. pc[t] = "idle" /\ t \in Producers => tkt["push"] < MaxTicket
    BY <1>2, Classes DEF Prepare, Consumers
  <2> QED BY <1>2, <2>1, LoadedEffect DEF Prepare
<1>3. CASE Reload(t) \/ CasFails(t)
  BY <1>3, LoadedEffect DEF Reload, CasFails
<1>4. CASE CheckMulti(t)
  <2>1. pc[t] = "check" /\ Still /\ val' = val
    BY <1>4 DEF CheckMulti, Still, queue
  <2>2. CASE \E place \in {"cas", "reload"} :
               Goto(t, place) /\ UNCHANGED <<now, sg, arg, res>>
    <3>1. /\ Others(t) /\ pc'[t] \in {"cas", "reload"}
          /\ now'[t] = now[t] /\ res'[t] = res[t]
      BY <1>1, <2>1, <2>2 DEF Goto, Others, Inv, TypeOK
    <3> QED BY <2>1, <3>1 DEF Effect, Looked, Goes
  <2>3. CASE Verdict(t) \notin {"ok", "busy"} /\ Return(t, Verdict(t))
    <3>1. Others(t) /\ Ends(t, Verdict(t))
      BY <1>1, <2>1, <2>3 DEF Return, Others, Ends, Inv, TypeOK
    <3> QED BY <2>1, <2>3, <3>1 DEF Effect, Looked, Ends
  <2> QED BY <1>4, <2>2, <2>3 DEF CheckMulti
<1>5. CASE CasTakes(t)
  <2>1. now[t] = tkt[Side(t)]
    BY <1>5, MatchExact DEF CasTakes
  <2>2. /\ now' = [now EXCEPT ![t] = tkt[Side(t)]] /\ pc' = [pc EXCEPT ![t] = "own"]
        /\ tkt' = [tkt EXCEPT ![Side(t)] = @ + 1] /\ pc[t] = "cas"
        /\ UNCHANGED <<ver, fence, val, res>>
    BY <1>5 DEF CasTakes, Goto
  <2>3. Others(t) /\ pc'[t] = "own" /\ Same(t)
    BY <1>1, <2>1, <2>2 DEF Others, Same, Inv, TypeOK
  <2> QED BY <2>1, <2>2, <2>3 DEF Effect, Took
<1> QED BY <1>2, <1>3, <1>4, <1>5 DEF Multi

LEMMA SingleEffect ==
  ASSUME Inv, NEW t \in Single, OnePerSide(t)
  PROVE  Effect(t)
<1>1. t \in Threads
  BY DEF Threads, Single, Producers, Consumers
<1>2. CASE PrepareSingle(t)
  <2>1. pc[t] = "idle" /\ t \in Producers => tkt["push"] < MaxTicket
    BY <1>2, Classes DEF PrepareSingle, Single, Consumers
  <2> QED BY <1>2, <2>1, LoadedEffect DEF PrepareSingle
<1>3. CASE CheckSingle(t)
  <2>1. pc[t] = "check" /\ Still /\ val' = val
    BY <1>3 DEF CheckSingle, Still, queue
  <2>2. CASE Goto(t, "store") /\ UNCHANGED <<now, sg, arg, res>>
    <3>1. /\ Others(t) /\ pc'[t] = "store"
          /\ now'[t] = now[t] /\ res'[t] = res[t]
      BY <1>1, <2>1, <2>2 DEF Goto, Others, Inv, TypeOK
    <3> QED BY <2>1, <3>1 DEF Effect, Looked, Goes
  <2>3. CASE Verdict(t) # "ok" /\ Return(t, Verdict(t))
    <3>1. Others(t) /\ Ends(t, Verdict(t))
      BY <1>1, <2>1, <2>3 DEF Return, Others, Ends, Inv, TypeOK
    <3> QED BY <2>1, <2>3, <3>1 DEF Effect, Looked, Ends
  <2> QED BY <1>3, <2>2, <2>3 DEF CheckSingle
<1>4. CASE StoreSingle(t)
  <2>1. now[t] = tkt[Side(t)]
    BY <1>1, <1>4 DEF StoreSingle, Inv, ThreadsOK, LoopOK
  <2>2. /\ pc' = [pc EXCEPT ![t] = "own"] /\ pc[t] = "store"
        /\ tkt' = [tkt EXCEPT ![Side(t)] = @ + 1]
        /\ UNCHANGED <<ver, fence, now, val, res>>
    BY <1>4, <2>1 DEF StoreSingle, Goto
  <2>3. Others(t) /\ pc'[t] = "own" /\ Same(t)
    BY <1>1, <2>2 DEF Others, Same, Inv, TypeOK
  <2> QED BY <2>1, <2>2, <2>3 DEF Effect, Took
<1> QED BY <1>2, <1>3, <1>4 DEF OnePerSide

LEMMA FifoEffect ==
  ASSUME Inv, NEW t \in FP, Fifo(t)
  PROVE  Effect(t)
<1>1. t \in Threads
  BY DEF Threads, Producers
<1>2. CASE FifoPrepare(t)
  <2>1. Others(t) /\ pc'[t] = "poll" /\ now'[t] = tkt["push"]
    BY <1>1, <1>2 DEF FifoPrepare, Goto, Others, Inv, TypeOK
  <2> QED BY <1>2, <2>1 DEF FifoPrepare, Effect, Joined
<1>3. ASSUME NEW place, Goto(t, place), UNCHANGED <<queue, now, sg, arg, val, res>>
      PROVE  Others(t) /\ pc'[t] = place /\ Same(t) /\ Still
  BY <1>1, <1>3 DEF Goto, Others, Same, Still, queue, Inv, TypeOK
<1>4. ASSUME NEW why, Return(t, why), UNCHANGED <<queue, val>>
      PROVE  Others(t) /\ Ends(t, why) /\ Still /\ val'[t] = val[t]
  BY <1>1, <1>4 DEF Return, Others, Ends, Still, queue, Inv, TypeOK
<1>5. CASE FifoReady(t)
  <2>1. CASE Verdict(t) = "ok" /\ Goto(t, "own") /\ UNCHANGED <<now, sg, arg, res>>
    BY <1>3, <1>5, <2>1 DEF FifoReady, Effect, Entered
  <2>2. CASE Goto(t, "ahead") /\ UNCHANGED <<now, sg, arg, res>>
    BY <1>3, <1>5, <2>2 DEF FifoReady, Effect, Waited
  <2>3. CASE Verdict(t) \notin {"ok", "would_overflow"} /\ Return(t, Verdict(t))
    BY <1>4, <1>5, <2>3 DEF FifoReady, Effect, GaveUp
  <2> QED BY <1>5, <2>1, <2>2, <2>3 DEF FifoReady
<1>6. CASE FifoAhead(t)
  <2>1. CASE Goto(t, "poll") /\ UNCHANGED <<now, sg, arg, res>>
    BY <1>3, <1>6, <2>1 DEF FifoAhead, Effect, Waited
  <2>2. CASE /\ Tk(tkt["push"]) - Tk(now[t]) \notin 0..(SlotCount - 1)
             /\ Return(t, "locked")
    BY <1>4, <1>6, <2>2 DEF FifoAhead, Effect, GaveUp
  <2> QED BY <1>6, <2>1, <2>2 DEF FifoAhead
<1> QED BY <1>2, <1>5, <1>6 DEF Fifo

LEMMA OwnerEffect ==
  ASSUME Inv, NEW t \in Producers \cup Consumers,
         \/ t \in Producers /\ Produce(t)
         \/ t \in Consumers /\ Consume(t)
  PROVE  Effect(t)
<1>1. t \in Threads /\ (t \in Consumers => t \notin Producers)
  BY Classes DEF Threads
<1>2. CASE t \in Producers /\ WriteData(t)
  <2>1. Others(t) /\ pc'[t] = "used" /\ Same(t) /\ Still /\ pc[t] = "own"
    BY <1>1, <1>2 DEF WriteData, Goto, Others, Same, Still, Inv, TypeOK
  <2> QED BY <1>2, <2>1 DEF Effect, Used, Same
<1>3. CASE t \in Consumers /\ ReadData(t)
  <2>1. data[Slot(now[t])] = now[t] /\ pc[t] = "own"
    BY <1>3, ConsumerOwns DEF ReadData, Owns
  <2>2. /\ Others(t) /\ pc'[t] = "used" /\ Still /\ now'[t] = now[t]
        /\ res'[t] = res[t] /\ val'[t] = data[Slot(now[t])]
    BY <1>1, <1>3 DEF ReadData, Goto, Others, Still, queue, Inv, TypeOK
  <2> QED BY <1>1, <1>3, <2>1, <2>2 DEF Effect, Used
<1>4. ASSUME NEW v, Commit(t, v)
      PROVE  /\ Others(t) /\ Ends(t, "ok") /\ val'[t] = None
             /\ pc[t] = "used" /\ ver' = [ver EXCEPT ![Slot(now[t])] = v]
             /\ UNCHANGED <<tkt, fence>>
  BY <1>1, <1>4 DEF Commit, Return, Others, Ends, Inv, TypeOK
<1>5. CASE t \in Producers /\ ProduceCommit(t)
  BY <1>4, <1>5 DEF ProduceCommit, Effect, Committed
<1>6. CASE t \in Consumers /\ ConsumeCommit(t)
  BY <1>1, <1>4, <1>6 DEF ConsumeCommit, Effect, Committed
<1> QED BY <1>1, <1>2, <1>3, <1>5, <1>6 DEF Produce, Consume

LEMMA AsideEffect ==
  ASSUME Inv, NEW t \in Blockers \cup Signallers,
         \/ t \in Blockers /\ Blocks(t)
         \/ t \in Signallers /\ Signals(t)
  PROVE  Effect(t)
<1>1. t \in Threads
  BY DEF Threads
<1>2. ASSUME NEW why, Return(t, why), val' = val
      PROVE  Others(t) /\ Ends(t, why)
  BY <1>1, <1>2 DEF Return, Others, Ends, Inv, TypeOK
<1>3. CASE t \in Blockers /\ BlockFlag(t)
  <2>1. Others(t) /\ Still /\ (Goes(t) \/ Ends(t, "ok"))
    BY <1>1, <1>2, <1>3 DEF BlockFlag, Goto, Others, Still, Goes, Inv, TypeOK
  <2> QED BY <2>1 DEF Effect, Aside
<1>4. CASE t \in Blockers /\ BlockJump(t)
  <2>1. pc[t] = "jump" /\ Return(t, "ok") /\ val' = val
        /\ fence' = tkt["push"] /\ ver' = ver
        /\ tkt' = [tkt EXCEPT !["push"] = @ + 2 * SlotCount]
    BY <1>4 DEF BlockJump, Jump
  <2>2. fence = None
    BY <1>1, <2>1 DEF Inv, BlockersOK
  <2> QED BY <1>2, <1>4, <2>1, <2>2 DEF Effect, Jumped, Ends
<1>5. ASSUME NEW why, NEW n, NEW g, SigReturn(t, why, n, g), val' = val
      PROVE  Others(t) /\ Ends(t, why)
  BY <1>1, <1>5 DEF SigReturn, Others, Ends, Inv, TypeOK
<1>6. ASSUME NEW a, SigLoaded(t, a), val' = val
      PROVE  Others(t) /\ (Goes(t) \/ Ends(t, "preconditions"))
  BY <1>1, <1>5, <1>6 DEF SigLoaded, Goto, Others, Goes, Inv, TypeOK
<1>7. CASE t \in Signallers /\ Signals(t)
  <2>1. Still /\ val' = val
    BY <1>7 DEF Signals, SigLoad, SigCasSets, SigCasFails, Still, queue
  <2>2. Others(t) /\ (Goes(t) \/ Ends(t, "ok") \/ Ends(t, "preconditions"))
    BY <1>5, <1>6, <1>7, <2>1 DEF Signals, SigLoad, SigCasSets, SigCasFails
  <2> QED BY <2>1, <2>2 DEF Effect, Aside
<1> QED BY <1>3, <1>4, <1>7 DEF Blocks

LEMMA StepEffect ==
  ASSUME Inv, Next
  PROVE  \E t \in Threads : Effect(t)
<1>1. MP \cup MC \cup Single \cup FP \cup Producers \cup Consumers
        \cup Blockers \cup Signallers \subseteq Threads
  BY DEF Threads, Single, Producers, Consumers
<1> QED BY <1>1, MultiEffect, SingleEffect, FifoEffect, OwnerEffect, AsideEffect
        DEF Next

(* An answer is one the thread was given by this step, or an old one.      *)
LEMMA StepAnswers ==
  ASSUME Inv, NEW t \in Threads, Effect(t)
  PROVE  \/ Goes(t) \/ Ends(t, "ok") \/ Ends(t, "preconditions")
         \/ pc[t] = "ahead" /\ GaveUp(t) /\ Ends(t, "locked")
         \/ /\ pc[t] \in {"check", "poll"} /\ Ends(t, Verdict(t))
            /\ t \in Producers \cup Consumers
            /\ Verdict(t) = "busy" => t \in Single \/ pc[t] = "poll"
<1>1. t \in MP \cup MC \cup Single \cup FP => t \in Producers \cup Consumers
  BY DEF Single, Producers, Consumers
<1>2. CASE Aside(t)
  BY <1>2 DEF Aside
<1>3. CASE Looked(t)
  BY <1>1, <1>3 DEF Looked
<1>4. CASE Waited(t) \/ Entered(t)
  BY <1>4 DEF Waited, Entered, Same, Goes
<1>5. CASE GaveUp(t)
  BY <1>1, <1>5 DEF GaveUp
<1>6. CASE Took(t) \/ Joined(t) \/ Used(t)
  BY <1>6 DEF Took, Joined, Used, Same, Goes
<1>7. CASE Committed(t) \/ Jumped(t)
  BY <1>7 DEF Committed, Jumped
<1> QED BY <1>2, <1>3, <1>4, <1>5, <1>6, <1>7 DEF Effect

(* The assertion of single mode (mpmc_b.c:164) holds, and multi mode gives *)
(* "busy" to nobody, in any queue whose push ticket has not wrapped.  At   *)
(* the wrap both fail: the difference at mpmc_b.c:89 is not sign extended. *)
THEOREM NeverBusy == Spec /\ []BelowWrap => []NoBusy
<1>1. Init => NoBusy
  BY DEF Init, NoBusy
<1>2. Inv /\ BelowWrap /\ NoBusy /\ [Next]_vars => NoBusy'
  <2> SUFFICES ASSUME Inv, BelowWrap, NoBusy, [Next]_vars, NEW u \in Threads
               PROVE  res'[u] # "busy"
    BY DEF NoBusy
  <2>1. CASE UNCHANGED vars
    BY <2>1 DEF vars, NoBusy
  <2>2. CASE Next
    <3>1. PICK t \in Threads : Effect(t)
      BY <2>2, StepEffect
    <3>2. CASE u # t
      BY <3>1, <3>2 DEF Effect, Others, NoBusy
    <3>3. CASE u = t
      <4>1. CASE Goes(t)
        BY <3>3, <4>1 DEF Goes, NoBusy
      <4>2. CASE pc[t] \in {"check", "poll"} /\ Ends(t, Verdict(t))
        <5>1. Verdict(t) = "busy" => t \in Single \/ pc[t] = "poll"
          BY <3>1, <4>2, StepAnswers DEF Goes, Ends
        <5> QED BY <3>3, <4>2, <5>1, NeverLate DEF Ends
      <4> QED BY <3>1, <3>3, <4>1, <4>2, StepAnswers DEF Ends
    <3> QED BY <3>2, <3>3
  <2> QED BY <2>1, <2>2
<1> QED BY <1>1, <1>2, Invariance, PTL DEF Spec

---------------------------------------------------------------------------
(* Nothing is forgotten: a ticket not consumed is ready or some producer's,*)
(* and a chunk not free is some consumer's.                                *)

(* No fifo producer waits while SlotCount later tickets are taken.  This   *)
(* is what bl_mpmc_b_fifo_produce_prepare_is_ready takes for granted when  *)
(* it reads a word that is SlotCount or more ahead as a block.             *)
NoneOvertaken ==
  \A p \in Producers :
    pc[p] \in {"poll", "ahead"} => tkt["push"] - now[p] < SlotCount

Outstanding ==
  \A k \in tkt["pop"]..(Lim - 1) :
    ver[Slot(k)] = k + 1 \/ \E p \in Producers : HasTicket(p) /\ now[p] = k

Reading ==
  \A k \in tkt["pop"]..(tkt["pop"] + SlotCount - 1) :
    ver[Slot(k)] = k - SlotCount + 1 =>
      \E c \in Consumers : Owns(c) /\ now[c] = k - SlotCount

(* A word a producer loaded is not one of those the jump left out.         *)
Jumpless(p) == now[p] <= Lim \/ (fence # None /\ now[p] >= fence + 2 * SlotCount)
BeforeJump ==
  \A p \in Producers : pc[p] \in {"check", "cas", "store"} => Jumpless(p)

Unread == \A c \in Consumers : pc[c] # "used" => val[c] = None

Accounted == Outstanding /\ Reading /\ BeforeJump /\ Unread

(* The words, as numbers.                                                  *)
LEMMA Words ==
  ASSUME Inv
  PROVE  /\ tkt["push"] \in Nat /\ tkt["pop"] \in Nat /\ Lim \in Nat
         /\ tkt["pop"] <= Lim /\ Lim <= tkt["push"] /\ fence \in Nat \cup {None}
         /\ fence = None => Lim = tkt["push"]
         /\ fence # None => /\ Lim = fence /\ fence \in Nat /\ flags
                            /\ tkt["push"] >= fence + 2 * SlotCount
BY Numbers DEF Inv, WordsOK, TypeOK, Lim

LEMMA HoldersStay ==
  ASSUME Inv, NEW t \in Threads, Effect(t)
  PROVE  /\ \A p \in Producers : HasTicket(p) =>
              \/ HasTicket(p)' /\ now'[p] = now[p]
              \/ p = t /\ (GaveUp(t) \/ Committed(t))
         /\ \A c \in Consumers : Owns(c) =>
              \/ Owns(c)' /\ now'[c] = now[c]
              \/ c = t /\ Committed(t)
<1>1. ASSUME NEW u \in Threads \ {t}
      PROVE  pc'[u] = pc[u] /\ now'[u] = now[u]
  BY DEF Effect, Others
<1>2. ASSUME t \in Producers, HasTicket(t)
      PROVE  (HasTicket(t)' /\ now'[t] = now[t]) \/ GaveUp(t) \/ Committed(t)
  BY <1>2, Classes DEF Effect, HasTicket, Aside, Looked, Waited, Entered, Took,
        Joined, Used, Jumped, Same
<1>3. ASSUME t \in Consumers, Owns(t)
      PROVE  (Owns(t)' /\ now'[t] = now[t]) \/ Committed(t)
  BY <1>3, Classes DEF Effect, Owns, Aside, Looked, Waited, Entered, Took, GaveUp,
        Joined, Used, Jumped, Same
<1>4. ASSUME NEW p \in Producers, HasTicket(p)
      PROVE  \/ HasTicket(p)' /\ now'[p] = now[p]
             \/ p = t /\ (GaveUp(t) \/ Committed(t))
  BY <1>1, <1>2, <1>4 DEF HasTicket, Threads
<1>5. ASSUME NEW c \in Consumers, Owns(c)
      PROVE  (Owns(c)' /\ now'[c] = now[c]) \/ (c = t /\ Committed(t))
  BY <1>1, <1>3, <1>5 DEF Owns, Threads
<1> QED BY <1>4, <1>5

LEMMA WordsMove ==
  ASSUME Inv, NEW t \in Threads, Effect(t)
  PROVE  /\ \/ tkt'["pop"] = tkt["pop"]
            \/ /\ t \in Consumers /\ Took(t)
               /\ tkt'["pop"] = tkt["pop"] + 1 /\ now'[t] = tkt["pop"]
         /\ \/ Lim' = Lim
            \/ /\ t \in Producers /\ fence = None /\ fence' = None
               /\ Lim' = Lim + 1 /\ HasTicket(t)' /\ now'[t] = Lim
               /\ Took(t) \/ Joined(t)
         /\ ver' = ver \/ Committed(t)
<1> USE DEF Lim
<1>1. /\ tkt \in [Sides -> Nat] /\ "push" \in Sides /\ "pop" \in Sides
      /\ t \in Consumers => t \notin Producers
  BY Classes DEF Inv, TypeOK, Sides
<1>2. CASE UNCHANGED <<tkt, fence>> /\ (ver' = ver \/ Committed(t))
  BY <1>2
<1>3. CASE Took(t)
  <2>1. CASE t \in Producers
    <3>1. fence = None /\ now[t] = tkt["push"]
      BY <1>3, <2>1 DEF Took, Side, Inv, ThreadsOK, CheckOK
    <3>2. tkt' = [tkt EXCEPT !["push"] = @ + 1] /\ fence' = fence
          /\ ver' = ver /\ pc'[t] = "own" /\ now'[t] = now[t]
      BY <1>3, <2>1 DEF Took, Side, Same
    <3> QED BY <1>1, <1>3, <2>1, <3>1, <3>2 DEF HasTicket
  <2>2. CASE t \notin Producers
    <3>1. t \in Consumers
      BY <1>3, <2>2 DEF Took, Single, Producers, Consumers
    <3>2. /\ tkt' = [tkt EXCEPT !["pop"] = @ + 1] /\ fence' = fence
          /\ now[t] = tkt["pop"] /\ now'[t] = now[t] /\ ver' = ver
      BY <1>3, <2>2 DEF Took, Side, Same
    <3> QED BY <1>1, <1>3, <3>1, <3>2
  <2> QED BY <2>1, <2>2
<1>4. CASE Joined(t)
  <2>1. /\ t \in Producers /\ tkt' = [tkt EXCEPT !["push"] = @ + 1]
        /\ fence' = fence /\ ver' = ver /\ pc'[t] = "poll" /\ now'[t] = tkt["push"]
    BY <1>4 DEF Joined, Producers
  <2> QED BY <1>1, <1>4, <2>1 DEF HasTicket
<1>5. CASE Jumped(t)
  <2>1. /\ fence = None /\ fence' = tkt["push"] /\ ver' = ver
        /\ tkt' = [tkt EXCEPT !["push"] = @ + 2 * SlotCount]
    BY <1>5 DEF Jumped
  <2>2. fence' # None
    BY <1>1, <2>1 DEF None
  <2> QED BY <1>1, <2>1, <2>2
<1> QED BY <1>2, <1>3, <1>4, <1>5
      DEF Effect, Aside, Looked, Waited, Entered, GaveUp, Used, Committed, Still

(* Producers are less than two laps ahead of consumers until the jump.     *)
LEMMA LessThanTwoLaps ==
  ASSUME Inv, Outstanding, NoneOvertaken, fence = None
  PROVE  tkt["push"] < tkt["pop"] + 2 * SlotCount
<1> DEFINE k == tkt["pop"] + SlotCount
<1>1. /\ tkt["pop"] \in Nat /\ tkt["push"] \in Nat /\ Lim = tkt["push"]
      /\ k \in Nat
  BY Words, Sizes
<1>2. SUFFICES ASSUME tkt["push"] >= tkt["pop"] + 2 * SlotCount PROVE FALSE
  BY <1>1, Sizes
<1>3. k \in tkt["pop"]..(Lim - 1)
  BY <1>1, <1>2, Sizes
<1>4. ver[Slot(k)] < k
  <2>1. tkt["pop"] \in tkt["pop"]..(tkt["pop"] + SlotCount - 1)
    BY <1>1, Sizes
  <2>2. ver[Slot(tkt["pop"])] \in {tkt["pop"] - SlotCount + 1, tkt["pop"], tkt["pop"] + 1}
    BY <2>1 DEF Inv, VersionsOK
  <2>3. Slot(k) = Slot(tkt["pop"])
    BY <1>1, SlotLap
  <2> QED BY <1>1, <2>2, <2>3, Sizes
<1>5. PICK p \in Producers : HasTicket(p) /\ now[p] = k
  BY <1>1, <1>3, <1>4 DEF Outstanding
<1>6. ~Owns(p)
  BY <1>1, <1>4, <1>5 DEF Inv, ThreadsOK, ProducerOK
<1>7. tkt["push"] - k < SlotCount
  BY <1>5, <1>6 DEF NoneOvertaken, HasTicket, Owns
<1> QED BY <1>1, <1>2, <1>7, Sizes

(* Only a ticket that the jump left two laps behind is taken for a block.  *)
LEMMA LockedLate ==
  ASSUME Inv, BelowWrap, Outstanding, NoneOvertaken,
         NEW t \in Producers \cup Consumers,
         pc[t] \in {"check", "poll"}, Verdict(t) = "locked"
  PROVE  t \in Producers /\ fence # None
<1> DEFINE n == now[t]
           v == ver[Slot(n)]
<1>1. t \in Threads /\ PlaceOK(t) /\ LoopOK(t)
  BY DEF Threads, Inv, ThreadsOK
<1>2. /\ n \in Nat /\ v \in Nat /\ Offset(t) \in 0..1
      /\ v <= n + Offset(t) - 2 * SlotCount
  <2> DEFINE e == now[t] + Offset(t)
  <2>1. e = n + Offset(t)
    OBVIOUS
  <2> HIDE DEF e
  <2>2. n \in Nat /\ v \in Nat /\ v <= e - 2 * SlotCount
    BY <2>1, VerdictBelow
  <2>3. Offset(t) \in 0..1
    BY DEF Offset
  <2> QED BY <2>1, <2>2, <2>3, Sizes
<1>3. PICK j \in tkt["pop"]..(tkt["pop"] + SlotCount - 1) :
        Slot(n) = Slot(j) /\ v \in {j - SlotCount + 1, j, j + 1}
  BY <1>2, SlotTicket
<1>4. /\ tkt["pop"] \in Nat /\ tkt["push"] \in Nat /\ j \in Int
      /\ tkt["pop"] <= tkt["push"]
  BY <1>3, Words
<1> HIDE DEF n, v
<1>5. v >= tkt["pop"] - SlotCount + 1
  BY <1>3, <1>4, Sizes
<1>6. CASE t \notin Producers
  <2>1. n <= tkt["pop"]
    BY <1>1, <1>6, Classes DEF n, LoopOK, PlaceOK, Side, Producers
  <2> QED BY <1>2, <1>4, <1>5, <2>1, Sizes
<1>7. CASE t \in Producers
  <2>1. n <= tkt["push"]
    <3>1. CASE pc[t] = "check"
      BY <1>1, <1>7, <3>1 DEF n, LoopOK, Side
    <3>2. CASE pc[t] = "poll"
      <4>1. HasTicket(t)
        BY <1>7, <3>2 DEF HasTicket
      <4>2. n < tkt["push"]
        BY <1>7, <4>1 DEF n, Inv, ThreadsOK, ProducerOK
      <4> QED BY <1>2, <1>4, <4>2
    <3> QED BY <3>1, <3>2
  <2>2. v <= n - 2 * SlotCount
    BY <1>2, <1>7, Sizes DEF Offset
  <2>3. n >= j + SlotCount + 1
    BY <1>2, <1>3, <1>4, <2>2, Sizes
  <2>4. n >= j + 2 * SlotCount
    BY <1>2, <1>3, <1>4, <2>3, LapsApart, Sizes
  <2>5. tkt["push"] >= tkt["pop"] + 2 * SlotCount
    BY <1>2, <1>3, <1>4, <2>1, <2>4, Sizes
  <2>6. fence # None
    BY <1>4, <2>5, LessThanTwoLaps, Sizes
  <2> QED BY <1>7, <2>6
<1> QED BY <1>6, <1>7

(* A fifo producer is told to fall back only after the jump, with a ticket *)
(* of those the jump left out.                                             *)
LEMMA GivesUpLate ==
  ASSUME Inv, BelowWrap, Outstanding, NoneOvertaken, NEW t \in Threads, GaveUp(t)
  PROVE  /\ Ends(t, "locked") /\ t \in Producers /\ HasTicket(t)
         /\ fence # None /\ now[t] >= fence + 2 * SlotCount
<1>1. t \in FP /\ t \in Producers /\ HasTicket(t) /\ PlaceOK(t) /\ now[t] \in Nat
  BY DEF GaveUp, Producers, HasTicket, Inv, ThreadsOK, PlaceOK
<1>2. /\ now[t] < tkt["push"] /\ tkt["push"] - now[t] < SlotCount
      /\ now[t] < Lim \/ fence + 2 * SlotCount <= now[t]
  BY <1>1 DEF GaveUp, NoneOvertaken, Inv, ThreadsOK, ProducerOK
<1>3. pc[t] # "ahead"
  <2>1. tkt["push"] \in Nat /\ tkt["push"] < TicketMod /\ now[t] < TicketMod
    BY <1>1, <1>2, Words, Sizes DEF BelowWrap
  <2>2. Tk(tkt["push"]) = tkt["push"] /\ Tk(now[t]) = now[t]
    BY <1>1, <2>1, TicketBelow
  <2>3. tkt["push"] - now[t] \in 0..(SlotCount - 1)
    BY <1>1, <1>2, <2>1, Sizes
  <2> QED BY <2>2, <2>3 DEF GaveUp
<1>4. pc[t] = "poll" /\ Verdict(t) \notin {"ok", "would_overflow"} /\ Ends(t, Verdict(t))
  BY <1>3 DEF GaveUp
<1>5. Verdict(t) = "locked"
  <2>1. Verdict(t) # "busy"
    BY <1>4, NeverLate
  <2>2. Verdict(t) \in {"ok", "busy", "locked", "would_overflow"}
    BY <1>1, VerdictType DEF NoData
  <2> QED BY <1>4, <2>1, <2>2
<1>6. fence # None
  BY <1>1, <1>4, <1>5, LockedLate
<1>7. now[t] >= fence + 2 * SlotCount
  BY <1>1, <1>2, <1>6, Words, Sizes
<1> QED BY <1>1, <1>4, <1>5, <1>6, <1>7

LEMMA InitAccounted == Init => Accounted
<1> SUFFICES ASSUME Init PROVE Accounted
  OBVIOUS
<1>1. Lim = 0 /\ tkt["pop"] = 0 /\ \A i \in 0..(SlotCount - 1) : ver[i] = i
  BY Sizes DEF Init, Lim, Sides, None
<1>2. Outstanding
  BY <1>1 DEF Outstanding
<1>3. Reading
  <2> SUFFICES ASSUME NEW k \in 0..(SlotCount - 1)
               PROVE  ver[Slot(k)] # k - SlotCount + 1
    BY <1>1, Sizes DEF Reading
  <2> QED BY <1>1, FirstLap, Sizes
<1>4. BeforeJump /\ Unread
  BY DEF Init, BeforeJump, Unread, Threads
<1> QED BY <1>2, <1>3, <1>4 DEF Accounted

(* Whose chunk a committing thread releases.                               *)
LEMMA ProducerCommits ==
  ASSUME Inv, NEW t \in Producers, Committed(t)
  PROVE  /\ HasTicket(t) /\ Owns(t) /\ now[t] \in Nat
         /\ ver[Slot(now[t])] = now[t] /\ tkt["pop"] <= now[t] /\ now[t] < Lim
         /\ ver'[Slot(now[t])] = now[t] + 1
<1>1. t \in Threads /\ PlaceOK(t) /\ pc[t] = "used"
  BY DEF Committed, Threads, Inv, ThreadsOK
<1>2. HasTicket(t) /\ Owns(t) /\ now[t] \in Nat
  BY <1>1 DEF HasTicket, Owns, PlaceOK
<1>3. ProducerOK(t)
  BY <1>2 DEF Inv, ThreadsOK
<1>4. ver \in [0..(SlotCount - 1) -> Nat]
  BY DEF Inv, TypeOK
<1>6. Slot(now[t]) \in 0..(SlotCount - 1)
  <2>1. now[t] \in Int
    BY <1>2
  <2> QED BY <2>1, SlotRange
<1>5. ver' = [ver EXCEPT ![Slot(now[t])] = now[t] + 1]
  BY DEF Committed
<1>7. ver'[Slot(now[t])] = now[t] + 1
  BY <1>4, <1>5, <1>6
<1> QED BY <1>2, <1>3, <1>7 DEF ProducerOK

LEMMA ConsumerCommits ==
  ASSUME Inv, NEW t \in Consumers, Committed(t)
  PROVE  /\ Owns(t) /\ now[t] \in Nat
         /\ ver[Slot(now[t])] = now[t] + 1 /\ now[t] < tkt["pop"]
         /\ ver'[Slot(now[t])] = now[t] + SlotCount
<1>1. t \in Threads /\ PlaceOK(t) /\ pc[t] = "used" /\ t \notin Producers
  BY Classes DEF Committed, Threads, Inv, ThreadsOK
<1>2. Owns(t) /\ now[t] \in Nat
  BY <1>1 DEF Owns, PlaceOK
<1>3. ConsumerOK(t)
  BY <1>2 DEF Inv, ThreadsOK
<1>4. ver \in [0..(SlotCount - 1) -> Nat]
  BY DEF Inv, TypeOK
<1>6. Slot(now[t]) \in 0..(SlotCount - 1)
  <2>1. now[t] \in Int
    BY <1>2
  <2> QED BY <2>1, SlotRange
<1>5. ver' = [ver EXCEPT ![Slot(now[t])] = now[t] + SlotCount]
  BY <1>1 DEF Committed
<1>7. ver'[Slot(now[t])] = now[t] + SlotCount
  BY <1>4, <1>5, <1>6
<1> QED BY <1>2, <1>3, <1>7 DEF ConsumerOK

LEMMA CommittedElsewhere ==
  ASSUME Inv, NEW t \in Threads, Committed(t), NEW k \in Int,
         Slot(k) # Slot(now[t])
  PROVE  ver'[Slot(k)] = ver[Slot(k)]
<1>1. Slot(k) \in 0..(SlotCount - 1)
  BY SlotRange
<1>2. \E v : ver' = [ver EXCEPT ![Slot(now[t])] = v]
  BY DEF Committed
<1>3. ver \in [0..(SlotCount - 1) -> Nat]
  BY DEF Inv, TypeOK
<1> QED BY <1>1, <1>2, <1>3

LEMMA OutstandingStep ==
  ASSUME Inv, BelowWrap, Outstanding, NoneOvertaken, NEW t \in Threads, Effect(t)
  PROVE  Outstanding'
<1>1. /\ tkt["push"] \in Nat /\ tkt["pop"] \in Nat /\ Lim \in Nat
      /\ tkt["pop"] <= Lim
  BY Words
<1>2. SUFFICES ASSUME NEW k \in tkt'["pop"]..(Lim' - 1)
               PROVE  \/ ver'[Slot(k)] = k + 1
                      \/ \E p \in Producers : HasTicket(p)' /\ now'[p] = k
  BY DEF Outstanding
<1>3. CASE k \in tkt["pop"]..(Lim - 1)
  <2>1. CASE ver[Slot(k)] = k + 1
    <3>1. CASE ver' = ver
      BY <2>1, <3>1
    <3>2. CASE Committed(t)
      <4>1. CASE Slot(k) # Slot(now[t])
        BY <1>1, <1>3, <2>1, <3>2, <4>1, CommittedElsewhere
      <4>2. CASE Slot(k) = Slot(now[t]) /\ t \in Producers
        <5>1. ver[Slot(now[t])] = now[t] /\ now[t] \in Nat
          BY <3>2, <4>2, ProducerCommits
        <5>2. now[t] = k + 1
          BY <2>1, <4>2, <5>1
        <5> QED BY <4>2, <5>2, SlotNext
      <4>3. CASE Slot(k) = Slot(now[t]) /\ t \notin Producers
        <5>1. t \in Consumers
          BY <3>2, <4>3 DEF Committed
        <5>2. ver[Slot(now[t])] = now[t] + 1 /\ now[t] \in Nat /\ now[t] < tkt["pop"]
          BY <3>2, <5>1, ConsumerCommits
        <5> QED BY <1>1, <1>3, <2>1, <4>3, <5>2
      <4> QED BY <4>1, <4>2, <4>3
    <3> QED BY <3>1, <3>2, WordsMove
  <2>2. ASSUME NEW p \in Producers, HasTicket(p), now[p] = k
        PROVE  \/ ver'[Slot(k)] = k + 1
               \/ HasTicket(p)' /\ now'[p] = k
    <3>1. CASE HasTicket(p)' /\ now'[p] = now[p]
      BY <2>2, <3>1
    <3>2. CASE p = t /\ GaveUp(t)
      <4>1. fence # None /\ now[t] >= fence + 2 * SlotCount
        BY <3>2, GivesUpLate
      <4>2. Lim = fence /\ fence \in Nat
        BY <4>1, Words
      <4>3. now[t] < Lim /\ now[t] \in Nat
        BY <1>1, <1>3, <2>2, <3>2
      <4>4. FALSE
        BY ONLY <4>1, <4>2, <4>3, Sizes
      <4> QED BY <4>4
    <3>3. CASE p = t /\ Committed(t)
      BY <2>2, <3>3, ProducerCommits
    <3> QED BY <2>2, <3>1, <3>2, <3>3, HoldersStay
  <2> QED BY <1>3, <2>1, <2>2 DEF Outstanding
<1>4. CASE k \notin tkt["pop"]..(Lim - 1)
  <2>1. /\ t \in Producers /\ Lim' = Lim + 1
        /\ HasTicket(t)' /\ now'[t] = Lim
    BY <1>1, <1>2, <1>4, WordsMove
  <2>2. k = Lim
    <3>1. tkt'["pop"] >= tkt["pop"] /\ tkt'["pop"] \in Nat
      BY <1>1, WordsMove
    <3> QED BY <1>1, <1>2, <1>4, <2>1, <3>1
  <2> QED BY <2>1, <2>2
<1> QED BY <1>3, <1>4

LEMMA ReadingStep ==
  ASSUME Inv, Reading, NEW t \in Threads, Effect(t)
  PROVE  Reading'
<1>1. tkt["pop"] \in Nat
  BY Words
<1>2. SUFFICES ASSUME NEW k \in tkt'["pop"]..(tkt'["pop"] + SlotCount - 1),
                      ver'[Slot(k)] = k - SlotCount + 1
               PROVE  \E c \in Consumers : Owns(c)' /\ now'[c] = k - SlotCount
  BY DEF Reading
<1>3. CASE k \in tkt["pop"]..(tkt["pop"] + SlotCount - 1)
  <2>1. ver[Slot(k)] = k - SlotCount + 1 /\ (Committed(t) => Slot(k) # Slot(now[t]))
    <3>1. CASE ~Committed(t)
      <4>1. ver' = ver
        BY <3>1, WordsMove
      <4> QED BY <1>2, <3>1, <4>1
    <3>2. CASE Committed(t) /\ Slot(k) # Slot(now[t])
      <4>1. k \in Int
        BY <1>1, <1>3
      <4>2. ver'[Slot(k)] = ver[Slot(k)]
        BY <3>2, <4>1, CommittedElsewhere
      <4> QED BY <1>2, <3>2, <4>2
    <3>3. CASE Committed(t) /\ Slot(k) = Slot(now[t]) /\ t \in Producers
      <4>1. ver'[Slot(k)] = now[t] + 1 /\ tkt["pop"] <= now[t] /\ now[t] \in Nat
        BY <3>3, ProducerCommits
      <4> QED BY <1>1, <1>2, <1>3, <4>1, Sizes
    <3>4. CASE Committed(t) /\ Slot(k) = Slot(now[t]) /\ t \notin Producers
      <4>1. ver'[Slot(k)] = now[t] + SlotCount /\ now[t] \in Nat
        <5>1. t \in Consumers
          BY <3>4 DEF Committed
        <5> QED BY <3>4, <5>1, ConsumerCommits
      <4>2. k - SlotCount = (now[t] - 1) + SlotCount
        BY <1>1, <1>2, <1>3, <4>1, Sizes
      <4>3. /\ Slot(k - SlotCount) = Slot(k)
            /\ Slot((now[t] - 1) + SlotCount) = Slot(now[t] - 1)
            /\ Slot((now[t] - 1) + 1) # Slot(now[t] - 1)
        BY <1>1, <1>3, <4>1, SlotLap, SlotNext, Sizes
      <4>4. (now[t] - 1) + 1 = now[t]
        BY <4>1
      <4> QED BY <3>4, <4>2, <4>3, <4>4
    <3> QED BY <3>1, <3>2, <3>3, <3>4
  <2>2. PICK c \in Consumers : Owns(c) /\ now[c] = k - SlotCount
    BY <1>3, <2>1 DEF Reading
  <2>3. ~(c = t /\ Committed(t))
    <3>1. Slot(k - SlotCount) = Slot(k)
      BY <1>1, <1>3, SlotLap, Sizes
    <3> QED BY <2>1, <2>2, <3>1
  <2> QED BY <2>2, <2>3, HoldersStay
<1>4. CASE k \notin tkt["pop"]..(tkt["pop"] + SlotCount - 1)
  <2>1. /\ t \in Consumers /\ Took(t) /\ now'[t] = tkt["pop"]
        /\ tkt'["pop"] = tkt["pop"] + 1
    BY <1>2, <1>4, WordsMove
  <2>2. k = tkt["pop"] + SlotCount
    BY <1>1, <1>2, <1>4, <2>1, Sizes
  <2> QED BY <1>1, <2>1, <2>2, Sizes DEF Took, Owns
<1> QED BY <1>3, <1>4

LEMMA BeforeJumpStep ==
  ASSUME Inv, BeforeJump, NEW t \in Threads, Effect(t)
  PROVE  BeforeJump'
<1>1. /\ tkt["push"] \in Nat /\ Lim \in Nat
      /\ fence = None => Lim = tkt["push"]
      /\ fence # None => Lim = fence /\ tkt["push"] >= fence + 2 * SlotCount
  BY Words
<1>2. SUFFICES ASSUME NEW p \in Producers, pc'[p] \in {"check", "cas", "store"}
               PROVE  Jumpless(p)'
  BY DEF BeforeJump
<1>3. p \in Threads /\ p \notin Blockers /\ p \notin Signallers
  BY Classes DEF Threads
<1>4. ASSUME now'[p] = now[p], Jumpless(p)
      PROVE  Jumpless(p)'
  <2>1. now[p] <= Lim => now[p] <= Lim'
    <3>1. CASE now[p] \in Nat
      BY <1>1, <3>1, WordsMove
    <3>2. CASE now[p] = None
      BY <1>1, <3>2, WordsMove DEF None
    <3> QED BY <1>3, <3>1, <3>2 DEF Inv, TypeOK
  <2>2. fence # None => fence' = fence
    BY <1>3 DEF Effect, Aside, Looked, Waited, Entered, GaveUp, Took, Joined, Used,
       Committed, Jumped, Still
  <2> QED BY <1>4, <2>1, <2>2 DEF Jumpless
<1>5. CASE p # t
  BY <1>2, <1>3, <1>4, <1>5 DEF Effect, Others, BeforeJump
<1>6. CASE p = t
  <2>1. Looked(t)
    BY <1>2, <1>3, <1>6 DEF Effect, Aside, Waited, Entered, GaveUp, Took, Joined,
       Used, Committed, Jumped, Ends
  <2>2. CASE pc[t] = "check" /\ now'[t] = now[t]
    BY <1>4, <1>6, <2>2 DEF BeforeJump
  <2>3. CASE now'[t] = tkt["push"]
    <3>1. Lim' = Lim /\ fence' = fence
      BY <2>1 DEF Looked, Still, Lim
    <3> QED BY <1>1, <1>6, <2>3, <3>1 DEF Jumpless
  <2> QED BY <1>2, <1>6, <2>1, <2>2, <2>3 DEF Looked, Side
<1> QED BY <1>5, <1>6

LEMMA UnreadStep ==
  ASSUME Inv, Unread, NEW t \in Threads, Effect(t)
  PROVE  Unread'
<1>1. SUFFICES ASSUME NEW c \in Consumers, pc'[c] # "used" PROVE val'[c] = None
  BY DEF Unread
<1>2. c \in Threads /\ c \notin Blockers /\ c \notin Signallers /\ c \notin Producers
  BY Classes DEF Threads
<1>3. CASE c # t
  BY <1>1, <1>2, <1>3 DEF Effect, Others, Unread
<1>4. CASE c = t
  BY <1>1, <1>2, <1>4 DEF Effect, Unread, Aside, Looked, Waited, Entered, GaveUp,
     Took, Joined, Used, Committed, Jumped, Same, Producers
<1> QED BY <1>3, <1>4

LEMMA AccountedStep ==
  Inv /\ BelowWrap /\ NoneOvertaken /\ Accounted /\ [Next]_vars => Accounted'
<1> SUFFICES ASSUME Inv, BelowWrap, NoneOvertaken, Accounted, [Next]_vars
             PROVE  Accounted'
  OBVIOUS
<1>1. CASE UNCHANGED vars
  BY <1>1 DEF vars, Accounted, Outstanding, Reading, BeforeJump, Jumpless, Unread,
     Lim, HasTicket, Owns
<1>2. CASE Next
  <2>1. PICK t \in Threads : Effect(t)
    BY <1>2, StepEffect
  <2>2. Outstanding'
    BY <2>1, OutstandingStep DEF Accounted
  <2>3. Reading'
    BY <2>1, ReadingStep DEF Accounted
  <2>4. BeforeJump'
    BY <2>1, BeforeJumpStep DEF Accounted
  <2>5. Unread'
    BY <2>1, UnreadStep DEF Accounted
  <2> QED BY <2>2, <2>3, <2>4, <2>5 DEF Accounted
<1> QED BY <1>1, <1>2

(* What is not consumed and what is not free is accounted for.             *)
THEOREM NothingForgotten ==
  Spec /\ []BelowWrap /\ []NoneOvertaken => []Accounted
BY InitAccounted, AccountedStep, Invariance, PTL DEF Spec

(* "locked" is the answer of a blocked queue only, as mpmc_b.h:241 says,   *)
(* as long as no fifo producer is overtaken.  When one is, the answer is   *)
(* wrong: run mpmc_locked.                                                 *)
THEOREM WhyLocked ==
  Spec /\ []BelowWrap /\ []NoneOvertaken => LockedIsTrue
<1> DEFINE Step == \A t \in Threads : Fails(t, "locked") => flags
<1>1. Inv /\ BelowWrap /\ NoneOvertaken /\ Accounted /\ [Next]_vars => [Step]_vars
  <2> SUFFICES ASSUME Inv, BelowWrap, NoneOvertaken, Accounted, Next,
                      NEW t \in Threads, Fails(t, "locked")
               PROVE  flags
    BY DEF vars
  <2>1. PICK u \in Threads : Effect(u)
    BY StepEffect
  <2>2. t = u
    BY <2>1 DEF Effect, Others, Fails
  <2>3. fence # None
    <3>1. CASE GaveUp(t)
      BY <3>1, GivesUpLate DEF Accounted
    <3>2. CASE /\ pc[t] \in {"check", "poll"} /\ Ends(t, Verdict(t))
               /\ t \in Producers \cup Consumers
      BY <3>2, LockedLate DEF Accounted, Fails, Ends
    <3> QED BY <2>1, <2>2, <3>1, <3>2, StepAnswers DEF Goes, Ends, Fails
  <2> QED BY <2>3, Words
<1>2. Spec /\ []BelowWrap /\ []NoneOvertaken => [][Step]_vars
  BY <1>1, NothingForgotten, Invariance, PTL DEF Spec
<1> QED BY <1>2 DEF LockedIsTrue

---------------------------------------------------------------------------
(* The reasons given are true.                                             *)

(* The next chunk producers need has not been released.                    *)
Overflowing == \/ tkt["pop"] <= Lim - SlotCount
               \/ \E c \in Consumers : Owns(c) /\ now[c] = Lim - SlotCount

(* The next chunk consumers need has not been committed.                   *)
Emptied == \/ tkt["pop"] = Lim
           \/ \E p \in Producers : HasTicket(p) /\ now[p] = tkt["pop"]

(* Multi mode producers and fifo producers do not share the queue.         *)
Unmixed == MP = {} \/ FP = {}

(* A ticket of multi mode was taken with its chunk.                        *)
LEMMA TakenWithChunk ==
  ASSUME Inv, Outstanding, FP = {}, NEW k \in tkt["pop"]..(Lim - 1)
  PROVE  ver[Slot(k)] \in {k, k + 1}
<1>1. CASE ver[Slot(k)] = k + 1
  BY <1>1
<1>2. ASSUME NEW p \in Producers, HasTicket(p), now[p] = k
      PROVE  ver[Slot(k)] = k
  <2>1. PlaceOK(p) /\ ProducerOK(p)
    BY <1>2 DEF Inv, ThreadsOK, Threads
  <2>2. Owns(p)
    BY <1>2, <2>1 DEF HasTicket, PlaceOK, Owns
  <2> QED BY <1>2, <2>1, <2>2 DEF ProducerOK
<1> QED BY <1>1, <1>2 DEF Outstanding

LEMMA Overflows ==
  ASSUME Inv, BelowWrap, Accounted, Unmixed,
         NEW t \in Producers, pc[t] = "check", Verdict(t) = "would_overflow"
  PROVE  Overflowing
<1> DEFINE n == now[t]
           v == ver[Slot(n)]
<1>1. t \in Threads /\ PlaceOK(t) /\ LoopOK(t) /\ t \in MP \cup Single
  BY Classes DEF Threads, Inv, ThreadsOK, PlaceOK, Consumers, Producers
<1>2. n \in Nat /\ v \in Nat /\ v < n /\ v > n - 2 * SlotCount
  <2> DEFINE e == now[t] + Offset(t)
  <2>1. e = n /\ n \in Nat
    BY <1>1 DEF Offset, PlaceOK
  <2>2. NoData(t) = "would_overflow"
    BY DEF NoData
  <2> HIDE DEF e
  <2>3. v \in Nat /\ v < e /\ v > e - 2 * SlotCount
    BY <2>1, <2>2, VerdictBelow DEF e
  <2> QED BY <2>1, <2>3
<1>3. PICK j \in tkt["pop"]..(tkt["pop"] + SlotCount - 1) :
        /\ Slot(n) = Slot(j) /\ v \in {j - SlotCount + 1, j, j + 1}
        /\ v = j + 1 => j < Lim
  BY <1>2, SlotTicket
<1>4. /\ tkt["pop"] \in Nat /\ tkt["push"] \in Nat /\ Lim \in Nat /\ j \in Int
      /\ tkt["pop"] <= Lim /\ Lim <= tkt["push"]
  BY <1>3, Words
<1>5. n = j \/ n = j + SlotCount \/ j = n + SlotCount
      \/ n >= j + 2 * SlotCount \/ j >= n + 2 * SlotCount
  BY <1>2, <1>3, <1>4, LapsApart
<1>6. Jumpless(t)
  BY DEF Accounted, BeforeJump
<1>7. Lim \in Int /\ n = j => n = tkt["push"] \/ FP = {}
  <2>1. CASE t \in Single
    BY <1>1, <2>1 DEF n, LoopOK, Side
  <2>2. CASE t \in MP
    BY <2>2 DEF Unmixed
  <2> QED BY <1>1, <2>1, <2>2
<1>8. CASE n <= Lim
  <2>1. CASE n = j
    <3>1. v = n - SlotCount + 1 /\ v # n /\ v # n + 1
      BY <1>2, <1>3, <1>4, <2>1, Sizes
    <3>2. n = Lim
      <4>1. CASE n = tkt["push"]
        BY <1>2, <1>4, <1>8, <4>1
      <4>2. CASE FP = {} /\ n # Lim
        <5>1. n \in tkt["pop"]..(Lim - 1)
          BY <1>2, <1>3, <1>4, <1>8, <2>1, <4>2
        <5> QED BY <3>1, <4>2, <5>1, TakenWithChunk DEF Accounted
      <4> QED BY <1>4, <1>7, <2>1, <4>1, <4>2
    <3>3. \E c \in Consumers : Owns(c) /\ now[c] = n - SlotCount
      BY <1>3, <2>1, <3>1 DEF Accounted, Reading
    <3> QED BY <3>2, <3>3 DEF Overflowing
  <2>2. CASE n >= j + SlotCount
    BY <1>2, <1>3, <1>4, <1>8, <2>2, Sizes DEF Overflowing
  <2>3. CASE j >= n + SlotCount
    <3>1. v >= n + 1
      BY <1>2, <1>3, <1>4, <2>3, Sizes
    <3> QED BY <1>2, <3>1
  <2> QED BY <1>2, <1>4, <1>5, <2>1, <2>2, <2>3, Sizes
<1>9. CASE fence # None /\ n >= fence + 2 * SlotCount
  <2>1. Lim = fence
    BY <1>9, Words
  <2> HIDE DEF n, v
  <2>2. v > Lim /\ n >= Lim + 2 * SlotCount
    BY <1>2, <1>4, <1>9, <2>1, Sizes
  <2>3. v = j
    BY <1>2, <1>3, <1>4, <2>2, Sizes
  <2>4. n = j + SlotCount
    BY <1>2, <1>4, <1>5, <2>3, Sizes
  <2> QED BY <1>2, <1>3, <1>4, <2>2, <2>4, Sizes
<1> QED BY <1>6, <1>8, <1>9 DEF Jumpless

LEMMA Empties ==
  ASSUME Inv, BelowWrap, Accounted,
         NEW t \in Consumers, pc[t] = "check", Verdict(t) = "empty"
  PROVE  Emptied /\ (tkt["pop"] < Lim => ver[Slot(tkt["pop"])] # tkt["pop"] + 1)
<1> DEFINE n == now[t]
           v == ver[Slot(n)]
<1>1. t \in Threads /\ PlaceOK(t) /\ LoopOK(t) /\ t \notin Producers
  BY Classes DEF Threads, Inv, ThreadsOK
<1>2. n \in Nat /\ v \in Nat /\ v < n + 1 /\ n <= tkt["pop"]
  <2> DEFINE e == now[t] + Offset(t)
  <2>1. e = n + 1 /\ n \in Nat /\ n <= tkt["pop"]
    BY <1>1 DEF Offset, PlaceOK, LoopOK, Side
  <2>2. NoData(t) = "empty"
    BY <1>1 DEF NoData
  <2> HIDE DEF e
  <2>3. v \in Nat /\ v < e
    BY <2>1, <2>2, VerdictBelow DEF e
  <2> QED BY <2>1, <2>3
<1>3. PICK j \in tkt["pop"]..(tkt["pop"] + SlotCount - 1) :
        Slot(n) = Slot(j) /\ v \in {j - SlotCount + 1, j, j + 1}
  BY <1>2, SlotTicket
<1>4. tkt["pop"] \in Nat /\ Lim \in Nat /\ j \in Int /\ tkt["pop"] <= Lim
  BY <1>3, Words
<1>5. n = j \/ n = j + SlotCount \/ j = n + SlotCount
      \/ n >= j + 2 * SlotCount \/ j >= n + 2 * SlotCount
  BY <1>2, <1>3, <1>4, LapsApart
<1>6. n = tkt["pop"]
  <2>1. j >= n + SlotCount => v >= n + 1
    BY <1>2, <1>3, <1>4, Sizes
  <2>2. n = j
    BY <1>2, <1>3, <1>4, <1>5, <2>1, Sizes
  <2> QED BY <1>2, <1>3, <1>4, <2>2
<1>7. ver[Slot(tkt["pop"])] # tkt["pop"] + 1
  BY <1>2, <1>6
<1>8. CASE tkt["pop"] < Lim
  <2>1. tkt["pop"] \in tkt["pop"]..(Lim - 1)
    BY <1>4, <1>8
  <2> QED BY <1>7, <2>1 DEF Accounted, Outstanding, Emptied
<1> QED BY <1>4, <1>7, <1>8 DEF Emptied

(* "would_overflow" and "empty" are true when they are given, although the *)
(* word looked at may be old, as long as multi mode producers and fifo     *)
(* producers do not share the queue.                                       *)
THEOREM ErrorsTrue ==
  ASSUME Unmixed
  PROVE  Spec /\ []BelowWrap /\ []NoneOvertaken => ErrorsAreTrue
<1> DEFINE Step ==
      /\ \A p \in Producers : Fails(p, "would_overflow") =>
           \/ tkt["pop"] <= Lim - SlotCount
           \/ \E c \in Consumers : Owns(c) /\ now[c] = Lim - SlotCount
      /\ \A c \in Consumers : Fails(c, "empty") =>
           \/ tkt["pop"] = Lim
           \/ \E p \in Producers : /\ pc[p] \in {"own", "used", "poll", "ahead"}
                                   /\ now[p] = tkt["pop"]
<1>1. Inv /\ BelowWrap /\ NoneOvertaken /\ Accounted /\ [Next]_vars => [Step]_vars
  <2> SUFFICES ASSUME Inv, BelowWrap, NoneOvertaken, Accounted, Next
               PROVE  Step
    BY DEF vars
  <2>1. PICK u \in Threads : Effect(u)
    BY StepEffect
  <2>2. ASSUME NEW t \in Producers \cup Consumers, NEW why,
               why \in {"would_overflow", "empty"}, Fails(t, why)
        PROVE  pc[t] = "check" /\ Verdict(t) = why
    <3>1. t = u
      BY <2>1, <2>2 DEF Effect, Others, Fails, Threads
    <3>2. ~GaveUp(t)
      BY <2>2, <3>1, GivesUpLate DEF Fails, Ends, Accounted
    <3>3. pc[t] \in {"check", "poll"} /\ Ends(t, Verdict(t))
      <4>1. ~Goes(t) /\ ~Ends(t, "ok") /\ ~Ends(t, "preconditions")
        BY <2>2 DEF Fails, Goes, Ends
      <4>2. Effect(t)
        BY <2>1, <3>1
      <4> QED BY <3>1, <3>2, <4>1, <4>2, StepAnswers
    <3>4. pc[t] # "poll"
      BY <2>1, <2>2, <3>1, <3>2, Classes DEF Effect, Aside, Looked, Waited, Entered, Took,
         Joined, Used, Committed, Jumped, Fails, Goes
    <3> QED BY <2>2, <3>3, <3>4 DEF Ends, Fails
  <2>3. ASSUME NEW p \in Producers, Fails(p, "would_overflow")
        PROVE  Overflowing
    BY <2>2, <2>3, Overflows
  <2>4. ASSUME NEW c \in Consumers, Fails(c, "empty")
        PROVE  Emptied
    BY <2>2, <2>4, Empties
  <2> QED BY <2>3, <2>4 DEF Overflowing, Emptied, HasTicket
<1>2. Spec /\ []BelowWrap /\ []NoneOvertaken => [][Step]_vars
  BY <1>1, NothingForgotten, Invariance, PTL DEF Spec
<1> QED BY <1>2 DEF ErrorsAreTrue

---------------------------------------------------------------------------
(* Every step of the queue is one of its promise, or none.                 *)

(* What a thread does to the promise's variables is done to its own places.*)
LEMMA OthersKept ==
  ASSUME Inv, NEW t \in Threads, Effect(t)
  PROVE  /\ Claimed' = [Claimed EXCEPT ![t] = Claimed'[t]]
         /\ Writing' = [Writing EXCEPT ![t] = Writing'[t]]
         /\ Reads'   = [Reads EXCEPT ![t] = Reads'[t]]
         /\ Got'     = [Got EXCEPT ![t] = Got'[t]]
         /\ Answers' = [Answers EXCEPT ![t] = Answers'[t]]
<1>1. ASSUME NEW u \in Threads \ {t}
      PROVE  /\ pc'[u] = pc[u] /\ now'[u] = now[u]
             /\ val'[u] = val[u] /\ res'[u] = res[u]
  BY DEF Effect, Others
<1>2. Producers \subseteq Threads /\ Consumers \subseteq Threads
  BY DEF Threads
<1>3. ASSUME NEW u \in Producers \ {t}
      PROVE  Claimed'[u] = Claimed[u]
  <2>1. now'[u] = now[u] /\ pc'[u] = pc[u]
    BY <1>1, <1>2
  <2>2. CASE pc[u] \in {"poll", "ahead"}
    <3>1. HasTicket(u) /\ now[u] \in Nat
      BY <1>2, <2>2 DEF HasTicket, Inv, ThreadsOK, PlaceOK
    <3>2. now[u] < tkt["push"]
      BY <3>1 DEF Inv, ThreadsOK, ProducerOK
    <3>3. now[u] < Lim <=> now[u] < Lim'
      BY <3>1, <3>2, Words, WordsMove
    <3> QED BY <2>1, <3>3 DEF Claimed, Holds
  <2>3. CASE pc[u] \notin {"poll", "ahead"}
    BY <2>1, <2>3 DEF Claimed, Holds
  <2> QED BY <2>2, <2>3
<1>4. \A u \in Producers \ {t} : Writing'[u] = Writing[u]
  BY <1>1, <1>2 DEF Writing, Holds
<1>5. \A c \in Consumers \ {t} : Reads'[c] = Reads[c] /\ Got'[c] = Got[c]
  BY <1>1, <1>2 DEF Reads, Got, Holds
<1>6. \A u \in (Producers \cup Consumers) \ {t} : Answers'[u] = Answers[u]
  BY <1>1, <1>2 DEF Answers
<1>7. Claimed' = [Claimed EXCEPT ![t] = Claimed'[t]]
  BY <1>3 DEF Claimed
<1>8. Writing' = [Writing EXCEPT ![t] = Writing'[t]]
  BY <1>4 DEF Writing
<1>9. Reads' = [Reads EXCEPT ![t] = Reads'[t]] /\ Got' = [Got EXCEPT ![t] = Got'[t]]
  BY <1>5 DEF Reads, Got
<1>10. Answers' = [Answers EXCEPT ![t] = Answers'[t]]
  BY <1>6 DEF Answers
<1> QED BY <1>7, <1>8, <1>9, <1>10

(* ... and none if that thread's own do not change.                        *)
LEMMA Untouched ==
  ASSUME Inv, NEW t \in Threads, Effect(t)
  PROVE  /\ (t \in Producers => Claimed'[t] = Claimed[t]) => Claimed' = Claimed
         /\ (t \in Producers => Writing'[t] = Writing[t]) => Writing' = Writing
         /\ (t \in Consumers => Reads'[t] = Reads[t]) => Reads' = Reads
         /\ (t \in Consumers => Got'[t] = Got[t]) => Got' = Got
         /\ (t \in Producers \cup Consumers => Answers'[t] = Answers[t])
              => Answers' = Answers
<1>1. ASSUME t \in Producers => Claimed'[t] = Claimed[t] PROVE Claimed' = Claimed
  BY <1>1, OthersKept DEF Claimed
<1>2. ASSUME t \in Producers => Writing'[t] = Writing[t] PROVE Writing' = Writing
  BY <1>2, OthersKept DEF Writing
<1>3. ASSUME t \in Consumers => Reads'[t] = Reads[t] PROVE Reads' = Reads
  BY <1>3, OthersKept DEF Reads
<1>4. ASSUME t \in Consumers => Got'[t] = Got[t] PROVE Got' = Got
  BY <1>4, OthersKept DEF Got
<1>5. ASSUME t \in Producers \cup Consumers => Answers'[t] = Answers[t]
      PROVE  Answers' = Answers
  BY <1>5, OthersKept DEF Answers
<1> QED BY <1>1, <1>2, <1>3, <1>4, <1>5

(* A thread's own places in the promise.                                   *)
LEMMA OwnPlaces ==
  ASSUME Inv, NEW t \in Threads
  PROVE  /\ t \in Producers =>
              /\ Writing[t] = Holds(t, {"own", "used"})
              /\ Claimed[t] = IF now[t] < Lim
                                THEN Holds(t, {"poll", "ahead"}) ELSE None
              /\ Writing'[t] = IF pc'[t] \in {"own", "used"} THEN now'[t] ELSE None
              /\ Claimed'[t] = IF now'[t] < Lim'
                                 THEN IF pc'[t] \in {"poll", "ahead"}
                                        THEN now'[t] ELSE None
                                 ELSE None
         /\ t \in Consumers =>
              /\ Reads[t] = Holds(t, {"own", "used"}) /\ Got[t] = val[t]
              /\ Reads'[t] = IF pc'[t] \in {"own", "used"} THEN now'[t] ELSE None
              /\ Got'[t] = val'[t]
         /\ t \in Producers \cup Consumers =>
              Answers[t] = res[t] /\ Answers'[t] = res'[t]
BY DEF Writing, Claimed, Reads, Got, Answers, Holds

LEMMA InUseMeans ==
  ASSUME Inv, NEW k \in Int
  PROVE  Promise!InUse(k) <=>
           k >= 0 /\ (tkt["pop"] <= k \/ \E c \in Consumers : Owns(c) /\ now[c] = k)
<1>1. tkt["pop"] \in Nat
  BY Words
<1>2. ASSUME NEW c \in Consumers, k >= 0
      PROVE  Reads[c] = k <=> Owns(c) /\ now[c] = k
  <2>1. Reads[c] = Holds(c, {"own", "used"})
    BY DEF Reads
  <2> QED BY <1>2, <2>1 DEF Holds, Owns, None
<1> QED BY <1>1, <1>2 DEF Promise!InUse

(* A version that says a chunk is free is true.                            *)
LEMMA FreeChunk ==
  ASSUME Inv, NEW n \in Nat, tkt["pop"] <= n, ver[Slot(n)] = n
  PROVE  ~Promise!InUse(n - SlotCount)
<1>1. tkt["pop"] \in Nat
  BY Words
<1>2. PICK j \in tkt["pop"]..(tkt["pop"] + SlotCount - 1) :
        Slot(n) = Slot(j) /\ ver[Slot(n)] \in {j - SlotCount + 1, j, j + 1}
  BY SlotTicket
<1>3. n = j \/ n = j + SlotCount \/ j = n + SlotCount
      \/ n >= j + 2 * SlotCount \/ j >= n + 2 * SlotCount
  BY <1>1, <1>2, LapsApart
<1>4. n - SlotCount < tkt["pop"]
  BY <1>1, <1>2, <1>3, Sizes
<1>5. ASSUME NEW c \in Consumers, Owns(c), now[c] = n - SlotCount
      PROVE  FALSE
  <2>1. ver[Slot(now[c])] = now[c] + 1
    BY <1>5 DEF Inv, ThreadsOK, ConsumerOK
  <2>2. Slot(now[c]) = Slot(n)
    BY <1>5, SlotLap
  <2> QED BY <1>5, <2>1, <2>2, Sizes
<1>6. n - SlotCount \in Int /\ ~(tkt["pop"] <= n - SlotCount)
  BY <1>1, <1>4, Sizes
<1> QED BY <1>5, <1>6, InUseMeans

(* The tickets ready, step by step.                                        *)
LEMMA ReadyStep ==
  ASSUME Inv, Inv', NEW t \in Threads, Effect(t)
  PROVE  \/ Ready' = Ready /\ ~(t \in Consumers /\ Took(t))
            /\ ~(t \in Producers /\ Committed(t))
         \/ /\ t \in Consumers /\ Took(t) /\ now[t] \in Ready
            /\ now[t] = tkt["pop"] /\ Ready' = Ready \ {now[t]}
         \/ /\ t \in Producers /\ Committed(t)
            /\ Ready' = Ready \cup {now[t]}
<1>1. /\ tkt["push"] \in Nat /\ tkt["pop"] \in Nat /\ Lim \in Nat
      /\ tkt["pop"] <= Lim /\ (t \in Consumers => t \notin Producers)
  BY Words, Classes
<1>2. CASE t \in Consumers /\ Took(t)
  <2>1. /\ now[t] = tkt["pop"] /\ tkt'["pop"] = tkt["pop"] + 1
        /\ pc[t] \in {"cas", "store"} /\ ver' = ver /\ fence' = fence
        /\ tkt'["push"] = tkt["push"]
    BY <1>1, <1>2 DEF Took, Side, Inv, TypeOK, Sides
  <2>2. Lim' = Lim
    BY <2>1 DEF Lim
  <2>3. ver[Slot(now[t])] = now[t] + 1
    BY <1>1, <1>2, <2>1 DEF Inv, ThreadsOK, CheckOK, Side, Offset
  <2>4. tkt["pop"] \in tkt["pop"]..(tkt["pop"] + SlotCount - 1)
    BY <1>1, Sizes
  <2>5. tkt["pop"] < Lim
    BY <2>1, <2>3, <2>4 DEF Inv, VersionsOK
  <2>6. now[t] \in Ready
    BY <1>1, <2>1, <2>3, <2>5 DEF Ready
  <2>7. tkt'["pop"]..(Lim' - 1) = (tkt["pop"]..(Lim - 1)) \ {now[t]}
    BY <1>1, <2>1, <2>2
  <2>8. Ready' = Ready \ {now[t]}
    BY <2>1, <2>7 DEF Ready
  <2> QED BY <1>2, <2>1, <2>6, <2>8
<1>3. CASE Committed(t)
  <2>1. Lim' = Lim /\ tkt'["pop"] = tkt["pop"] /\ pc[t] = "used"
        /\ t \in Producers \cup Consumers /\ ~Took(t)
    BY <1>3 DEF Committed, Lim, Took
  <2>2. now[t] \in Nat
    BY <1>3, <2>1, ProducerCommits, ConsumerCommits
  <2>3. ASSUME NEW k \in tkt["pop"]..(Lim - 1), Slot(k) # Slot(now[t])
        PROVE  k \in Ready' <=> k \in Ready
    <3>1. k \in Int
      BY <1>1
    <3>2. ver'[Slot(k)] = ver[Slot(k)]
      BY <1>3, <2>3, <3>1, CommittedElsewhere
    <3> QED BY <2>1, <3>2 DEF Ready
  <2>4. CASE t \in Producers
    <3>1. /\ now[t] \in tkt["pop"]..(Lim - 1) /\ ver[Slot(now[t])] = now[t]
          /\ ver'[Slot(now[t])] = now[t] + 1
      BY <1>1, <1>3, <2>2, <2>4, ProducerCommits
    <3>2. now[t] \in Ready'
      BY <2>1, <3>1 DEF Ready
    <3>3. ASSUME NEW k \in tkt["pop"]..(Lim - 1), Slot(k) = Slot(now[t]), k # now[t]
          PROVE  k \notin Ready /\ k \notin Ready'
      <4>1. k \in Int /\ k + 1 # now[t]
        <5>1. k \in Int
          BY <1>1
        <5> QED BY <3>3, <5>1, SlotNext
      <4> QED BY <2>2, <3>1, <3>3, <4>1 DEF Ready
    <3>4. Ready \subseteq tkt["pop"]..(Lim - 1) /\ Ready' \subseteq tkt["pop"]..(Lim - 1)
      BY <2>1 DEF Ready
    <3>5. Ready' = Ready \cup {now[t]}
      BY <2>3, <3>2, <3>3, <3>4
    <3> QED BY <1>3, <2>4, <3>5
  <2>5. CASE t \notin Producers
    <3>1. /\ t \in Consumers /\ now[t] < tkt["pop"] /\ ver[Slot(now[t])] = now[t] + 1
          /\ ver'[Slot(now[t])] = now[t] + SlotCount
      BY <1>3, <2>1, <2>5, ConsumerCommits
    <3>2. ASSUME NEW k \in tkt["pop"]..(Lim - 1), Slot(k) = Slot(now[t])
          PROVE  k \notin Ready /\ k \notin Ready'
      <4>1. k \in Int /\ k > now[t]
        BY <1>1, <2>2, <3>1
      <4>2. k + 1 # now[t] + SlotCount
        <5>1. ASSUME k + 1 = now[t] + SlotCount PROVE FALSE
          <6>1. (k + 1) - SlotCount = now[t] /\ k + 1 \in Int
            BY <2>2, <4>1, <5>1, Sizes
          <6>2. Slot((k + 1) - SlotCount) = Slot(k + 1)
            BY <6>1, SlotLap
          <6> QED BY <3>2, <4>1, <6>1, <6>2, SlotNext
        <5> QED BY <5>1
      <4>3. ver[Slot(k)] # k + 1 /\ ver'[Slot(k)] # k + 1
        BY <2>2, <3>1, <3>2, <4>1, <4>2
      <4> QED BY <4>3 DEF Ready
    <3>3. Ready \subseteq tkt["pop"]..(Lim - 1) /\ Ready' \subseteq tkt["pop"]..(Lim - 1)
      BY <2>1 DEF Ready
    <3> QED BY <2>1, <2>3, <2>5, <3>2, <3>3
  <2> QED BY <2>4, <2>5
<1>4. CASE ~(t \in Consumers /\ Took(t)) /\ ~Committed(t)
  <2>1. ver' = ver /\ tkt'["pop"] = tkt["pop"]
    BY <1>4, WordsMove
  <2>2. CASE Lim' = Lim
    BY <1>4, <2>1, <2>2 DEF Ready
  <2>3. CASE /\ t \in Producers /\ Lim' = Lim + 1
             /\ HasTicket(t)' /\ now'[t] = Lim
    <3>1. ver'[Slot(Lim)] # Lim + 1
      <4>1. ProducerOK(t)'
        BY <2>3 DEF Inv, ThreadsOK
      <4>2. ver'[Slot(now'[t])] # now'[t] + 1
        BY <4>1 DEF ProducerOK
      <4> QED BY <2>3, <4>2
    <3>2. tkt'["pop"]..(Lim' - 1) = (tkt["pop"]..(Lim - 1)) \cup {Lim}
      BY <1>1, <2>1, <2>3
    <3>3. Ready' = Ready
      BY <2>1, <3>1, <3>2 DEF Ready
    <3> QED BY <1>4, <3>3
  <2> QED BY <2>2, <2>3, WordsMove
<1> QED BY <1>2, <1>3, <1>4

(* A step that writes no word and no version, and does not move its own    *)
(* thread's places, changes nothing in the promise but an answer.          *)
Quiet == /\ Lim' = Lim /\ tkt'["pop"] = tkt["pop"] /\ Ready' = Ready
         /\ Claimed' = Claimed /\ Writing' = Writing
         /\ Reads' = Reads /\ Got' = Got /\ Blocked' = Blocked

LEMMA StillQuiet ==
  ASSUME Inv, NEW t \in Threads, Effect(t), Still,
         t \in Producers => Claimed'[t] = Claimed[t] /\ Writing'[t] = Writing[t],
         t \in Consumers => Reads'[t] = Reads[t] /\ Got'[t] = Got[t]
  PROVE  Quiet
<1>1. Lim' = Lim /\ tkt'["pop"] = tkt["pop"] /\ Ready' = Ready /\ Blocked' = Blocked
  BY DEF Still, Lim, Ready, Blocked
<1>2. Claimed' = Claimed /\ Writing' = Writing
  BY Untouched
<1>3. Reads' = Reads /\ Got' = Got
  BY Untouched
<1> QED BY <1>1, <1>2, <1>3 DEF Quiet

LEMMA QuietStutter ==
  ASSUME Quiet, Answers' = Answers
  PROVE  UNCHANGED Promise!fifo
BY DEF Quiet, Promise!fifo

LEMMA QuietAnswer ==
  ASSUME Inv, NEW t \in Producers \cup Consumers, Effect(t), Quiet,
         IF t \in Producers THEN Writing[t] = None ELSE Reads[t] = None,
         res'[t] \in Promise!TrueReason(t)
  PROVE  Promise!Answer(t)
<1>1. Answers' = [Answers EXCEPT ![t] = res'[t]]
  <2>1. Answers' = [Answers EXCEPT ![t] = Answers'[t]] /\ Answers'[t] = res'[t]
    BY OthersKept, OwnPlaces DEF Threads
  <2> QED BY <2>1
<1> QED BY <1>1 DEF Quiet, Promise!Answer, Promise!None, None

(* The errors of the checks, as reasons of the promise.                    *)
LEMMA ReasonOverflow ==
  ASSUME Inv, BelowWrap, Accounted, Unmixed,
         NEW t \in Producers, pc[t] = "check", Verdict(t) = "would_overflow"
  PROVE  "would_overflow" \in Promise!TrueReason(t)
<1>1. Lim \in Nat /\ tkt["pop"] \in Nat /\ Lim - SlotCount \in Int
  BY Words, Sizes
<1>2. CASE tkt["pop"] <= Lim - SlotCount
  <2>1. Lim - SlotCount >= 0
    BY <1>1, <1>2
  <2> QED BY <1>1, <1>2, <2>1, InUseMeans DEF Promise!TrueReason
<1>3. ASSUME NEW c \in Consumers, Owns(c), now[c] = Lim - SlotCount
      PROVE  "would_overflow" \in Promise!TrueReason(t)
  <2>1. now[c] \in Nat
    BY <1>3 DEF Owns, Inv, ThreadsOK, PlaceOK, Threads
  <2>2. Lim - SlotCount >= 0
    BY <1>3, <2>1
  <2> QED BY <1>1, <1>3, <2>2, InUseMeans DEF Promise!TrueReason
<1> QED BY <1>2, <1>3, Overflows DEF Overflowing

LEMMA ReasonEmpty ==
  ASSUME Inv, BelowWrap, Accounted,
         NEW t \in Consumers, pc[t] = "check", Verdict(t) = "empty"
  PROVE  "empty" \in Promise!TrueReason(t)
<1>1. Lim \in Nat /\ tkt["pop"] \in Nat /\ tkt["pop"] <= Lim
  BY Words
<1>2. tkt["pop"] \notin Ready
  BY <1>1, Empties DEF Ready
<1> QED BY <1>2 DEF Promise!TrueReason

LEMMA ReasonLocked ==
  ASSUME NEW t \in Producers, fence # None
  PROVE  "locked" \in Promise!TrueReason(t)
BY DEF Promise!TrueReason, Blocked

LEMMA LookedPromise ==
  ASSUME Inv, BelowWrap, NoneOvertaken, Accounted, Unmixed,
         NEW t \in Threads, Effect(t), Looked(t)
  PROVE  Promise!FifoNext \/ UNCHANGED Promise!fifo
<1>1. /\ t \in Producers \cup Consumers /\ Still /\ val'[t] = val[t]
      /\ pc[t] \in {"idle", "reload", "check", "cas"}
      /\ pc'[t] \in {"idle", "reload", "check", "cas", "store"}
      /\ t \in Consumers => t \notin Producers
  BY Classes DEF Looked, Single, Producers, Consumers
<1>2. Quiet
  <2>1. t \in Producers => Claimed'[t] = Claimed[t] /\ Writing'[t] = Writing[t]
    BY <1>1, OwnPlaces DEF Holds
  <2>2. t \in Consumers => Reads'[t] = Reads[t] /\ Got'[t] = Got[t]
    BY <1>1, OwnPlaces DEF Holds
  <2> QED BY <1>1, <2>1, <2>2, StillQuiet
<1>3. IF t \in Producers THEN Writing[t] = None ELSE Reads[t] = None
  BY <1>1, OwnPlaces DEF Holds
<1>4. CASE Goes(t)
  <2>1. Answers' = Answers
    BY <1>4, Untouched, OwnPlaces DEF Goes
  <2> QED BY <1>2, <2>1, QuietStutter
<1>5. ASSUME res'[t] \in Promise!TrueReason(t) PROVE Promise!FifoNext
  <2>1. Promise!Answer(t)
    BY <1>1, <1>2, <1>3, <1>5, QuietAnswer
  <2> QED BY <1>1, <2>1 DEF Promise!FifoNext, Promise!Threads
<1>6. CASE Ends(t, "preconditions")
  <2>1. res'[t] \in Promise!TrueReason(t)
    BY <1>6 DEF Ends, Promise!TrueReason
  <2> QED BY <1>5, <2>1
<1>7. CASE /\ pc[t] = "check" /\ Verdict(t) # "ok" /\ Ends(t, Verdict(t))
           /\ t \notin Single => Verdict(t) # "busy"
  <2>1. Verdict(t) # "busy"
    BY <1>7, NeverLate
  <2>2. Verdict(t) \in {NoData(t), "locked"} /\ res'[t] = Verdict(t)
    BY <1>7, <2>1, VerdictType DEF Ends
  <2>3. CASE Verdict(t) = "locked"
    <3>1. t \in Producers /\ fence # None
      BY <1>1, <1>7, <2>3, LockedLate DEF Accounted
    <3> QED BY <1>5, <2>2, <2>3, <3>1, ReasonLocked
  <2>4. CASE Verdict(t) = NoData(t) /\ t \in Producers
    <3>1. Verdict(t) = "would_overflow"
      BY <2>4 DEF NoData
    <3> QED BY <1>5, <1>7, <2>2, <2>4, <3>1, ReasonOverflow
  <2>5. CASE Verdict(t) = NoData(t) /\ t \notin Producers
    <3>1. Verdict(t) = "empty" /\ t \in Consumers
      BY <1>1, <2>5 DEF NoData
    <3> QED BY <1>5, <1>7, <2>2, <3>1, ReasonEmpty
  <2> QED BY <2>2, <2>3, <2>4, <2>5
<1> QED BY <1>4, <1>6, <1>7 DEF Looked

LEMMA FifoPromise ==
  ASSUME Inv, Inv', BelowWrap, NoneOvertaken, Accounted,
         NEW t \in Threads, Effect(t), Waited(t) \/ Entered(t) \/ GaveUp(t)
  PROVE  Promise!FifoNext \/ UNCHANGED Promise!fifo
<1>1. /\ t \in FP /\ t \in Producers /\ t \notin Consumers /\ Still
      /\ pc[t] \in {"poll", "ahead"} /\ now[t] \in Nat /\ HasTicket(t)
  <2>1. t \in FP /\ Still /\ pc[t] \in {"poll", "ahead"}
    BY DEF Waited, Entered, GaveUp
  <2> QED BY <2>1, Classes DEF Producers, HasTicket, Inv, ThreadsOK, PlaceOK
<1>2. Lim' = Lim
  BY <1>1 DEF Still, Lim
<1>3. CASE Waited(t)
  <2>1. Claimed'[t] = Claimed[t] /\ Writing'[t] = Writing[t] /\ res'[t] = res[t]
    BY <1>1, <1>2, <1>3, OwnPlaces DEF Waited, Same, Holds
  <2>2. Quiet
    BY <1>1, <2>1, StillQuiet
  <2>3. Answers' = Answers
    BY <2>1, Untouched, OwnPlaces
  <2> QED BY <2>2, <2>3, QuietStutter
<1>4. CASE Entered(t)
  <2>1. /\ pc[t] = "poll" /\ pc'[t] = "own" /\ now'[t] = now[t]
        /\ val'[t] = val[t] /\ res'[t] = res[t] /\ Verdict(t) = "ok"
    BY <1>4 DEF Entered, Same
  <2>2. now[t] < Lim
    <3>1. HasTicket(t)' /\ Owns(t)'
      BY <1>1, <2>1 DEF HasTicket, Owns
    <3>2. ProducerOK(t)'
      BY <1>1, <3>1 DEF Inv, ThreadsOK
    <3> QED BY <1>2, <2>1, <3>1, <3>2 DEF ProducerOK
  <2>3. Claimed[t] = now[t] /\ Writing'[t] = now[t] /\ Claimed'[t] = None
    BY <1>1, <1>2, <2>1, <2>2, OwnPlaces DEF Holds
  <2>4. ~Promise!InUse(now[t] - SlotCount)
    <3>1. ver[Slot(now[t])] = now[t]
      BY <1>1, <2>1, VerdictExact DEF Offset
    <3>2. tkt["pop"] <= now[t]
      BY <1>1 DEF Inv, ThreadsOK, ProducerOK
    <3> QED BY <1>1, <3>1, <3>2, FreeChunk
  <2>5. /\ Writing' = [Writing EXCEPT ![t] = now[t]]
        /\ Claimed' = [Claimed EXCEPT ![t] = None]
    BY <2>3, OthersKept
  <2>6. Reads' = Reads /\ Got' = Got /\ Answers' = Answers
    BY <1>1, <2>1, Untouched, OwnPlaces
  <2>7. tkt'["pop"] = tkt["pop"] /\ Ready' = Ready /\ Blocked' = Blocked
    BY <1>1, <1>2 DEF Still, Ready, Blocked
  <2>8. now[t] # None
    BY <1>1 DEF None
  <2>9. Promise!Enter(t)
    BY <1>2, <2>3, <2>4, <2>5, <2>6, <2>7, <2>8
       DEF Promise!Enter, Promise!None, None
  <2> QED BY <1>1, <2>9 DEF Promise!FifoNext
<1>5. CASE GaveUp(t)
  <2>1. Ends(t, "locked") /\ fence # None /\ now[t] >= fence + 2 * SlotCount
    BY <1>5, GivesUpLate DEF Accounted
  <2>2. ~(now[t] < Lim)
    BY <1>1, <2>1, Words, Sizes
  <2>3. /\ Claimed[t] = None /\ Writing[t] = None
        /\ Claimed'[t] = None /\ Writing'[t] = None
    BY <1>1, <2>1, <2>2, OwnPlaces DEF Ends, Holds
  <2>4. Quiet
    BY <1>1, <2>3, StillQuiet
  <2>5. res'[t] \in Promise!TrueReason(t)
    BY <1>1, <2>1, ReasonLocked DEF Ends
  <2>6. Promise!Answer(t)
    BY <1>1, <2>3, <2>4, <2>5, QuietAnswer
  <2> QED BY <1>1, <2>6 DEF Promise!FifoNext, Promise!Threads
<1> QED BY <1>3, <1>4, <1>5

LEMMA TookPromise ==
  ASSUME Inv, Inv', NEW t \in Threads, Effect(t), Took(t)
  PROVE  Promise!FifoNext \/ UNCHANGED Promise!fifo
<1>1. /\ pc[t] \in {"cas", "store"} /\ pc'[t] = "own" /\ now[t] = tkt[Side(t)]
      /\ now'[t] = now[t] /\ val'[t] = val[t] /\ res'[t] = res[t]
      /\ ver' = ver /\ fence' = fence
      /\ t \in Producers \cup Consumers /\ (t \in Consumers => t \notin Producers)
  BY Classes DEF Took, Same, Single, Producers, Consumers
<1>2. now[t] \in Nat /\ Lim \in Nat
  BY <1>1, Words DEF Inv, ThreadsOK, PlaceOK
<1>3. Answers' = Answers /\ Blocked' = Blocked
  BY <1>1, Untouched, OwnPlaces DEF Blocked
<1>4. CASE t \in Producers
  <2>1. /\ fence = None /\ now[t] = tkt["push"] /\ ver[Slot(now[t])] = now[t]
        /\ Lim = tkt["push"]
    BY <1>1, <1>4, Words DEF Inv, ThreadsOK, CheckOK, Side, Offset
  <2>2. tkt'["pop"] = tkt["pop"] /\ Lim' = Lim + 1
    <3>1. tkt' = [tkt EXCEPT !["push"] = @ + 1]
      BY <1>4 DEF Took, Side
    <3> QED BY <1>1, <2>1, <3>1 DEF Lim, Inv, TypeOK, Sides
  <2>3. ~Promise!InUse(Lim - SlotCount)
    <3>1. tkt["pop"] <= now[t]
      BY <2>1, Words
    <3> QED BY <1>2, <2>1, <3>1, FreeChunk
  <2>4. /\ Writing[t] = None /\ Claimed[t] = None
        /\ Writing'[t] = Lim /\ Claimed'[t] = None
    BY <1>1, <1>4, <2>1, OwnPlaces DEF Holds
  <2>5. Writing' = [Writing EXCEPT ![t] = Lim]
    BY <2>4, OthersKept
  <2>6. Claimed' = Claimed /\ Reads' = Reads /\ Got' = Got
    BY <1>1, <1>4, <2>4, Untouched
  <2>7. Ready' = Ready
    BY <1>1, <1>4, ReadyStep DEF Committed
  <2>8. Promise!Reserve(t)
    BY <1>3, <2>1, <2>2, <2>3, <2>4, <2>5, <2>6, <2>7
       DEF Promise!Reserve, Promise!None, None, Blocked
  <2> QED BY <1>4, <2>8 DEF Promise!FifoNext
<1>5. CASE t \in Consumers
  <2>1. /\ now[t] = tkt["pop"] /\ tkt'["pop"] = tkt["pop"] + 1 /\ Lim' = Lim
    <3>1. tkt' = [tkt EXCEPT !["pop"] = @ + 1] /\ now[t] = tkt["pop"]
      BY <1>1, <1>5 DEF Took, Side
    <3> QED BY <1>1, <3>1 DEF Lim, Inv, TypeOK, Sides
  <2>2. now[t] \in Ready /\ Ready' = Ready \ {now[t]}
    BY <1>1, <1>5, ReadyStep DEF Committed
  <2>3. Reads[t] = None /\ Reads'[t] = now[t] /\ Got'[t] = Got[t]
    BY <1>1, <1>5, OwnPlaces DEF Holds
  <2>4. Reads' = [Reads EXCEPT ![t] = now[t]]
    BY <2>3, OthersKept
  <2>5. Claimed' = Claimed /\ Writing' = Writing /\ Got' = Got
    BY <1>1, <1>5, <2>3, Untouched
  <2>6. Promise!Take(t)
    BY <1>3, <2>1, <2>2, <2>3, <2>4, <2>5 DEF Promise!Take, Promise!None, None
  <2> QED BY <1>5, <2>6 DEF Promise!FifoNext
<1> QED BY <1>1, <1>4, <1>5

LEMMA JoinedPromise ==
  ASSUME Inv, Inv', NEW t \in Threads, Effect(t), Joined(t)
  PROVE  Promise!FifoNext \/ UNCHANGED Promise!fifo
<1>1. /\ t \in Producers /\ t \notin Consumers /\ pc[t] = "idle"
      /\ tkt' = [tkt EXCEPT !["push"] = @ + 1]
      /\ pc'[t] = "poll" /\ now'[t] = tkt["push"]
      /\ val'[t] = val[t] /\ res'[t] = res[t] /\ ver' = ver /\ fence' = fence
  BY Classes DEF Joined, Producers
<1>2. /\ tkt["push"] \in Nat /\ tkt'["pop"] = tkt["pop"]
      /\ tkt'["push"] = tkt["push"] + 1
  BY <1>1, Words DEF Inv, TypeOK, Sides
<1>3. Reads' = Reads /\ Got' = Got /\ Answers' = Answers /\ Blocked' = Blocked
  BY <1>1, Untouched, OwnPlaces DEF Blocked
<1>4. Ready' = Ready
  BY <1>1, ReadyStep DEF Committed, Took
<1>5. Writing[t] = None /\ Claimed[t] = None /\ Writing'[t] = None
  BY <1>1, OwnPlaces DEF Holds
<1>6. Writing' = Writing
  BY <1>1, <1>5, Untouched
<1>7. CASE fence = None
  <2>1. Lim = tkt["push"] /\ Lim' = Lim + 1 /\ ~Blocked
    BY <1>1, <1>2, <1>7 DEF Lim, Blocked
  <2>2. Claimed'[t] = Lim
    BY <1>1, <1>2, <2>1, OwnPlaces
  <2>3. Claimed' = [Claimed EXCEPT ![t] = Lim]
    BY <2>2, OthersKept
  <2>4. Promise!Claim(t)
    BY <1>2, <1>3, <1>4, <1>5, <1>6, <2>1, <2>3
       DEF Promise!Claim, Promise!None, None
  <2> QED BY <1>1, <2>4 DEF Promise!FifoNext
<1>8. CASE fence # None
  <2>1. Lim' = Lim /\ ~(now'[t] < Lim')
    BY <1>1, <1>2, <1>8, Words, Sizes DEF Lim
  <2>2. Claimed' = Claimed
    BY <1>1, <1>5, <2>1, Untouched, OwnPlaces
  <2>3. Quiet
    BY <1>2, <1>3, <1>4, <1>6, <2>1, <2>2 DEF Quiet
  <2> QED BY <1>3, <2>3, QuietStutter
<1> QED BY <1>7, <1>8

LEMMA OwnerPromise ==
  ASSUME Inv, Inv', Accounted, NEW t \in Threads, Effect(t), Used(t) \/ Committed(t)
  PROVE  Promise!FifoNext \/ UNCHANGED Promise!fifo
<1>1. /\ t \in Producers \cup Consumers /\ pc[t] \in {"own", "used"}
      /\ t \in Consumers => t \notin Producers
  BY Classes DEF Used, Committed
<1>2. now[t] \in Nat /\ now[t] # None
  BY <1>1 DEF Inv, ThreadsOK, PlaceOK, None
<1>3. CASE Used(t)
  <2>1. /\ Still /\ pc[t] = "own" /\ pc'[t] = "used" /\ now'[t] = now[t]
        /\ res'[t] = res[t]
        /\ val'[t] = IF t \in Producers THEN val[t] ELSE now[t]
    BY <1>3 DEF Used
  <2>2. Answers' = Answers
    BY <2>1, Untouched, OwnPlaces
  <2>3. CASE t \in Producers
    <3>1. Lim' = Lim
      BY <2>1 DEF Still, Lim
    <3>2. Writing'[t] = Writing[t] /\ Claimed'[t] = Claimed[t]
      BY <2>1, <2>3, <3>1, OwnPlaces DEF Holds
    <3>3. Quiet
      BY <1>1, <2>1, <2>3, <3>2, StillQuiet
    <3> QED BY <2>2, <3>3, QuietStutter
  <2>4. CASE t \in Consumers
    <3>1. Got[t] = None /\ Got'[t] = now[t]
      BY <1>1, <2>1, <2>4, OwnPlaces DEF Accounted, Unread
    <3>2. Reads[t] = now[t] /\ Reads'[t] = now[t]
      BY <2>1, <2>4, OwnPlaces DEF Holds
    <3>3. Got' = [Got EXCEPT ![t] = Reads[t]]
      BY <3>1, <3>2, OthersKept
    <3>4. Claimed' = Claimed /\ Writing' = Writing /\ Reads' = Reads
      BY <1>1, <2>4, <3>2, Untouched
    <3>5. Lim' = Lim /\ tkt'["pop"] = tkt["pop"] /\ Ready' = Ready /\ Blocked' = Blocked
      BY <2>1 DEF Still, Lim, Ready, Blocked
    <3>6. Promise!Read(t)
      BY <1>2, <2>2, <3>1, <3>2, <3>3, <3>4, <3>5
         DEF Promise!Read, Promise!None, None
    <3> QED BY <2>4, <3>6 DEF Promise!FifoNext
  <2> QED BY <1>1, <2>3, <2>4
<1>4. CASE Committed(t)
  <2>1. /\ pc[t] = "used" /\ pc'[t] = "idle" /\ res'[t] = "ok" /\ val'[t] = None
        /\ tkt' = tkt /\ fence' = fence
    BY <1>4 DEF Committed, Ends
  <2>2. Lim' = Lim /\ tkt'["pop"] = tkt["pop"] /\ Blocked' = Blocked
    BY <2>1 DEF Lim, Blocked
  <2>3. Answers' = [Answers EXCEPT ![t] = "ok"]
    BY <1>1, <2>1, OthersKept, OwnPlaces
  <2>4. CASE t \in Producers
    <3>1. Writing[t] = now[t] /\ Writing'[t] = None /\ Claimed'[t] = Claimed[t]
      BY <2>1, <2>4, OwnPlaces DEF Holds
    <3>2. Writing' = [Writing EXCEPT ![t] = None]
      BY <3>1, OthersKept
    <3>3. Claimed' = Claimed /\ Reads' = Reads /\ Got' = Got
      BY <1>1, <2>4, <3>1, Untouched
    <3>4. Ready' = Ready \cup {Writing[t]}
      BY <1>1, <1>4, <2>4, <3>1, ReadyStep
    <3>5. Promise!Commit(t)
      BY <1>2, <2>2, <2>3, <3>1, <3>2, <3>3, <3>4
         DEF Promise!Commit, Promise!None, None
    <3> QED BY <2>4, <3>5 DEF Promise!FifoNext
  <2>5. CASE t \in Consumers
    <3>1. val[t] = now[t]
      BY <2>1, <2>5 DEF Owns, Inv, ThreadsOK, ConsumerOK
    <3>2. Got[t] = now[t] /\ Got'[t] = None /\ Reads'[t] = None
      BY <2>1, <2>5, <3>1, OwnPlaces
    <3>3. Reads' = [Reads EXCEPT ![t] = None] /\ Got' = [Got EXCEPT ![t] = None]
      BY <3>2, OthersKept
    <3>4. Claimed' = Claimed /\ Writing' = Writing
      BY <1>1, <2>5, Untouched
    <3>5. Ready' = Ready
      BY <1>1, <2>1, <2>5, ReadyStep DEF Took
    <3>6. Promise!Release(t)
      BY <1>2, <2>2, <2>3, <3>2, <3>3, <3>4, <3>5
         DEF Promise!Release, Promise!None, None
    <3> QED BY <2>5, <3>6 DEF Promise!FifoNext
  <2> QED BY <1>1, <2>4, <2>5
<1> QED BY <1>3, <1>4

LEMMA AsidePromise ==
  ASSUME Inv, Inv', NEW t \in Threads, Effect(t), Aside(t) \/ Jumped(t)
  PROVE  Promise!FifoNext \/ UNCHANGED Promise!fifo
<1>1. t \notin Producers \cup Consumers
  BY Classes DEF Aside, Jumped
<1>2. /\ Claimed' = Claimed /\ Writing' = Writing /\ Reads' = Reads
      /\ Got' = Got /\ Answers' = Answers
  BY <1>1, Untouched
<1>3. CASE Aside(t)
  <2>1. Quiet
    BY <1>2, <1>3 DEF Aside, Still, Quiet, Lim, Ready, Blocked
  <2> QED BY <1>2, <2>1, QuietStutter
<1>4. CASE Jumped(t)
  <2>1. /\ fence = None /\ fence' = tkt["push"] /\ ver' = ver
        /\ tkt' = [tkt EXCEPT !["push"] = @ + 2 * SlotCount]
    BY <1>4 DEF Jumped
  <2>2. fence' # None /\ tkt'["pop"] = tkt["pop"]
    BY <2>1, Words DEF None, Inv, TypeOK, Sides
  <2>3. Lim' = Lim /\ Blocked' = TRUE
    BY <2>1, <2>2 DEF Lim, Blocked
  <2>4. Ready' = Ready
    BY <2>1, <2>2, <2>3 DEF Ready
  <2>5. Promise!Block
    BY <1>2, <2>2, <2>3, <2>4 DEF Promise!Block
  <2> QED BY <2>5 DEF Promise!FifoNext
<1> QED BY <1>3, <1>4

(* The queue keeps the promise made to its users: a first-in first-out     *)
(* queue of chunks that are not handed out before they are free, nor read  *)
(* before they are written, whose errors tell the truth.                   *)
THEOREM KeepsPromise ==
  ASSUME Unmixed
  PROVE  Spec /\ []BelowWrap /\ []NoneOvertaken => ImplementsPromise
<1>1. Init => Promise!FifoInit
  <2> SUFFICES ASSUME Init PROVE Promise!FifoInit
    OBVIOUS
  <2>1. Lim = 0 /\ tkt["pop"] = 0 /\ Blocked = FALSE
    BY DEF Init, Lim, Sides, Blocked, None
  <2>2. Ready = {}
    BY <2>1 DEF Ready
  <2>3. \A t \in Producers \cup Consumers :
          pc[t] = "idle" /\ now[t] = None /\ val[t] = None /\ res[t] = "none"
    BY DEF Init, Threads
  <2>4. /\ Claimed = [p \in Producers |-> None] /\ Writing = [p \in Producers |-> None]
        /\ Reads = [c \in Consumers |-> None] /\ Got = [c \in Consumers |-> None]
        /\ Answers = [t \in Producers \cup Consumers |-> "none"]
    BY <2>3 DEF Claimed, Writing, Reads, Got, Answers, Holds
  <2> QED BY <2>1, <2>2, <2>4
      DEF Promise!FifoInit, Promise!None, Promise!Threads, None
<1>2. Inv /\ Inv' /\ BelowWrap /\ NoneOvertaken /\ Accounted /\ [Next]_vars
        => [Promise!FifoNext]_(Promise!fifo)
  <2> SUFFICES ASSUME Inv, Inv', BelowWrap, NoneOvertaken, Accounted, [Next]_vars
               PROVE  Promise!FifoNext \/ UNCHANGED Promise!fifo
    OBVIOUS
  <2>1. CASE UNCHANGED vars
    BY <2>1 DEF vars, Promise!fifo, Lim, Ready, Claimed, Writing, Reads, Got,
       Blocked, Answers, Holds
  <2>2. CASE Next
    <3>1. PICK t \in Threads : Effect(t)
      BY <2>2, StepEffect
    <3>2. CASE Aside(t) \/ Jumped(t)
      BY <3>1, <3>2, AsidePromise
    <3>3. CASE Looked(t)
      BY <3>1, <3>3, LookedPromise
    <3>4. CASE Waited(t) \/ Entered(t) \/ GaveUp(t)
      BY <3>1, <3>4, FifoPromise
    <3>5. CASE Took(t)
      BY <3>1, <3>5, TookPromise
    <3>6. CASE Joined(t)
      BY <3>1, <3>6, JoinedPromise
    <3>7. CASE Used(t) \/ Committed(t)
      BY <3>1, <3>7, OwnerPromise
    <3> QED BY <3>1, <3>2, <3>3, <3>4, <3>5, <3>6, <3>7 DEF Effect
  <2> QED BY <2>1, <2>2
<1>3. Spec /\ []BelowWrap /\ []NoneOvertaken => Promise!FifoSpec
  BY <1>1, <1>2, NothingForgotten, Invariance, PTL DEF Spec, Promise!FifoSpec
<1> QED BY <1>3 DEF ImplementsPromise

---------------------------------------------------------------------------
(* A ticket field wide enough never wraps.                                 *)

(* No producer begins once MaxTicket tickets are out; those inside then    *)
(* take one each, and the jump takes two laps.                             *)
FieldSuffices ==
  /\ IsFiniteSet(Producers)
  /\ MaxTicket + Cardinality(Producers) + 3 * SlotCount < TicketMod

Trying  == {"reload", "check", "cas", "store"}
Late    == {p \in Producers : pc[p] \in Trying}
Leaps   == IF fence = None THEN 0 ELSE 2 * SlotCount
Reserved ==
  tkt["push"] + Cardinality(Late) <= MaxTicket + Cardinality(Producers) + Leaps

LEMMA LateSize ==
  ASSUME FieldSuffices
  PROVE  /\ IsFiniteSet(Late) /\ IsFiniteSet(Late')
         /\ Cardinality(Late) \in Nat /\ Cardinality(Late') \in Nat
         /\ Cardinality(Late') <= Cardinality(Producers)
         /\ Cardinality(Producers) \in Nat /\ Leaps \in Nat
<1>1. /\ Late \in SUBSET Producers /\ Late' \in SUBSET Producers
      /\ IsFiniteSet(Producers)
  BY DEF Late, FieldSuffices
<1>2. Leaps \in Nat
  BY Sizes DEF Leaps
<1> QED BY <1>1, <1>2, FS_Subset, FS_CardinalityType

LEMMA LateShrinks ==
  ASSUME FieldSuffices, Late' \subseteq Late
  PROVE  Cardinality(Late') <= Cardinality(Late)
BY LateSize, FS_Subset

LEMMA LateLeaves ==
  ASSUME FieldSuffices, NEW p \in Late, Late' \subseteq Late \ {p}
  PROVE  Cardinality(Late') <= Cardinality(Late) - 1
<1>1. IsFiniteSet(Late)
  BY LateSize
<1>2. /\ IsFiniteSet(Late \ {p})
      /\ Cardinality(Late \ {p}) = Cardinality(Late) - 1
  BY <1>1, FS_RemoveElement
<1> QED BY <1>2, FS_Subset

LEMMA ReservedStep ==
  ASSUME FieldSuffices, Inv, Reserved, NEW t \in Threads, Effect(t)
  PROVE  Reserved'
<1>1. /\ tkt \in [Sides -> Nat] /\ "push" \in Sides /\ tkt["push"] \in Nat
      /\ MaxTicket \in Nat /\ SlotCount \in Nat
      /\ t \in Consumers => t \notin Producers
      /\ t \in Blockers \cup Signallers => t \notin Producers
  BY Classes, Words, Sizes DEF Inv, TypeOK, Sides
<1>2. \A u \in Producers \ {t} : u \in Late' <=> u \in Late
  BY DEF Effect, Others, Late, Threads
<1>3. ASSUME tkt'["push"] = tkt["push"], Leaps' = Leaps,
             t \in Producers /\ pc'[t] \in Trying =>
               pc[t] \in Trying \/ tkt["push"] < MaxTicket
      PROVE  Reserved'
  <2>1. CASE Late' \subseteq Late
    BY <1>1, <1>3, <2>1, LateShrinks, LateSize DEF Reserved
  <2>2. CASE tkt["push"] < MaxTicket
    BY <1>1, <1>3, <2>2, LateSize DEF Reserved
  <2> QED BY <1>2, <1>3, <2>1, <2>2 DEF Late
<1>4. CASE Still
  <2>1. tkt'["push"] = tkt["push"] /\ Leaps' = Leaps
    BY <1>4 DEF Still, Leaps
  <2>2. ASSUME t \in Producers, pc'[t] \in Trying
        PROVE  pc[t] \in Trying \/ tkt["push"] < MaxTicket
    BY <1>1, <2>2 DEF Effect, Aside, Looked, Waited, Entered, GaveUp, Took, Joined,
       Used, Committed, Jumped, Ends, Trying
  <2> QED BY <1>3, <2>1, <2>2
<1>5. CASE Committed(t)
  <2>1. tkt'["push"] = tkt["push"] /\ Leaps' = Leaps /\ pc'[t] \notin Trying
    BY <1>5 DEF Committed, Ends, Leaps, Trying
  <2> QED BY <1>3, <2>1
<1>6. CASE Took(t)
  <2>1. /\ tkt' = [tkt EXCEPT ![Side(t)] = @ + 1] /\ fence' = fence
        /\ pc[t] \in Trying /\ pc'[t] \notin Trying
    BY <1>6 DEF Took, Trying
  <2>2. CASE t \in Producers
    <3>1. tkt'["push"] = tkt["push"] + 1 /\ Leaps' = Leaps
      BY <1>1, <2>1, <2>2 DEF Side, Leaps
    <3>2. t \in Late /\ Late' \subseteq Late \ {t}
      BY <1>2, <2>1, <2>2 DEF Late
    <3>3. Cardinality(Late') <= Cardinality(Late) - 1
      BY <3>2, LateLeaves
    <3> QED BY <1>1, <3>1, <3>3, LateSize DEF Reserved
  <2>3. CASE t \notin Producers
    <3>1. tkt'["push"] = tkt["push"] /\ Leaps' = Leaps
      BY <1>1, <2>1, <2>3 DEF Side, Leaps
    <3> QED BY <1>3, <2>3, <3>1
  <2> QED BY <2>2, <2>3
<1>7. CASE Joined(t)
  <2>1. /\ tkt["push"] < MaxTicket /\ tkt'["push"] = tkt["push"] + 1
        /\ Leaps' = Leaps
    BY <1>1, <1>7 DEF Joined, Leaps
  <2> QED BY <1>1, <2>1, LateSize DEF Reserved
<1>8. CASE Jumped(t)
  <2>1. /\ tkt'["push"] = tkt["push"] + 2 * SlotCount
        /\ Leaps = 0 /\ Leaps' = 2 * SlotCount
    BY <1>1, <1>8 DEF Jumped, Leaps, None
  <2>2. Late' \subseteq Late
    BY <1>1, <1>2, <1>8 DEF Jumped, Late
  <2> QED BY <1>1, <2>1, <2>2, LateShrinks, LateSize DEF Reserved
<1> QED BY <1>4, <1>5, <1>6, <1>7, <1>8
      DEF Effect, Aside, Looked, Waited, Entered, GaveUp, Used

(* The condition under which the comparisons of wrapped numbers are those  *)
(* of the numbers follows from the width of the ticket field.              *)
THEOREM NeverWraps ==
  ASSUME FieldSuffices
  PROVE  Spec => []BelowWrap
<1>1. Init => Reserved
  <2> SUFFICES ASSUME Init PROVE Reserved
    OBVIOUS
  <2>1. tkt["push"] = 0 /\ Leaps = 0
    BY DEF Init, Sides, Leaps
  <2>2. Late = {}
    BY DEF Init, Late, Trying, Threads
  <2>3. Cardinality(Late) = 0
    BY <2>2, FS_EmptySet
  <2> QED BY <2>1, <2>3, LateSize, Sizes DEF Reserved
<1>2. Inv /\ Reserved /\ [Next]_vars => Reserved'
  <2> SUFFICES ASSUME Inv, Reserved, [Next]_vars PROVE Reserved'
    OBVIOUS
  <2>1. CASE UNCHANGED vars
    BY <2>1 DEF vars, Reserved, Late, Leaps
  <2>2. CASE Next
    BY <2>2, StepEffect, ReservedStep
  <2> QED BY <2>1, <2>2
<1>3. Inv /\ Reserved => BelowWrap
  <2> SUFFICES ASSUME Inv, Reserved PROVE BelowWrap
    OBVIOUS
  <2>1. Leaps \in 0..(2 * SlotCount)
    BY Sizes DEF Leaps
  <2>2. MaxTicket + Cardinality(Producers) + 3 * SlotCount < TicketMod
    BY DEF FieldSuffices
  <2> QED BY <2>1, <2>2, LateSize, Words, Sizes DEF Reserved, BelowWrap
<1> QED BY <1>1, <1>2, <1>3, Invariance, PTL DEF Spec

(* Without fifo producers nothing more is asked: the queue of multi and    *)
(* single mode is right for any number of threads.                         *)
COROLLARY WithoutFifo ==
  ASSUME FieldSuffices, FP = {}
  PROVE  Spec => []NoBusy /\ LockedIsTrue /\ ErrorsAreTrue /\ ImplementsPromise
<1>1. Unmixed
  BY DEF Unmixed
<1>2. Inv => NoneOvertaken
  BY DEF Inv, ThreadsOK, PlaceOK, NoneOvertaken, Threads
<1>3. Spec => []BelowWrap /\ []NoneOvertaken
  BY <1>2, NeverWraps, Invariance, PTL
<1> QED BY <1>1, <1>3, NeverBusy, WhyLocked, ErrorsTrue, KeepsPromise, PTL
=============================================================================
