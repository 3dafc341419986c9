------------------------------- MODULE MpscI -------------------------------
(***************************************************************************)
(* bl_mpsc_i (src/src/bl/nonblock/mpsc_i.c), the intrusive queue of many   *)
(* producers and one consumer, one action per access to shared memory.     *)
(* A node's next word is a pointer and, with tag_bits > 0, a tag in its    *)
(* low bits.                                                               *)
(***************************************************************************)
EXTENDS Naturals, Sequences

CONSTANTS
  Pushers,   \* threads that call the produce functions
  Puller,    \* the thread that calls consume
  Nodes,     \* addresses of the users' nodes
  Stable,    \* address of stable_node
  Null,      \* nullptr
  Tags       \* values of a tag

Callers == Pushers \cup {Puller}
All     == Nodes \cup {Stable}
Word    == [ptr : All \cup {Null}, tag : Tags]

(* The module that uses this one assumes it.                               *)
ListAssumption ==
  Puller \notin Pushers /\ Stable \notin Nodes /\ Null \notin All /\ 0 \in Tags

VARIABLES
  tagged,     \* the users call the functions with tag_bits > 0
  tail,       \* the last node exchanged
  head,       \* the consumer's first node
  next,       \* the next word of every node
  place,      \* where each thread is in an operation
  old, word,  \* the node each thread got from its exchange, its next word
  front,      \* the first of the nodes each thread is linking
  got,        \* the node consume gave its caller, or Null
  order       \* history: nodes in the order of their exchange, with tags

listVars == <<tagged, tail, head, next, place, old, word, front, got, order>>

NoWord == [ptr |-> Null, tag |-> 0]

Init ==
  /\ tagged \in BOOLEAN
  /\ tail = Stable /\ head = Stable
  /\ next = [n \in All |-> [ptr |-> IF n = Stable THEN Null ELSE n, tag |-> 0]]
  /\ place = [t \in Callers |-> "idle"]
  /\ old = [t \in Callers |-> Null] /\ word = [t \in Callers |-> NoWord]
  /\ front = [t \in Callers |-> Null]
  /\ got = Null /\ order = <<>>

Go(t, where) == place' = [place EXCEPT ![t] = where]

Queued == {order[i].node : i \in DOMAIN order}

---------------------------------------------------------------------------
(* produce_many and produce_many_notag.                                    *)

(* t exchanges the tail for last and has first..last to link.              *)
Exchange(t, first, last) ==
  /\ old' = [old EXCEPT ![t] = tail] /\ front' = [front EXCEPT ![t] = first]
  /\ tail' = last
  /\ Go(t, IF tagged THEN "load" ELSE "link")

(* The caller has linked its nodes with node_set, each with the tag g;     *)
(* nobody else knows them yet, so that is one step with the exchange.      *)
ProduceMany(p, batch, g) ==
  LET last == batch[Len(batch)]
      Ptr(n) == IF n = last THEN Null
                ELSE batch[1 + CHOOSE i \in DOMAIN batch : batch[i] = n]
      Mine == {batch[i] : i \in DOMAIN batch}
  IN  /\ place[p] = "idle" /\ p \in Pushers
      /\ ~tagged => g = 0
      /\ Exchange(p, batch[1], last)
      /\ next' = [n \in All |-> IF n \in Mine THEN [ptr |-> Ptr(n), tag |-> g]
                                ELSE next[n]]
      /\ order' = order \o [i \in DOMAIN batch |-> [node |-> batch[i], tag |-> g]]
      /\ UNCHANGED <<tagged, head, word, got>>

(* The tag of the old tail is kept: it is loaded ...                       *)
LoadOld(t) ==
  /\ place[t] = "load"
  /\ word' = [word EXCEPT ![t] = next[old[t]]]
  /\ Go(t, "link")
  /\ UNCHANGED <<tagged, tail, head, next, old, front, got, order>>

Settle(t) ==
  /\ old' = [old EXCEPT ![t] = Null] /\ word' = [word EXCEPT ![t] = NoWord]
  /\ front' = [front EXCEPT ![t] = Null]
  /\ Go(t, IF t = Puller THEN "again" ELSE "idle")

(* The tag is lost.                                                        *)
LinkMutant(t) ==
  /\ place[t] = "link"
  /\ next' = [next EXCEPT ![old[t]] = [ptr |-> front[t], tag |-> 0]]
  /\ Settle(t)
  /\ UNCHANGED <<tagged, tail, head, got, order>>

(* ... and stored with the pointer.  produce then returns whether the old  *)
(* tail was the stable node.                                               *)
Link(t) ==
  /\ place[t] = "link"
  /\ next' = [next EXCEPT ![old[t]] = [ptr |-> front[t], tag |-> word[t].tag]]
  /\ Settle(t)
  /\ UNCHANGED <<tagged, tail, head, got, order>>

---------------------------------------------------------------------------
(* consume.                                                                *)

(* The first node is given to the caller.                                  *)
Give(first, second) ==
  /\ got' = first /\ head' = second
  /\ order' = SubSeq(order, 2, Len(order))
  /\ Go(Puller, "idle")

SeesNothing == head = Stable /\ next[Stable].ptr = Null

(* The first load: nothing, a stable node to skip, two nodes or one.       *)
Consume ==
  LET second == next[head].ptr
  IN  /\ place[Puller] \in {"idle", "empty", "busy"} /\ got = Null
      /\ \/ SeesNothing /\ Go(Puller, "empty") /\ UNCHANGED <<head, got, order>>
         \/ /\ head = Stable /\ second # Null
            /\ head' = second /\ Go(Puller, "second") /\ UNCHANGED <<got, order>>
         \/ head # Stable /\ second # Null /\ Give(head, second)
         \/ /\ head # Stable /\ second = Null
            /\ Go(Puller, "tail") /\ UNCHANGED <<head, got, order>>
      /\ UNCHANGED <<tagged, tail, next, old, word, front>>

(* After the stable node: the second node is the one after the new first.  *)
Skipped ==
  LET second == next[head].ptr
  IN  /\ place[Puller] = "second"
      /\ IF second # Null
           THEN Give(head, second)
           ELSE Go(Puller, "tail") /\ UNCHANGED <<head, got, order>>
      /\ UNCHANGED <<tagged, tail, next, old, word, front>>

(* The tail is not looked at.                                              *)
LookTailMutant ==
  /\ place[Puller] = "tail"
  /\ Go(Puller, "renew")
  /\ UNCHANGED <<tagged, tail, head, next, old, word, front, got, order>>

(* One visible node: is it the last?                                       *)
LookTail ==
  /\ place[Puller] = "tail"
  /\ Go(Puller, IF head = tail THEN "renew" ELSE "busy")
  /\ UNCHANGED <<tagged, tail, head, next, old, word, front, got, order>>

(* The stable node is pushed behind the last node.                         *)
RenewStable ==
  /\ place[Puller] = "renew"
  /\ next' = [next EXCEPT ![Stable] = NoWord]
  /\ Go(Puller, "push")
  /\ UNCHANGED <<tagged, tail, head, old, word, front, got, order>>

PushStable ==
  /\ place[Puller] = "push"
  /\ Exchange(Puller, Stable, Stable)
  /\ UNCHANGED <<tagged, head, next, word, got, order>>

(* What follows the first node now?  Nothing, if a producer came between.  *)
LookAgain ==
  LET second == next[head].ptr
  IN  /\ place[Puller] = "again"
      /\ IF second # Null
           THEN Give(head, second)
           ELSE Go(Puller, "busy") /\ UNCHANGED <<head, got, order>>
      /\ UNCHANGED <<tagged, tail, next, old, word, front>>

(* The caller has done with the node: its memory may hold anything then,   *)
(* here a link to itself.                                                  *)
Release ==
  /\ got # Null /\ got' = Null
  /\ next' = [next EXCEPT ![got] = [ptr |-> got, tag |-> 0]]
  /\ UNCHANGED <<tagged, tail, head, place, old, word, front, order>>

Pushes(p) == LoadOld(p) \/ Link(p)
Pulls == \/ Consume \/ Skipped \/ LookTail \/ RenewStable \/ PushStable
         \/ LoadOld(Puller) \/ Link(Puller) \/ LookAgain

(* The callers' duty: nodes they produce are in no queue and not in use.   *)
Batches == {b \in {<<n>> : n \in Nodes} \cup {<<m, n>> : m, n \in Nodes} :
              /\ \A i \in DOMAIN b : b[i] \notin Queued \cup {got}
              /\ Len(b) = 2 => b[1] # b[2]}

Next ==
  \/ \E p \in Pushers :
       Pushes(p) \/ \E b \in Batches, g \in Tags : ProduceMany(p, b, g)
  \/ Pulls \/ Release

Spec == Init /\ [][Next]_listVars

---------------------------------------------------------------------------
(* Properties.                                                             *)

Places == {"idle", "load", "link", "empty", "busy", "second", "tail", "renew",
           "push", "again"}

(* Every variable holds a value of its type.                               *)
TypeOK ==
  /\ tagged \in BOOLEAN
  /\ tail \in All /\ head \in All /\ got \in Nodes \cup {Null}
  /\ next \in [All -> Word] /\ word \in [Callers -> Word]
  /\ place \in [Callers -> Places]
  /\ old \in [Callers -> All \cup {Null}]
  /\ front \in [Callers -> All \cup {Null}]
  /\ order \in Seq([node : Nodes, tag : Tags])

(* consume gives each node once, in the order of the exchanges, with its   *)
(* tag, although producers link their nodes in any order.                  *)
InOrder ==
  [][got = Null /\ got' # Null =>
       /\ order # <<>> /\ order[1].node = got'
       /\ next'[got'].tag = order[1].tag]_listVars

Linking(t) == place[t] \in {"load", "link"}

(* A producer that still has to link its nodes writes to a node that is in *)
(* the queue, never to one its user has back, nobody else writes to it,    *)
(* and the consumer never renews a stable node a producer will write to.   *)
NoLateWrite ==
  /\ \A t \in Callers : Linking(t) => old[t] \in Queued \cup {Stable}
  /\ \A t, u \in Callers : Linking(t) /\ Linking(u) /\ t # u => old[t] # old[u]
  /\ place[Puller] \in {"renew", "push"} =>
       \A p \in Pushers : Linking(p) => old[p] # Stable

(* A producer that finds the queue empty is told so: its old tail is the   *)
(* stable node.  consume says empty only if there is nothing or the first  *)
(* node is not linked yet, and busy only if a node follows the first.      *)
AnswersAreTrue ==
  /\ order = <<>> => tail = Stable
  /\ SeesNothing =>
       order = <<>> \/ \E t \in Callers : Linking(t) /\ old[t] = Stable
  /\ place[Puller] = "tail" /\ head # tail => Len(order) > 1
=============================================================================
