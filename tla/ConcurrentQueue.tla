--------------------------- MODULE ConcurrentQueue ---------------------------
(***************************************************************************)
(* MPSCQueue and SPSCQueue (src/libs/concurrency), one step per atomic     *)
(* access.  The two share pop and emplace; the MPSC queue adds a mutex     *)
(* around emplace, so with one producer this is the SPSC queue.            *)
(*                                                                         *)
(* head and tail count the stores of the two atomics: the n-th store puts  *)
(* n % SlotCount.  Each side reads its own index relaxed, hence exactly,   *)
(* and the other side's with an acquire load, which may return any value   *)
(* from the last one it saw (coherence) to the newest.  What the producers *)
(* saw of the tail is common to them: the mutex hands it over.             *)
(***************************************************************************)
EXTENDS Integers, Sequences, FiniteSets

CONSTANTS
  Producers,
  Capacity,
  MaxItems,   \* bound: the items of each producer
  NoOne       \* the mutex is free; an empty slot

ASSUME QueueAssumption ==
  /\ Capacity \in Nat \ {0}
  /\ MaxItems \in Nat
  /\ NoOne \notin Producers

VARIABLES
  buffer,
  head, tail,            \* how often each was advanced
  knownTail, knownHead,  \* what the last acquire load of each returned
  lock,                  \* producerLock
  at,                    \* where each producer is in emplace
  popping,               \* where the consumer is in pop
  taken,                 \* pop's local value
  sent, received         \* as in BoundedFIFO

queueVars == <<buffer, head, tail, knownTail, knownHead, lock, at, popping, taken,
               sent, received>>

SlotCount == Capacity + 1
SlotOf(n) == n % SlotCount
Item == Producers \X (1 .. MaxItems)

QueueInit ==
  /\ buffer = [i \in 0 .. Capacity |-> NoOne]
  /\ head = 0
  /\ tail = 0
  /\ knownTail = 0
  /\ knownHead = 0
  /\ lock = NoOne
  /\ at = [p \in Producers |-> "outside"]
  /\ popping = "outside"
  /\ taken = NoOne
  /\ sent = [p \in Producers |-> 0]
  /\ received = <<>>

-----------------------------------------------------------------------------
(* emplace.                                                                *)

\* (Faulty: several producers on the queue without the mutex.)
EnterUnlocked(p) ==
  /\ at[p] = "outside"
  /\ sent[p] < MaxItems
  /\ at' = [at EXCEPT ![p] = "check"]
  /\ UNCHANGED <<lock, buffer, head, tail, knownTail, knownHead, popping, taken, sent, received>>

\* The lock_guard.
Enter(p) ==
  /\ at[p] = "outside"
  /\ sent[p] < MaxItems
  /\ lock = NoOne
  /\ lock' = p
  /\ at' = [at EXCEPT ![p] = "check"]
  /\ UNCHANGED <<buffer, head, tail, knownTail, knownHead, popping, taken, sent, received>>

\* (Faulty: one slot too many is taken for free.)
CheckOneTooMany(p, seen) ==
  /\ at[p] = "check"
  /\ knownTail' = seen
  /\ IF head - seen > Capacity
     THEN /\ at' = [at EXCEPT ![p] = "outside"]
          /\ lock' = NoOne
     ELSE /\ at' = [at EXCEPT ![p] = "write"]
          /\ UNCHANGED lock
  /\ UNCHANGED <<buffer, head, tail, knownHead, popping, taken, sent, received>>

\* (Faulty: the early return leaves the mutex locked.)
CheckKeepsLock(p, seen) ==
  /\ at[p] = "check"
  /\ knownTail' = seen
  /\ at' = [at EXCEPT ![p] = IF SlotOf(head + 1) = SlotOf(seen) THEN "outside" ELSE "write"]
  /\ UNCHANGED <<lock, buffer, head, tail, knownHead, popping, taken, sent, received>>

\* The acquire load of tail; if the queue looks full, emplace returns false and
\* the caller will call again.
Check(p, seen) ==
  /\ at[p] = "check"
  /\ knownTail' = seen
  /\ IF SlotOf(head + 1) = SlotOf(seen)
     THEN /\ at' = [at EXCEPT ![p] = "outside"]
          /\ lock' = NoOne
     ELSE /\ at' = [at EXCEPT ![p] = "write"]
          /\ UNCHANGED lock
  /\ UNCHANGED <<buffer, head, tail, knownHead, popping, taken, sent, received>>

CheckAny(p) == \E seen \in knownTail .. tail : Check(p, seen)
CheckNewest(p) == Check(p, tail)

\* (Faulty: the slot after the free one.)
WriteNext(p) ==
  /\ at[p] = "write"
  /\ buffer' = [buffer EXCEPT ![SlotOf(head + 1)] = <<p, sent[p] + 1>>]
  /\ at' = [at EXCEPT ![p] = "publish"]
  /\ UNCHANGED <<head, tail, knownTail, knownHead, lock, popping, taken, sent, received>>

\* The assignment to the slot, not atomic.
Write(p) ==
  /\ at[p] = "write"
  /\ buffer' = [buffer EXCEPT ![SlotOf(head)] = <<p, sent[p] + 1>>]
  /\ at' = [at EXCEPT ![p] = "publish"]
  /\ UNCHANGED <<head, tail, knownTail, knownHead, lock, popping, taken, sent, received>>

\* The release store of head, and the end of the lock's scope.
Publish(p) ==
  /\ at[p] = "publish"
  /\ head' = head + 1
  /\ sent' = [sent EXCEPT ![p] = @ + 1]
  /\ at' = [at EXCEPT ![p] = "outside"]
  /\ lock' = NoOne
  /\ UNCHANGED <<buffer, tail, knownTail, knownHead, popping, taken, received>>

-----------------------------------------------------------------------------
(* pop.                                                                    *)

\* The acquire load of head; if the queue looks empty, pop returns nullopt.
Look(seen) ==
  /\ popping = "outside"
  /\ knownHead' = seen
  /\ popping' = IF SlotOf(tail) = SlotOf(seen) THEN "outside" ELSE "move"
  /\ UNCHANGED <<buffer, head, tail, knownTail, lock, at, taken, sent, received>>

LookAny == \E seen \in knownHead .. head : Look(seen)
LookNewest == Look(head)

\* The move out of the slot, not atomic.
Move ==
  /\ popping = "move"
  /\ taken' = buffer[SlotOf(tail)]
  /\ popping' = "retire"
  /\ UNCHANGED <<buffer, head, tail, knownTail, knownHead, lock, at, sent, received>>

\* The release store of tail.
Retire ==
  /\ popping = "retire"
  /\ tail' = tail + 1
  /\ received' = Append(received, taken)
  /\ popping' = "outside"
  /\ UNCHANGED <<buffer, head, knownTail, knownHead, lock, at, taken, sent>>

Emplace(p) == Enter(p) \/ CheckAny(p) \/ Write(p) \/ Publish(p)
PopStep == LookAny \/ Move \/ Retire

QueueNext == PopStep \/ \E p \in Producers : Emplace(p)

\* Threads are scheduled, and an acquire load does not return an old value for
\* ever.  The mutex is not assumed to be fair.
QueueFairness ==
  /\ WF_queueVars(LookNewest)
  /\ WF_queueVars(Move \/ Retire)
  /\ \A p \in Producers :
       /\ WF_queueVars(Emplace(p))
       /\ SF_queueVars(CheckNewest(p))

QueueSpec == QueueInit /\ [][QueueNext]_queueVars /\ QueueFairness

-----------------------------------------------------------------------------
(* Properties.                                                             *)

\* Types, and how far each side's knowledge and the two indices can be apart.
QueueTypeOK ==
  /\ buffer \in [0 .. Capacity -> Item \cup {NoOne}]
  /\ tail \in Nat
  /\ head \in tail .. tail + Capacity
  /\ knownTail \in 0 .. tail
  /\ knownHead \in 0 .. head
  /\ lock \in Producers \cup {NoOne}
  /\ at \in [Producers -> {"outside", "check", "write", "publish"}]
  /\ popping \in {"outside", "move", "retire"}
  /\ taken \in Item \cup {NoOne}
  /\ sent \in [Producers -> 0 .. MaxItems]
  /\ received \in Seq(Item)

\* No slot is written by two producers at once, or by a producer while the
\* consumer moves out of it: the release/acquire pairs and the mutex are all
\* that keeps these unsynchronised accesses apart.
NoSlotRace ==
  /\ \A p, q \in Producers : at[p] = "write" /\ at[q] \in {"write", "publish"} => p = q
  /\ \A p \in Producers : at[p] = "write" /\ popping = "move" => SlotOf(head) # SlotOf(tail)

\* The published slots, oldest first.
Content == [i \in 1 .. head - tail |-> buffer[SlotOf(tail + i - 1)]]

Fifo == INSTANCE BoundedFIFO WITH fifo <- Content

\* The queue is a bounded FIFO, whatever old values the acquire loads return:
\* nothing is lost, duplicated or reordered, and a push that is refused or a pop
\* that finds nothing leaves it as it was.
ImplementsFIFO == Fifo!FifoSafety

\* And it is live: what was pushed is popped, and a producer that calls emplace
\* again whenever it is refused gets its item in.
ImplementsProgress == Fifo!FifoFairness
=============================================================================
