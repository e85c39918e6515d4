---------------------------- MODULE QueueThreads ----------------------------
(***************************************************************************)
(* One queue_class shared by the threads of one SHP process, at the        *)
(* granularity of its mutex.                                               *)
(*                                                                         *)
(*   client: Producers are the sensor threads (event_on / event_off call   *)
(*           add), the main thread runs process_event and, when it fails,  *)
(*           tears everything down and exits.                              *)
(*   proxy, head: the single producer is working_thread, the main thread   *)
(*           takes messages out and never fails (ConsumerMayFail = FALSE). *)
(*                                                                         *)
(* A message is a number: the n-th message_class created by a producer.    *)
(* Numbers are never reused, so that a dangling pointer shows.             *)
(***************************************************************************)
EXTENDS Queue, Sequences, FiniteSets

CONSTANTS Producers,        \* threads that call queue_class::add
          Main,             \* the thread that peeks, removes and tears down
          NoThread,         \* owner of a free mutex
          MaxMessages,      \* bound on the messages the producers create
          ConsumerMayFail   \* TRUE for the client's main thread

ASSUME ThreadAssumption ==
  /\ Main \notin Producers
  /\ NoThread \notin Producers \cup {Main}
  /\ MaxMessages \in Nat
  /\ ConsumerMayFail \in BOOLEAN

VARIABLES
  map,        \* message_map: id -> message
  last,       \* message_id
  mutex,      \* owner of map_mutex
  pc,         \* where each thread is
  hand,       \* hand[p]: the message p has created and not yet stored, or 0
  held,       \* the main thread's local message_id
  ptr,        \* the main thread's local p_message, 0 for NULL
  live,       \* messages created and not yet deleted
  created,    \* how many messages have been created
  added,      \* history: the messages passed to add, in the order stored
  removed,    \* history: how many messages remove() has erased
  leaked,     \* history: messages lost with a thread that was cancelled
  cancelled,  \* producers that pthread_cancel was called for
  joining     \* the producer the main thread waits for in pthread_join

vars == <<map, last, mutex, pc, hand, held, ptr, live, created, added,
          removed, leaked, cancelled, joining>>

shared == <<map, last, live, added, removed>>     \* what the mutex protects
locals == <<hand, held, ptr, created, leaked>>
teardown == <<cancelled, joining>>

Threads == Producers \cup {Main}

ProducerPC == {"idle", "made", "bump", "insert", "unlock", "stopped"}
MainPC == {"loop", "peek", "peeked", "use", "remove", "delete", "erase",
           "removed", "teardown", "destroy", "purge", "purged", "done"}

ProducerInside == {"bump", "insert", "unlock"}
MainInside == {"peek", "peeked", "delete", "erase", "removed", "purge", "purged"}

\* Fault: a polling loop without a cancellation point.
CancelPointsNotInLoop == {"made"}

(***************************************************************************)
(* Deferred cancellation acts at cancellation points only: the sleeps of   *)
(* the polling loop and of do_task, and the prints between the creation of *)
(* a message and the call of add.  Nothing between pthread_mutex_lock and  *)
(* pthread_mutex_unlock in add is one.                                     *)
(***************************************************************************)
CancelPoints == {"idle", "made"}

Init ==
  /\ map = NoEntries
  /\ last = 0
  /\ mutex = NoThread
  /\ pc = [t \in Threads |-> IF t = Main THEN "loop" ELSE "idle"]
  /\ hand = [p \in Producers |-> 0]
  /\ held = 0
  /\ ptr = 0
  /\ live = {}
  /\ created = 0
  /\ added = << >>
  /\ removed = 0
  /\ leaked = {}
  /\ cancelled = {}
  /\ joining = NoThread

Goto(t, label) == pc' = [pc EXCEPT ![t] = label]

Lock(t, from, to) ==
  /\ pc[t] = from
  /\ mutex = NoThread
  /\ mutex' = t
  /\ Goto(t, to)
  /\ UNCHANGED <<shared, locals, teardown>>

Unlock(t, from, to) ==
  /\ pc[t] = from
  /\ mutex' = NoThread
  /\ Goto(t, to)
  /\ UNCHANGED <<shared, locals, teardown>>

-----------------------------------------------------------------------------
(***************************************************************************)
(* Producers.                                                              *)
(***************************************************************************)
\* event_on / event_off (client) or recv_message (proxy, head): new message
Make(p) ==
  /\ pc[p] = "idle"
  /\ created < MaxMessages
  /\ created' = created + 1
  /\ hand' = [hand EXCEPT ![p] = created + 1]
  /\ live' = live \cup {created + 1}
  /\ Goto(p, "made")
  /\ UNCHANGED <<map, last, mutex, held, ptr, added, removed, leaked, teardown>>

\* nothing happened: usleep in working_thread or delay in do_task, then again
Poll(p) == pc[p] = "idle" /\ UNCHANGED vars

\* Fault: add does not wait for the mutex.
AddLockWithoutWaiting(p) ==
  /\ pc[p] = "made"
  /\ mutex' = p
  /\ Goto(p, "bump")
  /\ UNCHANGED <<shared, locals, teardown>>

\* queue_class::add
AddLock(p) == Lock(p, "made", "bump")

\* Fault: the id is used without being incremented.
AddBumpForgotten(p) ==
  /\ pc[p] = "bump"
  /\ Goto(p, "insert")
  /\ UNCHANGED <<map, last, mutex, live, added, removed, locals, teardown>>

AddBump(p) ==
  /\ pc[p] = "bump"
  /\ last' = NextId(last)
  /\ Goto(p, "insert")
  /\ UNCHANGED <<map, mutex, live, added, removed, locals, teardown>>

AddInsert(p) ==
  /\ pc[p] = "insert"
  /\ map' = InsertEntry(map, last, hand[p])
  /\ added' = Append(added, hand[p])
  /\ hand' = [hand EXCEPT ![p] = 0]
  /\ Goto(p, "unlock")
  /\ UNCHANGED <<last, mutex, held, ptr, live, created, removed, leaked, teardown>>

AddUnlock(p) == Unlock(p, "unlock", "idle")

\* a pending pthread_cancel takes effect
Stop(p) ==
  /\ p \in cancelled
  /\ pc[p] \in CancelPoints
  /\ leaked' = IF hand[p] = 0 THEN leaked ELSE leaked \cup {hand[p]}
  /\ hand' = [hand EXCEPT ![p] = 0]
  /\ Goto(p, "stopped")
  /\ UNCHANGED <<shared, mutex, held, ptr, created, teardown>>

-----------------------------------------------------------------------------
(***************************************************************************)
(* The main thread: peek, use the message without the mutex, remove.       *)
(***************************************************************************)
PeekLock == Lock(Main, "loop", "peek")

\* Fault: peek takes the message out and deletes it.
PeekReadPops ==
  /\ pc[Main] = "peek"
  /\ held' = FirstId(map)
  /\ ptr' = IF DOMAIN map = {} THEN 0 ELSE map[FirstId(map)]
  /\ map' = EraseEntry(map, FirstId(map))
  /\ live' = live \ {ptr'}
  /\ Goto(Main, "peeked")
  /\ UNCHANGED <<last, mutex, hand, created, added, removed, leaked, teardown>>

PeekRead ==
  /\ pc[Main] = "peek"
  /\ held' = FirstId(map)
  /\ ptr' = IF DOMAIN map = {} THEN 0 ELSE map[FirstId(map)]
  /\ Goto(Main, "peeked")
  /\ UNCHANGED <<shared, mutex, hand, created, leaked, teardown>>

\* Fault: the first id is taken for "empty" as well.
PeekUnlockOffByOne == Unlock(Main, "peeked", IF held <= 1 THEN "loop" ELSE "use")

PeekUnlock == Unlock(Main, "peeked", IF held = 0 THEN "loop" ELSE "use")

\* send_and_receive (client, proxy) or show_message_event (head) succeeded;
\* the proxy ignores the result, so for it this is the only outcome
UseDone ==
  /\ pc[Main] = "use"
  /\ Goto(Main, "remove")
  /\ UNCHANGED <<shared, mutex, locals, teardown>>

\* the client's process_event failed: the loop of main ends
UseFailed ==
  /\ ConsumerMayFail
  /\ pc[Main] = "use"
  /\ Goto(Main, "teardown")
  /\ UNCHANGED <<shared, mutex, locals, teardown>>

RemoveLock == Lock(Main, "remove", "delete")

\* Fault: remove erases the entry without deleting the message.
RemoveDeleteForgotten ==
  /\ pc[Main] = "delete"
  /\ Goto(Main, IF held \in DOMAIN map THEN "erase" ELSE "removed")
  /\ UNCHANGED <<shared, mutex, locals, teardown>>

RemoveDelete ==
  /\ pc[Main] = "delete"
  /\ IF held \in DOMAIN map
     THEN live' = live \ {map[held]} /\ Goto(Main, "erase")
     ELSE Goto(Main, "removed") /\ UNCHANGED live
  /\ UNCHANGED <<map, last, mutex, added, removed, locals, teardown>>

RemoveErase ==
  /\ pc[Main] = "erase"
  /\ map' = EraseEntry(map, held)
  /\ removed' = removed + 1
  /\ Goto(Main, "removed")
  /\ UNCHANGED <<last, mutex, live, added, locals, teardown>>

RemoveUnlock == Unlock(Main, "removed", "loop")

-----------------------------------------------------------------------------
(***************************************************************************)
(* Teardown: delete p_sensor_manager cancels and joins the sensor threads  *)
(* one after the other, then delete p_queue frees what is left.            *)
(***************************************************************************)
CancelNext(p) ==
  /\ pc[Main] = "teardown"
  /\ joining = NoThread
  /\ p \notin cancelled
  /\ cancelled' = cancelled \cup {p}
  /\ joining' = p
  /\ UNCHANGED <<shared, mutex, pc, locals>>

\* Fault: the destructor of a sensor cancels its thread and does not join it.
JoinWithoutWaiting(p) ==
  /\ pc[Main] = "teardown"
  /\ joining = p
  /\ joining' = NoThread
  /\ UNCHANGED <<shared, mutex, pc, locals, cancelled>>

Join(p) ==
  /\ pc[Main] = "teardown"
  /\ joining = p
  /\ pc[p] = "stopped"
  /\ joining' = NoThread
  /\ UNCHANGED <<shared, mutex, pc, locals, cancelled>>

SensorsDeleted ==
  /\ pc[Main] = "teardown"
  /\ joining = NoThread
  /\ cancelled = Producers
  /\ Goto(Main, "destroy")
  /\ UNCHANGED <<shared, mutex, locals, teardown>>

DestroyLock == Lock(Main, "destroy", "purge")

DestroyPurge ==
  /\ pc[Main] = "purge"
  /\ live' = live \ {map[i] : i \in DOMAIN map}
  /\ map' = NoEntries
  /\ Goto(Main, "purged")
  /\ UNCHANGED <<last, mutex, added, removed, locals, teardown>>

DestroyUnlock == Unlock(Main, "purged", "done")

\* the process has exited
Exited == pc[Main] = "done" /\ UNCHANGED vars

-----------------------------------------------------------------------------
InAdd(p) == AddBump(p) \/ AddInsert(p) \/ AddUnlock(p)

ProducerStep(p) == Poll(p) \/ Make(p) \/ AddLock(p) \/ InAdd(p) \/ Stop(p)

MainLock == PeekLock \/ RemoveLock \/ DestroyLock

MainRest ==
  \/ PeekRead \/ PeekUnlock \/ UseDone \/ UseFailed
  \/ RemoveDelete \/ RemoveErase \/ RemoveUnlock
  \/ \E p \in Producers : CancelNext(p) \/ Join(p)
  \/ SensorsDeleted \/ DestroyPurge \/ DestroyUnlock

Next == MainLock \/ MainRest \/ Exited \/ \E p \in Producers : ProducerStep(p)

(***************************************************************************)
(* Whoever waits for the mutex gets it eventually: a main thread that      *)
(* finds the queue empty sleeps half a second before it asks again, and    *)
(* add and peek hold the mutex for a few instructions.  Every turn of a    *)
(* sensor's loop passes a sleep, where a pending cancellation acts.        *)
(* Nothing makes a sensor produce.                                         *)
(***************************************************************************)
Fairness ==
  /\ WF_vars(MainRest)
  /\ SF_vars(MainLock)
  /\ \A p \in Producers : /\ SF_vars(AddLock(p))
                          /\ WF_vars(InAdd(p))
                          /\ SF_vars(Stop(p))

Spec == Init /\ [][Next]_vars

FairSpec == Spec /\ Fairness
-----------------------------------------------------------------------------
(***************************************************************************)
(* Properties.                                                             *)
(***************************************************************************)
MessageIds == 1 .. MaxMessages

TypeOK ==
  /\ DOMAIN map \subseteq Nat
  /\ \A i \in DOMAIN map : map[i] \in MessageIds
  /\ last \in Nat
  /\ mutex \in Threads \cup {NoThread}
  /\ pc \in [Threads -> ProducerPC \cup MainPC]
  /\ pc[Main] \in MainPC
  /\ \A p \in Producers : pc[p] \in ProducerPC
  /\ hand \in [Producers -> MessageIds \cup {0}]
  /\ held \in Nat
  /\ ptr \in MessageIds \cup {0}
  /\ live \subseteq MessageIds
  /\ created \in 0 .. MaxMessages
  /\ added \in Seq(MessageIds)
  /\ removed \in Nat
  /\ leaked \subseteq MessageIds
  /\ cancelled \subseteq Producers
  /\ joining \in Producers \cup {NoThread}

\* Destruction has emptied the map.
Destroyed == pc[Main] \in {"purged", "done"}

\* The messages in the queue, in the order in which peek would report them.
NthId(n) ==
  CHOOSE id \in DOMAIN map : Cardinality({j \in DOMAIN map : j <= id}) = n

Items == [n \in 1 .. Cardinality(DOMAIN map) |-> map[NthId(n)]]

\* The locked std::map with its ids, its peek and its remove behaves as a FIFO
\* queue to which producers put and from which the main thread takes
\* (queue.cpp: add, peek, remove and the destructor).
Fifo == INSTANCE FifoQueue
          WITH Message <- MessageIds, items <- Items, open <- ~Destroyed

ImplementsFifo == Fifo!Spec

\* While the main thread sends or shows the message it peeked, without the
\* mutex, that message has not been deleted (process_event in
\* client_process_event.cpp, the loops of proxy_main.cpp and head_main.cpp).
HeldIsLive == pc[Main] = "use" => ptr \in live

\* The message that remove erases is the one the main thread peeked and used,
\* and it is the oldest one, whatever was added in between.
RemovesWhatItUsed ==
  [][removed' # removed => removed < Len(added) /\ added[removed'] = ptr]_vars

\* Every message that is not deleted is owned once: by the thread that is
\* about to add it, by the queue, or it went down with a cancelled thread.
\* After the exit nothing but the latter is left.
InHand == {hand[p] : p \in Producers} \ {0}
Queued == {map[i] : i \in DOMAIN map}

OneOwner ==
  /\ pc[Main] # "erase" => live = InHand \cup Queued \cup leaked
  /\ InHand \cap Queued = {}
  /\ leaked \cap (InHand \cup Queued) = {}
  /\ \A i, j \in DOMAIN map : map[i] = map[j] => i = j
  /\ \A p, q \in Producers : hand[p] = hand[q] /\ hand[p] # 0 => p = q

\* Once delete p_sensor_manager has returned, no sensor thread runs any more,
\* so nobody touches the queue that delete p_queue then destroys
\* (client_main.cpp:146-147).
QuietTeardown ==
  pc[Main] \in {"destroy", "purge", "purged", "done"}
    => \A p \in Producers : pc[p] = "stopped"

\* The teardown never waits for the mutex: no thread ends with it, the main thread
\* does not have it while it waits in pthread_join, and the destructor of the queue
\* finds it free (sensor_event.cpp:64-66, queue.cpp).
MutexIsLeftFree ==
  /\ \A p \in Producers : pc[p] = "stopped" => mutex # p
  /\ joining # NoThread => mutex # Main
  /\ pc[Main] = "destroy" => mutex = NoThread

\* A teardown that has begun runs to the exit of the process: no sensor thread
\* is cancelled while it holds the mutex that the destructor takes.
TeardownCompletes == (pc[Main] = "teardown") ~> (pc[Main] = "done")

\* Every message added is taken out and used, unless the consumer fails first,
\* which that of the proxy and of the head never does.
Delivered ==
  \A n \in MessageIds :
    (Len(added) >= n) ~> (removed >= n \/ pc[Main] \in {"teardown", "done"})
-----------------------------------------------------------------------------
(***************************************************************************)
(* The inductive invariant.  It holds when ids do not wrap, which is to    *)
(* say when fewer than IdLimit messages are ever created.                  *)
(***************************************************************************)
\* The mutex is held by the one thread whose pc is between pthread_mutex_lock
\* and pthread_mutex_unlock, and by nobody when there is none.
Inside(t) == pc[t] \in IF t = Main THEN MainInside ELSE ProducerInside

MutualExclusion == \A t \in Threads : Inside(t) <=> mutex = t

\* A thread has stopped only if it was cancelled, the main thread has joined
\* every thread it cancelled but the one it is waiting for, and it leaves the
\* teardown when there is none left.
TeardownOrder ==
  /\ \A p \in Producers : pc[p] = "stopped" => p \in cancelled
  /\ \A p \in cancelled : p # joining => pc[p] = "stopped"
  /\ joining # NoThread => joining \in cancelled /\ pc[Main] = "teardown"
  /\ pc[Main] \in {"destroy", "purge", "purged", "done"} => cancelled = Producers

\* A message is in the hands of one thread until it is in added or leaked, and
\* no message is added twice.
Creation ==
  /\ \A p \in Producers :
        /\ hand[p] # 0 <=> pc[p] \in {"made", "bump", "insert"}
        /\ hand[p] \in 0 .. created
        /\ hand[p] \notin leaked
        /\ \A i \in 1 .. Len(added) : added[i] # hand[p]
        /\ \A q \in Producers : hand[p] = hand[q] /\ hand[p] # 0 => p = q
  /\ leaked \subseteq 1 .. created
  /\ \A i \in 1 .. Len(added) : added[i] \in (1 .. created) \ leaked
  /\ \A i, j \in 1 .. Len(added) : added[i] = added[j] => i = j

\* The ids in the map are the positions in added of what was not yet removed;
\* message_id is the last of them, one ahead between its increment and insert.
Window ==
  /\ removed <= Len(added)
  /\ DOMAIN map = IF Destroyed THEN {} ELSE removed + 1 .. Len(added)
  /\ \A i \in DOMAIN map : map[i] = added[i]
  /\ last = IF mutex \in Producers /\ pc[mutex] = "insert"
            THEN Len(added) + 1 ELSE Len(added)

\* What the main thread has peeked is the oldest entry until it removes it.
HasMessage == \/ pc[Main] \in {"use", "remove", "delete", "erase"}
              \/ pc[Main] = "peeked" /\ held # 0

Holding ==
  HasMessage => held = removed + 1 /\ held \in DOMAIN map /\ ptr = map[held]

\* The messages not yet deleted are those with an owner; remove deletes the
\* message just before it erases the entry.
LiveMessages == live = (InHand \cup Queued \cup leaked)
                         \ IF pc[Main] = "erase" THEN {ptr} ELSE {}

IInv == /\ TypeOK /\ MutualExclusion /\ TeardownOrder
        /\ Creation /\ Window /\ Holding /\ LiveMessages
=============================================================================
