---------------------------- MODULE QueueProofs ----------------------------
(***************************************************************************)
(* What TLAPS proves of QueueThreads, for any set of producers, any bound  *)
(* on the messages and any number of ids.                                  *)
(***************************************************************************)
EXTENDS QueueThreads, FiniteSetTheorems, SequenceTheorems, WellFoundedInduction,
        TLAPS

(***************************************************************************)
(* Facts about the data structure.                                         *)
(***************************************************************************)

\* A nonempty map has a smallest id, and begin() finds it.
LEMMA FirstIdIsSmallest ==
  ASSUME NEW entries, DOMAIN entries \subseteq Nat, DOMAIN entries # {}
  PROVE  /\ FirstId(entries) \in DOMAIN entries
         /\ \A j \in DOMAIN entries : FirstId(entries) <= j
<1> DEFINE Less == {ss \in Nat \X Nat : ss[1] < ss[2]}
<1>1. OpToRel(<, Nat) = Less
  BY Zenon DEF OpToRel
<1>2. IsWellFoundedOn(Less, Nat)
  BY <1>1, NatLessThanWellFounded, Zenon
<1>3. PICK i \in DOMAIN entries : \A j \in DOMAIN entries : <<j, i>> \notin Less
  <2> HIDE DEF Less
  <2> QED  BY <1>2, WFMin
<1>4. ASSUME NEW j \in DOMAIN entries
      PROVE  i <= j
  <2>1. <<j, i>> \notin Less
    BY <1>3
  <2>2. ~ (j < i)
    BY <2>1
  <2> QED  BY <2>2
<1> QED  BY <1>4 DEF FirstId

LEMMA NextIdType == ASSUME NEW n \in Nat PROVE NextId(n) \in Nat
BY IdLimitAssumption DEF NextId

LEMMA InsertEntryType ==
  ASSUME NEW entries, NEW id \in Nat, NEW S, NEW m \in S,
         DOMAIN entries \subseteq Nat,
         \A i \in DOMAIN entries : entries[i] \in S
  PROVE  /\ DOMAIN InsertEntry(entries, id, m) \subseteq Nat
         /\ \A i \in DOMAIN InsertEntry(entries, id, m) :
               InsertEntry(entries, id, m)[i] \in S
BY DEF InsertEntry

-----------------------------------------------------------------------------
(***************************************************************************)
(* Type correctness.  That what add stores is a message needs one more     *)
(* conjunct: a thread on its way through add has a message in its hand.    *)
(***************************************************************************)
TypeInv ==
  /\ TypeOK
  /\ \A p \in Producers : pc[p] \in {"made", "bump", "insert"} => hand[p] # 0

LEMMA TypeInvInit == Init => TypeInv
BY ThreadAssumption
   DEF Init, TypeInv, TypeOK, NoEntries, Threads, ProducerPC, MainPC, MessageIds

LEMMA TypeInvNext == TypeInv /\ [Next]_vars => TypeInv'
<1> SUFFICES ASSUME TypeInv, [Next]_vars PROVE TypeInv'
  OBVIOUS
<1> USE ThreadAssumption DEF TypeInv, TypeOK, Threads, ProducerPC, MainPC,
        MessageIds, Goto, Lock, Unlock, shared, locals, teardown
<1>1. ASSUME NEW p \in Producers, Make(p) PROVE TypeInv'
  BY <1>1 DEF Make
<1>2. ASSUME NEW p \in Producers, AddLock(p) PROVE TypeInv'
  BY <1>2 DEF AddLock
<1>3. ASSUME NEW p \in Producers, AddBump(p) PROVE TypeInv'
  BY <1>3, NextIdType DEF AddBump
<1>4. ASSUME NEW p \in Producers, AddInsert(p) PROVE TypeInv'
  <2>1. hand[p] \in MessageIds
    BY <1>4 DEF AddInsert
  <2>2. /\ DOMAIN map' \subseteq Nat
        /\ \A i \in DOMAIN map' : map'[i] \in MessageIds
    BY <1>4, <2>1, InsertEntryType DEF AddInsert
  <2>3. added' \in Seq(MessageIds)
    BY <1>4, <2>1 DEF AddInsert
  <2> QED  BY <1>4, <2>2, <2>3 DEF AddInsert
<1>5. ASSUME NEW p \in Producers, AddUnlock(p) PROVE TypeInv'
  BY <1>5 DEF AddUnlock
<1>6. ASSUME NEW p \in Producers, Stop(p) PROVE TypeInv'
  BY <1>6 DEF Stop
<1>7. CASE PeekLock
  BY <1>7 DEF PeekLock
<1>8. CASE PeekRead
  <2>1. CASE DOMAIN map = {}
    BY <1>8, <2>1 DEF PeekRead, FirstId
  <2>2. CASE DOMAIN map # {}
    <3>1. FirstId(map) \in DOMAIN map
      BY <2>2, FirstIdIsSmallest
    <3> QED  BY <1>8, <2>2, <3>1 DEF PeekRead
  <2> QED  BY <2>1, <2>2
<1>9. CASE PeekUnlock
  BY <1>9 DEF PeekUnlock
<1>10. CASE UseDone \/ UseFailed
  BY <1>10 DEF UseDone, UseFailed
<1>11. CASE RemoveLock
  BY <1>11 DEF RemoveLock
<1>12. CASE RemoveDelete
  BY <1>12 DEF RemoveDelete
<1>13. CASE RemoveErase
  BY <1>13 DEF RemoveErase, EraseEntry
<1>14. CASE RemoveUnlock
  BY <1>14 DEF RemoveUnlock
<1>15. ASSUME NEW p \in Producers, CancelNext(p) \/ Join(p) PROVE TypeInv'
  BY <1>15 DEF CancelNext, Join
<1>16. CASE SensorsDeleted
  BY <1>16 DEF SensorsDeleted
<1>17. CASE DestroyLock
  BY <1>17 DEF DestroyLock
<1>18. CASE DestroyPurge
  BY <1>18 DEF DestroyPurge, NoEntries
<1>19. CASE DestroyUnlock
  BY <1>19 DEF DestroyUnlock
<1>20. CASE UNCHANGED vars
  BY <1>20 DEF vars
<1> HIDE DEF TypeInv
<1> QED
  BY <1>1, <1>2, <1>3, <1>4, <1>5, <1>6, <1>7, <1>8, <1>9, <1>10, <1>11, <1>12,
     <1>13, <1>14, <1>15, <1>16, <1>17, <1>18, <1>19, <1>20
  DEF Next, MainLock, MainRest, ProducerStep, InAdd, Poll, Exited

\* Every variable keeps its type, whatever the threads do and even when the
\* ids wrap (queue.cpp, client_main.cpp, sensor_event.cpp).
THEOREM TypeCorrect == Spec => []TypeOK
<1>1. TypeInv => TypeOK
  BY DEF TypeInv
<1> QED  BY <1>1, TypeInvInit, TypeInvNext, PTL DEF Spec

-----------------------------------------------------------------------------
(***************************************************************************)
(* Locking.  The pc of a thread says whether it owns the mutex.            *)
(***************************************************************************)
LEMMA LockingInit == Init => MutualExclusion
BY ThreadAssumption
   DEF Init, MutualExclusion, Inside, Threads, ProducerInside, MainInside

LEMMA LockingNext == TypeInv /\ MutualExclusion /\ [Next]_vars => MutualExclusion'
<1> SUFFICES ASSUME TypeInv, MutualExclusion, [Next]_vars PROVE MutualExclusion'
  OBVIOUS
<1>pc. pc \in [Threads -> ProducerPC \cup MainPC]
  BY DEF TypeInv, TypeOK
<1> USE <1>pc, ThreadAssumption DEF MutualExclusion, Inside, Threads,
        ProducerInside, MainInside, Goto, Lock, Unlock
<1>1. ASSUME NEW p \in Producers,
             Make(p) \/ AddLock(p) \/ AddBump(p) \/ AddInsert(p) \/ AddUnlock(p)
      PROVE  MutualExclusion'
  BY <1>1 DEF Make, AddLock, AddBump, AddInsert, AddUnlock
<1>2. ASSUME NEW p \in Producers, Stop(p) PROVE MutualExclusion'
  BY <1>2 DEF Stop, CancelPoints
<1>3. CASE MainLock
  BY <1>3 DEF MainLock, PeekLock, RemoveLock, DestroyLock
<1>4. CASE PeekRead \/ PeekUnlock \/ UseDone \/ UseFailed
  BY <1>4 DEF PeekRead, PeekUnlock, UseDone, UseFailed
<1>5. CASE RemoveDelete \/ RemoveErase \/ RemoveUnlock
  BY <1>5 DEF RemoveDelete, RemoveErase, RemoveUnlock
<1>6. ASSUME NEW p \in Producers, CancelNext(p) \/ Join(p) PROVE MutualExclusion'
  BY <1>6 DEF CancelNext, Join
<1>7. CASE SensorsDeleted \/ DestroyPurge \/ DestroyUnlock
  BY <1>7 DEF SensorsDeleted, DestroyPurge, DestroyUnlock
<1>8. CASE UNCHANGED vars
  BY <1>8 DEF vars
<1> HIDE DEF MutualExclusion
<1> QED
  BY <1>1, <1>2, <1>3, <1>4, <1>5, <1>6, <1>7, <1>8
  DEF Next, MainRest, ProducerStep, InAdd, Poll, Exited

\* At any time at most one thread is between pthread_mutex_lock and
\* pthread_mutex_unlock of map_mutex (queue.cpp).
THEOREM MutexCorrect == Spec => []MutualExclusion
BY TypeInvInit, TypeInvNext, LockingInit, LockingNext, PTL DEF Spec

-----------------------------------------------------------------------------
(***************************************************************************)
(* Teardown.                                                               *)
(***************************************************************************)
LEMMA TeardownInit == Init => TeardownOrder
BY ThreadAssumption DEF Init, TeardownOrder, Threads

LEMMA TeardownNext == TypeInv /\ TeardownOrder /\ [Next]_vars => TeardownOrder'
<1> SUFFICES ASSUME TypeInv, TeardownOrder, [Next]_vars PROVE TeardownOrder'
  OBVIOUS
<1>pc. /\ pc \in [Threads -> ProducerPC \cup MainPC]
       /\ cancelled \subseteq Producers
       /\ joining \in Producers \cup {NoThread}
  BY DEF TypeInv, TypeOK
<1> USE <1>pc, ThreadAssumption DEF TeardownOrder, Threads, Goto, Lock, Unlock, teardown
<1>1. ASSUME NEW p \in Producers,
             Make(p) \/ AddLock(p) \/ AddBump(p) \/ AddInsert(p) \/ AddUnlock(p)
      PROVE  TeardownOrder'
  BY <1>1 DEF Make, AddLock, AddBump, AddInsert, AddUnlock
<1>2. ASSUME NEW p \in Producers, Stop(p) PROVE TeardownOrder'
  BY <1>2 DEF Stop
<1>3. CASE MainLock
  BY <1>3 DEF MainLock, PeekLock, RemoveLock, DestroyLock
<1>4. CASE PeekRead \/ PeekUnlock \/ UseDone \/ UseFailed
  BY <1>4 DEF PeekRead, PeekUnlock, UseDone, UseFailed
<1>5. CASE RemoveDelete \/ RemoveErase \/ RemoveUnlock
  BY <1>5 DEF RemoveDelete, RemoveErase, RemoveUnlock
<1>6. ASSUME NEW p \in Producers, CancelNext(p) \/ Join(p) PROVE TeardownOrder'
  BY <1>6 DEF CancelNext, Join
<1>7. CASE SensorsDeleted
  BY <1>7 DEF SensorsDeleted
<1>8. CASE DestroyPurge \/ DestroyUnlock
  BY <1>8 DEF DestroyPurge, DestroyUnlock
<1>9. CASE UNCHANGED vars
  BY <1>9 DEF vars
<1> HIDE DEF TeardownOrder
<1> QED
  BY <1>1, <1>2, <1>3, <1>4, <1>5, <1>6, <1>7, <1>8, <1>9
  DEF Next, MainRest, ProducerStep, InAdd, Poll, Exited

\* When the queue is being deleted every sensor thread has been joined, so none
\* can touch the queue any more (client_main.cpp:146-147).
THEOREM TeardownIsQuiet == Spec => []QuietTeardown
<1>1. TypeInv /\ TeardownOrder => QuietTeardown
  BY ThreadAssumption DEF TypeInv, TypeOK, TeardownOrder, QuietTeardown
<1> QED
  BY <1>1, TypeInvInit, TypeInvNext, TeardownInit, TeardownNext, PTL DEF Spec

\* Deferred cancellation cannot end a thread inside add, so the mutex is free when
\* the destructor of the queue takes it, and nobody that the main thread joins
\* waits for the main thread: the safe half of TeardownCompletes.
THEOREM MutexIsFreeForTeardown == Spec => []MutexIsLeftFree
<1>1. TypeInv /\ MutualExclusion /\ TeardownOrder => MutexIsLeftFree
  <2> SUFFICES ASSUME TypeInv, MutualExclusion, TeardownOrder PROVE MutexIsLeftFree
    OBVIOUS
  <2>1. mutex \in Producers \cup {Main, NoThread}
    BY DEF TypeInv, TypeOK, Threads
  <2>2. \A t \in Threads : mutex = t => Inside(t)
    BY DEF MutualExclusion
  <2>3. \A p \in Producers : pc[p] = "stopped" => mutex # p
    BY <2>2, ThreadAssumption DEF Inside, Threads, ProducerInside
  <2>4. pc[Main] \in {"teardown", "destroy"} => mutex # Main
    BY <2>2 DEF Inside, Threads, MainInside
  <2>5. joining # NoThread => pc[Main] = "teardown"
    BY DEF TeardownOrder
  <2>6. pc[Main] = "destroy" => \A p \in Producers : pc[p] = "stopped"
    BY <2>5, ThreadAssumption DEF TypeInv, TypeOK, TeardownOrder
  <2> QED
    BY <2>1, <2>3, <2>4, <2>5, <2>6 DEF MutexIsLeftFree
<1> QED
  BY <1>1, TypeInvInit, TypeInvNext, LockingInit, LockingNext, TeardownInit,
     TeardownNext, PTL DEF Spec

-----------------------------------------------------------------------------
(***************************************************************************)
(* Creation: messages are told apart, and none is added twice.             *)
(***************************************************************************)
LEMMA CreationInit == Init => Creation
BY ThreadAssumption DEF Init, Creation, Threads

LEMMA CreationNext == TypeInv /\ Creation /\ [Next]_vars => Creation'
<1> SUFFICES ASSUME TypeInv, Creation, [Next]_vars PROVE Creation'
  OBVIOUS
<1>ty. /\ pc \in [Threads -> ProducerPC \cup MainPC]
       /\ \A p \in Producers : pc[p] \in ProducerPC
       /\ hand \in [Producers -> MessageIds \cup {0}]
       /\ created \in 0 .. MaxMessages
       /\ added \in Seq(MessageIds)
  BY DEF TypeInv, TypeOK
<1> USE <1>ty, ThreadAssumption
    DEF Threads, ProducerPC, MessageIds, Goto, Lock, Unlock, shared, locals
<1>1. ASSUME NEW p \in Producers, Make(p) PROVE Creation'
  BY <1>1 DEF Make, Creation
<1>2. ASSUME NEW p \in Producers, AddLock(p) \/ AddBump(p) \/ AddUnlock(p)
      PROVE  Creation'
  BY <1>2 DEF AddLock, AddBump, AddUnlock, Creation
<1>3. ASSUME NEW p \in Producers, AddInsert(p) PROVE Creation'
  <2>1. /\ hand[p] \in (1 .. created) \ leaked
        /\ \A i \in 1 .. Len(added) : added[i] # hand[p]
    BY <1>3 DEF AddInsert, Creation
  <2>2. /\ Len(added') = Len(added) + 1
        /\ \A i \in 1 .. Len(added) : added'[i] = added[i]
        /\ added'[Len(added) + 1] = hand[p]
    BY <1>3, <2>1 DEF AddInsert
  <2>3. /\ hand' = [hand EXCEPT ![p] = 0]
        /\ pc' = [pc EXCEPT ![p] = "unlock"]
        /\ UNCHANGED <<created, leaked>>
    BY <1>3 DEF AddInsert
  <2>a. /\ \A i \in 1 .. Len(added) : added[i] \in (1 .. created) \ leaked
        /\ \A i, j \in 1 .. Len(added) : added[i] = added[j] => i = j
    BY DEF Creation
  <2>n. /\ Len(added) \in Nat
        /\ \A i \in 1 .. Len(added') : i \in 1 .. Len(added) \/ i = Len(added) + 1
    BY <2>2
  <2>4. \A i \in 1 .. Len(added') : added'[i] \in (1 .. created') \ leaked'
    BY <2>1, <2>2, <2>3, <2>a, <2>n
  <2>5. \A i, j \in 1 .. Len(added') : added'[i] = added'[j] => i = j
    BY <2>1, <2>2, <2>a, <2>n
  <2>6. ASSUME NEW q \in Producers
        PROVE  /\ hand'[q] # 0 <=> pc'[q] \in {"made", "bump", "insert"}
               /\ hand'[q] \in 0 .. created'
               /\ hand'[q] \notin leaked'
               /\ \A i \in 1 .. Len(added') : added'[i] # hand'[q]
               /\ \A r \in Producers : hand'[q] = hand'[r] /\ hand'[q] # 0 => q = r
    <3>1. CASE q = p
      <4>1. hand'[q] = 0 /\ pc'[q] = "unlock"
        BY <2>3, <3>1
      <4>2. 0 \notin leaked' /\ 0 \in 0 .. created'
        BY <2>3 DEF Creation
      <4> QED  BY <2>4, <4>1, <4>2
    <3>2. CASE q # p
      <4>1. hand'[q] = hand[q] /\ pc'[q] = pc[q]
        BY <2>3, <3>2
      <4>2. \A i \in 1 .. Len(added') : added'[i] # hand'[q]
        <5>1. \A i \in 1 .. Len(added) : added[i] # hand[q]
          BY DEF Creation
        <5>2. hand[p] # hand[q]
          BY <2>1, <3>2 DEF Creation
        <5> QED  BY <2>2, <2>n, <4>1, <5>1, <5>2
      <4>3. \A r \in Producers : hand'[q] = hand'[r] /\ hand'[q] # 0 => q = r
        BY <2>3, <4>1 DEF Creation
      <4> QED  BY <2>3, <4>1, <4>2, <4>3 DEF Creation
    <3> QED  BY <3>1, <3>2
  <2>7. leaked' \subseteq 1 .. created'
    BY <2>3 DEF Creation
  <2> QED  BY <2>4, <2>5, <2>6, <2>7 DEF Creation
<1>4. ASSUME NEW p \in Producers, Stop(p) PROVE Creation'
  <2>1. /\ hand' = [hand EXCEPT ![p] = 0]
        /\ pc' = [pc EXCEPT ![p] = "stopped"]
        /\ leaked' = IF hand[p] = 0 THEN leaked ELSE leaked \cup {hand[p]}
        /\ UNCHANGED <<created, added>>
    BY <1>4 DEF Stop
  <2>2. hand[p] # 0 => hand[p] \in 1 .. created
    BY DEF Creation
  <2>3. ASSUME NEW q \in Producers
        PROVE  /\ hand'[q] # 0 <=> pc'[q] \in {"made", "bump", "insert"}
               /\ hand'[q] \in 0 .. created'
               /\ hand'[q] \notin leaked'
               /\ \A i \in 1 .. Len(added') : added'[i] # hand'[q]
               /\ \A r \in Producers : hand'[q] = hand'[r] /\ hand'[q] # 0 => q = r
    <3>1. CASE q = p
      <4>1. hand'[q] = 0 /\ pc'[q] = "stopped"
        BY <2>1, <3>1
      <4>2. 0 \notin leaked' /\ \A i \in 1 .. Len(added') : added'[i] # 0
        BY <2>1, <2>2 DEF Creation
      <4> QED  BY <2>1, <4>1, <4>2
    <3>2. CASE q # p
      <4>1. hand'[q] = hand[q] /\ pc'[q] = pc[q]
        BY <2>1, <3>2
      <4>2. hand'[q] \notin leaked'
        BY <2>1, <3>2, <4>1 DEF Creation
      <4>3. \A r \in Producers : hand'[q] = hand'[r] /\ hand'[q] # 0 => q = r
        BY <2>1, <4>1 DEF Creation
      <4> QED  BY <2>1, <4>1, <4>2, <4>3 DEF Creation
    <3> QED  BY <3>1, <3>2
  <2>4. leaked' \subseteq 1 .. created'
    BY <2>1, <2>2 DEF Creation
  <2>5. \A i \in 1 .. Len(added') : added'[i] \in (1 .. created') \ leaked'
    BY <2>1 DEF Creation
  <2> QED  BY <2>1, <2>3, <2>4, <2>5 DEF Creation
<1>5. CASE MainLock
  BY <1>5 DEF MainLock, PeekLock, RemoveLock, DestroyLock, Creation
<1>6. CASE PeekRead \/ PeekUnlock \/ UseDone \/ UseFailed
  BY <1>6 DEF PeekRead, PeekUnlock, UseDone, UseFailed, Creation
<1>7. CASE RemoveDelete \/ RemoveErase \/ RemoveUnlock
  BY <1>7 DEF RemoveDelete, RemoveErase, RemoveUnlock, Creation
<1>8. ASSUME NEW p \in Producers, CancelNext(p) \/ Join(p) PROVE Creation'
  BY <1>8 DEF CancelNext, Join, Creation
<1>9. CASE SensorsDeleted \/ DestroyPurge \/ DestroyUnlock
  BY <1>9 DEF SensorsDeleted, DestroyPurge, DestroyUnlock, Creation
<1>10. CASE UNCHANGED vars
  BY <1>10 DEF vars, Creation
<1> QED
  BY <1>1, <1>2, <1>3, <1>4, <1>5, <1>6, <1>7, <1>8, <1>9, <1>10
  DEF Next, MainRest, ProducerStep, InAdd, Poll, Exited

\* No more messages are added than created, and one less while a thread still
\* has one in its hand: the ids in use stay below MaxMessages.
LEMMA AddedIsBounded ==
  ASSUME TypeInv, Creation
  PROVE  /\ Len(added) <= created
         /\ \A p \in Producers : hand[p] # 0 => Len(added) < created
<1>ty. /\ created \in Nat
       /\ added \in Seq(MessageIds)
       /\ Len(added) \in Nat
       /\ hand \in [Producers -> MessageIds \cup {0}]
  BY ThreadAssumption DEF TypeInv, TypeOK
<1>c. IsFiniteSet(1 .. created) /\ Cardinality(1 .. created) = created
  BY <1>ty, FS_Interval
<1>1. Len(added) <= created
  <2> DEFINE f == [i \in 1 .. Len(added) |-> added[i]]
  <2>1. f \in Injection(1 .. Len(added), 1 .. created)
    BY <1>ty DEF Creation, Injection, IsInjective
  <2>2. Cardinality(1 .. Len(added)) = Len(added)
    BY <1>ty, FS_Interval
  <2> HIDE DEF f
  <2> QED  BY <1>c, <2>1, <2>2, FS_Injection
<1>2. ASSUME NEW p \in Producers, hand[p] # 0
      PROVE  Len(added) < created
  <2> DEFINE n == Len(added) + 1
             g == [i \in 1 .. n |-> IF i = n THEN hand[p] ELSE added[i]]
  <2>1. hand[p] \in 1 .. created /\ \A i \in 1 .. Len(added) : added[i] # hand[p]
    BY <1>ty, <1>2 DEF Creation
  <2>2. g \in [1 .. n -> 1 .. created]
    BY <1>ty, <2>1 DEF Creation
  <2>3. \A i, j \in 1 .. n : g[i] = g[j] => i = j
    <3>1. \A i, j \in 1 .. Len(added) : added[i] = added[j] => i = j
      BY DEF Creation
    <3>2. /\ g[n] = hand[p]
          /\ \A i \in 1 .. Len(added) : g[i] = added[i]
          /\ \A i \in 1 .. n : i \in 1 .. Len(added) \/ i = n
      BY <1>ty
    <3> HIDE DEF n, g
    <3> QED  BY <2>1, <3>1, <3>2
  <2>4. g \in Injection(1 .. n, 1 .. created)
    BY <2>2, <2>3 DEF Injection, IsInjective
  <2>5. n \in Nat /\ Cardinality(1 .. n) = n
    BY <1>ty, FS_Interval
  <2> HIDE DEF g
  <2>6. n <= created
    BY <1>c, <2>4, <2>5, FS_Injection
  <2> QED  BY <1>ty, <2>6
<1> QED  BY <1>1, <1>2

-----------------------------------------------------------------------------
(***************************************************************************)
(* The map is a window of added.  This needs ids that do not wrap.         *)
(***************************************************************************)
LEMMA FirstIdOfWindow ==
  ASSUME NEW entries, NEW lo \in Nat, NEW hi \in Nat,
         DOMAIN entries = lo .. hi, lo <= hi
  PROVE  FirstId(entries) = lo
<1>1. DOMAIN entries \subseteq Nat /\ lo \in DOMAIN entries
  OBVIOUS
<1>2. /\ FirstId(entries) \in lo .. hi
      /\ FirstId(entries) <= lo
  BY <1>1, FirstIdIsSmallest
<1> QED  BY <1>2

LEMMA WindowInit == Init => Window /\ Holding
<1> SUFFICES ASSUME Init PROVE Window /\ Holding
  OBVIOUS
<1>1. Len(added) = 0 /\ DOMAIN map = {} /\ last = 0 /\ removed = 0
  BY DEF Init, NoEntries
<1>2. pc[Main] = "loop" /\ mutex = NoThread
  BY DEF Init, Threads
<1> QED
  BY <1>1, <1>2, ThreadAssumption DEF Window, Holding, HasMessage, Destroyed

LEMMA WindowNext ==
  ASSUME MaxMessages < IdLimit,
         TypeInv, MutualExclusion, TeardownOrder, Creation, Window, Holding,
         [Next]_vars
  PROVE  Window' /\ Holding'
<1>ty. /\ pc \in [Threads -> ProducerPC \cup MainPC]
       /\ pc[Main] \in MainPC
       /\ \A p \in Producers : pc[p] \in ProducerPC
       /\ hand \in [Producers -> MessageIds \cup {0}]
       /\ created \in 0 .. MaxMessages
       /\ added \in Seq(MessageIds)
       /\ Len(added) \in Nat
       /\ removed \in Nat
       /\ held \in Nat
  BY DEF TypeInv, TypeOK
<1>mu. /\ \A p \in Producers : pc[p] \in ProducerInside <=> mutex = p
       /\ pc[Main] \in MainInside <=> mutex = Main
  BY ThreadAssumption DEF MutualExclusion, Inside, Threads
<1> DEFINE Adding == \E p \in Producers : pc[p] = "insert"
<1>w. /\ removed <= Len(added)
      /\ DOMAIN map = IF Destroyed THEN {} ELSE removed + 1 .. Len(added)
      /\ \A i \in DOMAIN map : map[i] = added[i]
      /\ last = IF Adding THEN Len(added) + 1 ELSE Len(added)
  BY <1>mu DEF Window, ProducerInside
<1> USE <1>ty, <1>mu, ThreadAssumption
    DEF Threads, Goto, Lock, Unlock, shared, locals, ProducerInside, MainInside
\* Steps that leave the map, added, removed, last and what is held alone, and
\* do not move a thread to or from the places Window and Holding speak of.
<1>same. ASSUME UNCHANGED <<map, last, added, removed, held, ptr>>,
                HasMessage' => HasMessage,
                Destroyed' = Destroyed,
                (mutex \in Producers /\ pc[mutex] = "insert")
                  = (mutex' \in Producers /\ pc'[mutex'] = "insert")
         PROVE  Window' /\ Holding'
  BY <1>same DEF Window, Holding, Destroyed
<1>1. ASSUME NEW p \in Producers,
             Make(p) \/ AddLock(p) \/ AddUnlock(p) \/ Stop(p)
      PROVE  Window' /\ Holding'
  <2>1. /\ UNCHANGED <<map, last, added, removed, held, ptr>>
        /\ pc'[Main] = pc[Main]
        /\ (mutex \in Producers /\ pc[mutex] = "insert")
             = (mutex' \in Producers /\ pc'[mutex'] = "insert")
    BY <1>1 DEF Make, AddLock, AddUnlock, Stop, CancelPoints
  <2> QED  BY <2>1, <1>same DEF HasMessage, Destroyed
<1>2. ASSUME NEW p \in Producers, AddBump(p) PROVE Window' /\ Holding'
  <2>1. mutex = p /\ ~ Adding
    BY <1>2 DEF AddBump
  <2>2. hand[p] # 0
    BY <1>2 DEF AddBump, Creation
  <2>3. last = Len(added) /\ Len(added) + 1 < IdLimit
    BY <1>w, <2>1, <2>2, AddedIsBounded, IdLimitAssumption
  <2>4. last' = Len(added) + 1
    BY <1>2, <2>3, IdLimitAssumption DEF AddBump, NextId
  <2>5. /\ UNCHANGED <<map, added, removed, held, ptr>>
        /\ mutex' \in Producers /\ pc'[mutex'] = "insert"
        /\ pc'[Main] = pc[Main]
    BY <1>2, <2>1 DEF AddBump
  <2> QED  BY <2>4, <2>5 DEF Window, Holding, HasMessage, Destroyed
<1>3. ASSUME NEW p \in Producers, AddInsert(p) PROVE Window' /\ Holding'
  <2> DEFINE n == Len(added) + 1
  <2>1. mutex = p /\ last = n /\ hand[p] \in MessageIds
    BY <1>3, <1>w DEF AddInsert, Creation
  <2>2. ~ Destroyed
    BY <1>3, <1>mu DEF AddInsert, Destroyed, TeardownOrder
  <2>3. /\ Len(added') = n
        /\ \A i \in 1 .. Len(added) : added'[i] = added[i]
        /\ added'[n] = hand[p]
    BY <1>3, <2>1 DEF AddInsert
  <2>4. DOMAIN map = removed + 1 .. Len(added)
    BY <1>w, <2>2
  <2>5. /\ DOMAIN map' = removed + 1 .. n
        /\ \A i \in DOMAIN map : map'[i] = map[i]
        /\ map'[n] = hand[p]
    <3>1. n \notin DOMAIN map /\ (DOMAIN map) \cup {n} = removed + 1 .. n
      BY <1>w, <2>4
    <3>2. map' = [i \in DOMAIN map \cup {n} |-> IF i = n THEN hand[p] ELSE map[i]]
      <4>1. map' = InsertEntry(map, n, hand[p])
        BY <1>3, <2>1 DEF AddInsert
      <4> HIDE DEF n
      <4> QED  BY <3>1, <4>1 DEF InsertEntry
    <3> HIDE DEF n
    <3> QED  BY <3>1, <3>2
  <2>6. /\ UNCHANGED <<last, removed, held, ptr>>
        /\ mutex' = p /\ pc'[p] = "unlock"
        /\ pc'[Main] = pc[Main]
    BY <1>3, <2>1 DEF AddInsert
  <2>7. \A i \in DOMAIN map' : map'[i] = added'[i]
    BY <1>w, <2>3, <2>4, <2>5
  <2>8. Window'
    BY <1>w, <2>1, <2>2, <2>3, <2>5, <2>6, <2>7 DEF Window, Destroyed
  <2>9. Holding'
    BY <2>4, <2>5, <2>6 DEF Holding, HasMessage
  <2> QED  BY <2>8, <2>9
<1>4. CASE MainLock
  <2>1. /\ UNCHANGED <<map, last, added, removed, held, ptr>>
        /\ HasMessage' => HasMessage
        /\ Destroyed' = Destroyed
        /\ mutex \notin Producers /\ mutex' \notin Producers
    BY <1>4 DEF MainLock, PeekLock, RemoveLock, DestroyLock, HasMessage, Destroyed
  <2> QED  BY <2>1, <1>same
<1>5. CASE PeekRead
  <2>1. /\ UNCHANGED <<map, last, added, removed, mutex>>
        /\ held' = FirstId(map)
        /\ ptr' = IF DOMAIN map = {} THEN 0 ELSE map[FirstId(map)]
        /\ pc[Main] = "peek" /\ pc'[Main] = "peeked"
        /\ mutex = Main
    BY <1>5 DEF PeekRead
  <2>2. Window'
    BY <2>1 DEF Window, Destroyed
  <2>3. CASE DOMAIN map = {}
    <3>1. FirstId(map) = 0
      BY <2>3 DEF FirstId
    <3>2. ~ HasMessage'
      BY <2>1, <3>1 DEF HasMessage
    <3> QED  BY <2>2, <3>2 DEF Holding
  <2>4. CASE DOMAIN map # {}
    <3>1. DOMAIN map = removed + 1 .. Len(added)
      BY <1>w, <2>1 DEF Destroyed
    <3>2. FirstId(map) = removed + 1 /\ removed + 1 \in DOMAIN map
      BY <2>4, <3>1, FirstIdOfWindow
    <3> QED  BY <2>1, <2>4, <3>2, <2>2 DEF Holding
  <2> QED  BY <2>2, <2>3, <2>4
<1>6. CASE PeekUnlock \/ UseDone \/ UseFailed
  <2>1. /\ UNCHANGED <<map, last, added, removed, held, ptr>>
        /\ HasMessage' => HasMessage
        /\ Destroyed' = Destroyed
    BY <1>6 DEF PeekUnlock, UseDone, UseFailed, HasMessage, Destroyed
  <2>2. (mutex \in Producers /\ pc[mutex] = "insert")
             = (mutex' \in Producers /\ pc'[mutex'] = "insert")
    BY <1>6 DEF PeekUnlock, UseDone, UseFailed
  <2> QED  BY <2>1, <2>2, <1>same
<1>7. CASE RemoveDelete \/ RemoveUnlock
  <2>1. /\ UNCHANGED <<map, last, added, removed, held, ptr>>
        /\ HasMessage' => HasMessage
        /\ Destroyed' = Destroyed
        /\ mutex \notin Producers /\ mutex' \notin Producers
    BY <1>7 DEF RemoveDelete, RemoveUnlock, HasMessage, Destroyed
  <2> QED  BY <2>1, <1>same
<1>8. CASE RemoveErase
  <2>1. /\ pc[Main] = "erase" /\ pc'[Main] = "removed"
        /\ map' = EraseEntry(map, held)
        /\ removed' = removed + 1
        /\ UNCHANGED <<last, added, mutex>>
        /\ mutex = Main
    BY <1>8 DEF RemoveErase
  <2>2. held = removed + 1 /\ held \in DOMAIN map
    BY <2>1 DEF Holding, HasMessage
  <2>3. DOMAIN map = removed + 1 .. Len(added)
    BY <1>w, <2>1 DEF Destroyed
  <2>4. /\ DOMAIN map' = removed' + 1 .. Len(added)
        /\ \A i \in DOMAIN map' : map'[i] = map[i] /\ i \in DOMAIN map
    BY <2>1, <2>2, <2>3 DEF EraseEntry
  <2>5. removed' <= Len(added)
    BY <2>1, <2>2, <2>3
  <2> QED
    BY <1>w, <2>1, <2>4, <2>5 DEF Window, Holding, HasMessage, Destroyed
<1>9. ASSUME NEW p \in Producers, CancelNext(p) \/ Join(p)
      PROVE  Window' /\ Holding'
  BY <1>9, <1>same DEF CancelNext, Join, HasMessage, Destroyed
<1>10. CASE SensorsDeleted \/ DestroyUnlock
  <2>1. /\ UNCHANGED <<map, last, added, removed, held, ptr>>
        /\ HasMessage' => HasMessage
        /\ Destroyed' = Destroyed
    BY <1>10 DEF SensorsDeleted, DestroyUnlock, HasMessage, Destroyed
  <2>2. (mutex \in Producers /\ pc[mutex] = "insert")
             = (mutex' \in Producers /\ pc'[mutex'] = "insert")
    BY <1>10 DEF SensorsDeleted, DestroyUnlock
  <2> QED  BY <2>1, <2>2, <1>same
<1>11. CASE DestroyPurge
  <2>1. /\ DOMAIN map' = {}
        /\ UNCHANGED <<last, added, removed, mutex>>
        /\ pc[Main] = "purge" /\ pc'[Main] = "purged"
        /\ mutex = Main
    BY <1>11 DEF DestroyPurge, NoEntries
  <2> QED  BY <1>w, <2>1 DEF Window, Holding, HasMessage, Destroyed
<1>12. CASE UNCHANGED vars
  BY <1>12, <1>same DEF vars, HasMessage, Destroyed
<1> QED
  BY <1>1, <1>2, <1>3, <1>4, <1>5, <1>6, <1>7, <1>8, <1>9, <1>10, <1>11, <1>12
  DEF Next, MainRest, ProducerStep, InAdd, Poll, Exited

-----------------------------------------------------------------------------
(***************************************************************************)
(* Ownership: what is live is owned, and owned once.                       *)
(***************************************************************************)
LEMMA OwnersAreDisjoint ==
  ASSUME TypeInv, Creation, Window
  PROVE  /\ InHand \cap Queued = {}
         /\ leaked \cap (InHand \cup Queued) = {}
         /\ \A i, j \in DOMAIN map : map[i] = map[j] => i = j
         /\ \A p, q \in Producers : hand[p] = hand[q] /\ hand[p] # 0 => p = q
<1>1. \A i \in DOMAIN map : i \in 1 .. Len(added) /\ map[i] = added[i]
  BY DEF TypeInv, TypeOK, Window
<1>2. InHand \cap Queued = {}
  BY <1>1 DEF Creation, InHand, Queued
<1>3. leaked \cap Queued = {}
  BY <1>1 DEF Creation, Queued
<1>4. leaked \cap InHand = {}
  BY DEF Creation, InHand
<1>5. \A i, j \in DOMAIN map : map[i] = map[j] => i = j
  BY <1>1 DEF Creation
<1>6. \A p, q \in Producers : hand[p] = hand[q] /\ hand[p] # 0 => p = q
  BY DEF Creation
<1> QED  BY <1>2, <1>3, <1>4, <1>5, <1>6

LEMMA OwnershipInit == Init => LiveMessages
BY ThreadAssumption DEF Init, LiveMessages, InHand, Queued, NoEntries, Threads

LEMMA OwnershipNext ==
  ASSUME TypeInv, MutualExclusion, TeardownOrder, Creation, Window, Holding,
         LiveMessages, [Next]_vars
  PROVE  LiveMessages'
<1>ty. /\ pc \in [Threads -> ProducerPC \cup MainPC]
       /\ \A p \in Producers : pc[p] \in ProducerPC
       /\ hand \in [Producers -> MessageIds \cup {0}]
       /\ created \in Nat
       /\ \A i \in DOMAIN map : map[i] \in MessageIds
  BY ThreadAssumption DEF TypeInv, TypeOK
<1>mu. /\ \A p \in Producers : pc[p] \in ProducerInside <=> mutex = p
       /\ pc[Main] \in MainInside <=> mutex = Main
  BY ThreadAssumption DEF MutualExclusion, Inside, Threads
<1>d. /\ InHand \cap Queued = {}
      /\ leaked \cap (InHand \cup Queued) = {}
      /\ \A i, j \in DOMAIN map : map[i] = map[j] => i = j
      /\ \A p, q \in Producers : hand[p] = hand[q] /\ hand[p] # 0 => p = q
  BY OwnersAreDisjoint
<1> USE <1>ty, ThreadAssumption DEF Threads, Goto, Lock, Unlock, shared, locals
<1>same. ASSUME UNCHANGED <<map, live, hand, leaked>>,
                pc[Main] # "erase", pc'[Main] # "erase"
         PROVE  LiveMessages'
  BY <1>same DEF LiveMessages, InHand, Queued
<1>live. pc[Main] # "erase" => live = InHand \cup Queued \cup leaked
  BY DEF LiveMessages
<1>notErase. ASSUME NEW p \in Producers, pc[p] \in ProducerInside
             PROVE  pc[Main] # "erase"
  BY <1>notErase, <1>mu DEF MainInside
\* A producer that empties its hand.
<1>hand. ASSUME NEW p \in Producers, hand' = [hand EXCEPT ![p] = 0]
         PROVE  InHand' = InHand \ {hand[p]}
  <2>1. InHand' \subseteq InHand \ {hand[p]}
    BY <1>hand, <1>d DEF InHand
  <2>2. InHand \ {hand[p]} \subseteq InHand'
    BY <1>hand DEF InHand
  <2> QED  BY <2>1, <2>2
<1>1. ASSUME NEW p \in Producers, Make(p) PROVE LiveMessages'
  <2>1. /\ hand' = [hand EXCEPT ![p] = created + 1]
        /\ live' = live \cup {created + 1}
        /\ UNCHANGED <<map, leaked, ptr>>
        /\ pc'[Main] = pc[Main]
        /\ created + 1 # 0
    BY <1>1 DEF Make
  <2>2. hand[p] = 0
    BY <1>1 DEF Make, Creation
  <2>3. InHand' = InHand \cup {created + 1}
    <3>1. InHand' \subseteq InHand \cup {created + 1}
      BY <2>1 DEF InHand
    <3>2. created + 1 \in InHand'
      BY <2>1 DEF InHand
    <3>3. InHand \subseteq InHand'
      BY <2>1, <2>2 DEF InHand
    <3> QED  BY <3>1, <3>2, <3>3
  <2>4. Queued' = Queued
    BY <2>1 DEF Queued
  <2>5. pc[Main] = "erase" => ptr # created + 1
    <3>1. pc[Main] = "erase" => \E i \in DOMAIN map : ptr = map[i]
      BY DEF Holding, HasMessage
    <3>2. \A i \in DOMAIN map : map[i] # created + 1
      BY DEF Window, Creation, TypeInv, TypeOK
    <3> QED  BY <3>1, <3>2
  <2> QED  BY <2>1, <2>3, <2>4, <2>5 DEF LiveMessages
<1>2. ASSUME NEW p \in Producers, AddLock(p) \/ AddBump(p) \/ AddUnlock(p)
      PROVE  LiveMessages'
  BY <1>2 DEF AddLock, AddBump, AddUnlock, LiveMessages, InHand, Queued
<1>3. ASSUME NEW p \in Producers, AddInsert(p) PROVE LiveMessages'
  <2>1. /\ hand' = [hand EXCEPT ![p] = 0]
        /\ map' = InsertEntry(map, last, hand[p])
        /\ UNCHANGED <<live, leaked>>
        /\ pc[p] = "insert"
        /\ pc'[Main] = pc[Main]
    BY <1>3 DEF AddInsert
  <2>2. pc[Main] # "erase"
    BY <2>1, <1>notErase DEF ProducerInside
  <2>3. last \notin DOMAIN map
    <3>1. mutex = p
      BY <2>1, <1>mu DEF ProducerInside
    <3>2. last = Len(added) + 1
      BY <2>1, <3>1 DEF Window
    <3>3. \A i \in DOMAIN map : i \in removed + 1 .. Len(added)
      BY DEF Window
    <3> QED  BY <3>2, <3>3 DEF TypeInv, TypeOK
  <2>4. map' = [i \in DOMAIN map \cup {last} |-> IF i = last THEN hand[p] ELSE map[i]]
    BY <2>1, <2>3 DEF InsertEntry
  <2>5. Queued' = Queued \cup {hand[p]}
    <3>1. Queued' \subseteq Queued \cup {hand[p]}
      BY <2>4 DEF Queued
    <3>2. hand[p] \in Queued'
      BY <2>4 DEF Queued
    <3>3. Queued \subseteq Queued'
      BY <2>3, <2>4 DEF Queued
    <3> QED  BY <3>1, <3>2, <3>3
  <2>6. hand[p] \in InHand
    BY <2>1 DEF InHand, Creation
  <2> QED  BY <2>1, <2>2, <2>5, <2>6, <1>hand, <1>live DEF LiveMessages
<1>4. ASSUME NEW p \in Producers, Stop(p) PROVE LiveMessages'
  <2>1. /\ hand' = [hand EXCEPT ![p] = 0]
        /\ leaked' = IF hand[p] = 0 THEN leaked ELSE leaked \cup {hand[p]}
        /\ UNCHANGED <<live, map, ptr>>
        /\ pc'[Main] = pc[Main]
    BY <1>4 DEF Stop
  <2>2. Queued' = Queued
    BY <2>1 DEF Queued
  <2>3. InHand' \cup leaked' = InHand \cup leaked
    <3>1. hand[p] # 0 => hand[p] \in InHand
      BY DEF InHand
    <3>2. 0 \notin InHand
      BY DEF InHand
    <3> QED  BY <2>1, <3>1, <3>2, <1>hand
  <2> QED  BY <2>1, <2>2, <2>3 DEF LiveMessages
<1>5. CASE MainLock
  BY <1>5, <1>same DEF MainLock, PeekLock, RemoveLock, DestroyLock
<1>6. CASE PeekRead
  BY <1>6, <1>same DEF PeekRead
<1>7. CASE PeekUnlock \/ UseDone \/ UseFailed
  BY <1>7, <1>same DEF PeekUnlock, UseDone, UseFailed
<1>8. CASE RemoveDelete
  <2>1. held \in DOMAIN map /\ ptr = map[held]
    BY <1>8 DEF RemoveDelete, Holding, HasMessage
  <2>2. /\ live' = live \ {ptr}
        /\ pc[Main] = "delete" /\ pc'[Main] = "erase"
        /\ UNCHANGED <<map, hand, leaked, ptr>>
    BY <1>8, <2>1 DEF RemoveDelete
  <2>3. InHand' = InHand /\ Queued' = Queued
    BY <2>2 DEF InHand, Queued
  <2> QED  BY <2>2, <2>3, <1>live DEF LiveMessages
<1>9. CASE RemoveErase
  <2>1. /\ pc[Main] = "erase" /\ pc'[Main] = "removed"
        /\ map' = [i \in DOMAIN map \ {held} |-> map[i]]
        /\ UNCHANGED <<live, hand, leaked>>
    BY <1>9 DEF RemoveErase, EraseEntry
  <2>2. held \in DOMAIN map /\ ptr = map[held]
    BY <2>1 DEF Holding, HasMessage
  <2>3. Queued' = Queued \ {ptr}
    <3>1. Queued' \subseteq Queued \ {ptr}
      BY <2>1, <2>2, <1>d DEF Queued
    <3>2. Queued \ {ptr} \subseteq Queued'
      BY <2>1, <2>2 DEF Queued
    <3> QED  BY <3>1, <3>2
  <2>4. ptr \in Queued
    BY <2>2 DEF Queued
  <2>5. InHand' = InHand
    BY <2>1 DEF InHand
  <2>6. live = (InHand \cup Queued \cup leaked) \ {ptr}
    BY <2>1 DEF LiveMessages
  <2> QED  BY <2>1, <2>3, <2>4, <2>5, <2>6, <1>d DEF LiveMessages
<1>10. CASE RemoveUnlock
  BY <1>10, <1>same DEF RemoveUnlock
<1>11. ASSUME NEW p \in Producers, CancelNext(p) \/ Join(p) PROVE LiveMessages'
  BY <1>11, <1>same DEF CancelNext, Join
<1>12. CASE SensorsDeleted \/ DestroyUnlock
  BY <1>12, <1>same DEF SensorsDeleted, DestroyUnlock
<1>13. CASE DestroyPurge
  <2>1. /\ live' = live \ Queued
        /\ DOMAIN map' = {}
        /\ pc[Main] = "purge" /\ pc'[Main] = "purged"
        /\ UNCHANGED <<hand, leaked>>
    BY <1>13 DEF DestroyPurge, NoEntries, Queued
  <2>2. Queued' = {} /\ InHand' = InHand
    BY <2>1 DEF Queued, InHand
  <2> QED  BY <2>1, <2>2, <1>d, <1>live DEF LiveMessages
<1>14. CASE UNCHANGED vars
  BY <1>14 DEF vars, LiveMessages, InHand, Queued
<1> QED
  BY <1>1, <1>2, <1>3, <1>4, <1>5, <1>6, <1>7, <1>8, <1>9, <1>10, <1>11, <1>12,
     <1>13, <1>14
  DEF Next, MainRest, ProducerStep, InAdd, Poll, Exited

-----------------------------------------------------------------------------
(***************************************************************************)
(* The inductive invariant and what follows from it.                       *)
(***************************************************************************)
Inv == TypeInv /\ IInv

LEMMA InvInit == Init => Inv
BY TypeInvInit, LockingInit, TeardownInit, CreationInit, WindowInit, OwnershipInit
   DEF Inv, IInv, TypeInv

LEMMA InvNext ==
  ASSUME MaxMessages < IdLimit
  PROVE  Inv /\ [Next]_vars => Inv'
BY TypeInvNext, LockingNext, TeardownNext, CreationNext, WindowNext, OwnershipNext
   DEF Inv, IInv, TypeInv

\* The inductive invariant of the run queue_client holds for any number of
\* threads and messages, as long as fewer messages are created than there are
\* ids (queue.cpp).
THEOREM Invariant ==
  ASSUME MaxMessages < IdLimit
  PROVE  Spec => []IInv
<1>1. Inv => IInv
  BY DEF Inv
<1> QED  BY <1>1, InvInit, InvNext, PTL DEF Spec

\* The pointer that peek returned stays valid without the mutex until remove
\* is called, whatever the producers do meanwhile (client_process_event.cpp,
\* proxy_main.cpp, head_main.cpp).
THEOREM HeldMessageIsLive ==
  ASSUME MaxMessages < IdLimit
  PROVE  Spec => []HeldIsLive
<1>1. Inv => HeldIsLive
  <2> SUFFICES ASSUME Inv, pc[Main] = "use" PROVE ptr \in live
    BY DEF HeldIsLive
  <2>1. ptr \in Queued
    BY DEF Inv, IInv, Holding, HasMessage, Queued
  <2> QED  BY <2>1 DEF Inv, IInv, LiveMessages
<1> QED  BY <1>1, InvInit, InvNext, PTL DEF Spec

\* No message is leaked or deleted twice, except that a message leaks with the
\* thread that was cancelled before it could add it (queue.cpp, sensor_event.cpp).
THEOREM EveryMessageHasOneOwner ==
  ASSUME MaxMessages < IdLimit
  PROVE  Spec => []OneOwner
<1>1. Inv => OneOwner
  <2> SUFFICES ASSUME Inv PROVE OneOwner
    OBVIOUS
  <2>1. pc[Main] # "erase" => live = InHand \cup Queued \cup leaked
    BY DEF Inv, IInv, LiveMessages
  <2> QED  BY <2>1, OwnersAreDisjoint DEF Inv, IInv, OneOwner
<1> QED  BY <1>1, InvInit, InvNext, PTL DEF Spec

\* remove erases the very message that was peeked and used, and messages leave
\* in the order in which they were added (queue.cpp: peek, remove).
THEOREM RemovedIsTheUsedOne ==
  ASSUME MaxMessages < IdLimit
  PROVE  Spec => RemovesWhatItUsed
<1>1. Inv /\ [Next]_vars
        => [removed' # removed => removed < Len(added) /\ added[removed'] = ptr]_vars
  <2> SUFFICES ASSUME Inv, [Next]_vars, removed' # removed
               PROVE  removed < Len(added) /\ added[removed'] = ptr
    OBVIOUS
  <2>1. RemoveErase
    BY DEF Next, MainLock, MainRest, ProducerStep, InAdd, Poll, Exited, vars,
           Make, AddLock, AddBump, AddInsert, AddUnlock, Stop, PeekLock, PeekRead,
           PeekUnlock, UseDone, UseFailed, RemoveLock, RemoveDelete, RemoveUnlock,
           CancelNext, Join, SensorsDeleted, DestroyLock, DestroyPurge,
           DestroyUnlock, Lock, Unlock, shared
  <2>2. removed' = removed + 1 /\ pc[Main] = "erase"
    BY <2>1 DEF RemoveErase
  <2>3. held = removed + 1 /\ held \in DOMAIN map /\ ptr = map[held]
    BY <2>2 DEF Inv, IInv, Holding, HasMessage
  <2>4. held \in removed + 1 .. Len(added) /\ map[held] = added[held]
    BY <2>3 DEF Inv, IInv, Window
  <2> QED  BY <2>2, <2>3, <2>4 DEF Inv, TypeInv, TypeOK
<1> QED  BY <1>1, InvInit, InvNext, PTL DEF Spec, RemovesWhatItUsed

-----------------------------------------------------------------------------
(***************************************************************************)
(* Refinement: the locked map with ids is a FIFO queue.                    *)
(***************************************************************************)
LEMMA ItemsOfWindow ==
  ASSUME NEW lo \in Nat, NEW hi \in Nat, lo <= hi + 1, DOMAIN map = lo .. hi
  PROVE  /\ Cardinality(DOMAIN map) = hi - lo + 1
         /\ \A n \in 1 .. hi - lo + 1 : NthId(n) = lo + n - 1
<1>1. Cardinality(DOMAIN map) = hi - lo + 1
  BY FS_Interval
<1>2. ASSUME NEW n \in 1 .. hi - lo + 1
      PROVE  NthId(n) = lo + n - 1
  <2>1. ASSUME NEW id \in DOMAIN map
        PROVE  Cardinality({j \in DOMAIN map : j <= id}) = id - lo + 1
    <3>1. {j \in DOMAIN map : j <= id} = lo .. id
      OBVIOUS
    <3>2. lo \in Int /\ id \in Int /\ lo <= id
      OBVIOUS
    <3>3. Cardinality(lo .. id) = id - lo + 1
      BY <3>2, FS_Interval
    <3> QED  BY <3>1, <3>3
  <2>2. lo + n - 1 \in DOMAIN map /\ (lo + n - 1) - lo + 1 = n
    OBVIOUS
  <2>3. \A id \in DOMAIN map :
           Cardinality({j \in DOMAIN map : j <= id}) = n <=> id = lo + n - 1
    BY <2>1
  <2> QED  BY <2>2, <2>3 DEF NthId
<1> QED  BY <1>1, <1>2

\* The abstract items, read off the history: the part of added not yet removed.
LEMMA ItemsAreWindow ==
  ASSUME TypeInv, Window
  PROVE  Items = IF Destroyed THEN << >> ELSE SubSeq(added, removed + 1, Len(added))
<1>ty. removed \in Nat /\ Len(added) \in Nat /\ added \in Seq(MessageIds)
  BY DEF TypeInv, TypeOK
<1>1. CASE Destroyed
  <2>1. Cardinality(DOMAIN map) = 0
    BY <1>1, FS_EmptySet DEF Window
  <2> QED  BY <1>1, <2>1 DEF Items
<1>2. CASE ~ Destroyed
  <2> DEFINE lo == removed + 1
             hi == Len(added)
  <2>1. DOMAIN map = lo .. hi /\ lo <= hi + 1 /\ lo \in Nat /\ hi \in Nat
    BY <1>ty, <1>2 DEF Window
  <2>2. /\ Cardinality(DOMAIN map) = hi - lo + 1
        /\ \A n \in 1 .. hi - lo + 1 : NthId(n) = lo + n - 1
    <3> HIDE DEF lo, hi
    <3> QED  BY <2>1, ItemsOfWindow
  <2>3. \A i \in DOMAIN map : map[i] = added[i]
    BY DEF Window
  <2>4. Items = [n \in 1 .. hi - lo + 1 |-> added[lo + n - 1]]
    <3>1. \A n \in 1 .. hi - lo + 1 : lo + n - 1 \in DOMAIN map
      BY <2>1
    <3> HIDE DEF lo, hi
    <3> QED  BY <2>2, <2>3, <3>1 DEF Items
  <2>5. SubSeq(added, lo, hi) = [n \in 1 .. hi - lo + 1 |-> added[lo + n - 1]]
    BY <1>ty, <2>1
  <2> QED  BY <1>2, <2>4, <2>5
<1> QED  BY <1>1, <1>2

LEMMA AppendToWindow ==
  ASSUME NEW S, NEW s \in Seq(S), NEW e \in S, NEW n \in 0 .. Len(s)
  PROVE  SubSeq(Append(s, e), n + 1, Len(Append(s, e)))
           = Append(SubSeq(s, n + 1, Len(s)), e)
<1> DEFINE t == Append(s, e)
           k == Len(s) - n
           u == SubSeq(s, n + 1, Len(s))
<1>1. /\ t \in Seq(S) /\ Len(t) = Len(s) + 1 /\ t[Len(s) + 1] = e
      /\ \A i \in 1 .. Len(s) : t[i] = s[i]
      /\ Len(s) \in Nat /\ k \in Nat
  OBVIOUS
<1>2. /\ u \in Seq(S) /\ Len(u) = k
      /\ \A i \in 1 .. k : u[i] = s[n + i]
  BY <1>1
<1>3. /\ SubSeq(t, n + 1, Len(t)) \in Seq(S)
      /\ Len(SubSeq(t, n + 1, Len(t))) = k + 1
      /\ \A i \in 1 .. k + 1 : SubSeq(t, n + 1, Len(t))[i] = t[n + i]
  <2> HIDE DEF t
  <2> QED  BY <1>1
<1>4. /\ Append(u, e) \in Seq(S)
      /\ Len(Append(u, e)) = k + 1
      /\ Append(u, e)[k + 1] = e
      /\ \A i \in 1 .. k : Append(u, e)[i] = u[i]
  <2> HIDE DEF u
  <2> QED  BY <1>1, <1>2
<1>5. \A i \in 1 .. k + 1 : SubSeq(t, n + 1, Len(t))[i] = Append(u, e)[i]
  <2> SUFFICES ASSUME NEW i \in 1 .. k + 1
               PROVE  SubSeq(t, n + 1, Len(t))[i] = Append(u, e)[i]
    OBVIOUS
  <2>1. CASE i = k + 1
    <3>1. n + i = Len(s) + 1
      BY <2>1
    <3> HIDE DEF t, u
    <3> QED  BY <1>1, <1>3, <1>4, <2>1, <3>1
  <2>2. CASE i \in 1 .. k
    <3>1. n + i \in 1 .. Len(s)
      BY <2>2, <1>1
    <3> HIDE DEF t, u
    <3> QED  BY <1>1, <1>2, <1>3, <1>4, <2>2, <3>1
  <2> QED  BY <1>1, <2>1, <2>2
<1>6. SubSeq(t, n + 1, Len(t)) = Append(u, e)
  <2> HIDE DEF t, u
  <2> QED  BY <1>1, <1>3, <1>4, <1>5, SeqEqual
<1> QED  BY <1>6

LEMMA RefinementInit == Init => Fifo!Init
<1> SUFFICES ASSUME Init PROVE Fifo!Init
  OBVIOUS
<1>1. DOMAIN map = {} /\ pc[Main] = "loop"
  BY DEF Init, NoEntries, Threads
<1>2. Items = << >>
  BY <1>1, FS_EmptySet DEF Items
<1> QED  BY <1>1, <1>2 DEF Fifo!Init, Destroyed

LEMMA RefinementNext ==
  ASSUME MaxMessages < IdLimit
  PROVE  Inv /\ Inv' /\ [Next]_vars => [Fifo!Next]_Fifo!vars
<1> SUFFICES ASSUME Inv, Inv', [Next]_vars PROVE [Fifo!Next]_Fifo!vars
  OBVIOUS
<1> DEFINE window(s, n) == SubSeq(s, n + 1, Len(s))
<1>ty. /\ removed \in Nat
       /\ added \in Seq(MessageIds) /\ Len(added) \in Nat
       /\ pc \in [Threads -> ProducerPC \cup MainPC]
       /\ hand \in [Producers -> MessageIds \cup {0}]
       /\ removed <= Len(added)
  BY DEF Inv, IInv, TypeInv, TypeOK, Window
<1>m. /\ Items = IF Destroyed THEN << >> ELSE SubSeq(added, removed + 1, Len(added))
      /\ Items' = IF Destroyed' THEN << >>
                  ELSE SubSeq(added', removed' + 1, Len(added'))
  <2>1. Items = IF Destroyed THEN << >> ELSE SubSeq(added, removed + 1, Len(added))
    BY ItemsAreWindow DEF Inv, IInv
  <2>2. (TypeInv /\ Window =>
          Items = IF Destroyed THEN << >> ELSE SubSeq(added, removed + 1, Len(added)))'
    BY ItemsAreWindow, PTL
  <2> QED  BY <2>1, <2>2 DEF Inv, IInv
<1> USE <1>ty, ThreadAssumption DEF Threads, Goto, Lock, Unlock, shared, locals
<1>same. ASSUME UNCHANGED <<added, removed>>, Destroyed' = Destroyed
         PROVE  [Fifo!Next]_Fifo!vars
  BY <1>same, <1>m DEF Fifo!vars
<1>1. ASSUME NEW p \in Producers,
             Make(p) \/ AddLock(p) \/ AddBump(p) \/ AddUnlock(p) \/ Stop(p)
      PROVE  [Fifo!Next]_Fifo!vars
  BY <1>1, <1>same DEF Make, AddLock, AddBump, AddUnlock, Stop, Destroyed
<1>2. ASSUME NEW p \in Producers, AddInsert(p) PROVE Fifo!Next
  <2>1. /\ added' = Append(added, hand[p])
        /\ removed' = removed
        /\ pc[p] = "insert" /\ pc'[Main] = pc[Main]
    BY <1>2 DEF AddInsert
  <2>2. hand[p] \in MessageIds
    BY <2>1 DEF Inv, IInv, Creation
  <2>3. ~ Destroyed /\ ~ Destroyed'
    BY <2>1 DEF Inv, IInv, TeardownOrder, Destroyed
  <2>4. SubSeq(added', removed + 1, Len(added'))
          = Append(SubSeq(added, removed + 1, Len(added)), hand[p])
    <3>1. hand[p] \in MessageIds /\ removed \in 0 .. Len(added)
      BY <2>2
    <3>2. SubSeq(Append(added, hand[p]), removed + 1, Len(Append(added, hand[p])))
            = Append(SubSeq(added, removed + 1, Len(added)), hand[p])
      BY <3>1, AppendToWindow
    <3> QED  BY <2>1, <3>2
  <2>5. Fifo!Put(hand[p])
    BY <1>m, <2>1, <2>3, <2>4 DEF Fifo!Put
  <2> QED  BY <2>2, <2>5 DEF Fifo!Next
<1>3. CASE MainLock
  BY <1>3, <1>same DEF MainLock, PeekLock, RemoveLock, DestroyLock, Destroyed
<1>4. CASE PeekRead \/ PeekUnlock \/ UseDone \/ UseFailed
  BY <1>4, <1>same DEF PeekRead, PeekUnlock, UseDone, UseFailed, Destroyed
<1>5. CASE RemoveDelete \/ RemoveUnlock
  BY <1>5, <1>same DEF RemoveDelete, RemoveUnlock, Destroyed
<1>6. CASE RemoveErase
  <2>1. /\ pc[Main] = "erase" /\ pc'[Main] = "removed"
        /\ removed' = removed + 1 /\ added' = added
    BY <1>6 DEF RemoveErase
  <2>2. ~ Destroyed /\ ~ Destroyed'
    BY <2>1 DEF Destroyed
  <2>3. removed + 1 \in removed + 1 .. Len(added)
    BY <2>1, <2>2 DEF Inv, IInv, Holding, HasMessage, Window
  <2>4. /\ Items # << >>
        /\ Items' = Tail(Items)
    <3>1. removed + 1 \in 1 .. Len(added) /\ Len(added) \in removed + 1 .. Len(added)
      BY <2>3
    <3>2. Tail(SubSeq(added, removed + 1, Len(added)))
            = SubSeq(added, removed + 2, Len(added))
      BY <3>1
    <3>3. Len(SubSeq(added, removed + 1, Len(added))) # 0
      BY <3>1
    <3>4. Items = SubSeq(added, removed + 1, Len(added))
      BY <1>m, <2>2
    <3>5. removed' + 1 = removed + 2
      BY <2>1
    <3>6. Items' = SubSeq(added, removed + 2, Len(added))
      BY <1>m, <2>1, <2>2, <3>5
    <3>7. Items # << >>
      <4>1. Len(Items) # 0
        BY <3>3, <3>4
      <4>2. Len(<< >>) = 0
        OBVIOUS
      <4> QED  BY <4>1, <4>2
    <3> QED  BY <3>2, <3>4, <3>6, <3>7
  <2> QED  BY <2>2, <2>4 DEF Fifo!Next, Fifo!Take
<1>7. ASSUME NEW p \in Producers, CancelNext(p) \/ Join(p)
      PROVE  [Fifo!Next]_Fifo!vars
  BY <1>7, <1>same DEF CancelNext, Join, Destroyed
<1>8. CASE SensorsDeleted \/ DestroyUnlock
  BY <1>8, <1>same DEF SensorsDeleted, DestroyUnlock, Destroyed
<1>9. CASE DestroyPurge
  <2>1. ~ Destroyed /\ Destroyed'
    BY <1>9 DEF DestroyPurge, Destroyed
  <2> QED  BY <1>m, <2>1 DEF Fifo!Next, Fifo!Destroy
<1>10. CASE UNCHANGED vars
  BY <1>10, <1>same DEF vars, Destroyed
<1> QED
  BY <1>1, <1>2, <1>3, <1>4, <1>5, <1>6, <1>7, <1>8, <1>9, <1>10
  DEF Next, MainRest, ProducerStep, InAdd, Poll, Exited

\* queue_class with its mutex, its ids, peek and remove implements a FIFO queue
\* (queue.cpp).
THEOREM QueueIsFifo ==
  ASSUME MaxMessages < IdLimit
  PROVE  Spec => ImplementsFifo
BY InvInit, InvNext, RefinementInit, RefinementNext, PTL
   DEF Spec, ImplementsFifo, Fifo!Spec
=============================================================================
