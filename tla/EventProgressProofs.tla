------------------------ MODULE EventProgressProofs ------------------------
(***************************************************************************)
(* More proofs about EventPath, on top of the invariant of EventPathProofs:*)
(* what the liveness of the path rests on.  Nothing is lost as long as     *)
(* nothing fails, nobody waits for an answer that nobody will give, and no *)
(* server takes an event twice.                                            *)
(***************************************************************************)
EXTENDS EventPathProofs

\* q holds the event e.
Holds(q, e) == \E k \in DOMAIN queue[q] : queue[q][k] = e

Shows(e) == \E k \in DOMAIN shown : shown[k] = e

\* Without a failure no connection is closed in the middle of an exchange, and
\* each process has what the next one has not taken yet.
Handed ==
  /\ \A i \in Initiators : answer[i] # "closed"
  /\ \A e \in Events :
       /\ e.n <= generated[e.client] => Holds(e.client, e) \/ e \in accepted[Proxy]
       /\ e \in accepted[Proxy] => Holds(Proxy, e) \/ e \in accepted[Head_]
       /\ e \in accepted[Head_] => Holds(Head_, e) \/ Shows(e)

FailureFree == failures = 0 => Handed

\* An initiator without an answer waits on an open connection.
Attended ==
  \A i \in Initiators :
    exchange[i] # "idle" /\ answer[i] = "none" =>
      \E k \in DOMAIN conns[ServerOf(i)] :
        /\ conns[ServerOf(i)][k].from = i
        /\ conns[ServerOf(i)][k].open
        /\ exchange[i] = "sent" => conns[ServerOf(i)][k].data = "whole"

-----------------------------------------------------------------------------
(***************************************************************************)
(* Nothing is lost.                                                        *)
(***************************************************************************)
\* An event that is taken out of a queue, with its answer, is at the server.
LEMMA SucceedHands ==
  ASSUME IInv, Handed, NEW i \in Initiators, Succeed(i)
  PROVE  Handed'
<1> USE TheServers, ServerOfType
<1>0. /\ TypeOK /\ queue \in [Queues -> Seq(Events)] /\ i \in Queues
      /\ queue[i] \in Seq(Events)
      /\ HasRequest(i)
      /\ UNCHANGED <<answer, generated, shown, accepted>>
  BY DEF IInv, TypeOK, Underway, Succeed
<1>1. CASE i \in Clients /\ current_state[i] # "PROCESS"
  <2>1. UNCHANGED queue
    BY <1>1 DEF Succeed
  <2> QED
    BY <1>0, <2>1 DEF Handed, Holds, Shows
<1>2. CASE ~ (i \in Clients /\ current_state[i] # "PROCESS")
  <2>1. /\ queue[i] # << >> /\ Request(i) = queue[i][1] /\ IsEvent(Request(i))
        /\ queue[i][1] \in Events
    BY <1>0, <1>2, RequestType, EventRequests
  <2>2. queue[i][1] \in accepted[ServerOf(i)]
    BY <2>1 DEF Succeed, IInv, Answered
  <2>3. /\ queue'[i] = Tail(queue[i])
        /\ \A q \in Queues : q # i => queue'[q] = queue[q]
    BY <1>0, <1>2 DEF Succeed
\* Every other event of that queue is still there.
  <2>4. ASSUME NEW e \in Events, Holds(i, e), e # queue[i][1] PROVE Holds(i, e)'
    <3>1. PICK k \in DOMAIN queue[i] : queue[i][k] = e /\ k # 1
      BY <2>4 DEF Holds
    <3>2. k - 1 \in DOMAIN Tail(queue[i]) /\ Tail(queue[i])[k - 1] = queue[i][k]
      BY <1>0, <2>1, <3>1
    <3> QED
      BY <2>3, <3>1, <3>2 DEF Holds
  <2>5. ASSUME NEW e \in Events, NEW q \in Queues, Holds(q, e)
        PROVE  Holds(q, e)' \/ (q = i /\ e \in accepted[ServerOf(i)])
    BY <2>2, <2>3, <2>4, <2>5 DEF Holds
  <2>6. i \in Clients \/ i = Proxy
    BY DEF Initiators
  <2>7. ASSUME NEW e \in Events
        PROVE  /\ e.n <= generated[e.client] => Holds(e.client, e)' \/ e \in accepted[Proxy]
               /\ e \in accepted[Proxy] => Holds(Proxy, e)' \/ e \in accepted[Head_]
               /\ e \in accepted[Head_] => Holds(Head_, e)' \/ Shows(e)
    <3>1. e.client \in Clients /\ e.client \in Queues
      BY EventRequests
    <3> QED
      BY <2>5, <2>6, <3>1 DEF Handed
  <2> QED
    BY <1>0, <2>7 DEF Handed, Shows
<1> QED
  BY <1>1, <1>2

\* A server has what it takes.
LEMMA HandleHands ==
  ASSUME IInv, Handed, NEW s \in Servers, Handle(s)
  PROVE  Handed'
<1> USE TheServers, ServerOfType
<1> PICK m : m = conns[s][1].msg
  OBVIOUS
<1>0. /\ TypeOK /\ queue \in [Queues -> Seq(Events)] /\ s \in Queues
      /\ accepted \in [Servers -> SUBSET Events]
      /\ UNCHANGED <<answer, generated, shown>>
      /\ Accepted(s) = conns[s][1] /\ m \in Requests
  BY AcceptedType DEF IInv, TypeOK, Handle, Connection
<1>1. CASE ~ IsEvent(m)
  <2>1. UNCHANGED <<queue, accepted>>
    BY <1>0, <1>1 DEF Handle, IsEvent
  <2> QED
    BY <1>0, <2>1 DEF Handed, Holds, Shows
<1>2. CASE IsEvent(m)
  <2>1. /\ m \in Events
        /\ queue' = [queue EXCEPT ![s] = Append(queue[s], m)]
        /\ accepted' = [accepted EXCEPT ![s] = accepted[s] \cup {m}]
    BY <1>0, <1>2, EventRequests DEF Handle, IsEvent
  <2>2. /\ queue'[s] = Append(queue[s], m) /\ queue[s] \in Seq(Events)
        /\ \A q \in Queues : q # s => queue'[q] = queue[q]
        /\ accepted'[s] = accepted[s] \cup {m}
        /\ \A r \in Servers : r # s => accepted'[r] = accepted[r]
    BY <1>0, <2>1
  <2>3. Holds(s, m)'
    BY <2>1, <2>2, AppendElements DEF Holds
  <2>4. \A e \in Events : \A q \in Queues : Holds(q, e) => Holds(q, e)'
    BY <2>1, <2>2, AppendElements DEF Holds
  <2>5. ASSUME NEW e \in Events
        PROVE  /\ e.n <= generated[e.client] => Holds(e.client, e)' \/ e \in accepted'[Proxy]
               /\ e \in accepted'[Proxy] => Holds(Proxy, e)' \/ e \in accepted'[Head_]
               /\ e \in accepted'[Head_] => Holds(Head_, e)' \/ Shows(e)
    <3>1. e.client \in Clients /\ e.client \in Queues
      BY EventRequests
    <3>2. /\ accepted[Proxy] \subseteq accepted'[Proxy]
          /\ accepted[Head_] \subseteq accepted'[Head_]
      BY <2>2
    <3>3. CASE e = m
      BY <2>2, <2>3, <2>4, <3>1, <3>2, <3>3 DEF Handed
    <3>4. CASE e # m
      BY <2>2, <2>4, <3>1, <3>2, <3>4 DEF Handed
    <3> QED
      BY <3>3, <3>4
  <2> QED
    BY <1>0, <2>5 DEF Handed, Shows
<1> QED
  BY <1>1, <1>2

\* A client has what its sensors report.
LEMMA SensorEventHands ==
  ASSUME IInv, Handed, NEW c \in Clients, SensorEvent(c)
  PROVE  Handed'
<1> USE TheServers, ServerOfType
<1> PICK n, m : n = generated[c] + 1 /\ m = Event(c, n)
  OBVIOUS
<1>0. /\ TypeOK /\ queue \in [Queues -> Seq(Events)] /\ c \in Queues
      /\ queue[c] \in Seq(Events)
      /\ generated \in [Clients -> 0 .. MaxEvents]
      /\ UNCHANGED <<answer, accepted, shown>>
      /\ queue' = [queue EXCEPT ![c] = Append(queue[c], m)]
      /\ generated' = [generated EXCEPT ![c] = n]
      /\ n = generated[c] + 1 /\ m = Event(c, n)
      /\ generated[c] < MaxEvents
  BY DEF IInv, TypeOK, SensorEvent, network, history
<1>1. n \in 1 .. MaxEvents /\ m \in Events /\ m.client = c /\ m.n = n
  BY <1>0, PathAssumption DEF Events, Event
<1>2. /\ queue'[c] = Append(queue[c], m)
      /\ \A q \in Queues : q # c => queue'[q] = queue[q]
      /\ generated'[c] = generated[c] + 1
      /\ \A d \in Clients : d # c => generated'[d] = generated[d]
  BY <1>0
<1>3. Holds(c, m)'
  BY <1>0, <1>1, <1>2, AppendElements DEF Holds
<1>4. \A e \in Events : \A q \in Queues : Holds(q, e) => Holds(q, e)'
  BY <1>0, <1>1, <1>2, AppendElements DEF Holds
<1>5. ASSUME NEW e \in Events, e.n <= generated'[e.client]
      PROVE  e.n <= generated[e.client] \/ e = m
  <2>1. PICK d \in Clients, j \in 1 .. MaxEvents :
          e = [kind |-> "event", client |-> d, n |-> j]
    BY DEF Events
  <2>2. e.client = d /\ e.n = j
    BY <2>1
  <2>3. CASE d = c
    <3>1. j <= generated[c] \/ j = n
      BY <1>0, <1>2, <1>5, <2>2, <2>3, PathAssumption
    <3> QED
      BY <1>0, <2>1, <2>2, <2>3, <3>1 DEF Event
  <2>4. CASE d # c
    BY <1>2, <1>5, <2>2, <2>4
  <2> QED
    BY <2>3, <2>4
<1>6. \A e \in Events : e.client \in Queues
  BY EventRequests
<1> QED
  BY <1>0, <1>1, <1>3, <1>4, <1>5, <1>6 DEF Handed, Shows

\* The head shows what it takes out of its queue.
LEMMA ShowHands ==
  ASSUME IInv, Handed, Show
  PROVE  Handed'
<1> USE TheServers, ServerOfType
<1> PICK m : m = queue[Head_][1]
  OBVIOUS
<1>0. /\ TypeOK /\ queue \in [Queues -> Seq(Events)]
      /\ queue[Head_] \in Seq(Events) /\ queue[Head_] # << >>
      /\ shown \in Seq(Events)
      /\ UNCHANGED <<answer, accepted, generated>>
      /\ queue' = [queue EXCEPT ![Head_] = Tail(queue[Head_])]
      /\ shown' = Append(shown, Head(queue[Head_]))
  BY DEF IInv, TypeOK, Show, network
<1>1. Head(queue[Head_]) = m /\ m \in Events /\ m = queue[Head_][1]
  BY <1>0, TailElements
<1>2. /\ queue'[Head_] = Tail(queue[Head_])
      /\ \A q \in Queues : q # Head_ => queue'[q] = queue[q]
  BY <1>0
<1>3. Shows(m)' /\ \A e \in Events : Shows(e) => Shows(e)'
  BY <1>0, <1>1, AppendElements DEF Shows
<1>4. ASSUME NEW e \in Events, Holds(Head_, e) PROVE Holds(Head_, e)' \/ Shows(e)'
  <2>1. PICK k \in DOMAIN queue[Head_] : queue[Head_][k] = e
    BY <1>4 DEF Holds
  <2>2. CASE k = 1
    BY <1>1, <1>3, <2>1, <2>2
  <2>3. CASE k # 1
    <3>1. k - 1 \in DOMAIN Tail(queue[Head_]) /\ Tail(queue[Head_])[k - 1] = queue[Head_][k]
      BY <1>0, <2>1, <2>3
    <3> QED
      BY <1>2, <2>1, <3>1 DEF Holds
  <2> QED
    BY <2>2, <2>3
<1>5. \A e \in Events : e.client \in Queues /\ e.client # Head_
  BY EventRequests
<1> QED
  BY <1>0, <1>2, <1>3, <1>4, <1>5 DEF Handed, Holds

\* No other step touches a queue or closes a connection without an answer,
\* unless it is a failure.
LEMMA FailureFreeNext == IInv /\ FailureFree /\ [Next]_vars => FailureFree'
<1> SUFFICES ASSUME IInv, FailureFree, Steps, failures' = 0 PROVE Handed'
  BY NextSteps DEF FailureFree
<1>0. failures \in Nat /\ TypeOK
  BY DEF IInv, TypeOK
<1>1. ~ Spontaneous
  BY <1>0 DEF Spontaneous
<1>2. CASE failures # 0
  BY <1>1, <1>2 DEF Steps, InitiatorStep, WorkerStep, Connect, Send, Succeed, ClosedOn,
       ConnectFails, SendFails, AnswerTimesOut, Accept, Receive, ReceiveFails, Handle, Reply,
       ReceiveTimesOut, ReplyFails, Restart, SensorEvent, Start, Show, vars
<1>3. CASE failures = 0
  <2>0. Handed
    BY <1>3 DEF FailureFree
  <2>1. ASSUME NEW i \in Initiators,
               \/ InitiatorStep(i)
               \/ ConnectFails(i) \/ SendFails(i) \/ AnswerTimesOut(i)
        PROVE  Handed'
    <3>1. CASE Succeed(i)
      BY <2>0, <3>1, SucceedHands
    <3>2. CASE Connect(i) \/ Send(i)
      <4>1. /\ UNCHANGED <<queue, generated, shown, accepted>>
            /\ \A h \in Initiators : answer'[h] # "closed"
        BY <1>0, <2>0, <3>2 DEF Connect, Send, history, Handed, TypeOK
      <4> QED
        BY <2>0, <4>1 DEF Handed, Holds, Shows
    <3>3. ~ (ClosedOn(i) \/ ConnectFails(i) \/ SendFails(i) \/ AnswerTimesOut(i))
      BY <1>1, <2>0 DEF ClosedOn, ConnectFails, SendFails, AnswerTimesOut, Handed
    <3> QED
      BY <2>1, <3>1, <3>2, <3>3 DEF InitiatorStep
  <2>2. ASSUME NEW s \in Servers,
               WorkerStep(s) \/ ReceiveTimesOut(s) \/ ReplyFails(s) \/ Restart(s)
        PROVE  Handed'
    <3>1. CASE Handle(s)
      BY <2>0, <3>1, HandleHands
    <3>2. CASE Accept(s) \/ Receive(s) \/ ReceiveFails(s) \/ Reply(s)
      <4>1. UNCHANGED <<queue, generated, shown, accepted>>
        BY <3>2 DEF Accept, Receive, ReceiveFails, Reply, history
      <4>2. answer' = answer \/ answer' = Told(s, "result")
        BY <3>2 DEF Accept, Receive, ReceiveFails, Reply
      <4>3. \A h \in Initiators : answer'[h] # "closed"
        BY <1>0, <2>0, <4>2 DEF Told, Handed, TypeOK
      <4> QED
        BY <2>0, <4>1, <4>3 DEF Handed, Holds, Shows
    <3>3. ~ (ReceiveTimesOut(s) \/ ReplyFails(s) \/ Restart(s))
      BY <1>1 DEF ReceiveTimesOut, ReplyFails, Restart
    <3> QED
      BY <2>2, <3>1, <3>2, <3>3 DEF WorkerStep
  <2>3. ASSUME NEW c \in Clients, SensorEvent(c) \/ Start(c) PROVE Handed'
    <3>1. CASE SensorEvent(c)
      BY <2>0, <3>1, SensorEventHands
    <3>2. CASE Start(c)
      BY <2>0, <3>2 DEF Start, network, history, Handed, Holds, Shows
    <3> QED
      BY <2>3, <3>1, <3>2
  <2>4. CASE Show
    BY <2>0, <2>4, ShowHands
  <2>5. CASE UNCHANGED vars
    BY <2>0, <2>5 DEF vars, Handed, Holds, Shows
  <2> QED
    BY <2>1, <2>2, <2>3, <2>4, <2>5 DEF Steps
<1> QED
  BY <1>2, <1>3

\* As long as nothing fails, each event that a sensor has reported is in a queue
\* or on the screen: at no moment is it only on the way between two processes
\* (client_process_event.cpp, proxy_main.cpp, head_main.cpp).
THEOREM NoEventIsLost == Spec => []NothingIsLost
<1>1. Init => FailureFree
  <2> SUFFICES ASSUME Init PROVE Handed
    BY DEF FailureFree
  <2>1. ASSUME NEW e \in Events
        PROVE  ~ (e.n <= generated[e.client]) /\ \A s \in Servers : e \notin accepted[s]
    BY EventRequests DEF Init
  <2> QED
    BY <2>1, TheServers DEF Init, Handed
<1>2. IInv /\ FailureFree => NothingIsLost
  <2> SUFFICES ASSUME IInv, Handed, NEW e \in Events, e.n <= generated[e.client]
               PROVE  Kept(e)
    BY DEF FailureFree, NothingIsLost
  <2>1. e.client \in Queues
    BY EventRequests, TheServers
  <2>2. \/ \E q \in Queues : Holds(q, e)
        \/ Shows(e)
    BY <2>1, TheServers DEF Handed
  <2> QED
    BY <2>2 DEF Kept, Holds, Shows
<1> QED
  BY <1>1, <1>2, IInvAlways, FailureFreeNext, PTL DEF Spec

-----------------------------------------------------------------------------
(***************************************************************************)
(* Nobody waits in vain.                                                   *)
(***************************************************************************)
\* The connection on which i waits.
Awaited(i, k) ==
  /\ k \in DOMAIN conns[ServerOf(i)]
  /\ conns[ServerOf(i)][k].from = i
  /\ conns[ServerOf(i)][k].open
  /\ exchange[i] = "sent" => conns[ServerOf(i)][k].data = "whole"

\* The steps of an initiator: what it opens, fills and closes is its own.
LEMMA InitiatorAttends ==
  ASSUME IInv, TypeOK', Attended, NEW i \in Initiators, Connect(i) \/ Send(i) \/ GoesOn(i)
  PROVE  Attended'
<1> USE TheServers, ServerOfType
<1>0. /\ TypeOK /\ conns \in [Servers -> Seq(Connection)]
      /\ exchange \in [Initiators -> {"idle", "connected", "sent"}]
      /\ answer \in [Initiators -> {"none", "result", "closed"}]
  BY DEF IInv, TypeOK
<1> SUFFICES ASSUME NEW h \in Initiators, exchange'[h] # "idle", answer'[h] = "none"
             PROVE  \E k : Awaited(h, k)'
  BY DEF Attended, Awaited
<1>1. ASSUME exchange[h] # "idle", answer[h] = "none" PROVE \E k : Awaited(h, k)
  BY <1>1 DEF Attended, Awaited
<1>2. CASE Connect(i)
  <2> DEFINE s == ServerOf(i)
             n == Len(conns[s]) + 1
  <2> PICK cn : cn = [from |-> i, msg |-> Request(i), data |-> "none", open |-> TRUE]
    OBVIOUS
  <2>1. /\ conns' = [conns EXCEPT ![s] = Append(conns[s], cn)]
        /\ exchange' = [exchange EXCEPT ![i] = "connected"]
        /\ answer' = [answer EXCEPT ![i] = "none"]
        /\ HasRequest(i)
        /\ cn.from = i /\ cn.open
    BY <1>2 DEF Connect
  <2>2. cn \in Connection /\ s \in Servers /\ conns[s] \in Seq(Connection)
    BY <1>0, <2>1, RequestType DEF Connection
  <2> HIDE DEF s
  <2>3. /\ conns'[s] = Append(conns[s], cn)
        /\ \A r \in Servers : r # s => conns'[r] = conns[r]
    BY <1>0, <2>1, <2>2
  <2>4. /\ DOMAIN conns'[s] = DOMAIN conns[s] \cup {n} /\ conns'[s][n] = cn
        /\ \A k \in DOMAIN conns[s] : conns'[s][k] = conns[s][k]
    BY <2>2, <2>3, AppendElements
  <2> HIDE DEF n
  <2>5. CASE h = i
    <3>1. exchange'[i] = "connected"
      BY <1>0, <2>1
    <3>2. /\ n \in DOMAIN conns'[ServerOf(h)] /\ conns'[ServerOf(h)][n].from = h
          /\ conns'[ServerOf(h)][n].open
      BY <2>1, <2>4, <2>5 DEF s
    <3> QED
      BY <2>5, <3>1, <3>2 DEF Awaited
  <2>6. CASE h # i
    <3>1. exchange'[h] = exchange[h] /\ answer'[h] = answer[h]
      BY <1>0, <2>1, <2>6
    <3>2. PICK k : Awaited(h, k)
      BY <1>1, <3>1
    <3>3. /\ k \in DOMAIN conns'[ServerOf(h)]
          /\ conns'[ServerOf(h)][k] = conns[ServerOf(h)][k]
      BY <2>3, <2>4, <3>2 DEF Awaited
    <3> QED
      BY <3>1, <3>2, <3>3 DEF Awaited
  <2> QED
    BY <2>5, <2>6
<1>3. CASE Send(i)
  <2>1. /\ \A s \in Servers : DOMAIN conns'[s] = DOMAIN conns[s]
        /\ \A s \in Servers : \A k \in DOMAIN conns[s] :
              /\ conns'[s][k].from = conns[s][k].from
              /\ conns'[s][k].open = conns[s][k].open
              /\ conns'[s][k].data = IF /\ s = ServerOf(i) /\ conns[s][k].from = i
                                        /\ conns[s][k].open
                                     THEN "whole" ELSE conns[s][k].data
    BY <1>0, <1>3, SetDataEffect DEF Send
  <2>2. /\ answer' = answer /\ exchange[i] = "connected"
        /\ \A g \in Initiators : g # i => exchange'[g] = exchange[g]
    BY <1>0, <1>3 DEF Send
  <2>3. PICK k : Awaited(h, k)
    BY <1>1, <2>2
  <2> QED
    BY <2>1, <2>2, <2>3 DEF Awaited
<1>4. CASE GoesOn(i)
  <2>1. h # i /\ exchange'[h] = exchange[h] /\ answer' = answer
    BY <1>0, <1>4 DEF GoesOn
  <2>2. PICK k : Awaited(h, k)
    BY <1>1, <2>1
  <2> QED
    BY <1>4, <2>1, <2>2 DEF Awaited, GoesOn
<1> QED
  BY <1>2, <1>3, <1>4

\* The steps of a server: whom it closes on has an answer, or sees the end.
LEMMA ServerAttends ==
  ASSUME IInv, TypeOK', Attended, NEW s \in Servers,
         WorkerStep(s) \/ ReceiveTimesOut(s) \/ ReplyFails(s) \/ Restart(s)
  PROVE  Attended'
<1> USE TheServers, ServerOfType
<1>0. /\ TypeOK /\ conns \in [Servers -> Seq(Connection)]
      /\ exchange \in [Initiators -> {"idle", "connected", "sent"}]
      /\ answer \in [Initiators -> {"none", "result", "closed"}]
  BY DEF IInv, TypeOK
<1> SUFFICES ASSUME NEW h \in Initiators, exchange'[h] # "idle", answer'[h] = "none"
             PROVE  \E k : Awaited(h, k)'
  BY DEF Attended, Awaited
<1>1. ASSUME exchange[h] # "idle", answer[h] = "none" PROVE \E k : Awaited(h, k)
  BY <1>1 DEF Attended, Awaited
<1>2. CASE Accept(s) \/ Receive(s) \/ Handle(s)
  <2>1. UNCHANGED <<exchange, answer, conns>>
    BY <1>2 DEF Accept, Receive, Handle
  <2>2. PICK k : Awaited(h, k)
    BY <1>1, <2>1
  <2> QED
    BY <2>1, <2>2 DEF Awaited
<1>3. CASE ReceiveFails(s) \/ Reply(s) \/ ReceiveTimesOut(s) \/ ReplyFails(s)
  <2>1. /\ worker[s] # "accept" /\ conns' = [conns EXCEPT ![s] = Tail(@)]
        /\ exchange' = exchange
    BY <1>3 DEF ReceiveFails, Reply, ReceiveTimesOut, ReplyFails, CloseClient
  <2>2. \E what \in {"result", "closed"} : answer' = Told(s, what)
    BY <1>3 DEF ReceiveFails, Reply, ReceiveTimesOut, ReplyFails, Told
  <2>3. /\ conns[s] # << >> /\ conns[s] \in Seq(Connection) /\ Accepted(s) = conns[s][1]
        /\ conns[s][1].from \in Initiators
    BY <1>0, <2>1, AcceptedType DEF Connection
  <2>4. answer[h] = "none" /\ ~ (conns[s][1].open /\ conns[s][1].from = h)
    BY <1>0, <2>2, <2>3 DEF Told
  <2>5. PICK k : Awaited(h, k)
    BY <1>1, <2>1, <2>4
  <2>6. CASE ServerOf(h) = s
    <3>1. k \in DOMAIN conns[s] /\ k # 1
      BY <2>4, <2>5, <2>6 DEF Awaited
    <3>2. k - 1 \in DOMAIN Tail(conns[s]) /\ Tail(conns[s])[k - 1] = conns[s][k]
      BY <2>3, <3>1
    <3>3. conns'[s] = Tail(conns[s])
      BY <1>0, <2>1
    <3>4. k - 1 \in DOMAIN conns'[s] /\ conns'[s][k - 1] = conns[s][k]
      BY <3>2, <3>3
    <3>5. Awaited(h, k - 1)'
      BY <2>1, <2>5, <2>6, <3>4 DEF Awaited
    <3> QED
      BY <3>5
  <2>7. CASE ServerOf(h) # s
    <3>1. conns'[ServerOf(h)] = conns[ServerOf(h)]
      BY <1>0, <2>1, <2>7
    <3> QED
      BY <2>1, <2>5, <3>1 DEF Awaited
  <2> QED
    BY <2>6, <2>7
<1>4. CASE Restart(s)
  <2>1. /\ exchange[h] # "idle" /\ exchange'[h] = exchange[h] /\ answer[h] = "none"
        /\ ~ \E k \in DOMAIN conns[s] : conns[s][k].from = h /\ conns[s][k].open
        /\ s = Proxy => h # Proxy
    BY <1>0, <1>4 DEF Restart
  <2>2. PICK k : Awaited(h, k)
    BY <1>1, <2>1
  <2>3. ServerOf(h) # s
    BY <2>1, <2>2 DEF Awaited
  <2>4. h \in Clients \/ h = Proxy
    BY DEF Initiators
  <2>5. h \in Clients /\ s = Head_
    BY <2>1, <2>3, <2>4
  <2>6. conns'[ServerOf(h)] = conns[ServerOf(h)]
    BY <1>0, <1>4, <2>3, <2>5 DEF Restart
  <2> QED
    BY <2>1, <2>2, <2>6 DEF Awaited
<1> QED
  BY <1>2, <1>3, <1>4 DEF WorkerStep

\* Sensors, a starting client and the screen touch no connection.
LEMMA AttendedNext == IInv /\ Attended /\ [Next]_vars => Attended'
<1> SUFFICES ASSUME IInv, Attended, Steps, TypeOK' PROVE Attended'
  BY NextSteps, IInvNext DEF IInv
<1>1. ASSUME NEW i \in Initiators,
             \/ InitiatorStep(i)
             \/ ConnectFails(i) \/ SendFails(i) \/ AnswerTimesOut(i)
      PROVE  Attended'
  <2>1. Connect(i) \/ Send(i) \/ GoesOn(i)
    BY <1>1, InitiatorKeeps
  <2> QED
    BY <2>1, InitiatorAttends
<1>2. ASSUME NEW s \in Servers,
             WorkerStep(s) \/ ReceiveTimesOut(s) \/ ReplyFails(s) \/ Restart(s)
      PROVE  Attended'
  BY <1>2, ServerAttends
<1>3. ASSUME UNCHANGED <<exchange, answer, conns>> PROVE Attended'
  BY <1>3 DEF Attended
<1>4. \/ UNCHANGED <<exchange, answer, conns>>
      \/ \E i \in Initiators : \/ InitiatorStep(i)
                               \/ ConnectFails(i) \/ SendFails(i) \/ AnswerTimesOut(i)
      \/ \E s \in Servers : \/ WorkerStep(s)
                            \/ ReceiveTimesOut(s) \/ ReplyFails(s) \/ Restart(s)
  BY DEF Steps, SensorEvent, Start, Show, network, vars
<1> QED
  BY <1>1, <1>2, <1>3, <1>4

\* An initiator that has no answer yet has an open connection, with its request
\* and all that it has sent of it; a worker waits only for a request that is
\* still to be sent: whatever was restarted, the two ends of an exchange never
\* wait for each other (socket_client.cpp, socket_server.cpp).
THEOREM AnswersAreAwaited == Spec => []NobodyWaitsInVain
<1>1. Init => Attended
  BY DEF Init, Attended
<1>2. IInv /\ Attended => NobodyWaitsInVain
  <2> SUFFICES ASSUME IInv, Attended PROVE NobodyWaitsInVain
    OBVIOUS
  <2>0. TypeOK /\ exchange \in [Initiators -> {"idle", "connected", "sent"}]
    BY DEF IInv, TypeOK
  <2>1. ASSUME NEW i \in Initiators, exchange[i] # "idle", answer[i] = "none"
        PROVE  \E k \in DOMAIN conns[ServerOf(i)] :
                 /\ conns[ServerOf(i)][k].from = i /\ conns[ServerOf(i)][k].open
                 /\ conns[ServerOf(i)][k].msg = Request(i)
                 /\ conns[ServerOf(i)][k].data = "whole" <=> exchange[i] = "sent"
    <3>1. PICK k : Awaited(i, k)
      BY <2>1 DEF Attended, Awaited
    <3>2. /\ k \in DOMAIN conns[ServerOf(i)]
          /\ conns[ServerOf(i)][k].msg = Request(i)
          /\ conns[ServerOf(i)][k].data = "whole" => exchange[i] = "sent"
      BY <3>1, ServerOfType DEF Awaited, IInv, Heard
    <3> QED
      BY <3>1, <3>2 DEF Awaited
  <2>2. ASSUME NEW s \in Servers, worker[s] = "receive", Accepted(s).open,
               Accepted(s).data # "whole"
        PROVE  exchange[Accepted(s).from] = "connected"
    <3>1. /\ Accepted(s) = conns[s][1] /\ 1 \in DOMAIN conns[s]
          /\ conns[s][1].from \in Initiators
      BY <2>0, <2>2, AcceptedType DEF Connection
    <3> PICK i \in Initiators : i = conns[s][1].from
      BY <3>1
    <3>2. /\ exchange[i] # "idle" /\ answer[i] = "none" /\ ServerOf(i) = s
          /\ \A l \in DOMAIN conns[s] : conns[s][l].open /\ conns[s][l].from = i => l = 1
      BY <2>2, <3>1 DEF IInv, Heard, Routed
    <3>3. PICK k \in DOMAIN conns[s] :
            /\ conns[s][k].from = i /\ conns[s][k].open
            /\ conns[s][k].data = "whole" <=> exchange[i] = "sent"
      BY <2>1, <3>2
    <3>4. k = 1
      BY <3>2, <3>3
    <3> QED
      BY <2>0, <2>2, <3>1, <3>2, <3>3, <3>4
  <2> QED
    BY <2>1, <2>2 DEF NobodyWaitsInVain
<1> QED
  BY <1>1, <1>2, IInvAlways, AttendedNext, PTL DEF Spec

-----------------------------------------------------------------------------
(***************************************************************************)
(* No server takes an event twice.                                         *)
(***************************************************************************)
\* A queue that grows is that of a server that handles an event.
LEMMA GrowsByHandle ==
  ASSUME IInv, Steps, TypeOK', NEW s \in Servers, Len(queue'[s]) > Len(queue[s])
  PROVE  Handle(s) /\ IsEvent(Accepted(s).msg)
<1> USE TheServers, ServerOfType
<1>0. /\ TypeOK /\ queue \in [Queues -> Seq(Events)] /\ s \in Queues
      /\ queue[s] \in Seq(Events) /\ Len(queue[s]) \in Nat
      /\ queue'[s] \in Seq(Events) /\ Len(queue'[s]) \in Nat
      /\ s \notin Clients
  BY DEF IInv, TypeOK, Queues
<1>1. queue'[s] # queue[s]
  BY <1>0
<1>2. ASSUME NEW i \in Initiators,
             \/ InitiatorStep(i)
             \/ ConnectFails(i) \/ SendFails(i) \/ AnswerTimesOut(i)
      PROVE  FALSE
  <2>1. GoesOn(i) /\ i = s
    <3>1. Connect(i) \/ Send(i) \/ GoesOn(i)
      BY <1>2, InitiatorKeeps
    <3>2. ~ Connect(i) /\ ~ Send(i)
      BY <1>1 DEF Connect, Send
    <3> QED
      BY <1>0, <1>1, <3>1, <3>2 DEF GoesOn
  <2>2. Len(queue'[s]) \in DOMAIN queue'[s]
    BY <1>0
  <2>3. Len(queue'[s]) + 1 \in DOMAIN queue[s]
    BY <2>1, <2>2 DEF GoesOn
  <2> QED
    BY <1>0, <2>3
<1>3. ASSUME NEW r \in Servers,
             WorkerStep(r) \/ ReceiveTimesOut(r) \/ ReplyFails(r) \/ Restart(r)
      PROVE  Handle(s) /\ IsEvent(Accepted(s).msg)
  <2>1. CASE Restart(r)
    BY <1>0, <1>1, <2>1 DEF Restart
  <2>2. CASE Handle(r)
    BY <1>0, <1>1, <2>2 DEF Handle, IsEvent
  <2> QED
    BY <1>1, <1>3, <2>1, <2>2 DEF WorkerStep, Accept, Receive, ReceiveFails, Reply,
       ReceiveTimesOut, ReplyFails
<1>4. ASSUME NEW c \in Clients, SensorEvent(c) \/ Start(c) PROVE FALSE
  BY <1>0, <1>1, <1>4 DEF SensorEvent, Start
<1>5. ~ Show
  <2> SUFFICES ASSUME Show PROVE FALSE
    OBVIOUS
  <2>1. s = Head_ /\ queue[s] # << >> /\ queue'[s] = Tail(queue[s])
    BY <1>0, <1>1 DEF Show
  <2> QED
    BY <1>0, <2>1
<1>6. ~ UNCHANGED vars
  BY <1>1 DEF vars
<1> QED
  BY <1>2, <1>3, <1>4, <1>5, <1>6 DEF Steps

\* What a server puts into its queue comes after all that it has put there: no
\* answer that is lost makes an initiator send an event again
\* (client_main.cpp, proxy_main.cpp).
THEOREM EventsAreTakenOnce == Spec => TakenOnce
<1>1. ASSUME IInv, [Next]_vars, NEW s \in Servers, Len(queue'[s]) > Len(queue[s])
      PROVE  queue'[s][Len(queue'[s])] \notin accepted[s]
  <2>1. Steps /\ TypeOK' /\ TypeOK
    BY <1>1, NextSteps, IInvNext DEF IInv
  <2>2. Handle(s) /\ IsEvent(Accepted(s).msg)
    BY <1>1, <2>1, GrowsByHandle
  <2> PICK m : m = conns[s][1].msg
    OBVIOUS
  <2>3. /\ worker[s] = "handle" /\ 1 \in DOMAIN conns[s] /\ Accepted(s) = conns[s][1]
        /\ m \in Requests
    BY <2>1, <2>2, AcceptedType DEF Handle, Connection
  <2>4. m \in Events /\ IsEvent(m)
    BY <2>2, <2>3, EventRequests
  <2>5. \A x \in accepted[s] : Before(x, m)
    <3>1. IsEvent(conns[s][1].msg) /\ ~ Handled(s, 1)
      BY <2>3, <2>4 DEF Handled
    <3> QED
      BY <1>1, <2>3, <3>1 DEF IInv, InLine
  <2>6. m \notin accepted[s]
    BY <2>4, <2>5, EventRequests DEF Before
  <2>7. queue'[s] = Append(queue[s], m) /\ queue[s] \in Seq(Events)
    BY <2>1, <2>2, <2>3, <2>4, TheServers DEF Handle, TypeOK, IsEvent, Queues
  <2>8. queue'[s][Len(queue'[s])] = m
    BY <2>4, <2>7
  <2> QED
    BY <2>6, <2>8
<1>2. IInv /\ [Next]_vars =>
        [ \A s \in Servers : Len(queue'[s]) > Len(queue[s]) =>
            queue'[s][Len(queue'[s])] \notin accepted[s] ]_vars
  BY <1>1
<1> QED
  BY <1>2, IInvAlways, PTL DEF Spec, TakenOnce
=============================================================================
