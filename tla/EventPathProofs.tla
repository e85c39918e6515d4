-------------------------- MODULE EventPathProofs --------------------------
(***************************************************************************)
(* Proofs about EventPath, for any number of clients, events and failures: *)
(* its types, what an answer means, and that it implements EventDelivery.  *)
(*                                                                         *)
(* Everything rests on the order in which the events of one client lie on  *)
(* their way: shown, in the head's queue, on a connection to the head, in  *)
(* the proxy's queue, on a connection to the proxy, in the client's queue. *)
(***************************************************************************)
EXTENDS EventPath, TLAPS

\* Of two events of one client, e happened before f.
Before(e, f) == e.client = f.client => e.n < f.n

IsEvent(m) == m.kind = "event"

\* Who connects to whom, and with whose messages.
Routed ==
  /\ \A c \in Clients : \A k \in DOMAIN queue[c] : queue[c][k].client = c
  /\ \A s \in Servers : \A k \in DOMAIN conns[s] :
       /\ ServerOf(conns[s][k].from) = s
       /\ conns[s][k].from \in Clients => conns[s][k].msg.client = conns[s][k].from
       /\ conns[s][k].from = Proxy => IsEvent(conns[s][k].msg)

\* An initiator in an exchange has a request; a client that is not in PROCESS
\* has no events.
Underway ==
  /\ \A c \in Clients : current_state[c] # "PROCESS" => queue[c] = << >>
  /\ \A i \in Initiators : exchange[i] # "idle" => HasRequest(i)

\* A connection that its initiator has not closed is the one on which it waits.
Heard ==
  /\ \A s \in Servers : \A k \in DOMAIN conns[s] :
       conns[s][k].open =>
         LET i == conns[s][k].from IN
         /\ exchange[i] # "idle" /\ answer[i] = "none"
         /\ conns[s][k].msg = Request(i)
         /\ conns[s][k].data = "whole" => exchange[i] = "sent"
         /\ \A l \in DOMAIN conns[s] : conns[s][l].open /\ conns[s][l].from = i => l = k

\* A worker handles whole requests only, and answers when it has taken the
\* event; an initiator with an answer has sent the event that was taken.
Answered ==
  /\ \A s \in Servers :
       /\ worker[s] \in {"handle", "reply"} => conns[s][1].data = "whole"
       /\ worker[s] = "reply" /\ IsEvent(conns[s][1].msg) =>
            conns[s][1].msg \in accepted[s]
  /\ \A i \in Initiators :
       exchange[i] # "idle" /\ answer[i] = "result" =>
         /\ exchange[i] = "sent"
         /\ IsEvent(Request(i)) => Request(i) \in accepted[ServerOf(i)]

\* What is further on its way has been taken by the servers before.
Passed ==
  /\ \A s \in Servers : \A k \in DOMAIN queue[s] : queue[s][k] \in accepted[s]
  /\ \A k \in DOMAIN conns[Head_] : conns[Head_][k].msg \in accepted[Proxy]
  /\ accepted[Head_] \subseteq accepted[Proxy]
  /\ \A k \in DOMAIN shown : shown[k] \in accepted[Head_]

\* Nothing is on its way that was not reported.
Reported ==
  /\ \A x \in accepted[Proxy] : x.n <= generated[x.client]
  /\ \A c \in Clients : \A k \in DOMAIN queue[c] : queue[c][k].n <= generated[c]
  /\ \A k \in DOMAIN conns[Proxy] :
       LET m == conns[Proxy][k].msg IN IsEvent(m) => m.n <= generated[m.client]

\* The worker of s has handled its k-th connection.
Handled(s, k) == k = 1 /\ worker[s] = "reply"

\* What a server has yet to handle comes after what it has taken, in order.
InLine ==
  \A s \in Servers :
    /\ \A k \in DOMAIN conns[s] :
         IsEvent(conns[s][k].msg) /\ ~ Handled(s, k) =>
           \A x \in accepted[s] : Before(x, conns[s][k].msg)
    /\ \A k, l \in DOMAIN conns[s] :
         k < l /\ IsEvent(conns[s][k].msg) /\ IsEvent(conns[s][l].msg) =>
           Before(conns[s][k].msg, conns[s][l].msg)

\* Each queue holds the events of one client in order.
Sorted ==
  \A q \in Queues : \A k, l \in DOMAIN queue[q] : k < l => Before(queue[q][k], queue[q][l])

\* What an initiator has comes after what it has sent, but for the event that
\* it is just sending.
Behind ==
  \A i \in Initiators : \A j \in DOMAIN queue[i] :
    /\ \A k \in DOMAIN conns[ServerOf(i)] :
         LET cn == conns[ServerOf(i)][k] IN
         cn.from = i /\ IsEvent(cn.msg) =>
           Before(cn.msg, queue[i][j]) \/ (cn.open /\ j = 1)
    /\ \A x \in accepted[ServerOf(i)] :
         Before(x, queue[i][j]) \/ (j = 1 /\ x = queue[i][1] /\ exchange[i] = "sent")

\* What is shown comes before what is to be shown, in order.
Screen ==
  /\ \A k, l \in DOMAIN shown : k < l => Before(shown[k], shown[l])
  /\ \A k \in DOMAIN shown : \A j \in DOMAIN queue[Head_] : Before(shown[k], queue[Head_][j])

IInv == /\ TypeOK /\ Routed /\ Underway /\ Heard /\ Answered /\ Passed /\ Reported
        /\ InLine /\ Sorted /\ Behind /\ Screen

-----------------------------------------------------------------------------
\* What is left of a queue when its first element is taken.
LEMMA TailElements ==
  ASSUME NEW S, NEW q \in Seq(S), q # << >>
  PROVE  /\ Tail(q) \in Seq(S)
         /\ Head(q) = q[1] /\ Head(q) \in S
         /\ 1 \in DOMAIN q
         /\ \A k \in DOMAIN Tail(q) : k + 1 \in DOMAIN q /\ Tail(q)[k] = q[k + 1]
OBVIOUS

\* A sequence with an element has a first one.
LEMMA SomeElement ==
  ASSUME NEW S, NEW q \in Seq(S), NEW k \in DOMAIN q
  PROVE  q # << >> /\ 1 \in DOMAIN q /\ q[k] \in S /\ q[1] \in S
OBVIOUS

\* A queue with one more element.
LEMMA AppendElements ==
  ASSUME NEW S, NEW q \in Seq(S), NEW e \in S
  PROVE  /\ Append(q, e) \in Seq(S)
         /\ Append(q, e) # << >>
         /\ DOMAIN Append(q, e) = DOMAIN q \cup {Len(q) + 1}
         /\ Len(q) + 1 \notin DOMAIN q
         /\ Append(q, e)[Len(q) + 1] = e
         /\ \A k \in DOMAIN q : Append(q, e)[k] = q[k] /\ k < Len(q) + 1
         /\ q # << >> => 1 \in DOMAIN q
<1>1. /\ Append(q, e) \in Seq(S) /\ Len(Append(q, e)) = Len(q) + 1
      /\ Append(q, e)[Len(q) + 1] = e
      /\ \A k \in 1 .. Len(q) : Append(q, e)[k] = q[k]
  OBVIOUS
<1>2. /\ DOMAIN q = 1 .. Len(q) /\ DOMAIN Append(q, e) = 1 .. Len(q) + 1
      /\ Len(q) \in Nat
  BY <1>1
<1>3. Append(q, e) # << >>
  BY <1>2
<1>4. q # << >> => 1 \in DOMAIN q
  OBVIOUS
<1> QED
  BY <1>1, <1>2, <1>3, <1>4

\* A sequence with its elements changed.
LEMMA MapElements ==
  ASSUME NEW S, NEW T, NEW q \in Seq(T), NEW f \in [DOMAIN q -> S]
  PROVE  f \in Seq(S)
OBVIOUS

\* Who there is, and who connects to whom.
LEMMA TheServers ==
  /\ Proxy # Head_ /\ Proxy \in Servers /\ Head_ \in Servers
  /\ Servers = {Proxy, Head_}
  /\ Proxy \in Initiators /\ Proxy \in Queues /\ Head_ \in Queues
  /\ Head_ \notin Initiators
  /\ Initiators \subseteq Queues
  /\ Clients \subseteq Initiators
  /\ ServerOf(Proxy) = Head_
  /\ \A c \in Clients : c # Proxy /\ c # Head_ /\ ServerOf(c) = Proxy
BY PathAssumption DEF Servers, Initiators, Queues, ServerOf

\* The peer of an initiator is a server.
LEMMA ServerOfType == \A i \in Initiators : ServerOf(i) \in Servers
BY PathAssumption DEF Servers, Initiators, ServerOf

\* Events are the requests of kind "event".
LEMMA EventRequests ==
  /\ Events \subseteq Requests
  /\ \A m \in Requests : IsEvent(m) <=> m \in Events
  /\ \A e \in Events : IsEvent(e) /\ e.client \in Clients /\ e.n \in Nat /\ e.n >= 1
BY PathAssumption DEF Events, Requests, IsEvent

\* What an initiator sends: an event from its queue once a client is in PROCESS.
LEMMA RequestType ==
  ASSUME TypeOK, NEW i \in Initiators, HasRequest(i)
  PROVE  /\ Request(i) \in Requests
         /\ i \in Clients /\ current_state[i] # "PROCESS" => ~ IsEvent(Request(i))
         /\ ~ (i \in Clients /\ current_state[i] # "PROCESS") =>
              queue[i] # << >> /\ Request(i) = queue[i][1] /\ Request(i) \in Events
<1>1. i \notin Clients => i = Proxy
  BY DEF Initiators
<1>2. CASE i \in Clients /\ current_state[i] # "PROCESS"
  <2>1. \/ Request(i) = [kind |-> "version", client |-> i, n |-> 0]
        \/ Request(i) = [kind |-> "config", client |-> i, n |-> 0]
    BY <1>2, PathAssumption DEF HasRequest, Request
  <2> QED
    BY <1>2, <2>1 DEF Requests, IsEvent
<1>3. CASE ~ (i \in Clients /\ current_state[i] # "PROCESS")
  <2>1. queue[i] # << >> /\ Request(i) = Head(queue[i])
    BY <1>3 DEF HasRequest, Request
  <2>2. queue[i] \in Seq(Events)
    BY TheServers, ServerOfType DEF TypeOK
  <2>3. Head(queue[i]) = queue[i][1] /\ Head(queue[i]) \in Events
    BY <2>1, <2>2, TailElements
  <2> QED
    BY <1>3, <2>1, <2>3, EventRequests
<1> QED
  BY <1>2, <1>3

\* What SetData and Shut leave of the connections.
LEMMA SetDataEffect ==
  ASSUME TypeOK, NEW i \in Initiators, NEW d \in {"none", "part", "whole"},
         NEW cs, cs = SetData(i, d)
  PROVE  /\ cs \in [Servers -> Seq(Connection)]
         /\ \A s \in Servers : DOMAIN cs[s] = DOMAIN conns[s]
         /\ \A s \in Servers : \A k \in DOMAIN conns[s] :
              /\ cs[s][k].from = conns[s][k].from
              /\ cs[s][k].msg = conns[s][k].msg
              /\ cs[s][k].open = conns[s][k].open
              /\ cs[s][k].data = IF s = ServerOf(i) /\ conns[s][k].from = i /\ conns[s][k].open
                                 THEN d ELSE conns[s][k].data
<1> DEFINE t == ServerOf(i)
           new == [k \in DOMAIN conns[t] |->
                     IF conns[t][k].from = i /\ conns[t][k].open
                     THEN [conns[t][k] EXCEPT !.data = d] ELSE conns[t][k]]
<1>1. t \in Servers /\ conns \in [Servers -> Seq(Connection)]
  BY TheServers, ServerOfType DEF TypeOK
<1>2. cs = [conns EXCEPT ![t] = new]
  BY DEF SetData
<1>3. conns[t] \in Seq(Connection) /\ \A k \in DOMAIN conns[t] : conns[t][k] \in Connection
  BY <1>1
<1>4. \A k \in DOMAIN conns[t] :
        /\ new[k] \in Connection
        /\ new[k].from = conns[t][k].from
        /\ new[k].msg = conns[t][k].msg
        /\ new[k].open = conns[t][k].open
        /\ new[k].data = IF conns[t][k].from = i /\ conns[t][k].open
                         THEN d ELSE conns[t][k].data
  BY <1>3 DEF Connection
<1>5. new \in [DOMAIN conns[t] -> Connection]
  BY <1>4
<1>6. new \in Seq(Connection)
  BY <1>3, <1>5, MapElements
<1>7. cs[t] = new /\ \A s \in Servers : s # t => cs[s] = conns[s]
  BY <1>1, <1>2
<1>8. DOMAIN new = DOMAIN conns[t]
  OBVIOUS
<1> HIDE DEF new
<1>9. cs \in [Servers -> Seq(Connection)]
  BY <1>1, <1>2, <1>6
<1> QED
  BY <1>4, <1>7, <1>8, <1>9

\* Shut ends only the open connections of an initiator, and moves nothing.
LEMMA ShutEffect ==
  ASSUME NEW cs \in [Servers -> Seq(Connection)], NEW i \in Initiators,
         NEW new, new = Shut(i, cs)
  PROVE  /\ new \in [Servers -> Seq(Connection)]
         /\ \A s \in Servers : DOMAIN new[s] = DOMAIN cs[s]
         /\ \A s \in Servers : \A k \in DOMAIN cs[s] :
              /\ new[s][k].from = cs[s][k].from
              /\ new[s][k].msg = cs[s][k].msg
              /\ new[s][k].data = cs[s][k].data
              /\ (new[s][k].open <=> cs[s][k].open /\ ~ (s = ServerOf(i) /\ cs[s][k].from = i))
<1> DEFINE t == ServerOf(i)
           f == [k \in DOMAIN cs[t] |-> IF cs[t][k].from = i
                                        THEN [cs[t][k] EXCEPT !.open = FALSE] ELSE cs[t][k]]
<1>1. t \in Servers
  BY TheServers, ServerOfType
<1>2. new = [cs EXCEPT ![t] = f]
  BY DEF Shut
<1>3. cs[t] \in Seq(Connection) /\ \A k \in DOMAIN cs[t] : cs[t][k] \in Connection
  BY <1>1
<1>4. \A k \in DOMAIN cs[t] :
        /\ f[k] \in Connection
        /\ f[k].from = cs[t][k].from
        /\ f[k].msg = cs[t][k].msg
        /\ f[k].data = cs[t][k].data
        /\ f[k].open <=> cs[t][k].open /\ cs[t][k].from # i
  BY <1>3 DEF Connection
<1>5. f \in [DOMAIN cs[t] -> Connection]
  BY <1>4
<1>6. f \in Seq(Connection)
  BY <1>3, <1>5, MapElements
<1>7. new[t] = f /\ \A s \in Servers : s # t => new[s] = cs[s]
  BY <1>1, <1>2
<1>8. DOMAIN f = DOMAIN cs[t]
  OBVIOUS
<1> HIDE DEF f
<1>9. new \in [Servers -> Seq(Connection)]
  BY <1>1, <1>2, <1>6
<1> QED
  BY <1>4, <1>7, <1>8, <1>9

-----------------------------------------------------------------------------
(***************************************************************************)
(* Types.                                                                  *)
(***************************************************************************)
\* What an initiator gives up or has got through leaves.
LEMMA AbandonType ==
  ASSUME TypeOK, NEW i \in Initiators, HasRequest(i),
         NEW cs \in [Servers -> Seq(Connection)],
         \A s \in Servers : DOMAIN cs[s] = DOMAIN conns[s],
         Abandon(i, cs), failures' \in 0 .. MaxFailures
  PROVE  TypeOK'
<1>1. /\ exchange' \in [Initiators -> {"idle", "connected", "sent"}]
      /\ current_state' \in [Clients -> {"DOWN", "VERSION", "CONFIG", "PROCESS"}]
  BY DEF Abandon, TypeOK
<1>2. /\ conns' \in [Servers -> Seq(Connection)]
      /\ \A s \in Servers : DOMAIN conns'[s] = DOMAIN conns[s]
  BY ShutEffect DEF Abandon
<1>3. queue' \in [Queues -> Seq(Events)]
  <2>1. queue[i] \in Seq(Events) /\ queue \in [Queues -> Seq(Events)]
    BY TheServers, ServerOfType DEF TypeOK
  <2>2. CASE i \in Clients
    <3>1. queue' = [queue EXCEPT ![i] = << >>]
      BY <2>2 DEF Abandon
    <3>2. << >> \in Seq(Events)
      OBVIOUS
    <3> QED
      BY <2>1, <3>1, <3>2
  <2>3. CASE i \notin Clients
    <3>1. queue[i] # << >>
      BY <2>3 DEF HasRequest
    <3>2. Tail(queue[i]) \in Seq(Events)
      BY <2>1, <3>1, TailElements
    <3> QED
      BY <2>1, <2>3, <3>2 DEF Abandon
  <2> QED
    BY <2>2, <2>3
<1>4. \A s \in Servers : worker'[s] # "accept" => conns'[s] # << >>
  <2> SUFFICES ASSUME NEW s \in Servers, worker[s] # "accept" PROVE conns'[s] # << >>
    BY DEF Abandon
  <2>1. conns[s] # << >> /\ conns[s] \in Seq(Connection) /\ conns'[s] \in Seq(Connection)
    BY <1>2 DEF TypeOK
  <2>2. 1 \in DOMAIN conns'[s]
    BY <1>2, <2>1, TailElements
  <2> QED
    BY <2>1, <2>2, SomeElement
<1> QED
  BY <1>1, <1>2, <1>3, <1>4 DEF Abandon, TypeOK, history

\* The worker closes the connection that it has accepted.
LEMMA CloseClientType ==
  ASSUME TypeOK, NEW s \in Servers, worker[s] # "accept", CloseClient(s),
         answer' \in [Initiators -> {"none", "result", "closed"}],
         failures' \in 0 .. MaxFailures,
         UNCHANGED <<current_state, queue, exchange, generated, history>>
  PROVE  TypeOK'
<1>1. conns[s] # << >> /\ conns[s] \in Seq(Connection)
  BY DEF TypeOK
<1>2. Tail(conns[s]) \in Seq(Connection)
  BY <1>1, TailElements
<1>3. conns' \in [Servers -> Seq(Connection)]
  BY <1>2 DEF CloseClient, TypeOK
<1>4. worker' \in [Servers -> {"accept", "receive", "handle", "reply"}]
  BY DEF CloseClient, TypeOK
<1>5. \A r \in Servers : worker'[r] # "accept" => conns'[r] # << >>
  BY DEF CloseClient, TypeOK
<1> QED
  BY <1>3, <1>4, <1>5 DEF TypeOK, history

\* The connection that a worker has accepted, and what it may tell its initiator.
LEMMA AcceptedType ==
  ASSUME TypeOK, NEW s \in Servers, worker[s] # "accept"
  PROVE  /\ conns[s] # << >> /\ 1 \in DOMAIN conns[s]
         /\ Accepted(s) = conns[s][1] /\ Accepted(s) \in Connection
         /\ \A what \in {"result", "closed"} :
              Told(s, what) \in [Initiators -> {"none", "result", "closed"}]
<1>1. conns[s] # << >> /\ conns[s] \in Seq(Connection)
  BY DEF TypeOK
<1>2. /\ 1 \in DOMAIN conns[s]
      /\ Accepted(s) = conns[s][1] /\ Accepted(s) \in Connection
  BY <1>1, TailElements DEF Accepted
<1>3. Accepted(s).from \in Initiators
  BY <1>2 DEF Connection
<1> QED
  BY <1>1, <1>2, <1>3 DEF Told, TypeOK

\* The types hold initially; the next lemmas take the steps of initiators, of
\* servers and of others.
LEMMA TypeInit == Init => TypeOK
<1> SUFFICES ASSUME Init PROVE TypeOK
  OBVIOUS
<1>1. << >> \in Seq(Events) /\ << >> \in Seq(Connection)
  OBVIOUS
<1> QED
  BY <1>1, PathAssumption DEF Init, TypeOK

LEMMA InitiatorTypes ==
  ASSUME TypeOK, Underway, NEW i \in Initiators,
         \/ InitiatorStep(i)
         \/ ConnectFails(i) \/ SendFails(i) \/ AnswerTimesOut(i)
  PROVE  TypeOK'
<1>0. /\ conns \in [Servers -> Seq(Connection)] /\ failures \in 0 .. MaxFailures
      /\ exchange[i] # "idle" => HasRequest(i)
  BY DEF TypeOK, Underway
<1>1. CASE Connect(i)
  <2> DEFINE cn == [from |-> i, msg |-> Request(i), data |-> "none", open |-> TRUE]
             s == ServerOf(i)
  <2>1. s \in Servers /\ conns[s] \in Seq(Connection)
    BY <1>0, TheServers, ServerOfType
  <2>2. HasRequest(i) /\ Request(i) \in Requests
    BY <1>1, RequestType DEF Connect
  <2>3. cn \in Connection
    BY <2>2 DEF Connection
  <2>4. Append(conns[s], cn) \in Seq(Connection) /\ Append(conns[s], cn) # << >>
    BY <2>1, <2>3, AppendElements
  <2>5. conns' = [conns EXCEPT ![s] = Append(conns[s], cn)]
    BY <1>1 DEF Connect
  <2> HIDE DEF cn, s
  <2>6. conns' \in [Servers -> Seq(Connection)]
    BY <1>0, <2>1, <2>4, <2>5
  <2>7. \A r \in Servers : worker'[r] # "accept" => conns'[r] # << >>
    BY <1>0, <1>1, <2>4, <2>5 DEF Connect, TypeOK
  <2>8. /\ exchange' \in [Initiators -> {"idle", "connected", "sent"}]
        /\ answer' \in [Initiators -> {"none", "result", "closed"}]
    BY <1>1 DEF Connect, TypeOK
  <2> QED
    BY <1>1, <2>6, <2>7, <2>8 DEF Connect, TypeOK, history
<1>2. CASE Send(i)
  <2>1. /\ conns' \in [Servers -> Seq(Connection)]
        /\ \A s \in Servers : DOMAIN conns'[s] = DOMAIN conns[s]
    BY <1>2, SetDataEffect DEF Send
  <2>2. \A s \in Servers : worker[s] # "accept" => conns'[s] # << >>
    BY <1>0, <2>1, TailElements, SomeElement DEF TypeOK
  <2>3. exchange' \in [Initiators -> {"idle", "connected", "sent"}]
    BY <1>2 DEF Send, TypeOK
  <2> QED
    BY <1>2, <2>1, <2>2, <2>3 DEF Send, TypeOK, history
<1>3. CASE Succeed(i)
  <2>1. /\ conns' \in [Servers -> Seq(Connection)]
        /\ \A s \in Servers : DOMAIN conns'[s] = DOMAIN conns[s]
    <3>1. conns' = Shut(i, conns)
      BY <1>3 DEF Succeed
    <3> QED
      BY <1>0, <3>1, ShutEffect
  <2>2. \A s \in Servers : worker[s] # "accept" => conns'[s] # << >>
    BY <1>0, <2>1, TailElements, SomeElement DEF TypeOK
  <2>3. exchange' \in [Initiators -> {"idle", "connected", "sent"}]
    BY <1>3 DEF Succeed, TypeOK
  <2>4. queue[i] \in Seq(Events) /\ queue \in [Queues -> Seq(Events)] /\ i \in Queues
    BY TheServers, ServerOfType DEF TypeOK
  <2>5. HasRequest(i)
    BY <1>0, <1>3 DEF Succeed
  <2>6. /\ current_state' \in [Clients -> {"DOWN", "VERSION", "CONFIG", "PROCESS"}]
        /\ queue' \in [Queues -> Seq(Events)]
        /\ acked' \in [Initiators -> SUBSET Events]
    <3>1. CASE i \in Clients /\ current_state[i] # "PROCESS"
      BY <1>3, <3>1 DEF Succeed, TypeOK
    <3>2. CASE ~ (i \in Clients /\ current_state[i] # "PROCESS")
      <4>1. queue[i] # << >>
        BY <2>5, <3>2, RequestType
      <4>2. Head(queue[i]) \in Events /\ Tail(queue[i]) \in Seq(Events)
        BY <2>4, <4>1, TailElements
      <4>3. /\ queue' = [queue EXCEPT ![i] = Tail(queue[i])]
            /\ acked' = [acked EXCEPT ![i] = acked[i] \cup {Head(queue[i])}]
            /\ UNCHANGED current_state
        BY <1>3, <3>2 DEF Succeed
      <4>4. queue' \in [Queues -> Seq(Events)]
        BY <2>4, <4>2, <4>3
      <4>5. acked' \in [Initiators -> SUBSET Events]
        BY <4>2, <4>3 DEF TypeOK
      <4> QED
        BY <4>3, <4>4, <4>5 DEF TypeOK
    <3> QED
      BY <3>1, <3>2
  <2> QED
    BY <1>3, <2>1, <2>2, <2>3, <2>6 DEF Succeed, TypeOK
<1>4. CASE ClosedOn(i) \/ AnswerTimesOut(i) \/ ConnectFails(i)
  <2>1. Abandon(i, conns) /\ HasRequest(i)
    BY <1>0, <1>4 DEF ClosedOn, AnswerTimesOut, ConnectFails
  <2>2. failures' \in 0 .. MaxFailures
    BY <1>0, <1>4, PathAssumption DEF ClosedOn, AnswerTimesOut, ConnectFails, Spontaneous
  <2> QED
    BY <1>0, <2>1, <2>2, AbandonType
<1>5. CASE SendFails(i)
  <2>1. PICK d \in {"none", "part"} : Abandon(i, SetData(i, d))
    BY <1>5 DEF SendFails
  <2>2. /\ SetData(i, d) \in [Servers -> Seq(Connection)]
        /\ \A s \in Servers : DOMAIN SetData(i, d)[s] = DOMAIN conns[s]
    BY SetDataEffect
  <2>3. failures' \in 0 .. MaxFailures /\ HasRequest(i)
    BY <1>0, <1>5, PathAssumption DEF SendFails, Spontaneous
  <2> QED
    BY <2>1, <2>2, <2>3, AbandonType
<1> QED
  BY <1>1, <1>2, <1>3, <1>4, <1>5 DEF InitiatorStep

LEMMA ServerTypes ==
  ASSUME TypeOK, NEW s \in Servers,
         WorkerStep(s) \/ ReceiveTimesOut(s) \/ ReplyFails(s) \/ Restart(s)
  PROVE  TypeOK'
<1>0. /\ conns \in [Servers -> Seq(Connection)] /\ failures \in 0 .. MaxFailures
      /\ answer \in [Initiators -> {"none", "result", "closed"}]
      /\ worker \in [Servers -> {"accept", "receive", "handle", "reply"}]
  BY DEF TypeOK
<1>1. CASE Accept(s) \/ Receive(s)
  <2>1. worker' \in [Servers -> {"accept", "receive", "handle", "reply"}]
    BY <1>0, <1>1 DEF Accept, Receive
  <2>2. \A r \in Servers : worker'[r] # "accept" => conns[r] # << >>
    BY <1>0, <1>1 DEF Accept, Receive, TypeOK
  <2>3. UNCHANGED <<current_state, queue, exchange, answer, conns, generated,
                    history, failures>>
    BY <1>1 DEF Accept, Receive
  <2> QED
    BY <2>1, <2>2, <2>3 DEF TypeOK, history
<1>2. CASE ReceiveFails(s) \/ ReceiveTimesOut(s) \/ Reply(s) \/ ReplyFails(s)
  <2>1. worker[s] # "accept" /\ CloseClient(s)
    BY <1>2 DEF ReceiveFails, ReceiveTimesOut, Reply, ReplyFails
  <2>2. answer' \in [Initiators -> {"none", "result", "closed"}]
    BY <1>0, <1>2, <2>1, AcceptedType DEF ReceiveFails, ReceiveTimesOut, Reply, ReplyFails
  <2>3. failures' \in 0 .. MaxFailures
    BY <1>0, <1>2, PathAssumption
       DEF ReceiveFails, ReceiveTimesOut, Reply, ReplyFails, Spontaneous
  <2>4. UNCHANGED <<current_state, queue, exchange, generated, history>>
    BY <1>2 DEF ReceiveFails, ReceiveTimesOut, Reply, ReplyFails
  <2> QED
    BY <2>1, <2>2, <2>3, <2>4, CloseClientType
<1>3. CASE Handle(s)
  <2>1. worker' \in [Servers -> {"accept", "receive", "handle", "reply"}]
    BY <1>0, <1>3 DEF Handle
  <2>2. \A r \in Servers : worker'[r] # "accept" => conns[r] # << >>
    BY <1>0, <1>3 DEF Handle, TypeOK
  <2>3. /\ queue' \in [Queues -> Seq(Events)]
        /\ accepted' \in [Servers -> SUBSET Events]
    <3>1. CASE IsEvent(Accepted(s).msg)
      <4>1. Accepted(s) \in Connection
        BY <1>3, AcceptedType DEF Handle
      <4>2. Accepted(s).msg \in Events
        BY <3>1, <4>1, EventRequests DEF Connection
      <4>3. queue[s] \in Seq(Events)
        BY DEF TypeOK, Queues
      <4>4. Append(queue[s], Accepted(s).msg) \in Seq(Events)
        BY <4>2, <4>3, AppendElements
      <4>5. /\ queue' = [queue EXCEPT ![s] = Append(queue[s], Accepted(s).msg)]
            /\ accepted' = [accepted EXCEPT ![s] = accepted[s] \cup {Accepted(s).msg}]
        BY <1>3, <3>1 DEF Handle, IsEvent
      <4> QED
        BY <4>2, <4>4, <4>5 DEF TypeOK
    <3>2. CASE ~ IsEvent(Accepted(s).msg)
      BY <1>3, <3>2 DEF Handle, TypeOK, IsEvent
    <3> QED
      BY <3>1, <3>2
  <2>4. UNCHANGED <<current_state, exchange, answer, conns, generated, shown, acked, failures>>
    BY <1>3 DEF Handle
  <2> QED
    BY <2>1, <2>2, <2>3, <2>4 DEF TypeOK
<1>4. CASE Restart(s)
  <2>1. << >> \in Seq(Events) /\ << >> \in Seq(Connection)
    OBVIOUS
  <2>2. [conns EXCEPT ![s] = << >>] \in [Servers -> Seq(Connection)]
    BY <1>0, <2>1
  <2>3. /\ conns' \in [Servers -> Seq(Connection)]
        /\ \A r \in Servers : r # s => DOMAIN conns'[r] = DOMAIN conns[r]
    <3>1. CASE s = Proxy
      <4> DEFINE cs == [conns EXCEPT ![s] = << >>]
      <4>1. conns' = Shut(Proxy, cs)
        BY <1>4, <3>1 DEF Restart
      <4>2. cs \in [Servers -> Seq(Connection)] /\ Proxy \in Initiators
        BY <2>2, TheServers, ServerOfType
      <4>3. \A r \in Servers : r # s => DOMAIN cs[r] = DOMAIN conns[r]
        BY <1>0
      <4> HIDE DEF cs
      <4> QED
        BY <4>1, <4>2, <4>3, ShutEffect
    <3>2. CASE s # Proxy
      BY <1>0, <1>4, <2>2, <3>2 DEF Restart
    <3> QED
      BY <3>1, <3>2
  <2>4. worker' = [worker EXCEPT ![s] = "accept"] /\ queue' = [queue EXCEPT ![s] = << >>]
    BY <1>4 DEF Restart
  <2>5. \A r \in Servers : worker'[r] # "accept" => conns'[r] # << >>
    BY <1>0, <2>3, <2>4, TailElements, SomeElement DEF TypeOK
  <2>6. queue' \in [Queues -> Seq(Events)]
    BY <2>1, <2>4 DEF TypeOK
  <2>7. answer' \in [Initiators -> {"none", "result", "closed"}]
    BY <1>0, <1>4 DEF Restart
  <2>8. exchange' \in [Initiators -> {"idle", "connected", "sent"}]
    BY <1>4 DEF Restart, TypeOK
  <2>9. failures' \in 0 .. MaxFailures /\ UNCHANGED <<current_state, generated, history>>
    BY <1>0, <1>4, PathAssumption DEF Restart, Spontaneous
  <2> QED
    BY <1>0, <2>3, <2>4, <2>5, <2>6, <2>7, <2>8, <2>9 DEF TypeOK, history
<1> QED
  BY <1>1, <1>2, <1>3, <1>4 DEF WorkerStep

LEMMA OtherTypes ==
  ASSUME TypeOK,
         \/ \E c \in Clients : SensorEvent(c) \/ Start(c)
         \/ Show
         \/ UNCHANGED vars
  PROVE  TypeOK'
<1>1. CASE \E c \in Clients : SensorEvent(c)
  <2>1. PICK c \in Clients : SensorEvent(c)
    BY <1>1
  <2>2. generated[c] \in 0 .. MaxEvents /\ generated[c] < MaxEvents
    BY <2>1 DEF SensorEvent, TypeOK
  <2>3. Event(c, generated[c] + 1) \in Events /\ generated[c] + 1 \in 0 .. MaxEvents
    BY <2>2, PathAssumption DEF Event, Events
  <2>4. queue \in [Queues -> Seq(Events)] /\ c \in Queues
    BY TheServers, ServerOfType DEF TypeOK
  <2>5. Append(queue[c], Event(c, generated[c] + 1)) \in Seq(Events)
    BY <2>3, <2>4, AppendElements
  <2>6. queue' \in [Queues -> Seq(Events)] /\ generated' \in [Clients -> 0 .. MaxEvents]
    BY <2>1, <2>3, <2>4, <2>5 DEF SensorEvent, TypeOK
  <2> QED
    BY <2>1, <2>6 DEF SensorEvent, TypeOK, network, history
<1>2. CASE \E c \in Clients : Start(c)
  <2>1. PICK c \in Clients : Start(c)
    BY <1>2
  <2>2. current_state' \in [Clients -> {"DOWN", "VERSION", "CONFIG", "PROCESS"}]
    BY <2>1 DEF Start, TypeOK
  <2> QED
    BY <2>1, <2>2 DEF Start, TypeOK, network, history
<1>3. CASE Show
  <2>1. /\ queue \in [Queues -> Seq(Events)] /\ Head_ \in Queues
        /\ queue[Head_] # << >> /\ queue[Head_] \in Seq(Events)
    BY <1>3, TheServers, ServerOfType DEF Show, TypeOK
  <2>2. Head(queue[Head_]) \in Events /\ Tail(queue[Head_]) \in Seq(Events)
    BY <2>1, TailElements
  <2>3. shown' \in Seq(Events)
    BY <1>3, <2>2, AppendElements DEF Show, TypeOK
  <2>4. queue' \in [Queues -> Seq(Events)]
    BY <1>3, <2>1, <2>2 DEF Show
  <2> QED
    BY <1>3, <2>3, <2>4 DEF Show, TypeOK, network
<1>4. CASE UNCHANGED vars
  BY <1>4 DEF TypeOK, vars
<1> QED
  BY <1>1, <1>2, <1>3, <1>4

-----------------------------------------------------------------------------
(***************************************************************************)
(* An exchange that is over.                                               *)
(***************************************************************************)
\* The initiator goes on to its next request, whether it got through or not.
GoesOn(i) ==
  /\ exchange' = [exchange EXCEPT ![i] = "idle"]
  /\ \A s \in Servers : DOMAIN conns'[s] = DOMAIN conns[s]
  /\ \A s \in Servers : \A k \in DOMAIN conns[s] :
       /\ conns'[s][k].from = conns[s][k].from
       /\ conns'[s][k].msg = conns[s][k].msg
       /\ conns[s][k].data = "whole" => conns'[s][k].data = "whole"
       /\ conns'[s][k].open <=> conns[s][k].open /\ conns[s][k].from # i
       /\ conns'[s][k].open => conns'[s][k].data = conns[s][k].data
  /\ \A q \in Queues : q # i => queue'[q] = queue[q]
  /\ \A j \in DOMAIN queue'[i] : j + 1 \in DOMAIN queue[i] /\ queue'[i][j] = queue[i][j + 1]
  /\ \A c \in Clients : c # i => current_state'[c] = current_state[c]
  /\ i \in Clients /\ current_state'[i] # "PROCESS" => queue'[i] = << >>
  /\ UNCHANGED <<answer, worker, generated, shown, accepted>>

\* The types of the queues and connections, element by element.
LEMMA QueueTypes ==
  ASSUME TypeOK
  PROVE  /\ \A q \in Queues : queue[q] \in Seq(Events)
         /\ \A q \in Queues : \A k \in DOMAIN queue[q] :
              queue[q][k] \in Events /\ k \in Nat /\ k >= 1 /\ 1 \in DOMAIN queue[q]
         /\ \A s \in Servers : \A k \in DOMAIN conns[s] :
              /\ conns[s][k] \in Connection /\ conns[s][k].from \in Initiators
              /\ conns[s][k].msg \in Requests
              /\ k \in Nat /\ k >= 1
<1>1. \A q \in Queues : queue[q] \in Seq(Events)
  BY DEF TypeOK
<1>2. \A s \in Servers : conns[s] \in Seq(Connection)
  BY DEF TypeOK
<1>3. \A q \in Queues : \A k \in DOMAIN queue[q] :
        queue[q][k] \in Events /\ k \in Nat /\ k >= 1 /\ 1 \in DOMAIN queue[q]
  BY <1>1
<1>4. \A s \in Servers : \A k \in DOMAIN conns[s] :
        conns[s][k] \in Connection /\ k \in Nat /\ k >= 1
  BY <1>2
<1> QED
  BY <1>1, <1>3, <1>4 DEF Connection

\* An initiator whose queue and state stay has the same request.
LEMMA RequestKept ==
  ASSUME NEW i \in Initiators, HasRequest(i),
         i \in Clients => current_state'[i] = current_state[i],
         queue'[i] = queue[i]
  PROVE  HasRequest(i)' /\ Request(i)' = Request(i)
BY DEF HasRequest, Request

\* An initiator that drops the event of its exchange leaves the rest in order.
LEMMA GoesOnOrder ==
  ASSUME IInv, TypeOK', NEW i \in Initiators, GoesOn(i)
  PROVE  Routed' /\ Passed' /\ Reported' /\ InLine' /\ Sorted' /\ Behind' /\ Screen'
<1> USE TheServers, ServerOfType
<1>0. TypeOK
  BY QueueTypes DEF IInv
<1>1. Routed'
  BY <1>0 DEF IInv, Routed, GoesOn
<1>2. Passed'
  BY <1>0 DEF IInv, Passed, GoesOn
<1>3. Reported'
  BY <1>0 DEF IInv, Reported, GoesOn
<1>4. InLine'
  BY <1>0 DEF IInv, InLine, GoesOn, Handled
<1>5. Sorted'
  <2> SUFFICES ASSUME NEW q \in Queues, NEW k \in DOMAIN queue'[q], NEW l \in DOMAIN queue'[q],
                      k < l
               PROVE  Before(queue'[q][k], queue'[q][l])
    BY DEF Sorted, Before
  <2>1. k \in Nat /\ l \in Nat
    BY QueueTypes DEF TypeOK
  <2>2. CASE q = i
    <3>1. k + 1 < l + 1
      BY <2>1
    <3> QED
      BY <2>2, <3>1 DEF IInv, Sorted, GoesOn
  <2>3. CASE q # i
    BY <2>3 DEF IInv, Sorted, GoesOn
  <2> QED
    BY <2>2, <2>3
<1>6. Behind'
  <2> SUFFICES ASSUME NEW h \in Initiators, NEW j \in DOMAIN queue'[h]
               PROVE  /\ \A k \in DOMAIN conns'[ServerOf(h)] :
                           LET cn == conns'[ServerOf(h)][k] IN
                           cn.from = h /\ IsEvent(cn.msg) =>
                             Before(cn.msg, queue'[h][j]) \/ (cn.open /\ j = 1)
                      /\ \A x \in accepted'[ServerOf(h)] :
                           \/ Before(x, queue'[h][j])
                           \/ j = 1 /\ x = queue'[h][1] /\ exchange'[h] = "sent"
    BY DEF Behind, Before, IsEvent
  <2>1. /\ ServerOf(h) \in Servers /\ exchange \in [Initiators -> {"idle", "connected", "sent"}]
        /\ j \in Nat /\ j >= 1
    BY <1>0 DEF TypeOK
  <2>2. CASE h = i
    <3>1. j + 1 \in DOMAIN queue[i] /\ queue'[i][j] = queue[i][j + 1] /\ j + 1 # 1
      BY <2>1, <2>2 DEF GoesOn
    <3> QED
      BY <2>1, <2>2, <3>1 DEF IInv, Behind, GoesOn
  <2>3. CASE h # i
    BY <2>1, <2>3 DEF IInv, Behind, GoesOn
  <2> QED
    BY <2>2, <2>3
<1>7. Screen'
  BY <1>0 DEF IInv, Screen, GoesOn
<1> QED
  BY <1>1, <1>2, <1>3, <1>4, <1>5, <1>6, <1>7

\* Such a step keeps the invariant.
LEMMA GoesOnKeeps ==
  ASSUME IInv, TypeOK', NEW i \in Initiators, GoesOn(i)
  PROVE  IInv'
<1> USE TheServers, ServerOfType
<1>0. /\ TypeOK
      /\ exchange \in [Initiators -> {"idle", "connected", "sent"}]
      /\ exchange'[i] = "idle"
      /\ \A h \in Initiators : h # i => exchange'[h] = exchange[h]
  BY DEF IInv, TypeOK, GoesOn
<1>1. \A h \in Initiators : exchange'[h] # "idle" =>
        h # i /\ exchange[h] # "idle" /\ HasRequest(h)' /\ Request(h)' = Request(h)
  <2> SUFFICES ASSUME NEW h \in Initiators, exchange'[h] # "idle"
               PROVE  /\ h # i /\ exchange[h] # "idle"
                      /\ HasRequest(h)' /\ Request(h)' = Request(h)
    OBVIOUS
  <2>1. h # i /\ exchange[h] # "idle"
    BY <1>0
  <2>2. HasRequest(h)
    BY <2>1 DEF IInv, Underway
  <2>3. queue'[h] = queue[h] /\ (h \in Clients => current_state'[h] = current_state[h])
    BY <2>1 DEF GoesOn
  <2> QED
    BY <2>1, <2>2, <2>3, RequestKept
<1>2. Underway'
  <2>1. \A c \in Clients : current_state'[c] # "PROCESS" => queue'[c] = << >>
    BY DEF GoesOn, IInv, Underway
  <2> QED
    BY <1>1, <2>1 DEF Underway
<1>3. Heard'
  <2> SUFFICES ASSUME NEW s \in Servers, NEW k \in DOMAIN conns'[s], conns'[s][k].open,
                      NEW h, h = conns'[s][k].from
               PROVE  /\ exchange'[h] # "idle" /\ answer'[h] = "none"
                      /\ conns'[s][k].msg = Request(h)'
                      /\ conns'[s][k].data = "whole" => exchange'[h] = "sent"
                      /\ \A l \in DOMAIN conns'[s] :
                           conns'[s][l].open /\ conns'[s][l].from = h => l = k
    BY DEF Heard
  <2>1. /\ k \in DOMAIN conns[s] /\ DOMAIN conns'[s] = DOMAIN conns[s]
        /\ conns[s][k].open /\ h = conns[s][k].from /\ h # i /\ h \in Initiators
        /\ conns'[s][k].msg = conns[s][k].msg /\ conns'[s][k].data = conns[s][k].data
    BY <1>0, QueueTypes DEF GoesOn
  <2>2. /\ exchange[h] # "idle" /\ answer[h] = "none" /\ conns[s][k].msg = Request(h)
        /\ conns[s][k].data = "whole" => exchange[h] = "sent"
        /\ \A l \in DOMAIN conns[s] : conns[s][l].open /\ conns[s][l].from = h => l = k
    BY <2>1 DEF IInv, Heard
  <2>3. \A l \in DOMAIN conns[s] : conns'[s][l].open /\ conns'[s][l].from = h =>
                                   conns[s][l].open /\ conns[s][l].from = h
    BY DEF GoesOn
  <2> QED
    BY <1>0, <1>1, <2>1, <2>2, <2>3 DEF GoesOn
<1>4. Answered'
  <2>1. \A s \in Servers :
          /\ worker'[s] \in {"handle", "reply"} => conns'[s][1].data = "whole"
          /\ worker'[s] = "reply" /\ IsEvent(conns'[s][1].msg) =>
               conns'[s][1].msg \in accepted'[s]
    BY <1>0, AcceptedType DEF IInv, Answered, GoesOn
  <2>2. \A h \in Initiators :
          exchange'[h] # "idle" /\ answer'[h] = "result" =>
            /\ exchange'[h] = "sent"
            /\ IsEvent(Request(h))' => Request(h)' \in accepted'[ServerOf(h)]
    BY <1>0, <1>1 DEF IInv, Answered, GoesOn, IsEvent
  <2> QED
    BY <2>1, <2>2 DEF Answered, IsEvent
<1> QED
  BY <1>2, <1>3, <1>4, GoesOnOrder DEF IInv

\* Abandon and Succeed are such steps.
LEMMA AbandonGoesOn ==
  ASSUME IInv, NEW i \in Initiators, HasRequest(i), NEW cs,
         \/ cs = conns
         \/ exchange[i] = "connected" /\ \E d \in {"none", "part"} : cs = SetData(i, d),
         Abandon(i, cs)
  PROVE  GoesOn(i)
<1>0. TypeOK /\ ServerOf(i) \in Servers
  BY TheServers, ServerOfType DEF IInv
<1>1. /\ cs \in [Servers -> Seq(Connection)]
      /\ \A s \in Servers : DOMAIN cs[s] = DOMAIN conns[s]
      /\ \A s \in Servers : \A k \in DOMAIN conns[s] :
           /\ cs[s][k].from = conns[s][k].from
           /\ cs[s][k].msg = conns[s][k].msg
           /\ cs[s][k].open = conns[s][k].open
           /\ cs[s][k].data = conns[s][k].data \/ (conns[s][k].from = i /\ conns[s][k].open)
           /\ conns[s][k].data = "whole" => cs[s][k].data = "whole"
  <2>1. CASE cs = conns
    BY <1>0, <2>1 DEF TypeOK
  <2>2. CASE exchange[i] = "connected" /\ \E d \in {"none", "part"} : cs = SetData(i, d)
    <3>1. PICK d \in {"none", "part"} : cs = SetData(i, d)
      BY <2>2
    <3>2. \A s \in Servers : \A k \in DOMAIN conns[s] :
            conns[s][k].open /\ conns[s][k].from = i => conns[s][k].data # "whole"
      BY <2>2 DEF IInv, Heard
    <3> QED
      BY <1>0, <3>1, <3>2, SetDataEffect
  <2> QED
    BY <2>1, <2>2
<1>2. /\ conns' \in [Servers -> Seq(Connection)]
      /\ \A s \in Servers : DOMAIN conns'[s] = DOMAIN cs[s]
      /\ \A s \in Servers : \A k \in DOMAIN cs[s] :
           /\ conns'[s][k].from = cs[s][k].from
           /\ conns'[s][k].msg = cs[s][k].msg
           /\ conns'[s][k].data = cs[s][k].data
           /\ conns'[s][k].open <=> cs[s][k].open /\ ~ (s = ServerOf(i) /\ cs[s][k].from = i)
  <2>1. conns' = Shut(i, cs)
    BY DEF Abandon
  <2> QED
    BY <1>1, <2>1, ShutEffect
<1>3. \A s \in Servers : \A k \in DOMAIN conns[s] :
        conns[s][k].from = i => s = ServerOf(i)
  BY DEF IInv, Routed
<1>4. queue \in [Queues -> Seq(Events)] /\ i \in Queues
  BY <1>0, TheServers, ServerOfType DEF TypeOK
<1>5. \A j \in DOMAIN queue'[i] : j + 1 \in DOMAIN queue[i] /\ queue'[i][j] = queue[i][j + 1]
  <2>1. CASE i \in Clients
    <3>1. queue'[i] = << >>
      BY <1>4, <2>1 DEF Abandon
    <3> QED
      BY <3>1
  <2>2. CASE i \notin Clients
    <3>1. queue[i] # << >> /\ queue'[i] = Tail(queue[i])
      BY <1>4, <2>2 DEF HasRequest, Abandon
    <3> QED
      BY <1>4, <3>1, TailElements
  <2> QED
    BY <2>1, <2>2
<1>6. /\ \A q \in Queues : q # i => queue'[q] = queue[q]
      /\ \A c \in Clients : c # i => current_state'[c] = current_state[c]
      /\ i \in Clients /\ current_state'[i] # "PROCESS" => queue'[i] = << >>
  BY <1>0, <1>4 DEF Abandon, TypeOK
<1>7. exchange' = [exchange EXCEPT ![i] = "idle"]
      /\ UNCHANGED <<answer, worker, generated, shown, accepted>>
  BY DEF Abandon, history
<1>8. \A s \in Servers : DOMAIN conns'[s] = DOMAIN conns[s]
  BY <1>1, <1>2
<1>9. \A s \in Servers : \A k \in DOMAIN conns[s] :
        /\ conns'[s][k].from = conns[s][k].from
        /\ conns'[s][k].msg = conns[s][k].msg
        /\ conns[s][k].data = "whole" => conns'[s][k].data = "whole"
        /\ conns'[s][k].open <=> conns[s][k].open /\ conns[s][k].from # i
        /\ conns'[s][k].open => conns'[s][k].data = conns[s][k].data
  <2> SUFFICES ASSUME NEW s \in Servers, NEW k \in DOMAIN conns[s]
               PROVE  /\ conns'[s][k].from = conns[s][k].from
                      /\ conns'[s][k].msg = conns[s][k].msg
                      /\ conns[s][k].data = "whole" => conns'[s][k].data = "whole"
                      /\ conns'[s][k].open <=> conns[s][k].open /\ conns[s][k].from # i
                      /\ conns'[s][k].open => conns'[s][k].data = conns[s][k].data
    OBVIOUS
  <2>1. k \in DOMAIN cs[s]
    BY <1>1
  <2>2. conns[s][k].from = i => s = ServerOf(i)
    BY <1>3
  <2>3. /\ cs[s][k].from = conns[s][k].from
        /\ cs[s][k].msg = conns[s][k].msg
        /\ cs[s][k].open = conns[s][k].open
        /\ cs[s][k].data = conns[s][k].data \/ (conns[s][k].from = i /\ conns[s][k].open)
        /\ conns[s][k].data = "whole" => cs[s][k].data = "whole"
    BY <1>1
  <2>4. /\ conns'[s][k].from = cs[s][k].from
        /\ conns'[s][k].msg = cs[s][k].msg
        /\ conns'[s][k].data = cs[s][k].data
        /\ conns'[s][k].open <=> cs[s][k].open /\ ~ (s = ServerOf(i) /\ cs[s][k].from = i)
    BY <1>2, <2>1
  <2> QED
    BY <2>2, <2>3, <2>4
<1> QED
  BY <1>5, <1>6, <1>7, <1>8, <1>9 DEF GoesOn

LEMMA SucceedGoesOn ==
  ASSUME IInv, NEW i \in Initiators, Succeed(i)
  PROVE  GoesOn(i)
<1>0. TypeOK /\ ServerOf(i) \in Servers /\ HasRequest(i)
  BY TheServers, ServerOfType DEF IInv, Underway, Succeed
<1>1. conns \in [Servers -> Seq(Connection)] /\ conns' = Shut(i, conns)
  BY <1>0 DEF TypeOK, Succeed
<1>2. /\ \A s \in Servers : DOMAIN conns'[s] = DOMAIN conns[s]
      /\ \A s \in Servers : \A k \in DOMAIN conns[s] :
           /\ conns'[s][k].from = conns[s][k].from
           /\ conns'[s][k].msg = conns[s][k].msg
           /\ conns'[s][k].data = conns[s][k].data
           /\ conns'[s][k].open <=> conns[s][k].open
                                    /\ ~ (s = ServerOf(i) /\ conns[s][k].from = i)
  BY <1>1, ShutEffect
<1>3. \A s \in Servers : \A k \in DOMAIN conns[s] :
        conns[s][k].from = i => s = ServerOf(i)
  BY DEF IInv, Routed
<1>4. queue \in [Queues -> Seq(Events)] /\ i \in Queues
  BY <1>0, TheServers, ServerOfType DEF TypeOK
<1>5. /\ \A j \in DOMAIN queue'[i] : j + 1 \in DOMAIN queue[i] /\ queue'[i][j] = queue[i][j + 1]
      /\ i \in Clients /\ current_state'[i] # "PROCESS" => queue'[i] = << >>
      /\ \A q \in Queues : q # i => queue'[q] = queue[q]
      /\ \A c \in Clients : c # i => current_state'[c] = current_state[c]
  <2>1. CASE i \in Clients /\ current_state[i] # "PROCESS"
    <3>1. queue[i] = << >> /\ queue' = queue
      BY <2>1 DEF IInv, Underway, Succeed
    <3>2. current_state' = [current_state EXCEPT ![i] =
                              IF @ = "VERSION" THEN "CONFIG" ELSE "PROCESS"]
      BY <2>1 DEF Succeed
    <3>3. \A c \in Clients : c # i => current_state'[c] = current_state[c]
      BY <1>0, <3>2 DEF TypeOK
    <3> QED
      BY <3>1, <3>3
  <2>2. CASE ~ (i \in Clients /\ current_state[i] # "PROCESS")
    <3>1. queue[i] # << >>
      BY <1>0, <2>2, RequestType
    <3>2. queue' = [queue EXCEPT ![i] = Tail(queue[i])] /\ current_state' = current_state
      BY <2>2 DEF Succeed
    <3>3. queue'[i] = Tail(queue[i]) /\ \A q \in Queues : q # i => queue'[q] = queue[q]
      BY <1>4, <3>2
    <3>4. \A j \in DOMAIN queue'[i] : j + 1 \in DOMAIN queue[i] /\ queue'[i][j] = queue[i][j + 1]
      BY <1>4, <3>1, <3>3, TailElements
    <3> QED
      BY <2>2, <3>2, <3>3, <3>4
  <2> QED
    BY <2>1, <2>2
<1>6. exchange' = [exchange EXCEPT ![i] = "idle"]
      /\ UNCHANGED <<answer, worker, generated, shown, accepted>>
  BY DEF Succeed
<1> QED
  BY <1>2, <1>3, <1>5, <1>6 DEF GoesOn

-----------------------------------------------------------------------------
(***************************************************************************)
(* An exchange that begins.                                                *)
(***************************************************************************)
LEMMA ConnectKeeps ==
  ASSUME IInv, TypeOK', NEW i \in Initiators, Connect(i)
  PROVE  IInv'
<1> DEFINE s == ServerOf(i)
           n == Len(conns[s]) + 1
           cn == [from |-> i, msg |-> Request(i), data |-> "none", open |-> TRUE]
<1> USE TheServers, ServerOfType
<1>0. /\ TypeOK /\ s \in Servers /\ HasRequest(i) /\ exchange[i] = "idle"
      /\ exchange \in [Initiators -> {"idle", "connected", "sent"}]
      /\ answer \in [Initiators -> {"none", "result", "closed"}]
      /\ conns \in [Servers -> Seq(Connection)] /\ conns[s] \in Seq(Connection)
  BY DEF IInv, TypeOK, Connect
<1>1. cn \in Connection /\ Request(i) \in Requests
  BY <1>0, RequestType DEF Connection
<1>2. /\ DOMAIN conns'[s] = DOMAIN conns[s] \cup {n} /\ n \notin DOMAIN conns[s]
      /\ conns'[s][n] = cn
      /\ \A k \in DOMAIN conns[s] : conns'[s][k] = conns[s][k] /\ k < n
      /\ \A r \in Servers : r # s => conns'[r] = conns[r]
      /\ n \in Nat
  <2>1. conns' = [conns EXCEPT ![s] = Append(conns[s], cn)]
    BY DEF Connect
  <2>2. conns'[s] = Append(conns[s], cn) /\ \A r \in Servers : r # s => conns'[r] = conns[r]
    BY <1>0, <2>1
  <2> HIDE DEF cn, s
  <2>3. /\ DOMAIN conns'[s] = DOMAIN conns[s] \cup {n} /\ n \notin DOMAIN conns[s]
        /\ conns'[s][n] = cn
        /\ \A k \in DOMAIN conns[s] : conns'[s][k] = conns[s][k] /\ k < n
    BY <1>0, <1>1, <2>2, AppendElements
  <2> QED
    BY <1>0, <2>2, <2>3
<1>3. /\ exchange'[i] = "connected" /\ answer'[i] = "none"
      /\ \A h \in Initiators : h # i => exchange'[h] = exchange[h] /\ answer'[h] = answer[h]
      /\ UNCHANGED <<current_state, queue, worker, generated, shown, accepted>>
  BY <1>0 DEF Connect, history
<1>4. cn.from = i /\ cn.msg = Request(i) /\ cn.data = "none" /\ cn.open
  OBVIOUS
<1> HIDE DEF s, n, cn
<1>5. \A k \in DOMAIN conns[s] : conns[s][k].from = i => ~ conns[s][k].open
  BY <1>0 DEF IInv, Heard
<1>6. \A r \in Servers : \A k \in DOMAIN conns[r] : conns[r][k].open => conns[r][k].from # i
  BY <1>0 DEF IInv, Heard
<1>7. \A h \in Initiators : HasRequest(h)' = HasRequest(h) /\ Request(h)' = Request(h)
  BY <1>3 DEF HasRequest, Request
\* If the request is an event, it is the first in the queue, and everything
\* that the server has got or will get before happened before it.
<1>8. ASSUME IsEvent(Request(i))
      PROVE  /\ Request(i) = queue[i][1] /\ 1 \in DOMAIN queue[i] /\ queue[i][1] \in Events
             /\ \A x \in accepted[s] : Before(x, queue[i][1])
             /\ \A k \in DOMAIN conns[s] : IsEvent(conns[s][k].msg) =>
                  Before(conns[s][k].msg, queue[i][1])
  <2>1. queue[i] # << >> /\ Request(i) = queue[i][1]
    BY <1>0, <1>8, RequestType
  <2>2. 1 \in DOMAIN queue[i] /\ queue[i][1] \in Events
    BY <1>0, <2>1, TailElements, SomeElement DEF TypeOK
  <2>3. \A x \in accepted[s] : Before(x, queue[i][1])
    BY <1>0, <2>2 DEF IInv, Behind, s
  <2>4. \A k \in DOMAIN conns[s] : conns[s][k].from = i /\ IsEvent(conns[s][k].msg) =>
          Before(conns[s][k].msg, queue[i][1])
    BY <1>5, <2>2 DEF IInv, Behind, s
  <2>5. \A k \in DOMAIN conns[s] : conns[s][k].from # i /\ IsEvent(conns[s][k].msg) =>
          Before(conns[s][k].msg, queue[i][1])
    <3> SUFFICES ASSUME NEW k \in DOMAIN conns[s], conns[s][k].from # i
                 PROVE  Before(conns[s][k].msg, queue[i][1])
      OBVIOUS
    <3>1. conns[s][k].from \in Initiators /\ ServerOf(conns[s][k].from) = s
      BY <1>0, QueueTypes DEF IInv, Routed
    <3>2. i \in Clients /\ conns[s][k].from \in Clients
      BY <1>0, <3>1 DEF s, ServerOf, Initiators
    <3>3. conns[s][k].msg.client = conns[s][k].from /\ queue[i][1].client = i
      BY <1>0, <2>2, <3>2 DEF IInv, Routed
    <3> QED
      BY <3>3 DEF Before
  <2> QED
    BY <2>1, <2>2, <2>3, <2>4, <2>5
<1>9. Routed'
  <2>1. ServerOf(cn.from) = s
    BY <1>4 DEF s
  <2>2. i \in Clients => cn.msg.client = i
    <3>1. CASE IsEvent(Request(i))
      BY <1>4, <1>8, <3>1 DEF IInv, Routed
    <3>2. CASE ~ IsEvent(Request(i))
      <4>1. i \in Clients => current_state[i] # "PROCESS"
        BY <1>0, <3>2, RequestType, EventRequests
      <4> QED
        BY <1>0, <1>4, <4>1 DEF HasRequest, Request
    <3> QED
      BY <3>1, <3>2
  <2>3. i = Proxy => IsEvent(cn.msg)
    BY <1>0, <1>4, RequestType, EventRequests
  <2> QED
    BY <1>0, <1>2, <1>3, <1>4, <2>1, <2>2, <2>3 DEF IInv, Routed, IsEvent
<1>10. Underway'
  BY <1>0, <1>3, <1>7 DEF IInv, Underway
<1>11. Heard'
  <2> SUFFICES ASSUME NEW r \in Servers, NEW k \in DOMAIN conns'[r], conns'[r][k].open,
                      NEW h, h = conns'[r][k].from
               PROVE  /\ exchange'[h] # "idle" /\ answer'[h] = "none"
                      /\ conns'[r][k].msg = Request(h)'
                      /\ conns'[r][k].data = "whole" => exchange'[h] = "sent"
                      /\ \A l \in DOMAIN conns'[r] :
                           conns'[r][l].open /\ conns'[r][l].from = h => l = k
    BY DEF Heard
  <2>1. CASE r = s /\ k = n
    BY <1>0, <1>2, <1>3, <1>4, <1>5, <1>7, <2>1
  <2>2. CASE ~ (r = s /\ k = n)
    <3>1. k \in DOMAIN conns[r] /\ conns'[r][k] = conns[r][k]
      BY <1>2, <2>2
    <3>2. h # i /\ h \in Initiators
      BY <1>0, <1>6, <3>1, QueueTypes
    <3>3. \A l \in DOMAIN conns'[r] : conns'[r][l].from = h =>
            l \in DOMAIN conns[r] /\ conns'[r][l] = conns[r][l]
      BY <1>2, <1>4, <3>2
    <3> QED
      BY <1>3, <1>7, <3>1, <3>2, <3>3 DEF IInv, Heard
  <2> QED
    BY <2>1, <2>2
<1>12. Answered'
  <2>1. \A r \in Servers : worker[r] # "accept" => conns'[r][1] = conns[r][1]
    BY <1>0, <1>2, AcceptedType
  <2>2. \A r \in Servers :
          /\ worker'[r] \in {"handle", "reply"} => conns'[r][1].data = "whole"
          /\ worker'[r] = "reply" /\ IsEvent(conns'[r][1].msg) =>
               conns'[r][1].msg \in accepted'[r]
    BY <1>3, <2>1 DEF IInv, Answered
  <2>3. \A h \in Initiators :
          exchange'[h] # "idle" /\ answer'[h] = "result" =>
            /\ exchange'[h] = "sent"
            /\ IsEvent(Request(h))' => Request(h)' \in accepted'[ServerOf(h)]
    BY <1>3, <1>7 DEF IInv, Answered, IsEvent
  <2> QED
    BY <2>2, <2>3 DEF Answered, IsEvent
<1>13. Passed'
  <2>1. s = Head_ => cn.msg \in accepted[Proxy]
    <3> SUFFICES ASSUME s = Head_ PROVE cn.msg \in accepted[Proxy]
      OBVIOUS
    <3>1. i = Proxy
      BY DEF s, ServerOf, Initiators
    <3>2. IsEvent(Request(i))
      BY <1>0, <3>1, RequestType, EventRequests
    <3> QED
      BY <1>4, <1>8, <3>1, <3>2 DEF IInv, Passed
  <2> QED
    BY <1>0, <1>2, <1>3, <2>1 DEF IInv, Passed
<1>14. Reported'
  <2>1. s = Proxy /\ IsEvent(cn.msg) => cn.msg.n <= generated[cn.msg.client]
    <3> SUFFICES ASSUME s = Proxy, IsEvent(cn.msg)
                 PROVE  cn.msg.n <= generated[cn.msg.client]
      OBVIOUS
    <3>1. i \in Clients
      BY DEF s, ServerOf, Initiators
    <3>2. cn.msg = queue[i][1] /\ 1 \in DOMAIN queue[i]
      BY <1>4, <1>8
    <3> QED
      BY <3>1, <3>2 DEF IInv, Reported, Routed
  <2> QED
    BY <1>0, <1>2, <1>3, <2>1 DEF IInv, Reported, IsEvent
<1>15. InLine'
  <2>1. \A r \in Servers : \A k \in DOMAIN conns'[r] :
          IsEvent(conns'[r][k].msg) /\ ~ Handled(r, k)' =>
            \A x \in accepted'[r] : Before(x, conns'[r][k].msg)
    <3> SUFFICES ASSUME NEW r \in Servers, NEW k \in DOMAIN conns'[r],
                        IsEvent(conns'[r][k].msg), ~ Handled(r, k)', NEW x \in accepted'[r]
                 PROVE  Before(x, conns'[r][k].msg)
      OBVIOUS
    <3>1. CASE r = s /\ k = n
      BY <1>2, <1>3, <1>4, <1>8, <3>1
    <3>2. CASE ~ (r = s /\ k = n)
      <4>1. k \in DOMAIN conns[r] /\ conns'[r][k] = conns[r][k] /\ ~ Handled(r, k)
        BY <1>2, <1>3, <3>2 DEF Handled
      <4> QED
        BY <1>3, <4>1 DEF IInv, InLine
    <3> QED
      BY <3>1, <3>2
  <2>2. \A r \in Servers : \A k, l \in DOMAIN conns'[r] :
          k < l /\ IsEvent(conns'[r][k].msg) /\ IsEvent(conns'[r][l].msg) =>
            Before(conns'[r][k].msg, conns'[r][l].msg)
    <3> SUFFICES ASSUME NEW r \in Servers, NEW k \in DOMAIN conns'[r],
                        NEW l \in DOMAIN conns'[r], k < l,
                        IsEvent(conns'[r][k].msg), IsEvent(conns'[r][l].msg)
                 PROVE  Before(conns'[r][k].msg, conns'[r][l].msg)
      OBVIOUS
    <3>1. CASE r = s /\ l = n
      BY <1>2, <1>4, <1>8, <3>1
    <3>2. CASE r = s /\ k = n
      <4>1. l \in DOMAIN conns[s] \cup {n} /\ l \in Nat /\ l <= n
        BY <1>0, <1>2, <3>2, QueueTypes
      <4> QED
        BY <1>2, <3>2, <4>1
    <3>3. CASE r # s \/ (k # n /\ l # n)
      BY <1>2, <3>3 DEF IInv, InLine
    <3> QED
      BY <3>1, <3>2, <3>3
  <2> QED
    BY <2>1, <2>2 DEF InLine, IsEvent, Before
<1>16. Sorted'
  BY <1>3 DEF IInv, Sorted
<1>17. Behind'
  <2> SUFFICES ASSUME NEW h \in Initiators, NEW j \in DOMAIN queue[h]
               PROVE  /\ \A k \in DOMAIN conns'[ServerOf(h)] :
                           LET cm == conns'[ServerOf(h)][k] IN
                           cm.from = h /\ IsEvent(cm.msg) =>
                             Before(cm.msg, queue[h][j]) \/ (cm.open /\ j = 1)
                      /\ \A x \in accepted[ServerOf(h)] :
                           \/ Before(x, queue[h][j])
                           \/ j = 1 /\ x = queue[h][1] /\ exchange'[h] = "sent"
    BY <1>3 DEF Behind, Before, IsEvent
  <2>1. \A k \in DOMAIN conns[ServerOf(h)] :
          LET cm == conns[ServerOf(h)][k] IN
          cm.from = h /\ IsEvent(cm.msg) =>
            Before(cm.msg, queue[h][j]) \/ (cm.open /\ j = 1)
    BY DEF IInv, Behind
  <2>2. \A x \in accepted[ServerOf(h)] :
          \/ Before(x, queue[h][j])
          \/ j = 1 /\ x = queue[h][1] /\ exchange'[h] = "sent"
    BY <1>0, <1>3 DEF IInv, Behind
  <2>3. h = i /\ IsEvent(cn.msg) => Before(cn.msg, queue[h][j]) \/ (cn.open /\ j = 1)
    <3> SUFFICES ASSUME h = i, IsEvent(cn.msg), j # 1 PROVE Before(cn.msg, queue[h][j])
      BY <1>4
    <3>1. cn.msg = queue[i][1] /\ 1 \in DOMAIN queue[i]
      BY <1>4, <1>8
    <3>2. 1 < j
      BY <1>0, QueueTypes
    <3> QED
      BY <3>1, <3>2 DEF IInv, Sorted
  <2> QED
    BY <1>2, <1>4, <2>1, <2>2, <2>3
<1>18. Screen'
  BY <1>3 DEF IInv, Screen
<1> QED
  BY <1>9, <1>10, <1>11, <1>12, <1>13, <1>14, <1>15, <1>16, <1>17, <1>18 DEF IInv

\* Bytes that are sent change no order.
LEMMA SendKeeps ==
  ASSUME IInv, TypeOK', NEW i \in Initiators, Send(i)
  PROVE  IInv'
<1> USE TheServers, ServerOfType
<1>0. /\ TypeOK /\ ServerOf(i) \in Servers /\ exchange[i] = "connected" /\ HasRequest(i)
      /\ exchange \in [Initiators -> {"idle", "connected", "sent"}]
  BY DEF IInv, TypeOK, Send, Underway
<1>1. /\ \A s \in Servers : DOMAIN conns'[s] = DOMAIN conns[s]
      /\ \A s \in Servers : \A k \in DOMAIN conns[s] :
           /\ conns'[s][k].from = conns[s][k].from
           /\ conns'[s][k].msg = conns[s][k].msg
           /\ conns'[s][k].open = conns[s][k].open
           /\ conns'[s][k].data =
                IF s = ServerOf(i) /\ conns[s][k].from = i /\ conns[s][k].open
                THEN "whole" ELSE conns[s][k].data
  <2>1. conns' = SetData(i, "whole")
    BY DEF Send
  <2> QED
    BY <1>0, <2>1, SetDataEffect
<1>2. /\ exchange'[i] = "sent" /\ \A h \in Initiators : h # i => exchange'[h] = exchange[h]
      /\ UNCHANGED <<current_state, queue, answer, worker, generated, shown, accepted>>
  BY <1>0 DEF Send, history
<1>3. \A h \in Initiators : HasRequest(h)' = HasRequest(h) /\ Request(h)' = Request(h)
  BY <1>2 DEF HasRequest, Request
<1>4. Routed'
  BY <1>0, <1>1, <1>2 DEF IInv, Routed
<1>5. Underway'
  BY <1>0, <1>2, <1>3 DEF IInv, Underway
<1>6. Heard'
  <2> SUFFICES ASSUME NEW r \in Servers, NEW k \in DOMAIN conns'[r], conns'[r][k].open,
                      NEW h, h = conns'[r][k].from
               PROVE  /\ exchange'[h] # "idle" /\ answer'[h] = "none"
                      /\ conns'[r][k].msg = Request(h)'
                      /\ conns'[r][k].data = "whole" => exchange'[h] = "sent"
                      /\ \A l \in DOMAIN conns'[r] :
                           conns'[r][l].open /\ conns'[r][l].from = h => l = k
    BY DEF Heard
  <2>1. /\ k \in DOMAIN conns[r] /\ DOMAIN conns'[r] = DOMAIN conns[r]
        /\ conns[r][k].open /\ h = conns[r][k].from /\ h \in Initiators
    BY <1>0, <1>1, QueueTypes
  <2>2. /\ exchange[h] # "idle" /\ answer[h] = "none" /\ conns[r][k].msg = Request(h)
        /\ conns[r][k].data = "whole" => exchange[h] = "sent"
        /\ \A l \in DOMAIN conns[r] : conns[r][l].open /\ conns[r][l].from = h => l = k
    BY <2>1 DEF IInv, Heard
  <2>3. \A l \in DOMAIN conns[r] : conns'[r][l].open /\ conns'[r][l].from = h =>
                                   conns[r][l].open /\ conns[r][l].from = h
    BY <1>1
  <2>4. conns'[r][k].msg = Request(h)'
    BY <1>1, <1>3, <2>1, <2>2
  <2>5. exchange'[h] # "idle" /\ answer'[h] = "none"
    BY <1>2, <2>1, <2>2
  <2>6. conns'[r][k].data = "whole" => exchange'[h] = "sent"
    BY <1>1, <1>2, <2>1, <2>2
  <2> QED
    BY <2>1, <2>2, <2>3, <2>4, <2>5, <2>6
<1>7. Answered'
  <2>1. \A r \in Servers :
          /\ worker'[r] \in {"handle", "reply"} => conns'[r][1].data = "whole"
          /\ worker'[r] = "reply" /\ IsEvent(conns'[r][1].msg) =>
               conns'[r][1].msg \in accepted'[r]
    BY <1>0, <1>1, <1>2, AcceptedType DEF IInv, Answered
  <2>2. \A h \in Initiators :
          exchange'[h] # "idle" /\ answer'[h] = "result" =>
            /\ exchange'[h] = "sent"
            /\ IsEvent(Request(h))' => Request(h)' \in accepted'[ServerOf(h)]
    BY <1>0, <1>2, <1>3 DEF IInv, Answered, IsEvent
  <2> QED
    BY <2>1, <2>2 DEF Answered, IsEvent
<1>8. Passed'
  BY <1>0, <1>1, <1>2 DEF IInv, Passed
<1>9. Reported'
  BY <1>0, <1>1, <1>2 DEF IInv, Reported
<1>10. InLine'
  BY <1>0, <1>1, <1>2 DEF IInv, InLine, Handled
<1>11. Sorted'
  BY <1>2 DEF IInv, Sorted
<1>12. Behind'
  BY <1>0, <1>1, <1>2 DEF IInv, Behind
<1>13. Screen'
  BY <1>2 DEF IInv, Screen
<1> QED
  BY <1>4, <1>5, <1>6, <1>7, <1>8, <1>9, <1>10, <1>11, <1>12, <1>13 DEF IInv

-----------------------------------------------------------------------------
(***************************************************************************)
(* The steps of clients and of the screen.                                 *)
(***************************************************************************)
LEMMA SensorEventKeeps ==
  ASSUME IInv, TypeOK', NEW c \in Clients, SensorEvent(c)
  PROVE  IInv'
<1> DEFINE n == Len(queue[c]) + 1
           e == Event(c, generated[c] + 1)
<1> USE TheServers, ServerOfType
<1>0. /\ TypeOK /\ current_state[c] = "PROCESS" /\ c \in Queues
      /\ queue \in [Queues -> Seq(Events)] /\ queue[c] \in Seq(Events)
      /\ generated \in [Clients -> 0 .. MaxEvents] /\ generated[c] \in Nat
      /\ generated[c] < MaxEvents
  BY DEF IInv, TypeOK, SensorEvent
<1>1. e \in Events /\ e.client = c /\ e.n = generated[c] + 1
  <2>1. generated[c] + 1 \in 1 .. MaxEvents
    BY <1>0, PathAssumption
  <2>2. e = [kind |-> "event", client |-> c, n |-> generated[c] + 1]
    BY DEF Event
  <2> HIDE DEF e
  <2>3. e.client = c /\ e.n = generated[c] + 1
    BY <2>2
  <2>4. e \in Events
    BY <2>1, <2>2 DEF Events
  <2> QED
    BY <2>3, <2>4
<1>2. /\ queue'[c] # << >>
      /\ DOMAIN queue'[c] = DOMAIN queue[c] \cup {n} /\ n \notin DOMAIN queue[c]
      /\ queue'[c][n] = e
      /\ \A k \in DOMAIN queue[c] : queue'[c][k] = queue[c][k] /\ k < n
      /\ \A q \in Queues : q # c => queue'[q] = queue[q]
      /\ n \in Nat
      /\ queue[c] # << >> => 1 \in DOMAIN queue[c]
  <2>1. queue' = [queue EXCEPT ![c] = Append(queue[c], e)]
    BY DEF SensorEvent
  <2>2. queue'[c] = Append(queue[c], e) /\ \A q \in Queues : q # c => queue'[q] = queue[q]
    BY <1>0, <2>1
  <2> HIDE DEF e
  <2>3. /\ queue'[c] # << >>
        /\ DOMAIN queue'[c] = DOMAIN queue[c] \cup {n} /\ n \notin DOMAIN queue[c]
        /\ queue'[c][n] = e
        /\ \A k \in DOMAIN queue[c] : queue'[c][k] = queue[c][k] /\ k < n
        /\ queue[c] # << >> => 1 \in DOMAIN queue[c]
    BY <1>0, <1>1, <2>2, AppendElements
  <2> QED
    BY <1>0, <2>2, <2>3
<1>3. /\ generated'[c] = generated[c] + 1
      /\ \A d \in Clients : d # c => generated'[d] = generated[d]
      /\ UNCHANGED <<current_state, exchange, answer, conns, worker, shown, accepted>>
  BY <1>0 DEF SensorEvent, network, history
<1> HIDE DEF e, n
<1>4. \A d \in Clients : generated[d] \in Nat /\ generated'[d] \in Nat
                         /\ generated[d] <= generated'[d]
  BY <1>0, <1>3
\* The new event happened after all that there are.
<1>5. /\ \A s \in Servers : \A x \in accepted[s] : x \in Events /\ Before(x, e)
      /\ \A k \in DOMAIN conns[Proxy] : IsEvent(conns[Proxy][k].msg) =>
           conns[Proxy][k].msg \in Events /\ Before(conns[Proxy][k].msg, e)
      /\ \A k \in DOMAIN queue[c] : queue[c][k] \in Events /\ Before(queue[c][k], e)
  <2>1. \A x \in Events : x.n <= generated[x.client] => Before(x, e)
    BY <1>0, <1>1, EventRequests DEF Before
  <2>2. \A s \in Servers : \A x \in accepted[s] : x \in Events /\ x \in accepted[Proxy]
    BY <1>0 DEF IInv, TypeOK, Passed
  <2>3. \A s \in Servers : \A x \in accepted[s] : x \in Events /\ Before(x, e)
    BY <2>1, <2>2 DEF IInv, Reported
  <2>4. \A k \in DOMAIN conns[Proxy] : IsEvent(conns[Proxy][k].msg) =>
           conns[Proxy][k].msg \in Events /\ Before(conns[Proxy][k].msg, e)
    BY <1>0, <2>1, QueueTypes, EventRequests DEF IInv, Reported
  <2>5. \A k \in DOMAIN queue[c] : queue[c][k] \in Events /\ Before(queue[c][k], e)
    BY <1>0, <2>1, QueueTypes DEF IInv, Reported, Routed
  <2> QED
    BY <2>3, <2>4, <2>5
<1>6. \A h \in Initiators : HasRequest(h) /\ exchange[h] # "idle" =>
        HasRequest(h)' /\ Request(h)' = Request(h)
  <2> SUFFICES ASSUME NEW h \in Initiators, HasRequest(h)
               PROVE  HasRequest(h)' /\ Request(h)' = Request(h)
    OBVIOUS
  <2>1. CASE h # c
    BY <1>2, <1>3, <2>1, RequestKept
  <2>2. CASE h = c
    <3>1. queue[c] # << >>
      BY <1>0, <2>2 DEF HasRequest
    <3>2. Head(queue[c]) = queue[c][1]
      BY <1>0, <3>1, TailElements
    <3>3. queue'[c] \in Seq(Events) /\ Head(queue'[c]) = queue'[c][1]
      BY <1>0, <1>2, TailElements DEF TypeOK
    <3>4. queue'[c][1] = queue[c][1]
      BY <1>2, <3>1
    <3>5. HasRequest(h)'
      BY <1>0, <1>2, <1>3, <2>2 DEF HasRequest
    <3>6. Request(h) = Head(queue[c]) /\ Request(h)' = Head(queue'[c])
      BY <1>0, <1>3, <2>2 DEF Request
    <3> QED
      BY <3>2, <3>3, <3>4, <3>5, <3>6
  <2> QED
    BY <2>1, <2>2
<1>7. Routed'
  <2>1. \A d \in Clients : \A k \in DOMAIN queue'[d] : queue'[d][k].client = d
    <3> SUFFICES ASSUME NEW d \in Clients, NEW k \in DOMAIN queue'[d]
                 PROVE  queue'[d][k].client = d
      OBVIOUS
    <3>1. CASE d = c /\ k = n
      BY <1>1, <1>2, <3>1
    <3>2. CASE ~ (d = c /\ k = n)
      <4>1. k \in DOMAIN queue[d] /\ queue'[d][k] = queue[d][k]
        BY <1>2, <3>2
      <4> QED
        BY <4>1 DEF IInv, Routed
    <3> QED
      BY <3>1, <3>2
  <2>2. \A s \in Servers : \A k \in DOMAIN conns'[s] :
          /\ ServerOf(conns'[s][k].from) = s
          /\ conns'[s][k].from \in Clients => conns'[s][k].msg.client = conns'[s][k].from
          /\ conns'[s][k].from = Proxy => IsEvent(conns'[s][k].msg)
    BY <1>3 DEF IInv, Routed
  <2> QED
    BY <2>1, <2>2 DEF Routed, IsEvent, ServerOf
<1>8. Underway'
  <2>1. \A d \in Clients : current_state'[d] # "PROCESS" => queue'[d] = << >>
    BY <1>0, <1>2, <1>3 DEF IInv, Underway
  <2>2. \A h \in Initiators : exchange'[h] # "idle" => HasRequest(h)'
    BY <1>3, <1>6 DEF IInv, Underway
  <2> QED
    BY <2>1, <2>2 DEF Underway
<1>9. Heard'
  BY <1>0, <1>3, <1>6, QueueTypes DEF IInv, Heard, Underway
<1>10. Answered'
  BY <1>3, <1>6 DEF IInv, Answered, Underway, IsEvent
<1>11. Passed'
  BY <1>2, <1>3 DEF IInv, Passed
<1>12. Reported'
  <2>1. \A x \in accepted'[Proxy] : x.n <= generated'[x.client]
    BY <1>3, <1>4, <1>5, EventRequests DEF IInv, Reported
  <2>2. \A d \in Clients : \A k \in DOMAIN queue'[d] : queue'[d][k].n <= generated'[d]
    <3> SUFFICES ASSUME NEW d \in Clients, NEW k \in DOMAIN queue'[d]
                 PROVE  queue'[d][k].n <= generated'[d]
      OBVIOUS
    <3>1. CASE d = c /\ k = n
      BY <1>0, <1>1, <1>2, <1>3, <3>1
    <3>2. CASE ~ (d = c /\ k = n)
      <4>1. k \in DOMAIN queue[d] /\ queue'[d][k] = queue[d][k] /\ queue[d][k] \in Events
        BY <1>0, <1>2, <3>2, QueueTypes
      <4>2. queue[d][k].n <= generated[d] /\ queue[d][k].n \in Nat
        BY <4>1, EventRequests DEF IInv, Reported
      <4> QED
        BY <1>4, <4>1, <4>2
    <3> QED
      BY <3>1, <3>2
  <2>3. \A k \in DOMAIN conns'[Proxy] : IsEvent(conns'[Proxy][k].msg) =>
          conns'[Proxy][k].msg.n <= generated'[conns'[Proxy][k].msg.client]
    BY <1>3, <1>4, <1>5, EventRequests DEF IInv, Reported
  <2> QED
    BY <2>1, <2>2, <2>3 DEF Reported, IsEvent
<1>13. InLine'
  BY <1>3 DEF IInv, InLine, Handled
<1>14. Sorted'
  <2> SUFFICES ASSUME NEW q \in Queues, NEW k \in DOMAIN queue'[q], NEW l \in DOMAIN queue'[q],
                      k < l
               PROVE  Before(queue'[q][k], queue'[q][l])
    BY DEF Sorted, Before
  <2>1. CASE q = c /\ l = n
    <3>1. k \in DOMAIN queue[c]
      BY <1>2, <2>1
    <3> QED
      BY <1>2, <1>5, <2>1, <3>1
  <2>2. CASE q = c /\ k = n
    <3>1. l <= n /\ l \in Nat
      BY <1>0, <1>2, <2>2, QueueTypes
    <3> QED
      BY <1>2, <2>2, <3>1
  <2>3. CASE ~ (q = c /\ (k = n \/ l = n))
    BY <1>2, <2>3 DEF IInv, Sorted
  <2> QED
    BY <2>1, <2>2, <2>3
<1>15. Behind'
  <2> SUFFICES ASSUME NEW h \in Initiators, NEW j \in DOMAIN queue'[h]
               PROVE  /\ \A k \in DOMAIN conns[ServerOf(h)] :
                           LET cm == conns[ServerOf(h)][k] IN
                           cm.from = h /\ IsEvent(cm.msg) =>
                             Before(cm.msg, queue'[h][j]) \/ (cm.open /\ j = 1)
                      /\ \A x \in accepted[ServerOf(h)] :
                           \/ Before(x, queue'[h][j])
                           \/ j = 1 /\ x = queue'[h][1] /\ exchange[h] = "sent"
    BY <1>3 DEF Behind, Before, IsEvent
  <2>1. CASE h = c /\ j = n
    BY <1>2, <1>5, <2>1
  <2>2. CASE ~ (h = c /\ j = n)
    <3>1. /\ j \in DOMAIN queue[h] /\ queue'[h][j] = queue[h][j]
          /\ queue'[h][1] = queue[h][1]
      BY <1>0, <1>2, <2>2, QueueTypes
    <3> QED
      BY <3>1 DEF IInv, Behind
  <2> QED
    BY <2>1, <2>2
<1>16. Screen'
  BY <1>2, <1>3 DEF IInv, Screen
<1> QED
  BY <1>7, <1>8, <1>9, <1>10, <1>11, <1>12, <1>13, <1>14, <1>15, <1>16 DEF IInv

\* A client that starts has no events and is in no exchange.
LEMMA StartKeeps ==
  ASSUME IInv, TypeOK', NEW c \in Clients, Start(c)
  PROVE  IInv'
<1>0. /\ TypeOK /\ current_state[c] = "DOWN"
      /\ current_state'[c] = "VERSION"
      /\ \A d \in Clients : d # c => current_state'[d] = current_state[d]
      /\ UNCHANGED <<queue, exchange, answer, conns, worker, generated, shown, accepted>>
  BY DEF IInv, TypeOK, Start, network, history
<1>1. queue[c] = << >> /\ ~ HasRequest(c) /\ exchange[c] = "idle"
  BY <1>0, TheServers, ServerOfType DEF IInv, Underway, HasRequest
<1>2. \A h \in Initiators : exchange[h] # "idle" => HasRequest(h)' /\ Request(h)' = Request(h)
  BY <1>0, <1>1, RequestKept DEF IInv, Underway
<1>3. Underway'
  <2>1. \A d \in Clients : current_state'[d] # "PROCESS" => queue'[d] = << >>
    BY <1>0, <1>1 DEF IInv, Underway
  <2> QED
    BY <1>0, <1>2, <2>1 DEF Underway
<1>4. Heard'
  BY <1>0, <1>2, QueueTypes DEF IInv, Heard
<1>5. Answered'
  BY <1>0, <1>2 DEF IInv, Answered, IsEvent
<1>6. Routed' /\ Passed' /\ Reported' /\ InLine' /\ Sorted' /\ Behind' /\ Screen'
  BY <1>0 DEF IInv, Routed, Passed, Reported, InLine, Handled, Sorted, Behind, Screen
<1> QED
  BY <1>3, <1>4, <1>5, <1>6 DEF IInv

\* The event that the head shows is the first of its queue.
LEMMA ShowKeeps ==
  ASSUME IInv, TypeOK', Show
  PROVE  IInv'
<1> DEFINE n == Len(shown) + 1
           e == queue[Head_][1]
<1> USE TheServers, ServerOfType
<1>0. /\ TypeOK /\ queue \in [Queues -> Seq(Events)] /\ queue[Head_] \in Seq(Events)
      /\ queue[Head_] # << >> /\ shown \in Seq(Events)
  BY DEF IInv, TypeOK, Show
<1>1. /\ Head(queue[Head_]) = e /\ e \in Events /\ 1 \in DOMAIN queue[Head_]
      /\ \A k \in DOMAIN queue'[Head_] :
           k + 1 \in DOMAIN queue[Head_] /\ queue'[Head_][k] = queue[Head_][k + 1]
      /\ \A q \in Queues : q # Head_ => queue'[q] = queue[q]
  <2>1. queue'[Head_] = Tail(queue[Head_]) /\ \A q \in Queues : q # Head_ => queue'[q] = queue[q]
    BY <1>0 DEF Show
  <2> QED
    BY <1>0, <2>1, TailElements
<1>2. /\ DOMAIN shown' = DOMAIN shown \cup {n} /\ n \notin DOMAIN shown
      /\ shown'[n] = e
      /\ \A k \in DOMAIN shown : shown'[k] = shown[k] /\ k < n
      /\ n \in Nat
  <2>1. shown' = Append(shown, e)
    BY <1>1 DEF Show
  <2> HIDE DEF e
  <2> QED
    BY <1>0, <1>1, <2>1, AppendElements
<1>3. UNCHANGED <<current_state, exchange, answer, conns, worker, generated, accepted>>
  BY DEF Show, network
<1> HIDE DEF e, n
<1>4. \A h \in Initiators : queue'[h] = queue[h]
  BY <1>1
<1>5. \A h \in Initiators : HasRequest(h)' = HasRequest(h) /\ Request(h)' = Request(h)
  BY <1>3, <1>4 DEF HasRequest, Request
<1>6. Routed' /\ Reported' /\ InLine' /\ Behind'
  BY <1>1, <1>3, <1>4 DEF IInv, Routed, Reported, InLine, Handled, Behind
<1>7. Underway'
  BY <1>3, <1>4, <1>5 DEF IInv, Underway
<1>8. Heard'
  BY <1>0, <1>3, <1>5, QueueTypes DEF IInv, Heard
<1>9. Answered'
  BY <1>3, <1>5 DEF IInv, Answered, IsEvent
<1>10. Passed'
  <2>1. e \in accepted[Head_]
    BY <1>1 DEF IInv, Passed, e
  <2> QED
    BY <1>1, <1>2, <1>3, <2>1 DEF IInv, Passed
<1>11. Sorted'
  <2> SUFFICES ASSUME NEW q \in Queues, NEW k \in DOMAIN queue'[q], NEW l \in DOMAIN queue'[q],
                      k < l
               PROVE  Before(queue'[q][k], queue'[q][l])
    BY DEF Sorted, Before
  <2>1. queue'[q] \in Seq(Events)
    BY DEF TypeOK
  <2>2. k \in Nat /\ l \in Nat /\ k + 1 < l + 1
    BY <2>1
  <2> QED
    BY <1>1, <2>2 DEF IInv, Sorted
<1>12. Screen'
  <2>1. \A k, l \in DOMAIN shown' : k < l => Before(shown'[k], shown'[l])
    <3> SUFFICES ASSUME NEW k \in DOMAIN shown', NEW l \in DOMAIN shown', k < l
                 PROVE  Before(shown'[k], shown'[l])
      OBVIOUS
    <3>1. k \in Nat /\ l \in Nat /\ k <= n /\ l <= n
      BY <1>0, <1>2
    <3>2. k \in DOMAIN shown
      BY <1>2, <3>1
    <3>3. CASE l = n
      BY <1>1, <1>2, <3>2, <3>3 DEF IInv, Screen, e
    <3>4. CASE l # n
      BY <1>2, <3>2, <3>4 DEF IInv, Screen
    <3> QED
      BY <3>3, <3>4
  <2>2. \A k \in DOMAIN shown' : \A j \in DOMAIN queue'[Head_] :
          Before(shown'[k], queue'[Head_][j])
    <3> SUFFICES ASSUME NEW k \in DOMAIN shown', NEW j \in DOMAIN queue'[Head_]
                 PROVE  Before(shown'[k], queue[Head_][j + 1])
      BY <1>1
    <3>0. queue'[Head_] \in Seq(Events)
      BY DEF TypeOK
    <3>1. j \in Nat /\ j >= 1 /\ j + 1 \in DOMAIN queue[Head_] /\ 1 < j + 1
      BY <1>1, <3>0
    <3>2. CASE k = n
      BY <1>1, <1>2, <3>1, <3>2 DEF IInv, Sorted, e
    <3>3. CASE k # n
      BY <1>2, <3>1, <3>3 DEF IInv, Screen
    <3> QED
      BY <3>2, <3>3
  <2> QED
    BY <2>1, <2>2 DEF Screen, Before
<1> QED
  BY <1>6, <1>7, <1>8, <1>9, <1>10, <1>11, <1>12 DEF IInv

-----------------------------------------------------------------------------
(***************************************************************************)
(* The steps of a worker.                                                  *)
(***************************************************************************)
LEMMA TakesKeeps ==
  ASSUME IInv, TypeOK', NEW s \in Servers, Accept(s) \/ Receive(s)
  PROVE  IInv'
<1>0. /\ TypeOK
      /\ worker \in [Servers -> {"accept", "receive", "handle", "reply"}]
      /\ UNCHANGED <<current_state, queue, exchange, answer, conns, generated,
                     shown, accepted>>
      /\ worker' = [worker EXCEPT ![s] = worker'[s]]
      /\ worker'[s] \in {"receive", "handle"}
      /\ worker'[s] = "handle" => conns[s][1].data = "whole"
  <2>1. CASE Accept(s)
    BY <2>1 DEF IInv, TypeOK, Accept, history
  <2>2. CASE Receive(s)
    BY <2>2, AcceptedType DEF IInv, TypeOK, Receive, history
  <2> QED
    BY <2>1, <2>2
<1>1. \A r \in Servers : r # s => worker'[r] = worker[r]
  BY <1>0
<1>2. worker[s] \in {"accept", "receive"}
  BY DEF Accept, Receive
<1>3. \A h \in Initiators : HasRequest(h)' = HasRequest(h) /\ Request(h)' = Request(h)
  BY <1>0 DEF HasRequest, Request
<1>4. Routed' /\ Passed' /\ Reported' /\ Sorted' /\ Behind' /\ Screen'
  BY <1>0 DEF IInv, Routed, Passed, Reported, Sorted, Behind, Screen
<1>5. Underway'
  BY <1>0, <1>3 DEF IInv, Underway
<1>6. Heard'
  BY <1>0, <1>3, QueueTypes DEF IInv, Heard
<1>7. Answered'
  BY <1>0, <1>1, <1>3 DEF IInv, Answered, IsEvent
<1>8. InLine'
  BY <1>0, <1>1, <1>2 DEF IInv, InLine, Handled
<1> QED
  BY <1>4, <1>5, <1>6, <1>7, <1>8 DEF IInv

\* What a worker takes from its first connection comes after all it took before.
LEMMA HandleKeeps ==
  ASSUME IInv, TypeOK', NEW s \in Servers, Handle(s)
  PROVE  IInv'
<1> DEFINE m == conns[s][1].msg
           from == conns[s][1].from
           n == Len(queue[s]) + 1
<1> USE TheServers, ServerOfType
<1>0. /\ TypeOK /\ worker[s] = "handle" /\ s \in Queues
      /\ worker \in [Servers -> {"accept", "receive", "handle", "reply"}]
      /\ accepted \in [Servers -> SUBSET Events]
      /\ queue \in [Queues -> Seq(Events)] /\ queue[s] \in Seq(Events)
  BY DEF IInv, TypeOK, Handle, Queues
<1>1. /\ 1 \in DOMAIN conns[s] /\ Accepted(s) = conns[s][1]
      /\ conns[s][1] \in Connection /\ from \in Initiators /\ m \in Requests
  BY <1>0, AcceptedType DEF Connection
<1>2. /\ worker'[s] = "reply" /\ \A r \in Servers : r # s => worker'[r] = worker[r]
      /\ UNCHANGED <<current_state, exchange, answer, conns, generated, shown>>
  BY <1>0 DEF Handle
<1>3. /\ \A q \in Queues : q # s => queue'[q] = queue[q]
      /\ \A r \in Servers : r # s => accepted'[r] = accepted[r]
      /\ ~ IsEvent(m) => queue' = queue /\ accepted' = accepted
      /\ IsEvent(m) => /\ accepted'[s] = accepted[s] \cup {m}
                       /\ queue'[s] = Append(queue[s], m)
  <2>1. CASE IsEvent(m)
    <3>1. /\ queue' = [queue EXCEPT ![s] = Append(queue[s], m)]
          /\ accepted' = [accepted EXCEPT ![s] = accepted[s] \cup {m}]
      BY <1>1, <2>1 DEF Handle, IsEvent
    <3> QED
      BY <1>0, <2>1, <3>1
  <2>2. CASE ~ IsEvent(m)
    BY <1>1, <2>2 DEF Handle, IsEvent
  <2> QED
    BY <2>1, <2>2
<1> HIDE DEF m, from, n
<1>4. ASSUME IsEvent(m)
      PROVE  /\ m \in Events
             /\ DOMAIN queue'[s] = DOMAIN queue[s] \cup {n} /\ n \notin DOMAIN queue[s]
             /\ queue'[s][n] = m /\ queue'[s] # << >>
             /\ \A k \in DOMAIN queue[s] : queue'[s][k] = queue[s][k] /\ k < n
             /\ n \in Nat
             /\ queue[s] # << >> => 1 \in DOMAIN queue[s]
  <2>1. m \in Events
    BY <1>1, <1>4, EventRequests
  <2>2. queue'[s] = Append(queue[s], m)
    BY <1>3, <1>4
  <2>3. /\ Append(queue[s], m) # << >>
        /\ DOMAIN Append(queue[s], m) = DOMAIN queue[s] \cup {n}
        /\ n \notin DOMAIN queue[s]
        /\ Append(queue[s], m)[n] = m
        /\ \A k \in DOMAIN queue[s] : Append(queue[s], m)[k] = queue[s][k] /\ k < n
        /\ queue[s] # << >> => 1 \in DOMAIN queue[s]
    BY <1>0, <2>1, AppendElements DEF n
  <2>4. n \in Nat
    BY <1>0 DEF n
  <2> QED
    BY <2>1, <2>2, <2>3, <2>4
\* The event comes after all that the server has taken.
<1>5. IsEvent(m) => \A x \in accepted[s] : Before(x, m)
  BY <1>0, <1>1 DEF IInv, InLine, Handled, m
<1>6. IsEvent(m) /\ s = Head_ => m \in accepted[Proxy]
  BY <1>1 DEF IInv, Passed, m
\* What was asked is asked still.
<1>7. \A h \in Initiators : HasRequest(h) /\ exchange[h] # "idle" =>
        HasRequest(h)' /\ Request(h)' = Request(h)
  <2> SUFFICES ASSUME NEW h \in Initiators, HasRequest(h)
               PROVE  HasRequest(h)' /\ Request(h)' = Request(h)
    OBVIOUS
  <2>1. CASE h # s \/ ~ IsEvent(m)
    BY <1>2, <1>3, <2>1, RequestKept
  <2>2. CASE h = s /\ IsEvent(m)
    <3>1. h \notin Clients
      BY <2>2
    <3>2. queue[s] # << >>
      BY <2>2, <3>1 DEF HasRequest
    <3>3. Head(queue[s]) = queue[s][1]
      BY <1>0, <3>2, TailElements
    <3>4. queue'[s] \in Seq(Events) /\ queue'[s] # << >> /\ Head(queue'[s]) = queue'[s][1]
      BY <1>0, <1>4, <2>2, TailElements DEF TypeOK
    <3>5. queue'[s][1] = queue[s][1]
      BY <1>4, <2>2, <3>2
    <3>6. HasRequest(h)'
      BY <2>2, <3>1, <3>4 DEF HasRequest
    <3>7. Request(h) = Head(queue[s]) /\ Request(h)' = Head(queue'[s])
      BY <2>2, <3>1 DEF Request
    <3> QED
      BY <3>3, <3>4, <3>5, <3>6, <3>7
  <2> QED
    BY <2>1, <2>2
<1>8. Routed'
  BY <1>2, <1>3 DEF IInv, Routed
<1>9. Underway'
  <2>1. \A d \in Clients : current_state'[d] # "PROCESS" => queue'[d] = << >>
    BY <1>2, <1>3 DEF IInv, Underway
  <2>2. \A h \in Initiators : exchange'[h] # "idle" => HasRequest(h)'
    BY <1>2, <1>7 DEF IInv, Underway
  <2> QED
    BY <2>1, <2>2 DEF Underway
<1>10. Heard'
  BY <1>0, <1>2, <1>7, QueueTypes DEF IInv, Heard, Underway
<1>11. \A r \in Servers : accepted[r] \subseteq accepted'[r]
  BY <1>3
<1>12. Answered'
  <2>1. \A r \in Servers :
          /\ worker'[r] \in {"handle", "reply"} => conns'[r][1].data = "whole"
          /\ worker'[r] = "reply" /\ IsEvent(conns'[r][1].msg) =>
               conns'[r][1].msg \in accepted'[r]
    <3> SUFFICES ASSUME NEW r \in Servers
                 PROVE  /\ worker'[r] \in {"handle", "reply"} => conns'[r][1].data = "whole"
                        /\ worker'[r] = "reply" /\ IsEvent(conns'[r][1].msg) =>
                             conns'[r][1].msg \in accepted'[r]
      OBVIOUS
    <3>1. CASE r = s
      BY <1>0, <1>2, <1>3, <3>1 DEF IInv, Answered, m
    <3>2. CASE r # s
      BY <1>2, <1>3, <3>2 DEF IInv, Answered
    <3> QED
      BY <3>1, <3>2
  <2>2. \A h \in Initiators :
          exchange'[h] # "idle" /\ answer'[h] = "result" =>
            /\ exchange'[h] = "sent"
            /\ IsEvent(Request(h))' => Request(h)' \in accepted'[ServerOf(h)]
    BY <1>2, <1>7, <1>11 DEF IInv, Answered, Underway, IsEvent
  <2> QED
    BY <2>1, <2>2 DEF Answered, IsEvent
<1>13. Passed'
  <2>1. \A r \in Servers : \A k \in DOMAIN queue'[r] : queue'[r][k] \in accepted'[r]
    BY <1>3, <1>4 DEF IInv, Passed
  <2>2. accepted'[Head_] \subseteq accepted'[Proxy]
    BY <1>3, <1>6, <1>11 DEF IInv, Passed
  <2> QED
    BY <1>2, <1>11, <2>1, <2>2 DEF IInv, Passed
<1>14. Reported'
  <2>1. s = Proxy /\ IsEvent(m) => m.n <= generated[m.client]
    BY <1>1 DEF IInv, Reported, m
  <2>2. \A x \in accepted'[Proxy] : x.n <= generated'[x.client]
    BY <1>2, <1>3, <2>1 DEF IInv, Reported
  <2>3. \A d \in Clients : \A k \in DOMAIN queue'[d] : queue'[d][k].n <= generated'[d]
    BY <1>2, <1>3 DEF IInv, Reported
  <2> QED
    BY <1>2, <2>2, <2>3 DEF IInv, Reported, IsEvent
<1>15. InLine'
  <2>1. \A r \in Servers : \A k \in DOMAIN conns[r] :
          IsEvent(conns[r][k].msg) /\ ~ Handled(r, k)' =>
            \A x \in accepted'[r] : Before(x, conns[r][k].msg)
    <3> SUFFICES ASSUME NEW r \in Servers, NEW k \in DOMAIN conns[r],
                        IsEvent(conns[r][k].msg), ~ Handled(r, k)', NEW x \in accepted'[r]
                 PROVE  Before(x, conns[r][k].msg)
      OBVIOUS
    <3>1. CASE r = s
      <4>1. k # 1 /\ k \in Nat /\ k >= 1
        BY <1>0, <1>2, <3>1, QueueTypes DEF Handled
      <4>2. 1 < k
        BY <4>1
      <4>3. IsEvent(m) => Before(m, conns[s][k].msg)
        BY <1>1, <3>1, <4>2 DEF IInv, InLine, m
      <4>4. x \in accepted[s] => Before(x, conns[s][k].msg)
        BY <3>1, <4>1 DEF IInv, InLine, Handled
      <4> QED
        BY <1>3, <3>1, <4>3, <4>4
    <3>2. CASE r # s
      BY <1>2, <1>3, <3>2 DEF IInv, InLine, Handled
    <3> QED
      BY <3>1, <3>2
  <2>2. \A r \in Servers : \A k, l \in DOMAIN conns'[r] :
          k < l /\ IsEvent(conns'[r][k].msg) /\ IsEvent(conns'[r][l].msg) =>
            Before(conns'[r][k].msg, conns'[r][l].msg)
    BY <1>2 DEF IInv, InLine
  <2> QED
    BY <1>2, <2>1, <2>2 DEF InLine, IsEvent, Before
<1>16. Sorted'
  <2> SUFFICES ASSUME NEW q \in Queues, NEW k \in DOMAIN queue'[q], NEW l \in DOMAIN queue'[q],
                      k < l
               PROVE  Before(queue'[q][k], queue'[q][l])
    BY DEF Sorted, Before
  <2>1. CASE q # s \/ ~ IsEvent(m)
    BY <1>3, <2>1 DEF IInv, Sorted
  <2>2. CASE q = s /\ IsEvent(m)
    <3>1. k \in DOMAIN queue[s]
      <4>1. queue'[s] \in Seq(Events)
        BY <1>0 DEF TypeOK
      <4>2. l <= n /\ k \in Nat /\ l \in Nat
        BY <1>4, <2>2, <4>1
      <4> QED
        BY <1>4, <2>2, <4>2
    <3>2. CASE l = n
      <4>1. queue[s][k] \in accepted[s]
        BY <3>1 DEF IInv, Passed
      <4> QED
        BY <1>4, <1>5, <2>2, <3>1, <3>2, <4>1
    <3>3. CASE l # n
      BY <1>4, <2>2, <3>1, <3>3 DEF IInv, Sorted
    <3> QED
      BY <3>2, <3>3
  <2> QED
    BY <2>1, <2>2
\* An initiator that still listens is waiting for the answer.
<1>17. conns[s][1].open => m = Request(from) /\ exchange[from] = "sent" /\ HasRequest(from)
  BY <1>0, <1>1 DEF IInv, Heard, Answered, Underway, m, from
<1>18. Behind'
  <2> SUFFICES ASSUME NEW h \in Initiators, NEW j \in DOMAIN queue'[h]
               PROVE  /\ \A k \in DOMAIN conns[ServerOf(h)] :
                           LET cm == conns[ServerOf(h)][k] IN
                           cm.from = h /\ IsEvent(cm.msg) =>
                             Before(cm.msg, queue'[h][j]) \/ (cm.open /\ j = 1)
                      /\ \A x \in accepted'[ServerOf(h)] :
                           \/ Before(x, queue'[h][j])
                           \/ j = 1 /\ x = queue'[h][1] /\ exchange[h] = "sent"
    BY <1>2 DEF Behind, Before, IsEvent
  \* The proxy's queue grows at its end.
  <2>1. CASE h = s /\ IsEvent(m) /\ j = n
    <3>1. s = Proxy /\ queue'[h][j] = m /\ ServerOf(h) = Head_
      BY <1>4, <2>1
    <3>2. \A x \in accepted[Proxy] : Before(x, m)
      BY <1>5, <2>1, <3>1
    <3>3. \A k \in DOMAIN conns[Head_] : Before(conns[Head_][k].msg, m)
      BY <3>2 DEF IInv, Passed
    <3>4. \A x \in accepted'[Head_] : Before(x, m)
      BY <1>3, <3>1, <3>2 DEF IInv, Passed
    <3> QED
      BY <3>1, <3>3, <3>4
  <2>2. CASE ~ (h = s /\ IsEvent(m) /\ j = n)
    <3>1. j \in DOMAIN queue[h] /\ queue'[h][j] = queue[h][j] /\ queue'[h][1] = queue[h][1]
      BY <1>0, <1>3, <1>4, <2>2, QueueTypes
    <3>2. \A k \in DOMAIN conns[ServerOf(h)] :
            LET cm == conns[ServerOf(h)][k] IN
            cm.from = h /\ IsEvent(cm.msg) =>
              Before(cm.msg, queue'[h][j]) \/ (cm.open /\ j = 1)
      BY <3>1 DEF IInv, Behind
    <3>3. \A x \in accepted[ServerOf(h)] :
            \/ Before(x, queue'[h][j])
            \/ j = 1 /\ x = queue'[h][1] /\ exchange[h] = "sent"
      BY <3>1 DEF IInv, Behind
    <3>4. ServerOf(h) = s /\ IsEvent(m) =>
            \/ Before(m, queue'[h][j])
            \/ j = 1 /\ m = queue'[h][1] /\ exchange[h] = "sent"
      <4> SUFFICES ASSUME ServerOf(h) = s, IsEvent(m), ~ Before(m, queue'[h][j])
                   PROVE  j = 1 /\ m = queue'[h][1] /\ exchange[h] = "sent"
        OBVIOUS
      <4>1. from = h
        <5> SUFFICES ASSUME from # h PROVE FALSE
          OBVIOUS
        <5>1. ServerOf(from) = s
          BY <1>1 DEF IInv, Routed, from
        <5>2. h \in Clients /\ from \in Clients
          BY <1>1, <5>1 DEF ServerOf, Initiators
        <5>3. m.client = from /\ queue[h][j].client = h
          BY <1>1, <3>1, <5>2 DEF IInv, Routed, m, from
        <5> QED
          BY <3>1, <5>3 DEF Before
      <4>2. conns[s][1].open /\ j = 1
        BY <1>1, <3>2, <4>1 DEF m, from
      <4>3. m = queue[h][1]
        BY <1>0, <1>17, <4>1, <4>2, RequestType
      <4> QED
        BY <1>17, <3>1, <4>1, <4>2, <4>3
    <3> QED
      BY <1>3, <3>2, <3>3, <3>4
  <2> QED
    BY <2>1, <2>2
<1>19. Screen'
  <2>1. \A k \in DOMAIN shown : \A j \in DOMAIN queue'[Head_] : Before(shown[k], queue'[Head_][j])
    <3> SUFFICES ASSUME NEW k \in DOMAIN shown, NEW j \in DOMAIN queue'[Head_]
                 PROVE  Before(shown[k], queue'[Head_][j])
      OBVIOUS
    <3>1. CASE s = Head_ /\ IsEvent(m) /\ j = n
      BY <1>4, <1>5, <3>1 DEF IInv, Passed
    <3>2. CASE ~ (s = Head_ /\ IsEvent(m) /\ j = n)
      <4>1. j \in DOMAIN queue[Head_] /\ queue'[Head_][j] = queue[Head_][j]
        BY <1>3, <1>4, <3>2
      <4> QED
        BY <4>1 DEF IInv, Screen
    <3> QED
      BY <3>1, <3>2
  <2> QED
    BY <1>2, <2>1 DEF IInv, Screen, Before
<1> QED
  BY <1>8, <1>9, <1>10, <1>12, <1>13, <1>14, <1>15, <1>16, <1>18, <1>19 DEF IInv

\* The end of a turn of the worker: the accepted connection is closed, and its
\* initiator, if it still listens, is told so or has its answer.
LEMMA CloseClientKeeps ==
  ASSUME IInv, TypeOK', NEW s \in Servers, worker[s] # "accept", CloseClient(s),
         NEW what \in {"result", "closed"},
         what = "result" => worker[s] = "reply",
         answer' = Told(s, what),
         UNCHANGED <<current_state, queue, exchange, generated, history>>
  PROVE  IInv'
<1> DEFINE from == conns[s][1].from
<1> USE TheServers, ServerOfType
<1>0. /\ TypeOK /\ worker \in [Servers -> {"accept", "receive", "handle", "reply"}]
      /\ conns \in [Servers -> Seq(Connection)] /\ conns[s] \in Seq(Connection)
      /\ answer \in [Initiators -> {"none", "result", "closed"}]
  BY DEF IInv, TypeOK
<1>1. /\ conns[s] # << >> /\ 1 \in DOMAIN conns[s] /\ Accepted(s) = conns[s][1]
      /\ conns[s][1] \in Connection /\ from \in Initiators /\ conns[s][1].msg \in Requests
  BY <1>0, AcceptedType DEF Connection
<1>2. /\ \A k \in DOMAIN conns'[s] : k + 1 \in DOMAIN conns[s] /\ conns'[s][k] = conns[s][k + 1]
                                     /\ k \in Nat /\ k >= 1
      /\ \A r \in Servers : r # s => conns'[r] = conns[r]
      /\ worker'[s] = "accept" /\ \A r \in Servers : r # s => worker'[r] = worker[r]
  <2>1. conns'[s] = Tail(conns[s]) /\ \A r \in Servers : r # s => conns'[r] = conns[r]
    BY <1>0 DEF CloseClient
  <2>2. \A k \in DOMAIN conns'[s] : k \in Nat /\ k >= 1
    BY DEF TypeOK
  <2> QED
    BY <1>0, <1>1, <2>1, <2>2, TailElements DEF CloseClient
<1>3. UNCHANGED <<current_state, queue, exchange, generated, shown, accepted>>
  BY DEF history
<1>4. /\ conns[s][1].open => answer'[from] = what
      /\ \A h \in Initiators : h # from \/ ~ conns[s][1].open => answer'[h] = answer[h]
  BY <1>0, <1>1 DEF Told
<1> HIDE DEF from
<1>5. \A h \in Initiators : HasRequest(h)' = HasRequest(h) /\ Request(h)' = Request(h)
  BY <1>3 DEF HasRequest, Request
\* Each connection was there before.
<1>6. \A r \in Servers : \A k \in DOMAIN conns'[r] :
        \E l \in DOMAIN conns[r] : /\ conns'[r][k] = conns[r][l]
                                   /\ l = IF r = s THEN k + 1 ELSE k
                                   /\ r = s => l # 1
  BY <1>2
<1>7. Routed'
  BY <1>3, <1>6 DEF IInv, Routed
<1>8. Underway'
  BY <1>3, <1>5 DEF IInv, Underway
<1>9. Heard'
  <2> SUFFICES ASSUME NEW r \in Servers, NEW k \in DOMAIN conns'[r], conns'[r][k].open,
                      NEW h, h = conns'[r][k].from
               PROVE  /\ exchange'[h] # "idle" /\ answer'[h] = "none"
                      /\ conns'[r][k].msg = Request(h)'
                      /\ conns'[r][k].data = "whole" => exchange'[h] = "sent"
                      /\ \A l \in DOMAIN conns'[r] :
                           conns'[r][l].open /\ conns'[r][l].from = h => l = k
    BY DEF Heard
  <2>1. PICK j \in DOMAIN conns[r] : /\ conns'[r][k] = conns[r][j]
                                     /\ j = IF r = s THEN k + 1 ELSE k
                                     /\ r = s => j # 1
    BY <1>6
  <2>2. /\ exchange[h] # "idle" /\ answer[h] = "none" /\ conns[r][j].msg = Request(h)
        /\ conns[r][j].data = "whole" => exchange[h] = "sent"
        /\ \A l \in DOMAIN conns[r] : conns[r][l].open /\ conns[r][l].from = h => l = j
        /\ h \in Initiators /\ ServerOf(h) = r
    BY <1>0, <2>1, QueueTypes DEF IInv, Heard, Routed
  <2>3. h # from \/ ~ conns[s][1].open
    <3> SUFFICES ASSUME h = from, conns[s][1].open PROVE FALSE
      OBVIOUS
    <3>1. r = s
      BY <1>1, <2>2 DEF IInv, Routed, from
    <3> QED
      BY <1>1, <2>1, <2>2, <3>1 DEF from
  <2>4. answer'[h] = "none"
    BY <1>4, <2>2, <2>3
  <2>5. \A l \in DOMAIN conns'[r] : conns'[r][l].open /\ conns'[r][l].from = h => l = k
    <3> SUFFICES ASSUME NEW l \in DOMAIN conns'[r], conns'[r][l].open, conns'[r][l].from = h
                 PROVE  l = k
      OBVIOUS
    <3>1. PICK i \in DOMAIN conns[r] : /\ conns'[r][l] = conns[r][i]
                                       /\ i = IF r = s THEN l + 1 ELSE l
      BY <1>6
    <3>2. i = j
      BY <2>2, <3>1
    <3>3. k \in Nat /\ l \in Nat
      BY DEF TypeOK
    <3> QED
      BY <2>1, <3>1, <3>2, <3>3
  <2> QED
    BY <1>3, <1>5, <2>1, <2>2, <2>4, <2>5
<1>10. Answered'
  <2>1. \A r \in Servers :
          /\ worker'[r] \in {"handle", "reply"} => conns'[r][1].data = "whole"
          /\ worker'[r] = "reply" /\ IsEvent(conns'[r][1].msg) =>
               conns'[r][1].msg \in accepted'[r]
    BY <1>2, <1>3 DEF IInv, Answered
  <2>2. ASSUME NEW h \in Initiators, exchange'[h] # "idle", answer'[h] = "result"
        PROVE  /\ exchange'[h] = "sent"
               /\ IsEvent(Request(h))' => Request(h)' \in accepted'[ServerOf(h)]
    <3>1. CASE h = from /\ conns[s][1].open
      <4>1. worker[s] = "reply"
        BY <1>4, <2>2, <3>1
      <4>2. /\ conns[s][1].msg = Request(h) /\ exchange[h] = "sent" /\ ServerOf(h) = s
            /\ IsEvent(conns[s][1].msg) => conns[s][1].msg \in accepted[s]
        BY <1>1, <3>1, <4>1 DEF IInv, Heard, Answered, Routed, from
      <4> QED
        BY <1>3, <1>5, <4>2 DEF IsEvent
    <3>2. CASE ~ (h = from /\ conns[s][1].open)
      <4>1. answer[h] = "result" /\ exchange[h] # "idle"
        BY <1>3, <1>4, <2>2, <3>2
      <4> QED
        BY <1>3, <1>5, <4>1 DEF IInv, Answered, IsEvent
    <3> QED
      BY <3>1, <3>2
  <2> QED
    BY <2>1, <2>2 DEF Answered, IsEvent
<1>11. Passed'
  BY <1>3, <1>6 DEF IInv, Passed
<1>12. Reported'
  BY <1>3, <1>6 DEF IInv, Reported, IsEvent
<1>13. InLine'
  <2>1. \A r \in Servers : \A k \in DOMAIN conns'[r] :
          IsEvent(conns'[r][k].msg) /\ ~ Handled(r, k)' =>
            \A x \in accepted[r] : Before(x, conns'[r][k].msg)
    BY <1>2, <1>6 DEF IInv, InLine, Handled
  <2>2. ASSUME NEW r \in Servers, NEW k \in DOMAIN conns'[r], NEW l \in DOMAIN conns'[r],
               k < l, IsEvent(conns'[r][k].msg), IsEvent(conns'[r][l].msg)
        PROVE  Before(conns'[r][k].msg, conns'[r][l].msg)
    <3>1. CASE r = s
      <4>1. k + 1 < l + 1
        BY <1>2, <2>2, <3>1
      <4> QED
        BY <1>2, <2>2, <3>1, <4>1 DEF IInv, InLine
    <3>2. CASE r # s
      BY <1>2, <2>2, <3>2 DEF IInv, InLine
    <3> QED
      BY <3>1, <3>2
  <2> QED
    BY <1>3, <2>1, <2>2 DEF InLine, IsEvent, Before
<1>14. Sorted' /\ Screen'
  BY <1>3 DEF IInv, Sorted, Screen
<1>15. Behind'
  <2> SUFFICES ASSUME NEW h \in Initiators, NEW j \in DOMAIN queue[h]
               PROVE  /\ \A k \in DOMAIN conns'[ServerOf(h)] :
                           LET cm == conns'[ServerOf(h)][k] IN
                           cm.from = h /\ IsEvent(cm.msg) =>
                             Before(cm.msg, queue[h][j]) \/ (cm.open /\ j = 1)
                      /\ \A x \in accepted[ServerOf(h)] :
                           \/ Before(x, queue[h][j])
                           \/ j = 1 /\ x = queue[h][1] /\ exchange[h] = "sent"
    BY <1>3 DEF Behind, Before, IsEvent
  <2> QED
    BY <1>6 DEF IInv, Behind
<1> QED
  BY <1>7, <1>8, <1>9, <1>10, <1>11, <1>12, <1>13, <1>14, <1>15 DEF IInv

-----------------------------------------------------------------------------
(***************************************************************************)
(* A server that dies and is started again.                                *)
(***************************************************************************)
LEMMA RestartKeeps ==
  ASSUME IInv, TypeOK', NEW s \in Servers, Restart(s)
  PROVE  IInv'
<1> USE TheServers, ServerOfType
<1>0. /\ TypeOK /\ s \in Queues
      /\ worker \in [Servers -> {"accept", "receive", "handle", "reply"}]
      /\ conns \in [Servers -> Seq(Connection)]
      /\ exchange \in [Initiators -> {"idle", "connected", "sent"}]
      /\ queue \in [Queues -> Seq(Events)]
  BY DEF IInv, TypeOK, Queues
\* Its own connections are gone; those of the proxy at the head are closed.
<1>1. /\ DOMAIN conns'[s] = {}
      /\ \A r \in Servers : r # s =>
           /\ DOMAIN conns'[r] = DOMAIN conns[r]
           /\ \A k \in DOMAIN conns[r] :
                /\ conns'[r][k].from = conns[r][k].from
                /\ conns'[r][k].msg = conns[r][k].msg
                /\ conns'[r][k].data = conns[r][k].data
                /\ conns'[r][k].open <=> conns[r][k].open /\ ~ (s = Proxy)
  <2> DEFINE cs == [conns EXCEPT ![s] = << >>]
  <2>1. << >> \in Seq(Connection)
    OBVIOUS
  <2>2. /\ cs \in [Servers -> Seq(Connection)]
        /\ cs[s] = << >> /\ \A r \in Servers : r # s => cs[r] = conns[r]
    BY <1>0, <2>1
  <2>3. CASE s = Proxy
    <3>1. conns' = Shut(Proxy, cs)
      BY <2>3 DEF Restart
    <3> HIDE DEF cs
    <3>2. /\ \A r \in Servers : DOMAIN conns'[r] = DOMAIN cs[r]
          /\ \A r \in Servers : \A k \in DOMAIN cs[r] :
               /\ conns'[r][k].from = cs[r][k].from
               /\ conns'[r][k].msg = cs[r][k].msg
               /\ conns'[r][k].data = cs[r][k].data
               /\ conns'[r][k].open <=>
                    cs[r][k].open /\ ~ (r = ServerOf(Proxy) /\ cs[r][k].from = Proxy)
      <4>1. cs \in [Servers -> Seq(Connection)] /\ Proxy \in Initiators
        BY <2>2
      <4> QED
        BY ONLY <3>1, <4>1, ShutEffect
    <3>3. \A r \in Servers : r # s => r = Head_
      BY <2>3
    <3>4. \A k \in DOMAIN conns[Head_] : conns[Head_][k].from = Proxy
      BY <1>0, QueueTypes DEF IInv, Routed, Initiators
    <3> QED
      BY <2>2, <2>3, <3>2, <3>3, <3>4
  <2>4. CASE s # Proxy
    <3>1. conns' = cs
      BY <2>4 DEF Restart
    <3> HIDE DEF cs
    <3> QED
      BY <2>2, <2>4, <3>1
  <2> QED
    BY <2>3, <2>4
<1>2. /\ queue'[s] = << >> /\ \A q \in Queues : q # s => queue'[q] = queue[q]
      /\ worker'[s] = "accept" /\ \A r \in Servers : r # s => worker'[r] = worker[r]
      /\ \A h \in Initiators : h # s => exchange'[h] = exchange[h]
      /\ s = Proxy => exchange'[Proxy] = "idle"
      /\ UNCHANGED <<current_state, generated, shown, accepted>>
  BY <1>0 DEF Restart, history
<1>3. \A h \in Initiators :
        answer'[h] = IF \E k \in DOMAIN conns[s] : conns[s][k].from = h /\ conns[s][k].open
                     THEN "closed" ELSE answer[h]
  BY DEF Restart
<1>4. \A h \in Initiators : h # s /\ HasRequest(h) => HasRequest(h)' /\ Request(h)' = Request(h)
  BY <1>2, RequestKept
<1>5. Routed'
  BY <1>1, <1>2 DEF IInv, Routed
<1>6. Underway'
  <2>1. \A d \in Clients : current_state'[d] # "PROCESS" => queue'[d] = << >>
    BY <1>2 DEF IInv, Underway
  <2>2. \A h \in Initiators : exchange'[h] # "idle" => HasRequest(h)'
    BY <1>2, <1>4 DEF IInv, Underway
  <2> QED
    BY <2>1, <2>2 DEF Underway
<1>7. Heard'
  <2> SUFFICES ASSUME NEW r \in Servers, NEW k \in DOMAIN conns'[r], conns'[r][k].open,
                      NEW h, h = conns'[r][k].from
               PROVE  /\ exchange'[h] # "idle" /\ answer'[h] = "none"
                      /\ conns'[r][k].msg = Request(h)'
                      /\ conns'[r][k].data = "whole" => exchange'[h] = "sent"
                      /\ \A l \in DOMAIN conns'[r] :
                           conns'[r][l].open /\ conns'[r][l].from = h => l = k
    BY DEF Heard
  <2>1. /\ r # s /\ k \in DOMAIN conns[r] /\ DOMAIN conns'[r] = DOMAIN conns[r]
        /\ conns[r][k].open /\ h = conns[r][k].from /\ s # Proxy
        /\ conns'[r][k].msg = conns[r][k].msg /\ conns'[r][k].data = conns[r][k].data
    BY <1>1
  <2>2. /\ exchange[h] # "idle" /\ answer[h] = "none" /\ conns[r][k].msg = Request(h)
        /\ conns[r][k].data = "whole" => exchange[h] = "sent"
        /\ \A l \in DOMAIN conns[r] : conns[r][l].open /\ conns[r][l].from = h => l = k
        /\ h \in Initiators /\ ServerOf(h) = r /\ HasRequest(h)
    BY <1>0, <2>1, QueueTypes DEF IInv, Heard, Routed, Underway
  <2>3. h # s /\ answer'[h] = "none"
    BY <1>3, <2>1, <2>2 DEF IInv, Routed
  <2>4. \A l \in DOMAIN conns'[r] : conns'[r][l].open /\ conns'[r][l].from = h =>
                                    conns[r][l].open /\ conns[r][l].from = h
    BY <1>1, <2>1
  <2> QED
    BY <1>2, <1>4, <2>1, <2>2, <2>3, <2>4
<1>8. Answered'
  <2>1. \A r \in Servers :
          /\ worker'[r] \in {"handle", "reply"} => conns'[r][1].data = "whole"
          /\ worker'[r] = "reply" /\ IsEvent(conns'[r][1].msg) =>
               conns'[r][1].msg \in accepted'[r]
    <3> SUFFICES ASSUME NEW r \in Servers, worker'[r] \in {"handle", "reply"}
                 PROVE  /\ conns'[r][1].data = "whole"
                        /\ worker'[r] = "reply" /\ IsEvent(conns'[r][1].msg) =>
                             conns'[r][1].msg \in accepted'[r]
      OBVIOUS
    <3>1. r # s /\ worker'[r] = worker[r] /\ 1 \in DOMAIN conns[r]
      BY <1>0, <1>2, AcceptedType
    <3> QED
      BY <1>1, <1>2, <3>1 DEF IInv, Answered
  <2>2. ASSUME NEW h \in Initiators, exchange'[h] # "idle", answer'[h] = "result"
        PROVE  /\ exchange'[h] = "sent"
               /\ IsEvent(Request(h))' => Request(h)' \in accepted'[ServerOf(h)]
    <3>1. h # s /\ exchange[h] # "idle" /\ answer[h] = "result"
      BY <1>2, <1>3, <2>2
    <3> QED
      BY <1>2, <1>4, <3>1 DEF IInv, Answered, Underway, IsEvent
  <2> QED
    BY <2>1, <2>2 DEF Answered, IsEvent
<1>9. Passed'
  BY <1>1, <1>2 DEF IInv, Passed
<1>10. Reported'
  BY <1>1, <1>2 DEF IInv, Reported
<1>11. InLine'
  BY <1>1, <1>2 DEF IInv, InLine, Handled
<1>12. Sorted'
  BY <1>2 DEF IInv, Sorted
<1>13. Behind'
  <2> SUFFICES ASSUME NEW h \in Initiators, NEW j \in DOMAIN queue'[h]
               PROVE  /\ \A k \in DOMAIN conns'[ServerOf(h)] :
                           LET cm == conns'[ServerOf(h)][k] IN
                           cm.from = h /\ IsEvent(cm.msg) =>
                             Before(cm.msg, queue'[h][j]) \/ (cm.open /\ j = 1)
                      /\ \A x \in accepted[ServerOf(h)] :
                           \/ Before(x, queue'[h][j])
                           \/ j = 1 /\ x = queue'[h][1] /\ exchange'[h] = "sent"
    BY <1>2 DEF Behind, Before, IsEvent
  <2>1. h # s /\ queue'[h] = queue[h] /\ exchange'[h] = exchange[h]
    BY <1>2
  <2>2. ServerOf(h) = s \/ s # Proxy \/ h = Proxy
    BY DEF ServerOf
  <2> QED
    BY <1>1, <2>1, <2>2 DEF IInv, Behind
<1>14. Screen'
  BY <1>2 DEF IInv, Screen
<1> QED
  BY <1>5, <1>6, <1>7, <1>8, <1>9, <1>10, <1>11, <1>12, <1>13, <1>14 DEF IInv

-----------------------------------------------------------------------------
(***************************************************************************)
(* The theorems.                                                           *)
(***************************************************************************)
LEMMA IInvInit == Init => IInv
<1> SUFFICES ASSUME Init PROVE IInv
  OBVIOUS
<1>1. TypeOK
  BY TypeInit
<1>2. /\ \A q \in Queues : queue[q] = << >>
      /\ \A s \in Servers : conns[s] = << >> /\ worker[s] = "accept" /\ accepted[s] = {}
      /\ \A i \in Initiators : exchange[i] = "idle"
      /\ shown = << >>
  BY DEF Init
<1>3. DOMAIN << >> = {}
  OBVIOUS
<1> QED
  BY <1>1, <1>2, <1>3, TheServers, ServerOfType
     DEF IInv, Routed, Underway, Heard, Answered, Passed, Reported, InLine, Sorted, Behind,
         Screen

\* The steps of EventPath, as far as the invariants tell them apart.
Steps ==
  \/ \E i \in Initiators : \/ InitiatorStep(i)
                           \/ ConnectFails(i) \/ SendFails(i) \/ AnswerTimesOut(i)
  \/ \E s \in Servers : \/ WorkerStep(s)
                        \/ ReceiveTimesOut(s) \/ ReplyFails(s) \/ Restart(s)
  \/ \E c \in Clients : SensorEvent(c) \/ Start(c)
  \/ Show
  \/ UNCHANGED vars

LEMMA NextSteps == [Next]_vars => Steps
BY DEF Next, Failure, Poll, Steps

\* Every step of an initiator keeps the invariant, and is of one of three shapes.
LEMMA InitiatorKeeps ==
  ASSUME IInv, NEW i \in Initiators,
         \/ InitiatorStep(i)
         \/ ConnectFails(i) \/ SendFails(i) \/ AnswerTimesOut(i)
  PROVE  IInv' /\ (Connect(i) \/ Send(i) \/ GoesOn(i))
<1>1. TypeOK'
  BY InitiatorTypes DEF IInv
<1>2. CASE Connect(i) \/ Send(i)
  BY <1>1, <1>2, ConnectKeeps, SendKeeps
<1>3. CASE Succeed(i)
  BY <1>1, <1>3, SucceedGoesOn, GoesOnKeeps
<1>4. CASE ClosedOn(i) \/ ConnectFails(i) \/ AnswerTimesOut(i)
  <2>1. Abandon(i, conns) /\ HasRequest(i)
    BY <1>4 DEF ClosedOn, ConnectFails, AnswerTimesOut, IInv, Underway
  <2>2. GoesOn(i)
    BY <2>1, AbandonGoesOn
  <2> QED
    BY <1>1, <2>2, GoesOnKeeps
<1>5. CASE SendFails(i)
  <2>1. PICK d \in {"none", "part"} : Abandon(i, SetData(i, d))
    BY <1>5 DEF SendFails
  <2>2. HasRequest(i) /\ exchange[i] = "connected"
    BY <1>5 DEF SendFails, IInv, Underway
  <2>3. GoesOn(i)
    BY <2>1, <2>2, AbandonGoesOn
  <2> QED
    BY <1>1, <2>3, GoesOnKeeps
<1> QED
  BY <1>2, <1>3, <1>4, <1>5 DEF InitiatorStep

\* Every step of a server keeps the invariant, restarts included.
LEMMA ServerKeeps ==
  ASSUME IInv, NEW s \in Servers,
         WorkerStep(s) \/ ReceiveTimesOut(s) \/ ReplyFails(s) \/ Restart(s)
  PROVE  IInv'
<1>1. TypeOK' /\ TypeOK
  BY ServerTypes DEF IInv
<1>2. CASE Accept(s) \/ Receive(s)
  BY <1>1, <1>2, TakesKeeps
<1>3. CASE Handle(s)
  BY <1>1, <1>3, HandleKeeps
<1>4. CASE Restart(s)
  BY <1>1, <1>4, RestartKeeps
<1>5. CASE Reply(s)
  BY <1>1, <1>5, CloseClientKeeps DEF Reply
<1>6. CASE ReceiveFails(s)
  <2>1. answer' = Told(s, "closed")
    BY <1>6 DEF ReceiveFails, Told
  <2> QED
    BY <1>1, <1>6, <2>1, CloseClientKeeps DEF ReceiveFails
<1>7. CASE ReceiveTimesOut(s) \/ ReplyFails(s)
  BY <1>1, <1>7, CloseClientKeeps DEF ReceiveTimesOut, ReplyFails
<1> QED
  BY <1>2, <1>3, <1>4, <1>5, <1>6, <1>7 DEF WorkerStep

\* Every step keeps the invariant.
LEMMA IInvNext == IInv /\ [Next]_vars => IInv'
<1> SUFFICES ASSUME IInv, Steps PROVE IInv'
  BY NextSteps
<1>1. ASSUME NEW i \in Initiators,
             \/ InitiatorStep(i)
             \/ ConnectFails(i) \/ SendFails(i) \/ AnswerTimesOut(i)
      PROVE  IInv'
  BY <1>1, InitiatorKeeps
<1>2. ASSUME NEW s \in Servers,
             WorkerStep(s) \/ ReceiveTimesOut(s) \/ ReplyFails(s) \/ Restart(s)
      PROVE  IInv'
  BY <1>2, ServerKeeps
<1>3. ASSUME NEW c \in Clients, SensorEvent(c) \/ Start(c) PROVE IInv'
  <2>1. TypeOK'
    BY <1>3, OtherTypes DEF IInv
  <2> QED
    BY <1>3, <2>1, SensorEventKeeps, StartKeeps
<1>4. CASE Show
  <2>1. TypeOK'
    BY <1>4, OtherTypes DEF IInv
  <2> QED
    BY <1>4, <2>1, ShowKeeps
<1>5. CASE UNCHANGED vars
  <2>1. \A h \in Initiators : HasRequest(h)' = HasRequest(h) /\ Request(h)' = Request(h)
    BY <1>5 DEF vars, HasRequest, Request
  <2>2. TypeOK'
    BY <1>5, OtherTypes DEF IInv
  <2>3. Routed' /\ Passed' /\ Reported' /\ InLine' /\ Sorted' /\ Behind' /\ Screen'
    BY <1>5 DEF vars, IInv, Routed, Passed, Reported, InLine, Handled, Sorted, Behind, Screen
  <2>4. Underway'
    BY <1>5, <2>1 DEF vars, IInv, Underway
  <2>5. Heard'
    BY <1>5, <2>1, QueueTypes DEF vars, IInv, Heard
  <2>6. Answered'
    BY <1>5, <2>1 DEF vars, IInv, Answered, IsEvent
  <2> QED
    BY <2>2, <2>3, <2>4, <2>5, <2>6 DEF IInv
<1> QED
  BY <1>1, <1>2, <1>3, <1>4, <1>5 DEF Steps

\* The invariant holds in every state.
LEMMA IInvAlways == Spec => []IInv
BY IInvInit, IInvNext, PTL DEF Spec

\* Queues, connections and workers have their types, and a worker that is past
\* accept has a connection (socket_server.cpp).
THEOREM EventPathTypes == Spec => []TypeOK
<1>1. IInv => TypeOK
  BY DEF IInv
<1> QED
  BY <1>1, IInvAlways, PTL

\* Of the events that an initiator still has, the server can have taken only the
\* oldest, and only while its answer is awaited (client_process_event.cpp,
\* proxy_main.cpp).
THEOREM OnlyOneInDoubt == Spec => []OnlyTheOldestIsInDoubt
<1>1. IInv => OnlyTheOldestIsInDoubt
  <2> SUFFICES ASSUME IInv, NEW i \in Initiators, NEW k \in DOMAIN queue[i],
                      queue[i][k] \in accepted[ServerOf(i)]
               PROVE  k = 1 /\ exchange[i] = "sent"
    BY DEF OnlyTheOldestIsInDoubt
  <2>1. queue[i][k] \in Events
    BY QueueTypes, TheServers, ServerOfType DEF IInv
  <2>2. ~ Before(queue[i][k], queue[i][k])
    BY <2>1, EventRequests DEF Before
  <2> QED
    BY <2>2 DEF IInv, Behind
<1> QED
  BY <1>1, IInvAlways, PTL

\* accepted is what it is called: no step forgets an event that was taken.
LEMMA AcceptedGrows ==
  ASSUME IInv, Steps
  PROVE  \A s \in Servers : accepted[s] \subseteq accepted'[s]
<1>1. CASE \E i \in Initiators : \/ InitiatorStep(i)
                                 \/ ConnectFails(i) \/ SendFails(i) \/ AnswerTimesOut(i)
  <2>1. PICK i \in Initiators : Connect(i) \/ Send(i) \/ GoesOn(i)
    BY <1>1, InitiatorKeeps
  <2> QED
    BY <2>1 DEF Connect, Send, GoesOn, history
<1>2. CASE \E s \in Servers : \/ WorkerStep(s)
                              \/ ReceiveTimesOut(s) \/ ReplyFails(s) \/ Restart(s)
  <2>1. PICK s \in Servers : \/ WorkerStep(s)
                             \/ ReceiveTimesOut(s) \/ ReplyFails(s) \/ Restart(s)
    BY <1>2
  <2>2. CASE Handle(s)
    BY <2>2 DEF Handle, IInv, TypeOK
  <2>3. CASE ~ Handle(s)
    BY <2>1, <2>3 DEF WorkerStep, Accept, Receive, ReceiveFails, Reply, ReceiveTimesOut,
                      ReplyFails, Restart, history
  <2> QED
    BY <2>2, <2>3
<1>3. CASE \/ \E c \in Clients : SensorEvent(c) \/ Start(c)
           \/ Show
           \/ UNCHANGED vars
  BY <1>3 DEF SensorEvent, Start, Show, vars, history
<1> QED
  BY <1>1, <1>2, <1>3 DEF Steps

\* What is accepted stays accepted, so an answer stays true.
LEMMA AckNext == IInv /\ AckMeansAccepted /\ [Next]_vars => AckMeansAccepted'
<1> SUFFICES ASSUME IInv, AckMeansAccepted, Steps PROVE AckMeansAccepted'
  BY NextSteps
<1>1. \A s \in Servers : accepted[s] \subseteq accepted'[s]
  BY AcceptedGrows
<1>2. CASE UNCHANGED acked
  BY <1>1, <1>2, TheServers, ServerOfType DEF AckMeansAccepted
<1>3. CASE \E i \in Initiators : Succeed(i)
  <2>1. PICK i \in Initiators : Succeed(i)
    BY <1>3
  <2>2. CASE i \in Clients /\ current_state[i] # "PROCESS"
    BY <1>2, <2>1, <2>2 DEF Succeed
  <2>3. CASE ~ (i \in Clients /\ current_state[i] # "PROCESS")
    <3>1. acked' = [acked EXCEPT ![i] = acked[i] \cup {Head(queue[i])}]
      BY <2>1, <2>3 DEF Succeed
    <3>2. Request(i) = Head(queue[i])
      BY <2>3 DEF Request
    <3>3. HasRequest(i) /\ TypeOK
      BY <2>1 DEF Succeed, IInv, Underway
    <3>4. IsEvent(Request(i))
      BY <2>3, <3>3, RequestType, EventRequests
    <3>5. Request(i) \in accepted[ServerOf(i)]
      BY <2>1, <3>4 DEF Succeed, IInv, Answered
    <3> QED
      BY <1>1, <3>1, <3>2, <3>3, <3>5, TheServers, ServerOfType DEF AckMeansAccepted, TypeOK
  <2> QED
    BY <2>2, <2>3
<1>4. UNCHANGED acked \/ \E i \in Initiators : Succeed(i)
  BY DEF Steps, InitiatorStep, WorkerStep, Connect, Send, ClosedOn, ConnectFails, SendFails,
         AnswerTimesOut, Abandon, Accept, Receive, ReceiveFails, Handle, Reply,
         ReceiveTimesOut, ReplyFails, Restart, SensorEvent, Start, Show, vars, history
<1> QED
  BY <1>2, <1>3, <1>4

\* An event leaves a queue because of an answer only if the server has taken it,
\* whoever dies when: process_message_event adds before it answers
\* (proxy_event.cpp, head_event.cpp).
THEOREM AnsweredIsAccepted == Spec => []AckMeansAccepted
<1>1. Init => AckMeansAccepted
  BY DEF Init, AckMeansAccepted
<1> QED
  BY <1>1, IInvAlways, AckNext, PTL DEF Spec

-----------------------------------------------------------------------------
(***************************************************************************)
(* The path of events delivers them as EventDelivery says.                 *)
(***************************************************************************)
Screened == [k \in DOMAIN shown |-> [client |-> shown[k].client, n |-> shown[k].n]]

\* To show an event is to deliver it: it comes after all that are shown.
LEMMA ShowDelivers ==
  ASSUME IInv, Show
  PROVE  \E c \in Clients : \E n \in 1 .. generated[c] : Delivery!Show(c, n)
<1> DEFINE e == queue[Head_][1]
           item == [client |-> e.client, n |-> e.n]
<1>0. /\ TypeOK /\ queue[Head_] \in Seq(Events) /\ queue[Head_] # << >>
      /\ shown \in Seq(Events) /\ generated \in [Clients -> 0 .. MaxEvents]
  BY TheServers, ServerOfType DEF IInv, TypeOK, Show
<1>1. Head(queue[Head_]) = e /\ e \in Events /\ 1 \in DOMAIN queue[Head_]
  BY <1>0, TailElements
<1>2. e.client \in Clients /\ e.n \in Nat /\ e.n >= 1
  BY <1>1, EventRequests
<1>3. e.n <= generated[e.client]
  BY <1>1, TheServers, ServerOfType DEF IInv, Passed, Reported
<1>4. e.n \in 1 .. generated[e.client]
  BY <1>0, <1>2, <1>3, PathAssumption
<1>5. \A k \in DOMAIN shown : shown[k].client = e.client => shown[k].n < e.n
  BY <1>1 DEF IInv, Screen, Before
<1>6. shown' = Append(shown, e) /\ UNCHANGED generated
  BY <1>1 DEF Show
<1> HIDE DEF e
<1>7. Screened' = Append(Screened, item)
  <2>1. /\ Len(shown) \in Nat /\ DOMAIN shown = 1 .. Len(shown)
        /\ DOMAIN shown' = 1 .. Len(shown) + 1
        /\ shown'[Len(shown) + 1] = e
        /\ \A k \in DOMAIN shown : shown'[k] = shown[k]
    BY <1>0, <1>1, <1>6
  <2>2. Screened \in Seq([client : Clients, n : Nat]) /\ Len(Screened) = Len(shown)
    <3>1. \A k \in DOMAIN shown : shown[k].client \in Clients /\ shown[k].n \in Nat
      BY <1>0, EventRequests
    <3>2. Screened \in [DOMAIN shown -> [client : Clients, n : Nat]]
      BY <3>1 DEF Screened
    <3>3. Screened \in Seq([client : Clients, n : Nat])
      BY <1>0, <3>2, MapElements
    <3>4. DOMAIN Screened = 1 .. Len(shown)
      BY <2>1 DEF Screened
    <3> QED
      BY <2>1, <3>3, <3>4
  <2>3. item \in [client : Clients, n : Nat]
    BY <1>2
  <2>4. /\ DOMAIN Append(Screened, item) = 1 .. Len(shown) + 1
        /\ Append(Screened, item)[Len(shown) + 1] = item
        /\ \A k \in 1 .. Len(shown) : Append(Screened, item)[k] = Screened[k]
        /\ Append(Screened, item) \in Seq([client : Clients, n : Nat])
    BY <2>1, <2>2, <2>3
  <2>5. /\ DOMAIN Screened' = 1 .. Len(shown) + 1
        /\ Screened'[Len(shown) + 1] = item
        /\ \A k \in 1 .. Len(shown) : Screened'[k] = Screened[k]
    BY <2>1 DEF Screened
  <2>6. \A k \in 1 .. Len(shown) + 1 : k \in 1 .. Len(shown) \/ k = Len(shown) + 1
    BY <2>1
  <2>7. \A k \in 1 .. Len(shown) + 1 : Screened'[k] = Append(Screened, item)[k]
    BY <2>4, <2>5, <2>6
  <2>8. Screened' = [k \in 1 .. Len(shown) + 1 |-> Screened'[k]]
    BY <2>5 DEF Screened
  <2>9. Append(Screened, item) = [k \in 1 .. Len(shown) + 1 |-> Append(Screened, item)[k]]
    BY <2>4
  <2> QED
    BY <2>7, <2>8, <2>9
<1>8. \A k \in DOMAIN Screened : Screened[k].client = e.client => Screened[k].n < e.n
  BY <1>5 DEF Screened
<1>9. Delivery!Show(e.client, e.n)
  BY <1>4, <1>6, <1>7, <1>8 DEF Delivery!Show, Screened
<1> DEFINE c == e.client
           n == e.n
<1>10. c \in Clients /\ n \in 1 .. generated[c] /\ Delivery!Show(c, n)
  BY <1>2, <1>4, <1>9
<1> HIDE DEF c, n
<1> QED
  BY <1>10 DEF Delivery!Show

\* Nothing is shown that was not reported, nothing twice, and nothing out of
\* order: the two queues and two connections on the way of an event implement
\* EventDelivery, however exchanges fail and processes die.
THEOREM EventsAreDelivered == Spec => ImplementsDelivery
<1>1. Init => Delivery!Init
  <2> SUFFICES ASSUME Init PROVE Delivery!Init
    OBVIOUS
  <2>1. shown = << >> /\ generated = [c \in Clients |-> 0]
    BY DEF Init
  <2>2. [k \in DOMAIN shown |-> [client |-> shown[k].client, n |-> shown[k].n]] = << >>
    BY <2>1
  <2> QED
    BY <2>1, <2>2 DEF Delivery!Init
<1>2. IInv /\ [Next]_vars => [Delivery!Next]_(Delivery!vars)
  <2> SUFFICES ASSUME IInv, Steps PROVE [Delivery!Next]_(Delivery!vars)
    BY NextSteps
  <2>1. CASE Show
    <3>1. Delivery!Next
      BY <2>1, ShowDelivers DEF Delivery!Next
    <3> QED
      BY <3>1
  <2>2. CASE \E c \in Clients : SensorEvent(c)
    <3>1. PICK c \in Clients : SensorEvent(c)
      BY <2>2
    <3>2. generated' = [generated EXCEPT ![c] = generated[c] + 1] /\ shown' = shown
      BY <3>1 DEF SensorEvent, history
    <3>3. Delivery!Report(c)
      BY <3>2 DEF Delivery!Report
    <3>4. Delivery!Next
      BY <3>3 DEF Delivery!Next
    <3> QED
      BY <3>4
  <2>3. CASE UNCHANGED <<generated, shown>>
    BY <2>3 DEF Delivery!vars
  <2>4. \/ Show
        \/ \E c \in Clients : SensorEvent(c)
        \/ UNCHANGED <<generated, shown>>
    <3>1. CASE \E i \in Initiators : \/ InitiatorStep(i)
                                     \/ ConnectFails(i) \/ SendFails(i) \/ AnswerTimesOut(i)
      <4>1. PICK i \in Initiators : Connect(i) \/ Send(i) \/ GoesOn(i)
        BY <3>1, InitiatorKeeps
      <4> QED
        BY <4>1 DEF Connect, Send, GoesOn, history
    <3>2. CASE \E s \in Servers : \/ WorkerStep(s)
                                  \/ ReceiveTimesOut(s) \/ ReplyFails(s) \/ Restart(s)
      BY <3>2 DEF WorkerStep, Accept, Receive, ReceiveFails, Handle, Reply, ReceiveTimesOut,
                  ReplyFails, Restart, history
    <3>3. CASE \/ \E c \in Clients : SensorEvent(c) \/ Start(c)
               \/ Show
               \/ UNCHANGED vars
      BY <3>3 DEF Start, vars, history
    <3> QED
      BY <3>1, <3>2, <3>3 DEF Steps
  <2> QED
    BY <2>1, <2>2, <2>3, <2>4
<1> QED
  BY <1>1, <1>2, IInvAlways, PTL DEF Spec, ImplementsDelivery, Delivery!Spec
=============================================================================
