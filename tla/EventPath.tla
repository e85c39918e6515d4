----------------------------- MODULE EventPath -----------------------------
(***************************************************************************)
(* The way of an event: client -> proxy -> head, over one TCP connection   *)
(* per message.                                                            *)
(*                                                                         *)
(* Initiators open a connection, send one request and wait for one answer  *)
(* (client_socket_class): every client to the proxy, and the main thread of*)
(* the proxy to the head.  Servers have a working_thread that serves one   *)
(* connection after the other (server_socket_class): proxy and head.       *)
(*                                                                         *)
(* A queue_class is a FIFO sequence here; QueueProofs shows that it is one.*)
(* A client whose exchange fails exits and loses its queue; shp_client.sh  *)
(* starts it again.  The proxy ignores the failure of an exchange.         *)
(***************************************************************************)
EXTENDS Integers, Sequences

CONSTANTS Clients, Proxy, Head_,
          MaxEvents,        \* bound on the events of one client
          MaxFailures,      \* bound on spontaneous failures
          Backlog           \* connections the kernel completes ahead of accept

ASSUME PathAssumption ==
  /\ Proxy \notin Clients /\ Head_ \notin Clients /\ Proxy # Head_
  /\ MaxEvents \in Nat /\ MaxFailures \in Nat /\ Backlog \in Nat \ {0}

Initiators == Clients \cup {Proxy}
Servers == {Proxy, Head_}
Queues == Clients \cup Servers

ServerOf(i) == IF i = Proxy THEN Head_ ELSE Proxy

VARIABLES
  current_state,  \* of each client's main loop; "DOWN" between exit and restart
  queue,          \* the queue_class of each process, oldest event first
  exchange,       \* "idle", "connected" or "sent", for each initiator
  answer,         \* what has come back on the initiator's open connection
  conns,          \* conns[s]: connections to s not yet closed by s; the first
                  \* is the accepted one when worker[s] # "accept"
  worker,         \* where the working_thread of each server is
  generated,      \* how many events each client's sensors have reported
  shown,          \* history: the events the head has shown
  accepted,       \* history: the events each server has put into its queue
  acked,          \* history: the events for which an initiator got its answer
  failures        \* how many spontaneous failures have happened

vars == <<current_state, queue, exchange, answer, conns, worker, generated,
          shown, accepted, acked, failures>>

network == <<exchange, answer, conns, worker>>
history == <<shown, accepted, acked>>

Event(c, n) == [kind |-> "event", client |-> c, n |-> n]
Events == [kind : {"event"}, client : Clients, n : 1 .. MaxEvents]
Requests == Events \cup [kind : {"version", "config"}, client : Clients, n : {0}]

Connection == [from : Initiators, msg : Requests,
               data : {"none", "part", "whole"}, open : BOOLEAN]

Init ==
  /\ current_state = [c \in Clients |-> "VERSION"]
  /\ queue = [q \in Queues |-> << >>]
  /\ exchange = [i \in Initiators |-> "idle"]
  /\ answer = [i \in Initiators |-> "none"]
  /\ conns = [s \in Servers |-> << >>]
  /\ worker = [s \in Servers |-> "accept"]
  /\ generated = [c \in Clients |-> 0]
  /\ shown = << >>
  /\ accepted = [s \in Servers |-> {}]
  /\ acked = [i \in Initiators |-> {}]
  /\ failures = 0

Spontaneous == failures < MaxFailures /\ failures' = failures + 1

-----------------------------------------------------------------------------
\* Fault: the last event is left in the queue.
HasRequestOffByOne(i) ==
  \/ i \in Clients /\ current_state[i] \in {"VERSION", "CONFIG"}
  \/ (i \in Clients => current_state[i] = "PROCESS") /\ Len(queue[i]) > 1

(***************************************************************************)
(* The request an initiator has to send next, if it has one.               *)
(***************************************************************************)
HasRequest(i) ==
  \/ i \in Clients /\ current_state[i] \in {"VERSION", "CONFIG"}
  \/ (i \in Clients => current_state[i] = "PROCESS") /\ queue[i] # << >>

Request(i) ==
  IF i \in Clients /\ current_state[i] = "VERSION"
  THEN [kind |-> "version", client |-> i, n |-> 0]
  ELSE IF i \in Clients /\ current_state[i] = "CONFIG"
  THEN [kind |-> "config", client |-> i, n |-> 0]
  ELSE Head(queue[i])

\* The state of i's open connection, at its server.
SetData(i, d) ==
  [conns EXCEPT ![ServerOf(i)] =
     [k \in DOMAIN @ |-> IF @[k].from = i /\ @[k].open
                         THEN [@[k] EXCEPT !.data = d] ELSE @[k]]]

Shut(i, cs) ==
  [cs EXCEPT ![ServerOf(i)] =
     [k \in DOMAIN @ |-> IF @[k].from = i
                         THEN [@[k] EXCEPT !.open = FALSE] ELSE @[k]]]

-----------------------------------------------------------------------------
(***************************************************************************)
(* Initiators: connect, send_and_receive, close.                           *)
(***************************************************************************)
Connect(i) ==
  LET s == ServerOf(i) IN
  /\ exchange[i] = "idle" /\ HasRequest(i)
  /\ Len(conns[s]) < Backlog + (IF worker[s] = "accept" THEN 0 ELSE 1)
  /\ conns' = [conns EXCEPT ![s] = Append(@,
                 [from |-> i, msg |-> Request(i), data |-> "none", open |-> TRUE])]
  /\ exchange' = [exchange EXCEPT ![i] = "connected"]
  /\ answer' = [answer EXCEPT ![i] = "none"]
  /\ UNCHANGED <<current_state, queue, worker, generated, history, failures>>

Send(i) ==
  /\ exchange[i] = "connected" /\ answer[i] # "closed"
  /\ conns' = SetData(i, "whole")
  /\ exchange' = [exchange EXCEPT ![i] = "sent"]
  /\ UNCHANGED <<current_state, queue, answer, worker, generated, history, failures>>

\* Fault: the next state is not stored.
SucceedForgetsState(i) ==
  /\ exchange[i] = "sent" /\ answer[i] = "result"
  /\ exchange' = [exchange EXCEPT ![i] = "idle"]
  /\ conns' = Shut(i, conns)
  /\ IF i \in Clients /\ current_state[i] # "PROCESS"
     THEN UNCHANGED <<queue, acked>>
     ELSE /\ acked' = [acked EXCEPT ![i] = @ \cup {Head(queue[i])}]
          /\ queue' = [queue EXCEPT ![i] = Tail(@)]
  /\ UNCHANGED <<current_state, answer, worker, generated, shown, accepted, failures>>

\* Fault: the newest event is taken out of the queue, not the one that was sent.
SucceedRemovesNewest(i) ==
  /\ exchange[i] = "sent" /\ answer[i] = "result"
  /\ exchange' = [exchange EXCEPT ![i] = "idle"]
  /\ conns' = Shut(i, conns)
  /\ IF i \in Clients /\ current_state[i] # "PROCESS"
     THEN /\ current_state' = [current_state EXCEPT ![i] =
                                 IF @ = "VERSION" THEN "CONFIG" ELSE "PROCESS"]
          /\ UNCHANGED <<queue, acked>>
     ELSE /\ acked' = [acked EXCEPT ![i] = @ \cup {Head(queue[i])}]
          /\ queue' = [queue EXCEPT ![i] = SubSeq(@, 1, Len(@) - 1)]
          /\ UNCHANGED current_state
  /\ UNCHANGED <<answer, worker, generated, shown, accepted, failures>>

\* The whole exchange went well: the client goes on to its next state or takes
\* the event out of its queue, the proxy takes the event out of its queue.
Succeed(i) ==
  /\ exchange[i] = "sent" /\ answer[i] = "result"
  /\ exchange' = [exchange EXCEPT ![i] = "idle"]
  /\ conns' = Shut(i, conns)
  /\ IF i \in Clients /\ current_state[i] # "PROCESS"
     THEN /\ current_state' = [current_state EXCEPT ![i] =
                                 IF @ = "VERSION" THEN "CONFIG" ELSE "PROCESS"]
          /\ UNCHANGED <<queue, acked>>
     ELSE /\ acked' = [acked EXCEPT ![i] = @ \cup {Head(queue[i])}]
          /\ queue' = [queue EXCEPT ![i] = Tail(@)]
          /\ UNCHANGED current_state
  /\ UNCHANGED <<answer, worker, generated, shown, accepted, failures>>

\* Fault: the proxy keeps the event and tries again.
AbandonRetries(i, cs) ==
  /\ exchange' = [exchange EXCEPT ![i] = "idle"]
  /\ conns' = Shut(i, cs)
  /\ IF i \in Clients
     THEN /\ current_state' = [current_state EXCEPT ![i] = "DOWN"]
          /\ queue' = [queue EXCEPT ![i] = << >>]
     ELSE UNCHANGED <<current_state, queue>>
  /\ UNCHANGED <<answer, worker, generated, history>>

\* Fault: the client stays in its loop when process_event fails.
AbandonWithoutExit(i, cs) ==
  /\ exchange' = [exchange EXCEPT ![i] = "idle"]
  /\ conns' = Shut(i, cs)
  /\ queue' = IF i \in Clients THEN queue ELSE [queue EXCEPT ![i] = Tail(@)]
  /\ UNCHANGED <<current_state, answer, worker, generated, history>>

\* What becomes of the initiator when its exchange fails: the client exits, the
\* proxy goes on as after a success.
Abandon(i, cs) ==
  /\ exchange' = [exchange EXCEPT ![i] = "idle"]
  /\ conns' = Shut(i, cs)
  /\ IF i \in Clients
     THEN /\ current_state' = [current_state EXCEPT ![i] = "DOWN"]
          /\ queue' = [queue EXCEPT ![i] = << >>]
     ELSE /\ queue' = [queue EXCEPT ![i] = Tail(@)]
          /\ UNCHANGED current_state
  /\ UNCHANGED <<answer, worker, generated, history>>

\* All attempts to connect fail.
ConnectFails(i) ==
  /\ exchange[i] = "idle" /\ HasRequest(i)
  /\ Spontaneous
  /\ Abandon(i, conns)

\* The write timeout passes before anything, or everything, has been sent.
SendFails(i) ==
  /\ exchange[i] = "connected"
  /\ Spontaneous
  /\ \E d \in {"none", "part"} : Abandon(i, SetData(i, d))

\* The read timeout passes without an answer.
AnswerTimesOut(i) ==
  /\ exchange[i] = "sent" /\ answer[i] = "none"
  /\ Spontaneous
  /\ Abandon(i, conns)

\* The server has closed the connection without an answer.
ClosedOn(i) ==
  /\ exchange[i] # "idle" /\ answer[i] = "closed"
  /\ Abandon(i, conns)
  /\ UNCHANGED failures

-----------------------------------------------------------------------------
\* Fault: the number is taken before it is incremented.
SensorEventOffByOne(c) ==
  /\ current_state[c] = "PROCESS"
  /\ generated[c] < MaxEvents
  /\ generated' = [generated EXCEPT ![c] = @ + 1]
  /\ queue' = [queue EXCEPT ![c] = Append(@, Event(c, generated[c]))]
  /\ UNCHANGED <<current_state, network, history, failures>>

(***************************************************************************)
(* Clients: sensors, and the restart by shp_client.sh.                     *)
(***************************************************************************)
SensorEvent(c) ==
  /\ current_state[c] = "PROCESS"
  /\ generated[c] < MaxEvents
  /\ generated' = [generated EXCEPT ![c] = @ + 1]
  /\ queue' = [queue EXCEPT ![c] = Append(@, Event(c, generated[c] + 1))]
  /\ UNCHANGED <<current_state, network, history, failures>>

\* process_event found nothing to send; the loop of main sleeps and goes on.
\* So do the loops of the proxy and of the head.
Poll(q) ==
  /\ queue[q] = << >>
  /\ q \in Clients => current_state[q] = "PROCESS"
  /\ UNCHANGED vars

Start(c) ==
  /\ current_state[c] = "DOWN"
  /\ current_state' = [current_state EXCEPT ![c] = "VERSION"]
  /\ UNCHANGED <<queue, network, generated, history, failures>>

-----------------------------------------------------------------------------
(***************************************************************************)
(* Servers: one turn of working_thread, on the connection accepted first.  *)
(***************************************************************************)
Accepted(s) == Head(conns[s])

\* Fault: a connection closed without an answer is taken for an answer.
ToldResult(s, what) ==
  IF Accepted(s).open THEN [answer EXCEPT ![Accepted(s).from] = "result"] ELSE answer

\* What the initiator of the accepted connection sees, if it still listens.
Told(s, what) ==
  IF Accepted(s).open THEN [answer EXCEPT ![Accepted(s).from] = what] ELSE answer

CloseClient(s) ==
  /\ conns' = [conns EXCEPT ![s] = Tail(@)]
  /\ worker' = [worker EXCEPT ![s] = "accept"]

Accept(s) ==
  /\ worker[s] = "accept" /\ conns[s] # << >>
  /\ worker' = [worker EXCEPT ![s] = "receive"]
  /\ UNCHANGED <<current_state, queue, exchange, answer, conns, generated,
                 history, failures>>

Receive(s) ==
  /\ worker[s] = "receive" /\ Accepted(s).data = "whole"
  /\ worker' = [worker EXCEPT ![s] = "handle"]
  /\ UNCHANGED <<current_state, queue, exchange, answer, conns, generated,
                 history, failures>>

\* Fault: the worker goes on waiting for a peer that has closed its end.
ReceiveFailsWaits(s) ==
  /\ worker[s] = "receive" /\ Accepted(s).data # "whole" /\ ~ Accepted(s).open
  /\ UNCHANGED vars

\* The initiator has closed its end before the whole request was sent.
ReceiveFails(s) ==
  /\ worker[s] = "receive" /\ Accepted(s).data # "whole" /\ ~ Accepted(s).open
  /\ CloseClient(s)
  /\ UNCHANGED <<current_state, queue, exchange, answer, generated, history, failures>>

\* The read timeout passes while the initiator has not sent all of it.
ReceiveTimesOut(s) ==
  /\ worker[s] = "receive" /\ Accepted(s).data # "whole" /\ Accepted(s).open
  /\ Spontaneous
  /\ CloseClient(s)
  /\ answer' = Told(s, "closed")
  /\ UNCHANGED <<current_state, queue, exchange, generated, history>>

\* process_message_event adds the event to the queue before it answers.
Handle(s) ==
  /\ worker[s] = "handle"
  /\ worker' = [worker EXCEPT ![s] = "reply"]
  /\ IF Accepted(s).msg.kind = "event"
     THEN /\ queue' = [queue EXCEPT ![s] = Append(@, Accepted(s).msg)]
          /\ accepted' = [accepted EXCEPT ![s] = @ \cup {Accepted(s).msg}]
     ELSE UNCHANGED <<queue, accepted>>
  /\ UNCHANGED <<current_state, exchange, answer, conns, generated, shown,
                 acked, failures>>

Reply(s) ==
  /\ worker[s] = "reply"
  /\ CloseClient(s)
  /\ answer' = Told(s, "result")
  /\ UNCHANGED <<current_state, queue, exchange, generated, history, failures>>

ReplyFails(s) ==
  /\ worker[s] = "reply" /\ Accepted(s).open
  /\ Spontaneous
  /\ CloseClient(s)
  /\ answer' = Told(s, "closed")
  /\ UNCHANGED <<current_state, queue, exchange, generated, history>>

\* The main thread of the head: peek, show_message_event, remove.
Show ==
  /\ queue[Head_] # << >>
  /\ shown' = Append(shown, Head(queue[Head_]))
  /\ queue' = [queue EXCEPT ![Head_] = Tail(@)]
  /\ UNCHANGED <<current_state, network, generated, accepted, acked, failures>>

\* Fault: the initiators do not notice that their connections are gone.
RestartUnnoticed(s) ==
  /\ Spontaneous
  /\ queue' = [queue EXCEPT ![s] = << >>]
  /\ worker' = [worker EXCEPT ![s] = "accept"]
  /\ exchange' = IF s = Proxy THEN [exchange EXCEPT ![Proxy] = "idle"] ELSE exchange
  /\ conns' = IF s = Proxy THEN Shut(Proxy, [conns EXCEPT ![s] = << >>])
                          ELSE [conns EXCEPT ![s] = << >>]
  /\ UNCHANGED <<current_state, answer, generated, history>>

\* A server dies and is started again: its queue and its connections are gone.
Restart(s) ==
  /\ Spontaneous
  /\ queue' = [queue EXCEPT ![s] = << >>]
  /\ worker' = [worker EXCEPT ![s] = "accept"]
  /\ answer' = [i \in Initiators |->
                  IF \E k \in DOMAIN conns[s] : conns[s][k].from = i /\ conns[s][k].open
                  THEN "closed" ELSE answer[i]]
  /\ IF s = Proxy
     THEN /\ exchange' = [exchange EXCEPT ![Proxy] = "idle"]
          /\ conns' = Shut(Proxy, [conns EXCEPT ![s] = << >>])
     ELSE /\ conns' = [conns EXCEPT ![s] = << >>]
          /\ UNCHANGED exchange
  /\ UNCHANGED <<current_state, generated, history>>

-----------------------------------------------------------------------------
InitiatorStep(i) == Connect(i) \/ Send(i) \/ Succeed(i) \/ ClosedOn(i)

WorkerStep(s) == Accept(s) \/ Receive(s) \/ ReceiveFails(s) \/ Handle(s) \/ Reply(s)

Failure ==
  \/ \E i \in Initiators : ConnectFails(i) \/ SendFails(i) \/ AnswerTimesOut(i)
  \/ \E s \in Servers : ReceiveTimesOut(s) \/ ReplyFails(s) \/ Restart(s)

Next ==
  \/ \E i \in Initiators : InitiatorStep(i)
  \/ \E s \in Servers : WorkerStep(s)
  \/ \E c \in Clients : SensorEvent(c) \/ Start(c)
  \/ \E q \in Queues : Poll(q)
  \/ Show
  \/ Failure

Spec == Init /\ [][Next]_vars

(***************************************************************************)
(* Every process goes on with what it has to do; nothing makes a sensor    *)
(* report and nothing makes a step fail.                                   *)
(***************************************************************************)
Fairness ==
  /\ \A i \in Initiators : WF_vars(InitiatorStep(i))
  /\ \A s \in Servers : WF_vars(WorkerStep(s))
  /\ \A c \in Clients : WF_vars(Start(c))
  /\ WF_vars(Show)

FairSpec == Spec /\ Fairness

-----------------------------------------------------------------------------
(***************************************************************************)
(* Properties.                                                             *)
(***************************************************************************)
TypeOK ==
  /\ current_state \in [Clients -> {"DOWN", "VERSION", "CONFIG", "PROCESS"}]
  /\ queue \in [Queues -> Seq(Events)]
  /\ exchange \in [Initiators -> {"idle", "connected", "sent"}]
  /\ answer \in [Initiators -> {"none", "result", "closed"}]
  /\ conns \in [Servers -> Seq(Connection)]
  /\ worker \in [Servers -> {"accept", "receive", "handle", "reply"}]
  /\ \A s \in Servers : worker[s] # "accept" => conns[s] # << >>
  /\ generated \in [Clients -> 0 .. MaxEvents]
  /\ shown \in Seq(Events)
  /\ accepted \in [Servers -> SUBSET Events]
  /\ acked \in [Initiators -> SUBSET Events]
  /\ failures \in 0 .. MaxFailures

\* Shown events were reported, none is shown twice, and those of one client are
\* shown in order, although exchanges fail after the server has taken the
\* message and processes die at any time.
Delivery == INSTANCE EventDelivery
              WITH shown <- [k \in DOMAIN shown |->
                               [client |-> shown[k].client, n |-> shown[k].n]]

ImplementsDelivery == Delivery!Spec

\* An initiator that got its answer, and so removed the event, has handed it
\* over: the server has put it into its queue (proxy_event.cpp, head_event.cpp:
\* add comes before send_message).
AckMeansAccepted ==
  \A i \in Initiators : acked[i] \subseteq accepted[ServerOf(i)]

\* An event that the server has taken and the initiator still has is the one it
\* is waiting to see answered: whatever is behind it was not sent yet.
OnlyTheOldestIsInDoubt ==
  \A i \in Initiators : \A k \in DOMAIN queue[i] :
     queue[i][k] \in accepted[ServerOf(i)] => k = 1 /\ exchange[i] = "sent"

\* The event e is still somewhere: in a queue, or on the screen.
Kept(e) ==
  \/ \E q \in Queues : \E k \in DOMAIN queue[q] : queue[q][k] = e
  \/ \E k \in DOMAIN shown : shown[k] = e

\* As long as nothing fails, no reported event is ever between two queues: the
\* server adds it before it answers, and the initiator removes the event that it
\* has sent, although its sensors have added others meanwhile
\* (client_process_event.cpp, proxy_main.cpp).
NothingIsLost ==
  failures = 0 => \A e \in Events : e.n <= generated[e.client] => Kept(e)

\* Nobody waits in vain: an initiator without an answer has a connection that its
\* server has not closed, with all that it has sent, and a worker that waits for
\* the rest of a request has an initiator that has yet to send it.  So the two
\* never wait for each other, whoever was restarted in between.
NobodyWaitsInVain ==
  /\ \A i \in Initiators :
       exchange[i] # "idle" /\ answer[i] = "none" =>
         \E k \in DOMAIN conns[ServerOf(i)] :
           LET cn == conns[ServerOf(i)][k] IN
           /\ cn.from = i /\ cn.open /\ cn.msg = Request(i)
           /\ cn.data = "whole" <=> exchange[i] = "sent"
  /\ \A s \in Servers :
       worker[s] = "receive" /\ Accepted(s).data # "whole" /\ Accepted(s).open =>
         exchange[Accepted(s).from] = "connected"

\* A server never puts an event into its queue that it has put there before,
\* although it keeps no record of them and an answer may be lost after it has
\* taken the event: an initiator whose exchange failed never sends it again.
TakenOnce ==
  [][ \A s \in Servers : Len(queue'[s]) > Len(queue[s]) =>
        queue'[s][Len(queue'[s])] \notin accepted[s] ]_vars

\* When failures stop, every client gets through VERSION and CONFIG and stays
\* in PROCESS.
ClientsRecover == <>[](\A c \in Clients : current_state[c] = "PROCESS")

\* An event that a client holds once failures have stopped, and that it is not
\* just sending, is shown in the end.
LateEventsAreShown ==
  \A e \in Events :
     /\ failures = MaxFailures
     /\ exchange[e.client] = "idle"
     /\ \E k \in DOMAIN queue[e.client] : queue[e.client][k] = e
    ~> \E k \in DOMAIN shown : shown[k] = e

\* Connections that were given up half-way may fill the backlog of a server
\* (socket.cpp:130) and make others wait in connect; with finitely many requests
\* before them these get a place in the end, or fail first: the worker comes back
\* from each connection to the next, whatever its initiator left undone.
EveryoneGetsConnected ==
  \A i \in Initiators :
    exchange[i] = "idle" /\ HasRequest(i)
      ~> exchange[i] = "connected" \/ ~ HasRequest(i)

\* Every event that is reported is shown, unless something fails: that the
\* proxy and the head serve one connection at a time blocks nobody for good.
EventsAreShown ==
  \A e \in Events :
    (generated[e.client] >= e.n)
      ~> (failures > 0 \/ \E k \in DOMAIN shown : shown[k] = e)
=============================================================================
