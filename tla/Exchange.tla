------------------------------ MODULE Exchange ------------------------------
(***************************************************************************)
(* One exchange: client_socket_class in an initiator, server_socket_class  *)
(* in the working thread of a server, and the loops of send_data and       *)
(* recv_data below them (socket_client.cpp, socket_server.cpp, socket.cpp).*)
(*                                                                         *)
(* A message is sent in two parts, its header and its payload if it has    *)
(* one; each part is one call of send_data and one of recv_data.  A call   *)
(* waits in select, which on Linux leaves in tv what is left of the        *)
(* timeout, and moves some bytes, until none is left to move.              *)
(*                                                                         *)
(* The socket of the initiator does not block.  The server makes its       *)
(* listening socket non-blocking, so the accepted one blocks: once a send  *)
(* has begun, it waits outside select.                                     *)
(***************************************************************************)
EXTENDS Message

CONSTANTS Ids,              \* field_id_t
          FieldSizes,       \* lengths of values
          MaxPayload,       \* bound on the payload of a request
          AnswerSizes,      \* payload sizes of answers
          HeaderSize,       \* sizeof (message_header_t)
          SocketBuffer,     \* what the kernel holds of one direction
          ReadTimeout, WriteTimeout,
          Attempts          \* try_count_max

ASSUME ExchangeAssumption ==
  /\ FieldSizes \subseteq Nat
  /\ MaxPayload \in Nat /\ MaxPayload < UintLimit
  /\ AnswerSizes \subseteq Nat
  /\ HeaderSize \in Nat \ {0}
  /\ SocketBuffer \in Nat \ {0}
  /\ ReadTimeout \in Nat /\ WriteTimeout \in Nat
  /\ Attempts \in Nat \ {0}

Initiator == "initiator"
Server == "server"
Sides == {Initiator, Server}
Other(side) == IF side = Initiator THEN Server ELSE Initiator

RequestParts == {"request header", "request payload"}
AnswerParts == {"answer header", "answer payload"}
Parts == RequestParts \cup AnswerParts

VARIABLES
  request,      \* the initiator's message
  received,     \* the server's p_message
  search,       \* get_field_from_message, called by the server's handler
  handled,      \* history: the server's handler has been called
  answer,       \* payload size of the server's answer, -1 before there is one
  p_answer,     \* payload size of the initiator's
  at,           \* at[side]: the part it sends or receives, or where else it is
  todo,         \* bytes that the current call has yet to move
  tv,           \* what is left of its timeout
  flight,       \* flight[side]: bytes sent by side that the other has not read
  open,         \* open[side]: its end of the connection exists
  stalled,      \* the initiator has stopped running and leaves its end open
  socket_fd,    \* of the initiator: "open", "none" (-1), or "junk"
  try_count,
  outcome,      \* of the initiator
  stray,        \* history: the initiator may have closed what is not its own
  waited        \* history: waited[side]: time the call spent in select

messages == <<request, received, search, handled, answer, p_answer>>
calls == <<at, todo, tv, waited>>
socket == <<socket_fd, try_count, stray, outcome>>
network == <<flight, open, stalled>>
vars == <<messages, calls, network, socket>>

NoSearch == [field_id |-> 0, p_message_pointer |-> 0, size_to_parse |-> 0,
             result |-> "none"]

Init ==
  /\ request = NewMessage /\ received = NewMessage /\ search = NoSearch
  /\ handled = FALSE /\ answer = -1 /\ p_answer = 0
  /\ at = [side \in Sides |-> IF side = Initiator THEN "prepare" ELSE "accept"]
  /\ todo = [side \in Sides |-> 0]
  /\ tv = [side \in Sides |-> 0]
  /\ flight = [side \in Sides |-> 0]
  /\ open = [side \in Sides |-> FALSE]
  /\ stalled = FALSE
  /\ socket_fd = "junk" /\ try_count = Attempts /\ outcome = "none" /\ stray = FALSE
  /\ waited = [side \in Sides |-> 0]

-----------------------------------------------------------------------------
(***************************************************************************)
(* The loops of send_data and recv_data.                                   *)
(***************************************************************************)
Sends(side) == at[side] \in IF side = Initiator THEN RequestParts ELSE AnswerParts

\* A call begins, for so many bytes of a part.
Call(side, part, size, timeout) ==
  /\ at' = [at EXCEPT ![side] = part]
  /\ todo' = [todo EXCEPT ![side] = size]
  /\ tv' = [tv EXCEPT ![side] = timeout]
  /\ waited' = [waited EXCEPT ![side] = 0]

Leave(side, place) == Call(side, place, 0, 0)

InCall(side) == /\ at[side] \in Parts /\ todo[side] > 0
                /\ side = Initiator => ~ stalled

\* A send that has begun on a blocking socket is not in select.
Blocked(side) ==
  /\ side = Server /\ Sends(side)
  /\ todo[side] < IF at[side] = "answer header" THEN HeaderSize ELSE answer

\* Something to read, room to write, or an end of the connection to notice.
Ready(side) ==
  \/ ~ open[Other(side)]
  \/ IF Sends(side) THEN flight[side] < SocketBuffer ELSE flight[Other(side)] > 0

\* The fields that lie in the first n bytes of message m.
FirstBytes(m, n) ==
  [p \in {q \in DOMAIN m.fields : q + FieldHeader + m.fields[q].size <= n} |->
     m.fields[p]]

SendSome(side, n) ==
  /\ InCall(side) /\ Sends(side)
  /\ n <= todo[side] /\ n <= SocketBuffer - flight[side]
  /\ todo' = [todo EXCEPT ![side] = @ - n]
  /\ flight' = [flight EXCEPT ![side] = @ + n]
  /\ UNCHANGED <<messages, at, tv, waited, open, stalled, socket>>

\* Fault: each select gets the whole timeout.
RecvSomeResetsTime(side, n) ==
  /\ InCall(side) /\ ~ Sends(side)
  /\ n <= todo[side] /\ n <= flight[Other(side)]
  /\ todo' = [todo EXCEPT ![side] = @ - n]
  /\ tv' = [tv EXCEPT ![side] = ReadTimeout]
  /\ flight' = [flight EXCEPT ![Other(side)] = @ - n]
  /\ received' = IF at[side] = "request payload"
                 THEN [received EXCEPT !.fields =
                         FirstBytes(request, received.payload_size - todo[side] + n)]
                 ELSE received
  /\ UNCHANGED <<request, search, handled, answer, p_answer, at, waited, open, stalled,
                 socket>>

RecvSome(side, n) ==
  /\ InCall(side) /\ ~ Sends(side)
  /\ n <= todo[side] /\ n <= flight[Other(side)]
  /\ todo' = [todo EXCEPT ![side] = @ - n]
  /\ flight' = [flight EXCEPT ![Other(side)] = @ - n]
  /\ received' = IF at[side] = "request payload"
                 THEN [received EXCEPT !.fields =
                         FirstBytes(request, received.payload_size - todo[side] + n)]
                 ELSE received
  /\ UNCHANGED <<request, search, handled, answer, p_answer, at, tv, waited, open, stalled,
                 socket>>

Waiting(side) == InCall(side) /\ ~ Blocked(side) /\ ~ Ready(side)

\* Time passes for everybody who waits in select.
Tick ==
  /\ \E side \in Sides : Waiting(side) /\ tv[side] > 0
  /\ \A side \in Sides : Waiting(side) => tv[side] > 0
  /\ tv' = [side \in Sides |-> IF Waiting(side) THEN tv[side] - 1 ELSE tv[side]]
  /\ waited' = [side \in Sides |-> IF Waiting(side) THEN waited[side] + 1
                                                    ELSE waited[side]]
  /\ UNCHANGED <<messages, at, todo, network, socket>>

\* The send of a blocking socket goes on waiting.
WaitInSend == InCall(Server) /\ Blocked(Server) /\ UNCHANGED vars

-----------------------------------------------------------------------------
(***************************************************************************)
(* The initiator: connect, send_and_receive, close and the destructor.     *)
(***************************************************************************)
AddRequestField(id, size) ==
  /\ at[Initiator] = "prepare"
  /\ request.payload_size + FieldHeader + size <= MaxPayload
  /\ request' = AddField(request, id, size)
  /\ UNCHANGED <<received, search, handled, answer, p_answer, calls, network, socket>>

\* Fault: the descriptor is closed and stays in the object.
CloseKeepsNumber ==
  /\ stray' \in {stray, stray \/ socket_fd = "junk"}
  /\ socket_fd' = IF socket_fd = "none" THEN "none" ELSE "junk"
  /\ open' = [open EXCEPT ![Initiator] = FALSE]

\* close_socket (socket_fd); socket_fd = -1;  What was never set, or has been
\* closed, can be the number of a descriptor of somebody else.
CloseSocket ==
  /\ stray' \in {stray, stray \/ socket_fd = "junk"}
  /\ socket_fd' = "none"
  /\ open' = [open EXCEPT ![Initiator] = FALSE]

\* process_event found nothing in the queue: the socket is not used.
NothingToSend ==
  /\ at[Initiator] = "prepare" /\ request = NewMessage
  /\ outcome' = "unused"
  /\ Leave(Initiator, "destroy")
  /\ UNCHANGED <<messages, network, socket_fd, try_count, stray>>

Create ==
  /\ at[Initiator] = "prepare"
  /\ socket_fd' = "open"
  /\ Leave(Initiator, "connect")
  /\ UNCHANGED <<messages, network, try_count, stray, outcome>>

\* socket () fails; the clean-up of connect closes socket_fd all the same.
CreateFails ==
  /\ at[Initiator] = "prepare"
  /\ CloseSocket
  /\ outcome' = "no socket"
  /\ Leave(Initiator, "close")
  /\ UNCHANGED <<messages, flight, stalled, try_count>>

Connect ==
  /\ at[Initiator] = "connect"
  /\ open' = [side \in Sides |-> TRUE]
  /\ Call(Initiator, "request header", HeaderSize, WriteTimeout)
  /\ UNCHANGED <<messages, flight, stalled, socket>>

\* Fault: the loop does not look at what is left of the attempts.
ConnectRetryUnbounded ==
  /\ at[Initiator] = "connect"
  /\ try_count' = try_count - 1
  /\ UNCHANGED <<messages, calls, network, socket_fd, stray, outcome>>

ConnectRetry ==
  /\ at[Initiator] = "connect" /\ try_count > 1
  /\ try_count' = try_count - 1
  /\ UNCHANGED <<messages, calls, network, socket_fd, stray, outcome>>

ConnectFails ==
  /\ at[Initiator] = "connect" /\ try_count = 1
  /\ try_count' = 0
  /\ CloseSocket
  /\ outcome' = "failed"
  /\ Leave(Initiator, "close")
  /\ UNCHANGED <<messages, flight, stalled>>

RequestHeaderSent ==
  /\ at[Initiator] = "request header" /\ todo[Initiator] = 0 /\ ~ stalled
  /\ IF request.payload_size > 0
     THEN Call(Initiator, "request payload", request.payload_size, WriteTimeout)
     ELSE Call(Initiator, "answer header", HeaderSize, ReadTimeout)
  /\ UNCHANGED <<messages, network, socket>>

RequestSent ==
  /\ at[Initiator] = "request payload" /\ todo[Initiator] = 0 /\ ~ stalled
  /\ Call(Initiator, "answer header", HeaderSize, ReadTimeout)
  /\ UNCHANGED <<messages, network, socket>>

Succeed ==
  /\ outcome' = "ok"
  /\ Leave(Initiator, "close")

\* *p_answer = new message_class (header)
AnswerHeaderCame ==
  /\ at[Initiator] = "answer header" /\ todo[Initiator] = 0 /\ ~ stalled
  /\ p_answer' = answer
  /\ IF answer > 0
     THEN Call(Initiator, "answer payload", answer, ReadTimeout) /\ UNCHANGED outcome
     ELSE Succeed
  /\ UNCHANGED <<request, received, search, handled, answer, network, socket_fd,
                 try_count, stray>>

AnswerCame ==
  /\ at[Initiator] = "answer payload" /\ todo[Initiator] = 0 /\ ~ stalled
  /\ Succeed
  /\ UNCHANGED <<messages, network, socket_fd, try_count, stray>>

Close ==
  /\ at[Initiator] = "close"
  /\ CloseSocket
  /\ Leave(Initiator, "destroy")
  /\ UNCHANGED <<messages, flight, stalled, try_count, outcome>>

Destroy ==
  /\ at[Initiator] = "destroy"
  /\ CloseSocket
  /\ Leave(Initiator, "gone")
  /\ UNCHANGED <<messages, flight, stalled, try_count, outcome>>

Stall ==
  /\ open[Initiator] /\ ~ stalled
  /\ at[Initiator] \in Parts
  /\ stalled' = TRUE
  /\ UNCHANGED <<messages, calls, flight, open, socket>>

-----------------------------------------------------------------------------
(***************************************************************************)
(* The server: accept_client, recv_message, a handler, send_message and    *)
(* close_client.                                                           *)
(***************************************************************************)
Accept ==
  /\ at[Server] = "accept" /\ open[Server]
  /\ Call(Server, "request header", HeaderSize, ReadTimeout)
  /\ UNCHANGED <<messages, network, socket>>

\* *p_message = new message_class (header)
HeaderCame ==
  /\ at[Server] = "request header" /\ todo[Server] = 0
  /\ received' = FromHeader(request.payload_size)
  /\ IF request.payload_size > 0
     THEN Call(Server, "request payload", request.payload_size, ReadTimeout)
     ELSE Leave(Server, "handle")
  /\ handled' = (request.payload_size = 0)
  /\ UNCHANGED <<request, search, answer, p_answer, network, socket>>

\* Fault: the handler runs after whatever the first recv brought.
RequestCameInPart ==
  /\ at[Server] = "request payload" /\ todo[Server] < received.payload_size
  /\ Leave(Server, "handle")
  /\ handled' = TRUE
  /\ UNCHANGED <<request, received, search, answer, p_answer, network, socket>>

RequestCame ==
  /\ at[Server] = "request payload" /\ todo[Server] = 0
  /\ Leave(Server, "handle")
  /\ handled' = TRUE
  /\ UNCHANGED <<request, received, search, answer, p_answer, network, socket>>

\* Each look-up begins anew, so one stands for all of a handler.
GetField(id) ==
  /\ at[Server] = "handle" /\ search = NoSearch
  /\ search' = StartSearch(received, id)
  /\ UNCHANGED <<request, received, handled, answer, p_answer, calls, network, socket>>

GetFieldGoesOn ==
  /\ at[Server] = "handle" /\ search.result = "searching"
  /\ search' = SearchStep(received, search)
  /\ UNCHANGED <<request, received, handled, answer, p_answer, calls, network, socket>>

Reply(size) ==
  /\ at[Server] = "handle" /\ search.result # "searching"
  /\ answer' = size
  /\ Call(Server, "answer header", HeaderSize, WriteTimeout)
  /\ UNCHANGED <<request, received, search, handled, p_answer, network, socket>>

CloseClient ==
  /\ open' = [open EXCEPT ![Server] = FALSE]
  /\ Leave(Server, "free")
  /\ UNCHANGED <<messages, flight, stalled, socket>>

AnswerHeaderSent ==
  /\ at[Server] = "answer header" /\ todo[Server] = 0
  /\ IF answer > 0
     THEN /\ Call(Server, "answer payload", answer, WriteTimeout)
          /\ UNCHANGED <<messages, network, socket>>
     ELSE CloseClient

AnswerSent ==
  /\ at[Server] = "answer payload" /\ todo[Server] = 0
  /\ CloseClient

-----------------------------------------------------------------------------
(***************************************************************************)
(* Failing calls.                                                          *)
(***************************************************************************)
Fail(side) ==
  IF side = Server THEN CloseClient
  ELSE /\ outcome' = "failed"
       /\ Leave(Initiator, "close")
       /\ UNCHANGED <<messages, network, socket_fd, try_count, stray>>

\* Fault: the worker of the server waits once more.
TimeOutWaitsAgain(side) ==
  /\ Waiting(side) /\ tv[side] = 0
  /\ IF side = Server
     THEN Call(Server, at[side], todo[side], ReadTimeout)
          /\ UNCHANGED <<messages, network, socket>>
     ELSE Fail(side)

\* select returns 0.
TimeOut(side) == Waiting(side) /\ tv[side] = 0 /\ Fail(side)

\* recv returns 0 or fails, send fails: the other end is closed.
PeerGone(side) ==
  /\ InCall(side) /\ ~ open[Other(side)]
  /\ Sends(side) \/ flight[Other(side)] = 0
  /\ Fail(side)

\* Both ends have done what they will do.
Over ==
  /\ at[Initiator] = "gone" \/ stalled
  /\ at[Server] = "free" \/ ~ open[Server]
  /\ UNCHANGED vars

-----------------------------------------------------------------------------
Sizes == 1 .. SocketBuffer

SideStep(side) == \/ \E n \in Sizes : SendSome(side, n) \/ RecvSome(side, n)
                  \/ TimeOut(side) \/ PeerGone(side)

InitiatorStep ==
  \/ SideStep(Initiator)
  \/ NothingToSend \/ Create \/ CreateFails \/ Connect \/ ConnectRetry \/ ConnectFails
  \/ RequestHeaderSent \/ RequestSent \/ AnswerHeaderCame \/ AnswerCame
  \/ Close \/ Destroy

ServerStep ==
  \/ SideStep(Server)
  \/ Accept \/ HeaderCame \/ RequestCame \/ GetFieldGoesOn
  \/ \E size \in AnswerSizes : Reply(size)
  \/ AnswerHeaderSent \/ AnswerSent

Next ==
  \/ \E id \in Ids, size \in FieldSizes : AddRequestField(id, size)
  \/ InitiatorStep \/ Stall
  \/ \E id \in Ids : GetField(id)
  \/ ServerStep \/ WaitInSend
  \/ Tick \/ Over

Spec == Init /\ [][Next]_vars

\* Time passes, and both processes go on with what they have to do.
Fairness == WF_vars(InitiatorStep) /\ WF_vars(ServerStep) /\ WF_vars(Tick)

FairSpec == Spec /\ Fairness

-----------------------------------------------------------------------------
(***************************************************************************)
(* Properties.                                                             *)
(***************************************************************************)
Field == [id : Ids, size : FieldSizes]

Fields == UNION {[places -> Field] : places \in SUBSET (0 .. MaxPayload)}

AMessage == [payload_size : 0 .. MaxPayload, message_alloc_size : 0 .. UintLimit - 1,
             fields : Fields]

ASearch == [field_id : Ids \cup {0}, p_message_pointer : 0 .. MaxPayload,
            size_to_parse : 0 .. MaxPayload,
            result : {"none", "searching", "RESULT_OK", "RESULT_INVALID_PARAM"}]

Places(side) ==
  Parts \cup IF side = Initiator THEN {"prepare", "connect", "close", "destroy", "gone"}
                                 ELSE {"accept", "handle", "free"}

TypeOK ==
  /\ request \in AMessage /\ received \in AMessage /\ search \in ASearch
  /\ handled \in BOOLEAN
  /\ answer \in AnswerSizes \cup {-1} /\ p_answer \in AnswerSizes \cup {0}
  /\ at \in [Sides -> Places(Initiator) \cup Places(Server)]
  /\ \A side \in Sides : at[side] \in Places(side)
  /\ todo \in [Sides -> Nat] /\ tv \in [Sides -> Nat] /\ waited \in [Sides -> Nat]
  /\ flight \in [Sides -> 0 .. SocketBuffer]
  /\ open \in [Sides -> BOOLEAN] /\ stalled \in BOOLEAN
  /\ socket_fd \in {"open", "none", "junk"}
  /\ try_count \in 0 .. Attempts
  /\ outcome \in {"none", "ok", "failed", "unused", "no socket"}
  /\ stray \in BOOLEAN

\* Every field is written and read inside the buffer of its message: at both
\* ends the buffer holds the payload, and what get_field_from_message looks at
\* is the beginning of a field that ends in the payload (message.cpp).
InsideTheBuffer ==
  /\ request.payload_size <= request.message_alloc_size
  /\ received.payload_size <= received.message_alloc_size
  /\ search.result = "searching" =>
       LET here == search.p_message_pointer IN
       /\ here + search.size_to_parse = received.payload_size
       /\ search.size_to_parse > 0 =>
            /\ here \in DOMAIN received.fields
            /\ here + FieldHeader + received.fields[here].size <= received.payload_size

\* get_field_from_message finds the first field with the id that the initiator
\* put into its message, and fails only if there is none.
SearchFindsFirst ==
  LET asked == {p \in DOMAIN request.fields : request.fields[p].id = search.field_id} IN
  /\ search.result = "RESULT_OK" =>
       /\ search.p_message_pointer \in asked
       /\ \A p \in asked : p >= search.p_message_pointer
  /\ search.result = "RESULT_INVALID_PARAM" => asked = {}

\* However slowly the bytes come or go, no call waits in select for longer than
\* its timeout: the loops do not start it again with each piece (socket.cpp).
WaitsAreBounded ==
  \A side \in Sides :
    waited[side] <= IF Sends(side) THEN WriteTimeout ELSE ReadTimeout

\* Whatever fails after socket () was called with success, a descriptor is
\* closed once and by its owner; an object that never got one closes whatever
\* number it happens to hold (socket_client.cpp:9, 66, 139).
OnlyUnusedStray == stray => outcome \in {"unused", "no socket"}

\* What the two ends have got out of the bytes.
Sent == IF at[Initiator] = "prepare" \/ outcome \in {"unused", "no socket"}
        THEN {} ELSE {request.fields}
Handled == IF handled THEN {received.fields} ELSE {}
Replied == IF answer >= 0 THEN {answer} ELSE {}
Got == IF outcome = "ok" THEN {p_answer} ELSE {}
Result == IF outcome = "no socket" THEN "failed"
          ELSE IF outcome \in {"ok", "failed"} THEN outcome ELSE "pending"

Outcome ==
  INSTANCE ExchangeOutcome
    WITH sent <- Sent, handled <- Handled, reply <- Replied, got <- Got,
         outcome <- Result

\* It is what an exchange promises, whether the bytes come in one piece or in
\* many, and whoever gives up when (socket.cpp:281, socket_server.cpp:79).
ImplementsOutcome == Outcome!Spec

\* The places of both ends, in the order in which they come to them.
Turns(place) ==
  CASE place = "prepare" -> 9
    [] place \in {"connect", "accept"} -> 8
    [] place = "request header" -> 7
    [] place = "request payload" -> 6
    [] place = "handle" -> 5
    [] place = "answer header" -> 4
    [] place = "answer payload" -> 3
    [] place = "close" -> 2
    [] place = "destroy" -> 1
    [] OTHER -> 0

TurnsLeft == Turns(at[Initiator]) + Turns(at[Server])

\* What can still be done where they are: fields to add, attempts to connect,
\* bytes to move, time to wait, fields to look at, and to stop running.
LookUpsLeft == CASE search.result = "none" -> MaxPayload + 2
                 [] search.result = "searching" -> search.size_to_parse + 1
                 [] OTHER -> 0

WorkLeft ==
  MaxPayload - request.payload_size + try_count + LookUpsLeft
    + todo[Initiator] + todo[Server] + tv[Initiator] + tv[Server]
    + IF stalled THEN 0 ELSE 1

\* No exchange goes on for ever, in whatever pieces its bytes come: each step of
\* either end brings one of them to its next turn, or leaves less to do for this
\* one.  No loop of socket.cpp, socket_client.cpp or message.cpp starts again what
\* another has counted down.
EveryStepIsProgress ==
  [][ TurnsLeft' < TurnsLeft \/ (TurnsLeft' = TurnsLeft /\ WorkLeft' < WorkLeft) ]_vars

\* A send on the blocking socket of the server waits outside select only when
\* its answer is larger than what the kernel takes (socket_server.cpp:69).
OnlyLargeAnswersBlock ==
  InCall(Server) /\ Blocked(Server) /\ ~ Ready(Server) => HeaderSize + answer > SocketBuffer

\* When an exchange has succeeded, both ends have read every byte that the other
\* has sent: no rest of a message is on its connection.
NothingIsLeftOver == outcome = "ok" => \A side \in Sides : flight[side] = 0

\* A server that has accepted a connection comes back for the next one, whatever
\* its initiator does, unless that has stalled before an answer that is larger
\* than what the kernel takes.
ServerIsFreed ==
  at[Server] \notin {"accept", "free"}
    ~> at[Server] = "free" \/ (stalled /\ HeaderSize + answer > SocketBuffer)

\* "time out" in send_data and "set non-blocking mode" in accept_client say that
\* it always does (socket.cpp:265, socket_server.cpp:69).
CallsTimeOut == at[Server] \notin {"accept", "free"} ~> at[Server] = "free"
=============================================================================
