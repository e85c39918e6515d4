--------------------------- MODULE ExchangeProofs ---------------------------
(***************************************************************************)
(* Proofs about Exchange, for any sizes of fields, messages and buffers,   *)
(* any timeouts and any number of attempts.                                *)
(*                                                                         *)
(* The inductive invariant has five parts: fields tile the payload of the  *)
(* request; what the server has is the beginning of it, and all of it once *)
(* the handler runs; a look-up stands at the beginning of a field and has  *)
(* passed none that it is for; nothing is answered, sent or received       *)
(* before the server has handled the request; a call has waited for what   *)
(* it no longer may wait.                                                  *)
(***************************************************************************)
EXTENDS Exchange, TLAPS

End(m, p) == p + FieldHeader + m.fields[p].size

Layout(m) ==
  /\ \A p \in DOMAIN m.fields :
       /\ End(m, p) <= m.payload_size
       /\ End(m, p) = m.payload_size \/ End(m, p) \in DOMAIN m.fields
  /\ \A p, q \in DOMAIN m.fields : p < q => End(m, p) <= q
  /\ m.payload_size > 0 => 0 \in DOMAIN m.fields

RequestInv == Layout(request) /\ request.payload_size <= request.message_alloc_size

ReceivedInv ==
  /\ received.payload_size <= received.message_alloc_size
  /\ ~ handled => search = NoSearch /\ answer = -1
  /\ at[Server] \in {"accept", "request header"} => ~ handled
  /\ at[Server] = "request payload" =>
       /\ ~ handled
       /\ todo[Server] <= received.payload_size
       /\ received.payload_size = request.payload_size
       /\ received.fields = FirstBytes(request, received.payload_size - todo[Server])
  /\ at[Server] = "handle" => handled /\ answer = -1
  /\ at[Server] \in AnswerParts => answer \in AnswerSizes
  /\ handled => /\ received.fields = request.fields
                /\ received.payload_size = request.payload_size

AskedFor(id) == {p \in DOMAIN request.fields : request.fields[p].id = id}

SearchInv ==
  LET here == search.p_message_pointer
      asked == AskedFor(search.field_id)
  IN  /\ search.result = "searching" =>
           /\ here + search.size_to_parse = request.payload_size
           /\ search.size_to_parse > 0 => here \in DOMAIN request.fields
           /\ \A p \in asked : p >= here
      /\ search.result = "RESULT_OK" => here \in asked /\ \A p \in asked : p >= here
      /\ search.result = "RESULT_INVALID_PARAM" => asked = {}

Done == {"close", "destroy", "gone"}

InitiatorInv ==
  /\ at[Initiator] = "prepare" \/ outcome \in {"unused", "no socket"} =>
       ~ open[Server] /\ at[Server] = "accept"
  /\ at[Initiator] \in Done <=> outcome # "none"
  /\ at[Initiator] \notin Done \cup {"prepare"} => socket_fd = "open"
  /\ socket_fd = "junk" => outcome \in {"none", "unused"}
  /\ stray => outcome \in {"unused", "no socket"}

AnswerInv ==
  /\ answer = -1 => /\ flight[Server] = 0
                    /\ outcome # "ok"
                    /\ at[Initiator] # "answer payload"
                    /\ at[Initiator] = "answer header" => todo[Initiator] = HeaderSize
  /\ at[Initiator] = "answer payload" \/ outcome = "ok" => p_answer = answer

Limit(side, place) ==
  IF place \in IF side = Initiator THEN RequestParts ELSE AnswerParts
  THEN WriteTimeout ELSE ReadTimeout

TimeInv == \A side \in Sides : waited[side] + tv[side] <= Limit(side, at[side])

IInv == TypeOK /\ RequestInv /\ ReceivedInv /\ SearchInv /\ InitiatorInv /\ AnswerInv
               /\ TimeInv

-----------------------------------------------------------------------------
(***************************************************************************)
(* Messages.                                                               *)
(***************************************************************************)
LEMMA UintRange == ASSUME NEW n \in Nat PROVE Uint(n) \in 0 .. UintLimit - 1
BY MessageAssumption DEF Uint

\* Below the limit nothing wraps.
LEMMA UintSmall == ASSUME NEW n \in 0 .. UintLimit - 1 PROVE Uint(n) = n
BY MessageAssumption DEF Uint

LEMMA FieldsType ==
  /\ \A f \in Fields : /\ DOMAIN f \subseteq 0 .. MaxPayload
                       /\ \A p \in DOMAIN f : f[p] \in Field
                       /\ f = [p \in DOMAIN f |-> f[p]]
  /\ \A places \in SUBSET (0 .. MaxPayload) : \A f \in [places -> Field] : f \in Fields
BY DEF Fields

\* The buffer holds what has been written and the field that comes.
LEMMA AllocHolds ==
  ASSUME NEW m \in AMessage, NEW size \in FieldSizes,
         m.payload_size + FieldHeader + size <= MaxPayload
  PROVE  /\ Uint(m.payload_size + FullSize(size)) = m.payload_size + FieldHeader + size
         /\ Alloc(m, size) \in 0 .. UintLimit - 1
         /\ m.payload_size + FieldHeader + size <= Alloc(m, size)
<1> DEFINE new == m.payload_size + FieldHeader + size
<1>1. /\ m.payload_size \in Nat /\ m.message_alloc_size \in 0 .. UintLimit - 1
      /\ size \in Nat /\ FieldHeader \in Nat /\ UintLimit \in Nat
      /\ MaxPayload \in Nat /\ MaxPayload < UintLimit
  BY MessageAssumption, ExchangeAssumption DEF AMessage
<1>2. /\ new \in 0 .. UintLimit - 1
      /\ FieldHeader + size \in 0 .. UintLimit - 1
  BY <1>1
<1>3. FullSize(size) = FieldHeader + size
  BY <1>2, UintSmall DEF FullSize
<1>4. m.payload_size + FullSize(size) = new
  BY <1>1, <1>3
<1>5. Uint(m.payload_size + FullSize(size)) = new
  BY <1>2, <1>4, UintSmall
<1>6. Uint(m.message_alloc_size * 4) \in 0 .. UintLimit - 1
  <2>1. m.message_alloc_size * 4 \in Nat
    BY <1>1
  <2> QED
    BY <2>1, UintRange
<1> HIDE DEF new
<1>7. /\ Larger(Uint(m.message_alloc_size * 4), new) \in 0 .. UintLimit - 1
      /\ Larger(Uint(m.message_alloc_size * 4), new) >= new
  BY <1>1, <1>2, <1>6 DEF Larger
<1>8. Alloc(m, size) = IF new > m.message_alloc_size
                       THEN Larger(Uint(m.message_alloc_size * 4), new)
                       ELSE m.message_alloc_size
  BY <1>5 DEF Alloc
<1> QED
  BY <1>1, <1>2, <1>5, <1>7, <1>8 DEF new

LEMMA FieldFacts ==
  ASSUME NEW m \in AMessage, Layout(m), NEW p \in DOMAIN m.fields
  PROVE  /\ p \in Nat /\ m.fields[p] \in Field /\ m.fields[p].size \in Nat
         /\ End(m, p) \in Nat /\ p < End(m, p) /\ End(m, p) <= m.payload_size
<1>1. m.fields \in Fields /\ m.payload_size \in Nat
  BY ExchangeAssumption DEF AMessage
<1>2. p \in 0 .. MaxPayload /\ m.fields[p] \in Field
  BY <1>1, FieldsType
<1>3. p \in Nat
  BY <1>2, ExchangeAssumption
<1>4. m.fields[p].size \in Nat
  BY <1>2, ExchangeAssumption DEF Field
<1>5. End(m, p) <= m.payload_size
  BY DEF Layout
<1> QED
  BY <1>1, <1>2, <1>3, <1>4, <1>5, MessageAssumption DEF End

\* A field is added behind the others and inside the buffer.
LEMMA FieldAdded ==
  ASSUME NEW m \in AMessage, NEW id \in Ids, NEW size \in FieldSizes,
         m.payload_size + FieldHeader + size <= MaxPayload,
         Layout(m)
  PROVE  /\ AddField(m, id, size) \in AMessage
         /\ Layout(AddField(m, id, size))
         /\ AddField(m, id, size).payload_size <= AddField(m, id, size).message_alloc_size
<1> DEFINE new == AddField(m, id, size)
           last == m.payload_size
<1>1. /\ last \in Nat /\ size \in Nat /\ FieldHeader \in Nat \ {0} /\ MaxPayload \in Nat
      /\ last \in 0 .. MaxPayload
      /\ m.fields \in Fields
  BY MessageAssumption, ExchangeAssumption DEF AMessage
<1>2. /\ new.payload_size = last + FieldHeader + size
      /\ new.message_alloc_size = Alloc(m, size)
      /\ DOMAIN new.fields = DOMAIN m.fields \cup {last}
      /\ \A p \in DOMAIN m.fields \cup {last} :
           new.fields[p] = IF p = last THEN [id |-> id, size |-> size] ELSE m.fields[p]
  BY AllocHolds DEF AddField
<1>3. /\ DOMAIN m.fields \subseteq 0 .. MaxPayload
      /\ \A p \in DOMAIN m.fields : m.fields[p] \in Field
  BY <1>1, FieldsType
<1>4. new.fields \in Fields
  <2>1. \A p \in DOMAIN new.fields : new.fields[p] \in Field
    BY <1>2, <1>3 DEF Field
  <2>2. DOMAIN new.fields \in SUBSET (0 .. MaxPayload)
    BY <1>1, <1>2, <1>3
  <2>3. new.fields \in [DOMAIN new.fields -> Field]
    BY <1>2, <2>1 DEF AddField
  <2> QED
    BY <2>2, <2>3, FieldsType
<1>5. new \in AMessage
  BY <1>1, <1>2, <1>4, AllocHolds DEF AddField, AMessage
<1>6. \A p \in DOMAIN m.fields :
        /\ p \in Nat /\ m.fields[p].size \in Nat
        /\ End(m, p) \in Nat /\ End(m, p) <= last /\ p < last
        /\ End(new, p) = End(m, p)
  <2> TAKE p \in DOMAIN m.fields
  <2>1. /\ p \in Nat /\ m.fields[p].size \in Nat
        /\ End(m, p) \in Nat /\ End(m, p) <= last /\ p < last
    BY <1>1, FieldFacts
  <2> HIDE DEF new, last
  <2>2. End(new, p) = End(m, p)
    <3>1. p # last /\ p \in DOMAIN m.fields \cup {last}
      BY <1>1, <2>1
    <3>2. new.fields[p] = m.fields[p]
      BY <1>2, <3>1
    <3> QED
      BY <3>2 DEF End
  <2> QED
    BY <2>1, <2>2
<1>7. End(new, last) = new.payload_size
  BY <1>2 DEF End
<1> HIDE DEF new
<1>8. \A p \in DOMAIN new.fields :
        /\ End(new, p) <= new.payload_size
        /\ End(new, p) = new.payload_size \/ End(new, p) \in DOMAIN new.fields
  BY <1>1, <1>2, <1>6, <1>7 DEF Layout
<1>9. \A p, q \in DOMAIN new.fields : p < q => End(new, p) <= q
  BY <1>1, <1>2, <1>6, <1>7 DEF Layout
<1>10. 0 \in DOMAIN new.fields
  BY <1>1, <1>2 DEF Layout
<1> QED
  BY <1>1, <1>2, <1>5, <1>8, <1>9, <1>10, AllocHolds DEF Layout, new

LEMMA FirstBytesType ==
  ASSUME NEW m \in AMessage, NEW n \in Int PROVE FirstBytes(m, n) \in Fields
<1> DEFINE places == {q \in DOMAIN m.fields : q + FieldHeader + m.fields[q].size <= n}
<1>1. m.fields \in Fields
  BY DEF AMessage
<1>2. places \in SUBSET (0 .. MaxPayload) /\ \A p \in places : m.fields[p] \in Field
  BY <1>1, FieldsType
<1>3. FirstBytes(m, n) \in [places -> Field]
  BY <1>2 DEF FirstBytes
<1> QED
  BY <1>2, <1>3, FieldsType

\* When all bytes of the payload have come, all fields have.
LEMMA AllBytes ==
  ASSUME NEW m \in AMessage, Layout(m) PROVE FirstBytes(m, m.payload_size) = m.fields
<1>1. \A q \in DOMAIN m.fields : q + FieldHeader + m.fields[q].size <= m.payload_size
  BY DEF Layout, End
<1>2. m.fields = [q \in DOMAIN m.fields |-> m.fields[q]]
  BY FieldsType DEF AMessage
<1> QED
  BY <1>1, <1>2 DEF FirstBytes

LEMMA NoBytes ==
  ASSUME NEW m \in AMessage, Layout(m) PROVE FirstBytes(m, 0) = NoFields
<1>1. \A q \in DOMAIN m.fields : ~ (q + FieldHeader + m.fields[q].size <= 0)
  BY FieldFacts DEF End
<1>2. {q \in DOMAIN m.fields : q + FieldHeader + m.fields[q].size <= 0} = {}
  BY <1>1
<1> QED
  BY <1>2 DEF FirstBytes, NoFields

\* One turn of the loop in get_field_from_message.
LEMMA SearchStepKeeps ==
  ASSUME request \in AMessage, Layout(request), search \in ASearch, SearchInv,
         received.fields = request.fields,
         search.result = "searching",
         search' = SearchStep(received, search), request' = request
  PROVE  search' \in ASearch /\ SearchInv'
<1> DEFINE here == search.p_message_pointer
           left == search.size_to_parse
           size == request.payload_size
           asked == AskedFor(search.field_id)
<1>1. /\ here \in Nat /\ left \in Nat /\ size \in Nat /\ size <= MaxPayload
      /\ MaxPayload \in Nat /\ MaxPayload < UintLimit /\ UintLimit \in Nat
      /\ FieldHeader \in Nat
      /\ search.field_id \in Ids \cup {0}
  BY ExchangeAssumption, MessageAssumption DEF ASearch, AMessage
<1>2. /\ here + left = size
      /\ left > 0 => here \in DOMAIN request.fields
      /\ \A p \in asked : p >= here
  BY DEF SearchInv
<1>3. \A p \in asked : /\ p \in DOMAIN request.fields /\ p \in Nat
                       /\ request.fields[p].id = search.field_id
                       /\ p < size
  BY <1>1, FieldFacts DEF AskedFor
<1>4. CASE left = 0
  <2>1. search' = [search EXCEPT !.result = "RESULT_INVALID_PARAM"]
    BY <1>4 DEF SearchStep
  <2>2. asked = {}
    BY <1>1, <1>2, <1>3, <1>4
  <2> QED
    BY <2>1, <2>2 DEF ASearch, SearchInv, AskedFor
<1>5. CASE left > 0 /\ request.fields[here].id = search.field_id
  <2>1. search' = [search EXCEPT !.result = "RESULT_OK"]
    BY <1>1, <1>5 DEF SearchStep
  <2>2. here \in asked
    BY <1>2, <1>5 DEF AskedFor
  <2> QED
    BY <1>2, <2>1, <2>2 DEF ASearch, SearchInv, AskedFor
<1>6. CASE left > 0 /\ request.fields[here].id # search.field_id
  <2> DEFINE next == End(request, here)
             rest == left - (FieldHeader + request.fields[here].size)
  <2>1. /\ here \in DOMAIN request.fields
        /\ request.fields[here].size \in Nat
        /\ next \in Nat /\ next <= size
    BY <1>2, <1>6, FieldFacts
  <2>2. rest \in 0 .. UintLimit - 1 /\ next + rest = size /\ rest <= MaxPayload
    BY <1>1, <1>2, <2>1 DEF End
  <2>3. next = here + FieldHeader + request.fields[here].size
    BY DEF End
  <2>4. Uint(rest) = rest
    BY <2>2, UintSmall
  <2>5. search' = [search EXCEPT !.size_to_parse = rest, !.p_message_pointer = next]
    <3> DEFINE jump == FieldHeader + request.fields[here].size
    <3>1. search' = [search EXCEPT !.size_to_parse = Uint(left - jump),
                                   !.p_message_pointer = here + FieldHeader
                                                              + request.fields[here].size]
      BY <1>1, <1>6 DEF SearchStep
    <3> QED
      BY <2>3, <2>4, <3>1
  <2>6. rest > 0 => next \in DOMAIN request.fields
    BY <1>1, <2>1, <2>2 DEF Layout
  <2>7. \A p \in asked : p >= next
    BY <1>1, <1>2, <1>3, <1>6, <2>1 DEF Layout
  <2> HIDE DEF next, rest
  <2>8. /\ search'.p_message_pointer = next /\ search'.size_to_parse = rest
        /\ search'.result = "searching" /\ search'.field_id = search.field_id
    BY <2>5 DEF ASearch
  <2>9. search' \in ASearch
    <3>1. next \in 0 .. MaxPayload /\ rest \in 0 .. MaxPayload
      BY <1>1, <2>1, <2>2
    <3> QED
      BY <2>5, <3>1 DEF ASearch
  <2> QED
    BY <2>2, <2>6, <2>7, <2>8, <2>9 DEF SearchInv, AskedFor
<1> QED
  BY <1>1, <1>4, <1>5, <1>6

-----------------------------------------------------------------------------
(***************************************************************************)
(* Types.                                                                  *)
(***************************************************************************)
MessagesOK ==
  /\ request \in AMessage /\ received \in AMessage /\ search \in ASearch
  /\ handled \in BOOLEAN
  /\ answer \in AnswerSizes \cup {-1} /\ p_answer \in AnswerSizes \cup {0}

CallsOK ==
  /\ at \in [Sides -> Places(Initiator) \cup Places(Server)]
  /\ \A side \in Sides : at[side] \in Places(side)
  /\ todo \in [Sides -> Nat] /\ tv \in [Sides -> Nat] /\ waited \in [Sides -> Nat]

NetworkOK ==
  /\ flight \in [Sides -> 0 .. SocketBuffer]
  /\ open \in [Sides -> BOOLEAN] /\ stalled \in BOOLEAN

SocketOK ==
  /\ socket_fd \in {"open", "none", "junk"}
  /\ try_count \in 0 .. Attempts
  /\ outcome \in {"none", "ok", "failed", "unused", "no socket"}
  /\ stray \in BOOLEAN

LEMMA TypeParts ==
  /\ TypeOK <=> MessagesOK /\ CallsOK /\ NetworkOK /\ SocketOK
  /\ TypeOK' <=> MessagesOK' /\ CallsOK' /\ NetworkOK' /\ SocketOK'
BY DEF TypeOK, MessagesOK, CallsOK, NetworkOK, SocketOK

LEMMA Unchanged ==
  /\ MessagesOK /\ UNCHANGED messages => MessagesOK'
  /\ CallsOK /\ UNCHANGED calls => CallsOK'
  /\ NetworkOK /\ UNCHANGED network => NetworkOK'
  /\ SocketOK /\ UNCHANGED socket => SocketOK'
BY DEF messages, calls, network, socket, MessagesOK, CallsOK, NetworkOK, SocketOK

LEMMA CallType ==
  ASSUME CallsOK, NEW side \in Sides, NEW part \in Places(side), NEW size \in Nat,
         NEW timeout \in Nat, Call(side, part, size, timeout)
  PROVE  CallsOK'
BY DEF CallsOK, Call, Sides

LEMMA LeaveType ==
  ASSUME CallsOK, NEW side \in Sides, NEW place \in Places(side), Leave(side, place)
  PROVE  CallsOK'
BY CallType DEF Leave

LEMMA CloseSocketType ==
  ASSUME NetworkOK, SocketOK, CloseSocket, UNCHANGED <<flight, stalled>>
  PROVE  NetworkOK' /\ socket_fd' \in {"open", "none", "junk"} /\ stray' \in BOOLEAN
BY DEF NetworkOK, SocketOK, CloseSocket, Sides

LEMMA Numbers ==
  /\ HeaderSize \in Nat \ {0} /\ ReadTimeout \in Nat /\ WriteTimeout \in Nat
  /\ SocketBuffer \in Nat /\ Attempts \in Nat /\ MaxPayload \in Nat
  /\ \A size \in AnswerSizes : size \in Nat
BY ExchangeAssumption

LEMMA TheSides ==
  /\ Initiator \in Sides /\ Server \in Sides /\ Initiator # Server
  /\ \A side \in Sides : Other(side) \in Sides
BY DEF Sides, Initiator, Server, Other

LEMMA ThePlaces ==
  /\ \A side \in Sides : /\ "request header" \in Places(side)
                         /\ "request payload" \in Places(side)
                         /\ "answer header" \in Places(side)
                         /\ "answer payload" \in Places(side)
  /\ {"prepare", "connect", "close", "destroy", "gone"} \subseteq Places(Initiator)
  /\ {"accept", "handle", "free"} \subseteq Places(Server)
BY DEF Places, Parts, RequestParts, AnswerParts, Initiator, Server

LEMMA NewMessageType == NewMessage \in AMessage
<1>1. NoFields \in [{} -> Field]
  BY DEF NoFields
<1>2. NoFields \in Fields
  BY <1>1, FieldsType
<1> QED
  BY <1>2, ExchangeAssumption, MessageAssumption DEF NewMessage, AMessage

LEMMA TypeInit == Init => TypeOK
<1> SUFFICES ASSUME Init PROVE TypeOK
  OBVIOUS
<1>1. MessagesOK
  <2>1. 0 \in 0 .. MaxPayload
    BY Numbers
  <2>2. NoSearch \in ASearch
    BY <2>1 DEF NoSearch, ASearch
  <2> QED
    BY <2>2, NewMessageType DEF Init, MessagesOK
<1>2. CallsOK
  BY ThePlaces DEF Init, CallsOK, Sides, Initiator, Server
<1>3. NetworkOK /\ SocketOK
  <2>1. 0 \in 0 .. SocketBuffer /\ Attempts \in 0 .. Attempts
    BY Numbers
  <2> QED
    BY <2>1 DEF Init, NetworkOK, SocketOK
<1> QED
  BY <1>1, <1>2, <1>3, TypeParts

\* The steps of the initiator.
LEMMA TypeInitiator ==
  ASSUME TypeOK, AnswerInv,
         \/ NothingToSend \/ Create \/ CreateFails \/ Connect \/ ConnectRetry \/ ConnectFails
         \/ RequestHeaderSent \/ RequestSent \/ AnswerHeaderCame \/ AnswerCame
         \/ Close \/ Destroy \/ Stall
  PROVE  TypeOK'
<1> DEFINE AllOK == MessagesOK' /\ CallsOK' /\ NetworkOK' /\ SocketOK'
<1>0. MessagesOK /\ CallsOK /\ NetworkOK /\ SocketOK
  BY TypeParts
<1>1. ASSUME NothingToSend PROVE AllOK
  <2>1. CallsOK'
    BY <1>0, <1>1, LeaveType, TheSides, ThePlaces DEF NothingToSend
  <2>2. SocketOK'
    BY <1>0, <1>1 DEF NothingToSend, SocketOK
  <2> QED
    BY <1>0, <1>1, <2>1, <2>2, Unchanged DEF NothingToSend
<1>2. ASSUME Create PROVE AllOK
  <2>1. CallsOK'
    BY <1>0, <1>2, LeaveType, TheSides, ThePlaces DEF Create
  <2>2. SocketOK'
    BY <1>0, <1>2 DEF Create, SocketOK
  <2> QED
    BY <1>0, <1>2, <2>1, <2>2, Unchanged DEF Create
<1>3. ASSUME CreateFails \/ ConnectFails PROVE AllOK
  <2>1. CallsOK'
    BY <1>0, <1>3, LeaveType, TheSides, ThePlaces DEF CreateFails, ConnectFails
  <2>2. NetworkOK' /\ socket_fd' \in {"open", "none", "junk"} /\ stray' \in BOOLEAN
    BY <1>0, <1>3, CloseSocketType DEF CreateFails, ConnectFails
  <2>3. try_count' \in 0 .. Attempts
    <3>1. 0 \in 0 .. Attempts
      BY Numbers
    <3> QED
      BY <1>0, <1>3, <3>1 DEF CreateFails, ConnectFails, SocketOK
  <2>4. SocketOK'
    BY <1>0, <1>3, <2>2, <2>3 DEF CreateFails, ConnectFails, SocketOK
  <2> QED
    BY <1>0, <1>3, <2>1, <2>2, <2>4, Unchanged DEF CreateFails, ConnectFails
<1>4. ASSUME Connect PROVE AllOK
  <2>1. CallsOK'
    BY <1>0, <1>4, CallType, TheSides, ThePlaces, Numbers DEF Connect
  <2>2. NetworkOK'
    BY <1>0, <1>4 DEF Connect, NetworkOK
  <2> QED
    BY <1>0, <1>4, <2>1, <2>2, Unchanged DEF Connect
<1>5. ASSUME ConnectRetry PROVE AllOK
  <2>1. SocketOK'
    <3>1. try_count \in 0 .. Attempts /\ try_count > 1 /\ try_count' = try_count - 1
      BY <1>0, <1>5 DEF ConnectRetry, SocketOK
    <3>2. try_count' \in 0 .. Attempts
      BY <3>1, Numbers
    <3> QED
      BY <1>0, <1>5, <3>2 DEF ConnectRetry, SocketOK
  <2> QED
    BY <1>0, <1>5, <2>1, Unchanged DEF ConnectRetry
<1>6. ASSUME RequestHeaderSent \/ RequestSent PROVE AllOK
  <2>1. request.payload_size \in Nat
    BY <1>0, Numbers DEF MessagesOK, AMessage
  <2>2. CallsOK'
    BY <1>0, <1>6, <2>1, CallType, TheSides, ThePlaces, Numbers
       DEF RequestHeaderSent, RequestSent
  <2> QED
    BY <1>0, <1>6, <2>2, Unchanged DEF RequestHeaderSent, RequestSent
<1>7. ASSUME AnswerHeaderCame PROVE AllOK
  <2>1. answer \in AnswerSizes /\ answer \in Nat
    BY <1>0, <1>7, Numbers DEF AnswerHeaderCame, AnswerInv, MessagesOK
  <2>2. CallsOK'
    BY <1>0, <1>7, <2>1, CallType, LeaveType, TheSides, ThePlaces, Numbers
       DEF AnswerHeaderCame, Succeed
  <2>3. SocketOK'
    BY <1>0, <1>7 DEF AnswerHeaderCame, Succeed, SocketOK
  <2>4. MessagesOK'
    BY <1>0, <1>7, <2>1 DEF AnswerHeaderCame, MessagesOK
  <2> QED
    BY <1>0, <1>7, <2>2, <2>3, <2>4, Unchanged DEF AnswerHeaderCame
<1>8. ASSUME AnswerCame PROVE AllOK
  <2>1. CallsOK'
    BY <1>0, <1>8, LeaveType, TheSides, ThePlaces DEF AnswerCame, Succeed
  <2>2. SocketOK'
    BY <1>0, <1>8 DEF AnswerCame, Succeed, SocketOK
  <2> QED
    BY <1>0, <1>8, <2>1, <2>2, Unchanged DEF AnswerCame
<1>9. ASSUME Close \/ Destroy PROVE AllOK
  <2>1. CallsOK'
    BY <1>0, <1>9, LeaveType, TheSides, ThePlaces DEF Close, Destroy
  <2>2. NetworkOK' /\ socket_fd' \in {"open", "none", "junk"} /\ stray' \in BOOLEAN
    BY <1>0, <1>9, CloseSocketType DEF Close, Destroy
  <2>3. SocketOK'
    BY <1>0, <1>9, <2>2 DEF Close, Destroy, SocketOK
  <2> QED
    BY <1>0, <1>9, <2>1, <2>2, <2>3, Unchanged DEF Close, Destroy
<1>10. ASSUME Stall PROVE AllOK
  <2>1. NetworkOK'
    BY <1>0, <1>10 DEF Stall, NetworkOK
  <2> QED
    BY <1>0, <1>10, <2>1, Unchanged DEF Stall
<1> QED
  BY <1>1, <1>2, <1>3, <1>4, <1>5, <1>6, <1>7, <1>8, <1>9, <1>10, TypeParts

\* What both ends may do when a call fails.
LEMMA TypeFail ==
  ASSUME TypeOK, NEW side \in Sides, Fail(side) PROVE TypeOK'
<1>0. MessagesOK /\ CallsOK /\ NetworkOK /\ SocketOK
  BY TypeParts
<1>1. CASE side = Server
  <2>1. CloseClient
    BY <1>1 DEF Fail
  <2>2. CallsOK'
    BY <1>0, <2>1, LeaveType, TheSides, ThePlaces DEF CloseClient
  <2>3. NetworkOK'
    BY <1>0, <2>1 DEF CloseClient, NetworkOK
  <2> QED
    BY <1>0, <2>1, <2>2, <2>3, Unchanged, TypeParts DEF CloseClient
<1>2. CASE side # Server
  <2>1. CallsOK'
    BY <1>0, <1>2, LeaveType, TheSides, ThePlaces DEF Fail
  <2>2. SocketOK'
    BY <1>0, <1>2 DEF Fail, SocketOK
  <2> QED
    BY <1>0, <1>2, <2>1, <2>2, Unchanged, TypeParts DEF Fail
<1> QED
  BY <1>1, <1>2

\* The steps of the server.
LEMMA TypeServer ==
  ASSUME TypeOK, RequestInv, ReceivedInv, SearchInv,
         \/ Accept \/ HeaderCame \/ RequestCame \/ GetFieldGoesOn
         \/ \E id \in Ids : GetField(id)
         \/ \E size \in AnswerSizes : Reply(size)
         \/ AnswerHeaderSent \/ AnswerSent
  PROVE  TypeOK'
<1> DEFINE AllOK == MessagesOK' /\ CallsOK' /\ NetworkOK' /\ SocketOK'
<1>0. MessagesOK /\ CallsOK /\ NetworkOK /\ SocketOK
  BY TypeParts
<1>1. ASSUME Accept PROVE AllOK
  <2>1. CallsOK'
    BY <1>0, <1>1, CallType, TheSides, ThePlaces, Numbers DEF Accept
  <2> QED
    BY <1>0, <1>1, <2>1, Unchanged DEF Accept
<1>2. ASSUME HeaderCame PROVE AllOK
  <2>1. request.payload_size \in 0 .. MaxPayload /\ request.payload_size \in Nat
    BY <1>0, Numbers DEF MessagesOK, AMessage
  <2>2. CallsOK'
    BY <1>0, <1>2, <2>1, CallType, LeaveType, TheSides, ThePlaces, Numbers DEF HeaderCame
  <2>3. FromHeader(request.payload_size) \in AMessage
    <3>1. request.payload_size \in 0 .. UintLimit - 1
      BY <2>1, ExchangeAssumption, MessageAssumption
    <3>2. NoFields \in Fields
      BY NewMessageType DEF NewMessage, AMessage
    <3> QED
      BY <2>1, <3>1, <3>2 DEF FromHeader, AMessage
  <2>4. MessagesOK'
    BY <1>0, <1>2, <2>3 DEF HeaderCame, MessagesOK
  <2> QED
    BY <1>0, <1>2, <2>2, <2>4, Unchanged DEF HeaderCame
<1>3. ASSUME RequestCame PROVE AllOK
  <2>1. CallsOK'
    BY <1>0, <1>3, LeaveType, TheSides, ThePlaces DEF RequestCame
  <2>2. MessagesOK'
    BY <1>0, <1>3 DEF RequestCame, MessagesOK
  <2> QED
    BY <1>0, <1>3, <2>1, <2>2, Unchanged DEF RequestCame
<1>4. ASSUME NEW id \in Ids, GetField(id) PROVE AllOK
  <2>1. received.payload_size \in 0 .. MaxPayload /\ 0 \in 0 .. MaxPayload
    BY <1>0, Numbers DEF MessagesOK, AMessage
  <2>2. search' \in ASearch
    BY <1>4, <2>1 DEF GetField, StartSearch, ASearch
  <2>3. MessagesOK'
    BY <1>0, <1>4, <2>2 DEF GetField, MessagesOK
  <2> QED
    BY <1>0, <1>4, <2>3, Unchanged DEF GetField
<1>5. ASSUME GetFieldGoesOn PROVE AllOK
  <2>1. received.fields = request.fields
    BY <1>5 DEF GetFieldGoesOn, ReceivedInv
  <2>2. search' \in ASearch
    BY <1>0, <1>5, <2>1, SearchStepKeeps DEF GetFieldGoesOn, RequestInv, MessagesOK
  <2>3. MessagesOK'
    BY <1>0, <1>5, <2>2 DEF GetFieldGoesOn, MessagesOK
  <2> QED
    BY <1>0, <1>5, <2>3, Unchanged DEF GetFieldGoesOn
<1>6. ASSUME NEW size \in AnswerSizes, Reply(size) PROVE AllOK
  <2>1. CallsOK'
    BY <1>0, <1>6, CallType, TheSides, ThePlaces, Numbers DEF Reply
  <2>2. MessagesOK'
    BY <1>0, <1>6 DEF Reply, MessagesOK
  <2> QED
    BY <1>0, <1>6, <2>1, <2>2, Unchanged DEF Reply
<1>7. ASSUME AnswerHeaderSent \/ AnswerSent PROVE AllOK
  <2>1. CASE CloseClient
    BY <2>1, TypeFail, TypeParts, TheSides DEF Fail
  <2>2. CASE ~ CloseClient
    <3>1. /\ answer > 0
          /\ Call(Server, "answer payload", answer, WriteTimeout)
          /\ UNCHANGED <<messages, network, socket>>
      BY <1>7, <2>2 DEF AnswerHeaderSent, AnswerSent
    <3>2. answer \in Nat
      <4>1. answer \in AnswerSizes \/ answer = -1
        BY <1>0 DEF MessagesOK
      <4>2. answer > 0
        BY <3>1, Zenon
      <4> QED
        BY <4>1, <4>2, Numbers
    <3>3. CallsOK'
      BY <1>0, <3>1, <3>2, CallType, TheSides, ThePlaces, Numbers
    <3> QED
      BY <1>0, <3>1, <3>3, Unchanged
  <2> QED
    BY <2>1, <2>2
<1> QED
  BY <1>1, <1>2, <1>3, <1>4, <1>5, <1>6, <1>7, TypeParts

\* Bytes and time.
LEMMA TypeBytes ==
  ASSUME TypeOK, RequestInv,
         \/ \E id \in Ids, size \in FieldSizes : AddRequestField(id, size)
         \/ \E side \in Sides : \/ \E n \in Sizes : SendSome(side, n) \/ RecvSome(side, n)
                                \/ TimeOut(side) \/ PeerGone(side)
         \/ Tick \/ WaitInSend \/ Over \/ UNCHANGED vars
  PROVE  TypeOK'
<1> DEFINE AllOK == MessagesOK' /\ CallsOK' /\ NetworkOK' /\ SocketOK'
<1>0. MessagesOK /\ CallsOK /\ NetworkOK /\ SocketOK
  BY TypeParts
<1>1. ASSUME NEW id \in Ids, NEW size \in FieldSizes, AddRequestField(id, size)
      PROVE  AllOK
  <2>1. request' \in AMessage
    BY <1>0, <1>1, FieldAdded DEF AddRequestField, MessagesOK, RequestInv
  <2>2. MessagesOK'
    BY <1>0, <1>1, <2>1 DEF AddRequestField, MessagesOK
  <2> QED
    BY <1>0, <1>1, <2>2, Unchanged DEF AddRequestField
<1>2. ASSUME NEW side \in Sides, NEW n \in Sizes, SendSome(side, n) PROVE AllOK
  <2>1. /\ todo[side] - n \in Nat
        /\ flight[side] + n \in 0 .. SocketBuffer
    BY <1>0, <1>2, Numbers DEF SendSome, Sizes, CallsOK, NetworkOK
  <2>2. CallsOK'
    BY <1>0, <1>2, <2>1 DEF SendSome, CallsOK
  <2>3. NetworkOK'
    BY <1>0, <1>2, <2>1 DEF SendSome, NetworkOK
  <2> QED
    BY <1>0, <1>2, <2>2, <2>3, Unchanged DEF SendSome
<1>3. ASSUME NEW side \in Sides, NEW n \in Sizes, RecvSome(side, n) PROVE AllOK
  <2>1. /\ todo[side] - n \in Nat /\ todo[side] \in Nat /\ n \in Nat
        /\ flight[Other(side)] - n \in 0 .. SocketBuffer
    <3>1. todo[side] \in Nat /\ flight[Other(side)] \in 0 .. SocketBuffer
      BY <1>0, TheSides DEF CallsOK, NetworkOK
    <3>2. n \in 1 .. SocketBuffer /\ n <= todo[side] /\ n <= flight[Other(side)]
      BY <1>3 DEF RecvSome, Sizes
    <3> QED
      BY <3>1, <3>2, Numbers
  <2>2. CallsOK'
    BY <1>0, <1>3, <2>1 DEF RecvSome, CallsOK
  <2>3. NetworkOK'
    BY <1>0, <1>3, <2>1, TheSides DEF RecvSome, NetworkOK
  <2>4. received.payload_size - todo[side] + n \in Int
    BY <1>0, <2>1, Numbers DEF MessagesOK, AMessage
  <2>5. FirstBytes(request, received.payload_size - todo[side] + n) \in Fields
    BY <1>0, <2>4, FirstBytesType DEF MessagesOK
  <2>6. received' \in AMessage
    BY <1>0, <1>3, <2>5 DEF RecvSome, MessagesOK, AMessage
  <2>7. MessagesOK'
    BY <1>0, <1>3, <2>6 DEF RecvSome, MessagesOK
  <2> QED
    BY <1>0, <1>3, <2>2, <2>3, <2>7, Unchanged DEF RecvSome
<1>4. ASSUME NEW side \in Sides, TimeOut(side) \/ PeerGone(side) PROVE AllOK
  BY <1>4, TypeFail, TypeParts DEF TimeOut, PeerGone
<1>5. ASSUME Tick PROVE AllOK
  <2>0. \A side \in Sides : tv[side] \in Nat /\ waited[side] \in Nat
    BY <1>0 DEF CallsOK
  <2>1. \A side \in Sides : Waiting(side) => tv[side] > 0
    BY <1>5, Zenon DEF Tick
  <2>2. tv' \in [Sides -> Nat] /\ waited' \in [Sides -> Nat]
    <3> DEFINE left(side) == IF Waiting(side) THEN tv[side] - 1 ELSE tv[side]
               spent(side) == IF Waiting(side) THEN waited[side] + 1 ELSE waited[side]
    <3>1. \A side \in Sides : left(side) \in Nat /\ spent(side) \in Nat
      <4> TAKE side \in Sides
      <4>1. tv[side] \in Nat /\ waited[side] \in Nat
        BY <2>0
      <4>2. waited[side] + 1 \in Nat
        BY <4>1
      <4>3. ASSUME Waiting(side) PROVE tv[side] - 1 \in Nat
        <5>1. tv[side] > 0
          BY <2>1, <4>3, Zenon
        <5> QED
          BY <4>1, <5>1
      <4> QED
        BY <4>1, <4>2, <4>3, Zenon DEF left, spent
    <3>2. /\ tv' = [side \in Sides |-> left(side)]
          /\ waited' = [side \in Sides |-> spent(side)]
      BY <1>5, Zenon DEF Tick
    <3> HIDE DEF left, spent
    <3> QED
      BY <3>1, <3>2
  <2>3. CallsOK'
    BY <1>0, <1>5, <2>2 DEF Tick, CallsOK
  <2> QED
    BY <1>0, <1>5, <2>3, Unchanged DEF Tick
<1>6. ASSUME WaitInSend \/ Over \/ UNCHANGED vars PROVE AllOK
  BY <1>0, <1>6, Unchanged DEF WaitInSend, Over, vars
<1> QED
  BY <1>1, <1>2, <1>3, <1>4, <1>5, <1>6, TypeParts

-----------------------------------------------------------------------------
(***************************************************************************)
(* Calls and time.                                                         *)
(***************************************************************************)
LEMMA CallValues ==
  ASSUME CallsOK, NEW side \in Sides, NEW part, NEW size, NEW timeout,
         Call(side, part, size, timeout)
  PROVE  /\ at'[side] = part /\ todo'[side] = size /\ tv'[side] = timeout
         /\ waited'[side] = 0
         /\ \A other \in Sides \ {side} :
              /\ at'[other] = at[other] /\ todo'[other] = todo[other]
              /\ tv'[other] = tv[other] /\ waited'[other] = waited[other]
BY DEF CallsOK, Call

LEMMA LeaveValues ==
  ASSUME CallsOK, NEW side \in Sides, NEW place, Leave(side, place)
  PROVE  /\ at'[side] = place
         /\ \A other \in Sides \ {side} :
              at'[other] = at[other] /\ todo'[other] = todo[other]
BY CallValues DEF Leave

LEMMA ServerCalls ==
  ASSUME CallsOK, \E part, size, timeout : Call(Server, part, size, timeout)
  PROVE  at'[Initiator] = at[Initiator] /\ todo'[Initiator] = todo[Initiator]
BY TheSides, CallValues

LEMMA LimitType == \A side, place : Limit(side, place) \in Nat
BY ExchangeAssumption DEF Limit

\* A call that begins has not waited, and may wait as long as its timeout.
LEMMA TimeCall ==
  ASSUME CallsOK, TimeInv, NEW side \in Sides, NEW part, NEW size, NEW timeout \in Nat,
         Call(side, part, size, timeout), timeout <= Limit(side, part)
  PROVE  TimeInv'
<1>1. at'[side] = part /\ tv'[side] = timeout /\ waited'[side] = 0
  BY CallValues
<1>2. \A other \in Sides \ {side} :
        at'[other] = at[other] /\ tv'[other] = tv[other] /\ waited'[other] = waited[other]
  BY CallValues
<1>3. waited'[side] + tv'[side] <= Limit(side, at'[side])
  BY <1>1
<1>4. \A other \in Sides \ {side} : waited'[other] + tv'[other] <= Limit(other, at'[other])
  BY <1>2 DEF TimeInv
<1> QED
  BY <1>3, <1>4 DEF TimeInv, Limit

LEMMA TimeLeave ==
  ASSUME CallsOK, TimeInv, NEW side \in Sides, NEW place, Leave(side, place)
  PROVE  TimeInv'
<1>1. 0 <= Limit(side, place)
  BY LimitType
<1> QED
  BY <1>1, TimeCall DEF Leave

\* A part is sent with one timeout and received with the other.
LEMMA TimeParts ==
  ASSUME CallsOK, TimeInv, NEW size
  PROVE  /\ \A part \in RequestParts : Call(Initiator, part, size, WriteTimeout) => TimeInv'
         /\ \A part \in AnswerParts : Call(Initiator, part, size, ReadTimeout) => TimeInv'
         /\ \A part \in RequestParts : Call(Server, part, size, ReadTimeout) => TimeInv'
         /\ \A part \in AnswerParts : Call(Server, part, size, WriteTimeout) => TimeInv'
<1>1. /\ \A part \in RequestParts : /\ Limit(Initiator, part) = WriteTimeout
                                   /\ Limit(Server, part) = ReadTimeout
      /\ \A part \in AnswerParts : /\ Limit(Initiator, part) = ReadTimeout
                                  /\ Limit(Server, part) = WriteTimeout
  BY DEF Limit, RequestParts, AnswerParts, Initiator, Server
<1>2. ReadTimeout <= ReadTimeout /\ WriteTimeout <= WriteTimeout
  BY Numbers
<1>3. ASSUME NEW part \in RequestParts, Call(Initiator, part, size, WriteTimeout)
      PROVE  TimeInv'
  BY <1>1, <1>2, <1>3, TimeCall, TheSides, Numbers
<1>4. ASSUME NEW part \in AnswerParts, Call(Initiator, part, size, ReadTimeout)
      PROVE  TimeInv'
  BY <1>1, <1>2, <1>4, TimeCall, TheSides, Numbers
<1>5. ASSUME NEW part \in RequestParts, Call(Server, part, size, ReadTimeout)
      PROVE  TimeInv'
  BY <1>1, <1>2, <1>5, TimeCall, TheSides, Numbers
<1>6. ASSUME NEW part \in AnswerParts, Call(Server, part, size, WriteTimeout)
      PROVE  TimeInv'
  BY <1>1, <1>2, <1>6, TimeCall, TheSides, Numbers
<1> QED
  BY <1>3, <1>4, <1>5, <1>6

LEMMA TheParts ==
  /\ "request header" \in RequestParts /\ "request payload" \in RequestParts
  /\ "answer header" \in AnswerParts /\ "answer payload" \in AnswerParts
BY DEF RequestParts, AnswerParts

LEMMA TimeStep == ASSUME IInv, [Next]_vars PROVE TimeInv'
<1>0. CallsOK /\ TimeInv
  BY TypeParts DEF IInv
<1>1. ASSUME UNCHANGED <<at, tv, waited>> PROVE TimeInv'
  BY <1>0, <1>1 DEF TimeInv
<1>2. ASSUME CloseClient PROVE TimeInv'
  BY <1>0, <1>2, TimeLeave, TheSides DEF CloseClient
<1>3. ASSUME NEW side \in Sides, Fail(side) PROVE TimeInv'
  BY <1>0, <1>2, <1>3, TimeLeave, TheSides DEF Fail
<1>4. ASSUME Tick PROVE TimeInv'
  <2>1. \A side \in Sides : tv[side] \in Nat /\ waited[side] \in Nat
    BY <1>0 DEF CallsOK
  <2>2. \A side \in Sides :
          \/ tv'[side] = tv[side] - 1 /\ waited'[side] = waited[side] + 1
          \/ tv'[side] = tv[side] /\ waited'[side] = waited[side]
    BY <1>4, Zenon DEF Tick
  <2>3. \A side \in Sides : waited'[side] + tv'[side] = waited[side] + tv[side]
    BY <2>1, <2>2
  <2> QED
    BY <1>0, <1>4, <2>3 DEF Tick, TimeInv, Limit
<1>5. ASSUME InitiatorStep \/ Stall PROVE TimeInv'
  <2>1. CASE SideStep(Initiator)
    BY <1>1, <1>3, <2>1, TheSides DEF SideStep, SendSome, RecvSome, TimeOut, PeerGone
  <2>2. CASE NothingToSend \/ Create \/ CreateFails \/ ConnectFails \/ AnswerCame
             \/ Close \/ Destroy
    BY <1>0, <2>2, TimeLeave, TheSides
       DEF NothingToSend, Create, CreateFails, ConnectFails, AnswerCame, Close, Destroy,
           Succeed
  <2>3. CASE Connect \/ RequestHeaderSent \/ RequestSent
    BY <1>0, <2>3, TimeParts, TheParts
       DEF Connect, RequestHeaderSent, RequestSent
  <2>4. CASE AnswerHeaderCame
    BY <1>0, <2>4, TimeParts, TheParts, TimeLeave, TheSides
       DEF AnswerHeaderCame, Succeed
  <2>5. CASE ConnectRetry \/ Stall
    BY <1>1, <2>5 DEF ConnectRetry, Stall, calls
  <2> QED
    BY <1>5, <2>1, <2>2, <2>3, <2>4, <2>5 DEF InitiatorStep
<1>6. ASSUME ServerStep \/ \E id \in Ids : GetField(id) PROVE TimeInv'
  <2>1. CASE SideStep(Server)
    BY <1>1, <1>3, <2>1, TheSides DEF SideStep, SendSome, RecvSome, TimeOut, PeerGone
  <2>2. CASE Accept \/ HeaderCame \/ \E size \in AnswerSizes : Reply(size)
    BY <1>0, <2>2, TimeParts, TheParts, TimeLeave, TheSides
       DEF Accept, HeaderCame, Reply
  <2>3. CASE RequestCame
    BY <1>0, <2>3, TimeLeave, TheSides DEF RequestCame
  <2>4. CASE AnswerHeaderSent \/ AnswerSent
    BY <1>0, <1>2, <2>4, TimeParts, TheParts
       DEF AnswerHeaderSent, AnswerSent
  <2>5. CASE GetFieldGoesOn \/ \E id \in Ids : GetField(id)
    BY <1>1, <2>5 DEF GetFieldGoesOn, GetField, calls
  <2> QED
    BY <1>6, <2>1, <2>2, <2>3, <2>4, <2>5 DEF ServerStep
<1>7. ASSUME \/ \E id \in Ids, size \in FieldSizes : AddRequestField(id, size)
             \/ WaitInSend \/ Over \/ UNCHANGED vars
      PROVE  TimeInv'
  BY <1>1, <1>7 DEF AddRequestField, WaitInSend, Over, vars, calls
<1> QED
  BY <1>4, <1>5, <1>6, <1>7 DEF Next

-----------------------------------------------------------------------------
(***************************************************************************)
(* Messages, look-ups and the connection.                                  *)
(***************************************************************************)
Adds == \E id \in Ids, size \in FieldSizes : AddRequestField(id, size)
Asks == \E id \in Ids : GetField(id)
Replies == \E size \in AnswerSizes : Reply(size)

\* Which steps write what.
LEMMA Writers ==
  ASSUME [Next]_vars
  PROVE  /\ Adds \/ UNCHANGED request
         /\ Asks \/ GetFieldGoesOn \/ UNCHANGED search
         /\ HeaderCame \/ RequestCame \/ UNCHANGED handled
         /\ Replies \/ UNCHANGED answer
         /\ \/ HeaderCame \/ \E n \in Sizes : RecvSome(Server, n) \/ RecvSome(Initiator, n)
            \/ UNCHANGED received
<1>1. CASE InitiatorStep \/ Stall
  BY <1>1
     DEF InitiatorStep, SideStep, SendSome, RecvSome, TimeOut, PeerGone, Fail, CloseClient,
         NothingToSend, Create, CreateFails, Connect, ConnectRetry, ConnectFails,
         RequestHeaderSent, RequestSent, AnswerHeaderCame, AnswerCame, Close, Destroy,
         Stall, messages
<1>2. CASE ServerStep
  BY <1>2
     DEF ServerStep, SideStep, SendSome, RecvSome, TimeOut, PeerGone, Fail, CloseClient,
         Accept, HeaderCame, RequestCame, GetFieldGoesOn, Reply, Replies, AnswerHeaderSent,
         AnswerSent, messages
<1>3. CASE Adds \/ Asks \/ WaitInSend \/ Tick \/ Over \/ UNCHANGED vars
  BY <1>3 DEF Adds, Asks, AddRequestField, GetField, WaitInSend, Tick, Over, vars, messages
<1> QED
  BY <1>1, <1>2, <1>3 DEF Next, Adds, Asks

LEMMA RequestStep == ASSUME IInv, [Next]_vars PROVE RequestInv'
<1>1. CASE Adds
  <2>1. PICK id \in Ids, size \in FieldSizes : AddRequestField(id, size)
    BY <1>1 DEF Adds
  <2>2. request \in AMessage
    BY DEF IInv, TypeOK
  <2> QED
    BY <2>1, <2>2, FieldAdded DEF AddRequestField, IInv, RequestInv
<1>2. CASE UNCHANGED request
  BY <1>2 DEF IInv, RequestInv, Layout, End
<1> QED
  BY <1>1, <1>2, Writers

\* A handler has begun, and so has the whole request.
LEMMA Handling ==
  ASSUME ReceivedInv, search.result # "none" \/ at[Server] = "handle"
  PROVE  handled /\ received.fields = request.fields
                 /\ received.payload_size = request.payload_size
<1>1. handled
  <2>1. CASE search.result # "none"
    <3>1. search # NoSearch
      BY <2>1 DEF NoSearch
    <3> QED
      BY <3>1, Zenon DEF ReceivedInv
  <2>2. CASE at[Server] = "handle"
    BY <2>2, Zenon DEF ReceivedInv
  <2> QED
    BY <2>1, <2>2
<1> QED
  BY <1>1, Zenon DEF ReceivedInv

LEMMA LookUpStep == ASSUME IInv, [Next]_vars PROVE SearchInv'
<1>1. CASE Asks
  <2>1. PICK id \in Ids : GetField(id)
    BY <1>1 DEF Asks
  <2>2. /\ search' = StartSearch(received, id) /\ request' = request
        /\ received.payload_size = request.payload_size
    BY <2>1, Handling DEF GetField, IInv
  <2>3. request \in AMessage /\ request.payload_size \in Nat
    <3>1. request \in AMessage
      BY DEF IInv, TypeOK
    <3> QED
      BY <3>1, Numbers DEF AMessage
  <2>4. \A p \in AskedFor(id) : p >= 0
    BY <2>3, FieldFacts DEF AskedFor, IInv, RequestInv
  <2>5. 0 + request.payload_size = request.payload_size
    BY <2>3
  <2> QED
    BY <2>2, <2>4, <2>5 DEF StartSearch, SearchInv, AskedFor, IInv, RequestInv, Layout
<1>2. CASE GetFieldGoesOn
  BY <1>2, SearchStepKeeps, Handling
     DEF GetFieldGoesOn, IInv, TypeOK, RequestInv
<1>3. CASE Adds /\ UNCHANGED search
  <2>1. search = NoSearch
    BY <1>3 DEF Adds, AddRequestField, IInv, InitiatorInv, ReceivedInv
  <2> QED
    BY <1>3, <2>1 DEF NoSearch, SearchInv
<1>4. CASE UNCHANGED <<request, search>>
  BY <1>4 DEF IInv, SearchInv, AskedFor
<1> QED
  BY <1>1, <1>2, <1>3, <1>4, Writers

\* What the server has received.
LEMMA ReceivedStep == ASSUME IInv, [Next]_vars PROVE ReceivedInv'
<1>0. /\ CallsOK /\ TypeOK /\ RequestInv /\ ReceivedInv /\ InitiatorInv
      /\ request \in AMessage /\ Layout(request) /\ request.payload_size \in Nat
      /\ todo[Server] \in Nat
      /\ received \in AMessage /\ received.payload_size \in Nat
  <2>1. /\ CallsOK /\ TypeOK /\ RequestInv /\ ReceivedInv /\ InitiatorInv
        /\ request \in AMessage /\ Layout(request)
    BY TypeParts DEF IInv, TypeOK, RequestInv
  <2>2. request.payload_size \in Nat
    BY <2>1, Numbers DEF AMessage
  <2>3. todo[Server] \in Nat
    BY <2>1, TheSides DEF CallsOK
  <2>4. received \in AMessage
    BY <2>1 DEF TypeOK
  <2>5. received.payload_size \in Nat
    BY <2>4, Numbers DEF AMessage
  <2> QED
    BY <2>1, <2>2, <2>3, <2>4, <2>5
<1>1. ASSUME UNCHANGED <<request, received, search, handled, answer>>,
             at'[Server] = at[Server],
             at[Server] = "request payload" => todo'[Server] = todo[Server]
      PROVE  ReceivedInv'
  BY <1>0, <1>1 DEF ReceivedInv, FirstBytes
<1>2. ASSUME CloseClient PROVE ReceivedInv'
  <2>1. at'[Server] = "free" /\ UNCHANGED messages
    BY <1>0, <1>2, LeaveValues, TheSides DEF CloseClient
  <2> QED
    BY <1>0, <2>1 DEF ReceivedInv, messages, AnswerParts
<1>3. ASSUME NEW n \in Sizes, RecvSome(Server, n) PROVE ReceivedInv'
  <2>1. CASE at[Server] = "request payload"
    <3>0. n \in Nat
      BY Numbers DEF Sizes
    <3>1. /\ todo'[Server] = todo[Server] - n /\ n <= todo[Server]
          /\ received' = [received EXCEPT !.fields =
                           FirstBytes(request, received.payload_size - todo[Server] + n)]
          /\ at' = at
          /\ UNCHANGED <<request, search, handled, answer>>
      BY <1>0, <1>3, <2>1, TheSides DEF RecvSome, CallsOK
    <3>2. /\ received'.fields = FirstBytes(request, received.payload_size - todo[Server] + n)
          /\ received'.payload_size = received.payload_size
          /\ received'.message_alloc_size = received.message_alloc_size
      BY <1>0, <3>1 DEF TypeOK, AMessage
    <3>3. /\ ~ handled /\ todo[Server] <= received.payload_size
          /\ received.payload_size = request.payload_size
      BY <1>0, <2>1, Zenon DEF ReceivedInv
    <3>4. received.payload_size - todo[Server] + n = received.payload_size - todo'[Server]
      BY <1>0, <3>0, <3>1, <3>3
    <3>5. todo'[Server] <= received.payload_size
      BY <1>0, <3>0, <3>1, <3>3
    <3>6. received'.fields = FirstBytes(request, received.payload_size - todo'[Server])
      BY <3>2, <3>4
    <3> QED
      BY <1>0, <2>1, <3>1, <3>2, <3>3, <3>5, <3>6, Zenon DEF ReceivedInv, AnswerParts
  <2>2. CASE at[Server] # "request payload"
    BY <1>0, <1>3, <2>2 DEF RecvSome, ReceivedInv
  <2> QED
    BY <2>1, <2>2
<1>4. ASSUME NEW n \in Sizes, RecvSome(Initiator, n) PROVE ReceivedInv'
  <2>1. at[Initiator] # "request payload"
    BY <1>4 DEF RecvSome, Sends, RequestParts
  <2>2. todo'[Server] = todo[Server] /\ at' = at
    BY <1>0, <1>4, TheSides DEF RecvSome, CallsOK
  <2> QED
    BY <1>1, <1>4, <2>1, <2>2 DEF RecvSome
<1>5. ASSUME NEW side \in Sides, NEW n \in Sizes, SendSome(side, n) PROVE ReceivedInv'
  <2>1. at[Server] = "request payload" => side # Server
    BY <1>5 DEF SendSome, Sends, AnswerParts, Initiator, Server
  <2>2. side # Server => todo'[Server] = todo[Server]
    BY <1>0, <1>5, TheSides DEF SendSome, CallsOK
  <2> QED
    BY <1>1, <1>5, <2>1, <2>2 DEF SendSome, messages
<1>6. ASSUME NEW side \in Sides, Fail(side) PROVE ReceivedInv'
  <2>1. CASE side = Server
    BY <1>2, <1>6, <2>1 DEF Fail
  <2>2. CASE side # Server
    BY <1>0, <1>1, <1>6, <2>2, LeaveValues, TheSides DEF Fail, messages
  <2> QED
    BY <2>1, <2>2
<1>7. ASSUME InitiatorStep PROVE ReceivedInv'
  <2>1. CASE SideStep(Initiator)
    BY <1>4, <1>5, <1>6, <2>1, TheSides DEF SideStep, TimeOut, PeerGone
  <2>2. CASE NothingToSend \/ Create \/ CreateFails \/ ConnectFails \/ AnswerCame
             \/ Close \/ Destroy
    <3>1. UNCHANGED messages /\ \E place : Leave(Initiator, place)
      BY <2>2 DEF NothingToSend, Create, CreateFails, ConnectFails, AnswerCame, Close, Destroy,
                  Succeed
    <3> QED
      BY <1>0, <1>1, <3>1, LeaveValues, TheSides DEF messages
  <2>3. CASE Connect \/ RequestHeaderSent \/ RequestSent
    <3>1. /\ UNCHANGED messages
          /\ \E part, size, timeout : Call(Initiator, part, size, timeout)
      BY <2>3 DEF Connect, RequestHeaderSent, RequestSent
    <3> QED
      BY <1>0, <1>1, <3>1, CallValues, TheSides DEF messages
  <2>4. CASE AnswerHeaderCame
    <3>1. \E part, size, timeout : Call(Initiator, part, size, timeout)
      BY <2>4 DEF AnswerHeaderCame, Succeed, Leave
    <3>2. UNCHANGED <<request, received, search, handled, answer>>
      BY <2>4 DEF AnswerHeaderCame
    <3> QED
      BY <1>0, <1>1, <3>1, <3>2, CallValues, TheSides
  <2>5. CASE ConnectRetry
    BY <1>1, <2>5 DEF ConnectRetry, calls, messages
  <2> QED
    BY <1>7, <2>1, <2>2, <2>3, <2>4, <2>5 DEF InitiatorStep
<1>8. ASSUME Accept PROVE ReceivedInv'
  <2>1. at'[Server] = "request header" /\ UNCHANGED messages /\ at[Server] = "accept"
    BY <1>0, <1>8, CallValues, TheSides DEF Accept
  <2> QED
    BY <1>0, <2>1, Zenon DEF ReceivedInv, messages, AnswerParts
<1>9. ASSUME HeaderCame PROVE ReceivedInv'
  <2>1. /\ received'.payload_size = request.payload_size
        /\ received'.payload_size = received'.message_alloc_size
        /\ received'.fields = NoFields
        /\ UNCHANGED <<request, search, answer>>
        /\ ~ handled /\ search = NoSearch /\ answer = -1
    BY <1>0, <1>9 DEF HeaderCame, FromHeader, ReceivedInv
  <2>2. FirstBytes(request, 0) = NoFields
    BY <1>0, NoBytes
  <2>3. CASE request.payload_size = 0
    <3>0. at'[Server] = "handle"
      <4>0. ~ (request.payload_size > 0)
        BY <2>3
      <4>1. Leave(Server, "handle")
        BY <1>9, <4>0, Zenon DEF HeaderCame
      <4> QED
        BY <1>0, <4>1, LeaveValues, TheSides
    <3>1. handled' = TRUE
      BY <1>9, <2>3 DEF HeaderCame
    <3>2. request.fields = NoFields
      BY <1>0, <2>2, <2>3, AllBytes
    <3>3. received'.payload_size <= received'.message_alloc_size
      BY <1>0, <2>1
    <3> QED
      BY <2>1, <3>0, <3>1, <3>2, <3>3, Zenon DEF ReceivedInv, AnswerParts
  <2>4. CASE request.payload_size > 0
    <3>0. ~ handled'
      <4>1. request.payload_size # 0
        BY <2>4
      <4> QED
        BY <1>9, <4>1, Zenon DEF HeaderCame
    <3>1. /\ at'[Server] = "request payload"
          /\ todo'[Server] = request.payload_size
      <4>1. Call(Server, "request payload", request.payload_size, ReadTimeout)
        BY <1>9, <2>4, Zenon DEF HeaderCame
      <4>2. CallsOK /\ Server \in Sides
        BY <1>0, TheSides
      <4> QED
        BY <4>1, <4>2 DEF Call, CallsOK
    <3>2. received'.payload_size - todo'[Server] = 0
      <4>1. request.payload_size - request.payload_size = 0
        BY <1>0
      <4> QED
        BY <2>1, <3>1, <4>1
    <3>3. received'.payload_size <= received'.message_alloc_size
      BY <1>0, <2>1
    <3>4. todo'[Server] <= received'.payload_size
      <4>1. request.payload_size <= request.payload_size
        BY <1>0
      <4> QED
        BY <2>1, <3>1, <4>1
    <3> QED
      BY <1>0, <2>1, <2>2, <3>0, <3>1, <3>2, <3>3, <3>4, Zenon DEF ReceivedInv, AnswerParts
  <2> QED
    BY <1>0, <2>3, <2>4
<1>10. ASSUME RequestCame PROVE ReceivedInv'
  <2>1. /\ at[Server] = "request payload" /\ todo[Server] = 0
        /\ at'[Server] = "handle" /\ handled'
        /\ UNCHANGED <<request, received, search, answer>>
    BY <1>0, <1>10, LeaveValues, TheSides DEF RequestCame
  <2>2. /\ received.payload_size = request.payload_size
        /\ received.fields = FirstBytes(request, received.payload_size - todo[Server])
        /\ answer = -1
    BY <1>0, <2>1, Zenon DEF ReceivedInv
  <2>3. received.payload_size - todo[Server] = request.payload_size
    <3>1. request.payload_size - 0 = request.payload_size
      BY <1>0
    <3> QED
      BY <2>1, <2>2, <3>1
  <2>4. received.fields = request.fields
    BY <1>0, <2>2, <2>3, AllBytes
  <2> QED
    BY <1>0, <2>1, <2>2, <2>4 DEF ReceivedInv, AnswerParts
<1>11. ASSUME Asks \/ GetFieldGoesOn PROVE ReceivedInv'
  <2>1. at[Server] = "handle" /\ UNCHANGED <<request, received, handled, answer, calls>>
    BY <1>11 DEF Asks, GetField, GetFieldGoesOn
  <2>2. handled
    BY <1>0, <2>1, Handling
  <2> QED
    BY <1>0, <2>1, <2>2, Zenon DEF ReceivedInv, calls, AnswerParts
<1>12. ASSUME Replies PROVE ReceivedInv'
  <2>1. PICK size \in AnswerSizes : Reply(size)
    BY <1>12 DEF Replies
  <2>2. /\ at[Server] = "handle" /\ at'[Server] = "answer header"
        /\ answer' \in AnswerSizes
        /\ UNCHANGED <<request, received, search, handled>>
    BY <1>0, <2>1, CallValues, TheSides DEF Reply
  <2>3. handled
    BY <1>0, <2>2, Handling
  <2> QED
    BY <1>0, <2>2, <2>3, Zenon DEF ReceivedInv
<1>13. ASSUME AnswerHeaderSent \/ AnswerSent PROVE ReceivedInv'
  <2>1. CASE ~ CloseClient
    <3>1. /\ at[Server] = "answer header" /\ at'[Server] = "answer payload"
          /\ UNCHANGED messages
      BY <1>0, <1>13, <2>1, CallValues, TheSides DEF AnswerHeaderSent, AnswerSent
    <3>2. answer \in AnswerSizes
      BY <1>0, <3>1 DEF ReceivedInv, AnswerParts
    <3> QED
      BY <1>0, <3>1, <3>2, Zenon DEF ReceivedInv, messages, AnswerParts
  <2> QED
    BY <1>2, <2>1
<1>14. ASSUME Adds PROVE ReceivedInv'
  <2>1. at[Server] = "accept" /\ UNCHANGED <<received, search, handled, answer, calls>>
    BY <1>0, <1>14 DEF Adds, AddRequestField, InitiatorInv
  <2>2. ~ handled
    BY <1>0, <2>1, Zenon DEF ReceivedInv
  <2> QED
    BY <1>0, <2>1, <2>2, Zenon DEF ReceivedInv, calls, AnswerParts
<1>15. ASSUME Stall \/ Tick \/ WaitInSend \/ Over \/ UNCHANGED vars PROVE ReceivedInv'
  BY <1>1, <1>15 DEF Stall, Tick, WaitInSend, Over, vars, messages, calls
<1>16. CASE SideStep(Server)
  BY <1>3, <1>5, <1>6, <1>16, TheSides DEF SideStep, TimeOut, PeerGone
<1> QED
  BY <1>7, <1>8, <1>9, <1>10, <1>11, <1>12, <1>13, <1>14, <1>15, <1>16
     DEF Next, ServerStep, Adds, Asks, Replies

\* The descriptor of the initiator, and what it has to do with the server.
LEMMA InitiatorInvStep == ASSUME IInv, [Next]_vars PROVE InitiatorInv'
<1>0. CallsOK /\ NetworkOK /\ SocketOK /\ InitiatorInv
  BY TypeParts DEF IInv
<1>1. ASSUME UNCHANGED <<at, open, socket_fd, outcome, stray>> PROVE InitiatorInv'
  BY <1>0, <1>1 DEF InitiatorInv
<1>2. ASSUME UNCHANGED <<socket_fd, outcome, stray>>, at'[Initiator] = at[Initiator],
             at[Server] # "accept" \/ open[Server]
      PROVE  InitiatorInv'
  BY <1>0, <1>2 DEF InitiatorInv
<1>3. ASSUME CloseClient, at[Server] # "accept" PROVE InitiatorInv'
  BY <1>0, <1>2, <1>3, LeaveValues, TheSides DEF CloseClient, socket
<1>4. ASSUME at[Initiator] \in Parts \cup {"connect"}, at'[Initiator] \in Parts,
             UNCHANGED <<socket_fd, outcome, stray>>
      PROVE  InitiatorInv'
  BY <1>0, <1>4 DEF InitiatorInv, Done, Parts, RequestParts, AnswerParts
<1>5. ASSUME at[Initiator] \in Parts, at'[Initiator] = "close", outcome' \in {"ok", "failed"},
             UNCHANGED <<socket_fd, stray>>
      PROVE  InitiatorInv'
  BY <1>0, <1>5 DEF InitiatorInv, Done, Parts, RequestParts, AnswerParts
<1>6. ASSUME NEW side \in Sides, Fail(side), at[side] \in Parts PROVE InitiatorInv'
  <2>1. CASE side = Server
    BY <1>3, <1>6, <2>1 DEF Fail, Parts, RequestParts, AnswerParts
  <2>2. CASE side = Initiator
    BY <1>0, <1>5, <1>6, <2>2, LeaveValues, TheSides DEF Fail
  <2> QED
    BY <2>1, <2>2 DEF Sides
<1>7. ASSUME NEW side \in Sides, SideStep(side) PROVE InitiatorInv'
  BY <1>1, <1>6, <1>7
     DEF SideStep, SendSome, RecvSome, TimeOut, PeerGone, Waiting, InCall, socket
<1>8. ASSUME NothingToSend PROVE InitiatorInv'
  <2>1. at'[Initiator] = "destroy" /\ at'[Server] = at[Server]
    BY <1>0, <1>8, LeaveValues, TheSides DEF NothingToSend
  <2> QED
    BY <1>0, <1>8, <2>1 DEF NothingToSend, network, InitiatorInv, Done
<1>9. ASSUME Create PROVE InitiatorInv'
  <2>1. at'[Initiator] = "connect" /\ at'[Server] = at[Server]
    BY <1>0, <1>9, LeaveValues, TheSides DEF Create
  <2> QED
    BY <1>0, <1>9, <2>1 DEF Create, network, InitiatorInv, Done
<1>10. ASSUME CreateFails PROVE InitiatorInv'
  <2>1. at'[Initiator] = "close" /\ at'[Server] = at[Server]
    BY <1>0, <1>10, LeaveValues, TheSides DEF CreateFails
  <2>2. open'[Server] = open[Server]
    BY <1>0, <1>10, TheSides DEF CreateFails, CloseSocket, NetworkOK
  <2> QED
    BY <1>0, <1>10, <2>1, <2>2 DEF CreateFails, CloseSocket, InitiatorInv, Done
<1>11. ASSUME Connect \/ RequestHeaderSent \/ RequestSent PROVE InitiatorInv'
  <2>1. at'[Initiator] \in Parts
    BY <1>0, <1>11, CallValues, TheSides, TheParts
       DEF Connect, RequestHeaderSent, RequestSent, Parts
  <2> QED
    BY <1>4, <1>11, <2>1, TheParts
       DEF Connect, RequestHeaderSent, RequestSent, Parts, socket
<1>12. ASSUME ConnectRetry \/ Stall PROVE InitiatorInv'
  BY <1>1, <1>12 DEF ConnectRetry, Stall, calls, network, socket
<1>13. ASSUME ConnectFails PROVE InitiatorInv'
  <2>1. at'[Initiator] = "close"
    BY <1>0, <1>13, LeaveValues, TheSides DEF ConnectFails
  <2>2. socket_fd = "open" /\ outcome = "none"
    BY <1>0, <1>13 DEF ConnectFails, InitiatorInv, Done
  <2>3. stray' = stray
    BY <1>0, <1>13, <2>2 DEF ConnectFails, CloseSocket, SocketOK
  <2> QED
    BY <1>0, <1>13, <2>1, <2>2, <2>3 DEF ConnectFails, CloseSocket, InitiatorInv, Done
<1>14. ASSUME AnswerHeaderCame \/ AnswerCame PROVE InitiatorInv'
  <2>1. at[Initiator] \in Parts /\ UNCHANGED <<socket_fd, stray>>
    BY <1>14, TheParts DEF AnswerHeaderCame, AnswerCame, Parts
  <2>2. CASE Succeed
    BY <1>0, <1>5, <2>1, <2>2, LeaveValues, TheSides DEF Succeed
  <2>3. CASE ~ Succeed
    <3>1. at'[Initiator] \in Parts /\ UNCHANGED outcome
      BY <1>0, <1>14, <2>3, CallValues, TheSides, TheParts
         DEF AnswerHeaderCame, AnswerCame, Parts
    <3> QED
      BY <1>4, <2>1, <3>1
  <2> QED
    BY <2>2, <2>3
<1>15. ASSUME Close \/ Destroy PROVE InitiatorInv'
  <2>1. /\ at[Initiator] \in Done /\ at'[Initiator] \in Done /\ at'[Server] = at[Server]
        /\ outcome' = outcome /\ socket_fd' = "none"
    BY <1>0, <1>15, LeaveValues, TheSides DEF Close, Destroy, CloseSocket, Done
  <2>2. open'[Server] = open[Server]
    BY <1>0, <1>15, TheSides DEF Close, Destroy, CloseSocket, NetworkOK
  <2>3. stray' => stray \/ socket_fd = "junk"
    BY <1>0, <1>15 DEF Close, Destroy, CloseSocket, SocketOK
  <2> QED
    BY <1>0, <2>1, <2>2, <2>3 DEF InitiatorInv, Done
<1>16. ASSUME ServerStep PROVE InitiatorInv'
  <2>1. CASE SideStep(Server)
    BY <1>7, <2>1, TheSides
  <2>2. CASE Accept \/ HeaderCame \/ RequestCame \/ Replies
    <3>1. at'[Initiator] = at[Initiator] /\ UNCHANGED <<socket_fd, outcome, stray>>
      <4>1. \E part, size, timeout : Call(Server, part, size, timeout)
        BY <2>2, Zenon DEF Accept, HeaderCame, RequestCame, Replies, Reply, Leave
      <4>2. UNCHANGED <<socket_fd, outcome, stray>>
        BY <2>2 DEF Accept, HeaderCame, RequestCame, Replies, Reply, socket
      <4> QED
        BY <1>0, <4>1, <4>2, ServerCalls
    <3>2. at[Server] # "accept" \/ open[Server]
      BY <2>2 DEF Accept, HeaderCame, RequestCame, Replies, Reply
    <3> QED
      BY <1>2, <3>1, <3>2
  <2>3. CASE AnswerHeaderSent \/ AnswerSent
    <3>1. at[Server] # "accept"
      BY <2>3 DEF AnswerHeaderSent, AnswerSent
    <3>2. CASE ~ CloseClient
      <4>1. Call(Server, "answer payload", answer, WriteTimeout)
        BY <2>3, <3>2 DEF AnswerHeaderSent, AnswerSent
      <4>2. UNCHANGED <<socket_fd, outcome, stray>>
        BY <2>3, <3>2 DEF AnswerHeaderSent, AnswerSent, socket
      <4> QED
        BY <1>0, <1>2, <3>1, <4>1, <4>2, ServerCalls
    <3> QED
      BY <1>3, <3>1, <3>2
  <2>4. CASE GetFieldGoesOn
    BY <1>1, <2>4 DEF GetFieldGoesOn, calls, network, socket
  <2> QED
    BY <1>16, <2>1, <2>2, <2>3, <2>4 DEF ServerStep, Replies
<1>17. ASSUME Adds \/ Asks \/ Tick \/ WaitInSend \/ Over \/ UNCHANGED vars
      PROVE  InitiatorInv'
  BY <1>1, <1>17 DEF Adds, Asks, AddRequestField, GetField, Tick, WaitInSend, Over,
                     vars, calls, network, socket
<1> QED
  BY <1>7, <1>8, <1>9, <1>10, <1>11, <1>12, <1>13, <1>14, <1>15, <1>16, <1>17, TheSides
     DEF Next, InitiatorStep, Adds, Asks

\* The answer, and what it takes to have got it.
LEMMA AnswerInvStep == ASSUME IInv, [Next]_vars PROVE AnswerInv'
<1>0. /\ CallsOK /\ NetworkOK /\ ReceivedInv /\ InitiatorInv /\ AnswerInv
      /\ answer \in AnswerSizes \/ answer = -1
      /\ \A size \in AnswerSizes : size # -1
  <2>1. CallsOK /\ NetworkOK /\ ReceivedInv /\ InitiatorInv /\ AnswerInv
    BY TypeParts DEF IInv
  <2>2. answer \in AnswerSizes \/ answer = -1
    BY DEF IInv, TypeOK
  <2>3. \A size \in AnswerSizes : size # -1
    BY Numbers
  <2> QED
    BY <2>1, <2>2, <2>3
<1>1. ASSUME UNCHANGED <<answer, p_answer, outcome>>,
             flight'[Server] = flight[Server] \/ answer # -1,
             at'[Initiator] = at[Initiator], todo'[Initiator] = todo[Initiator]
      PROVE  AnswerInv'
  BY <1>0, <1>1 DEF AnswerInv
<1>2. ASSUME UNCHANGED <<answer, p_answer, flight>>, outcome' # "ok",
             at'[Initiator] # "answer payload",
             at'[Initiator] = "answer header" => todo'[Initiator] = HeaderSize
      PROVE  AnswerInv'
  BY <1>0, <1>2 DEF AnswerInv
<1>3. ASSUME \E part, size, timeout : Call(Server, part, size, timeout),
             UNCHANGED <<answer, p_answer, flight, outcome>>
      PROVE  AnswerInv'
  <2>1. at'[Initiator] = at[Initiator] /\ todo'[Initiator] = todo[Initiator]
    BY <1>0, <1>3, ServerCalls
  <2> QED
    BY <1>1, <1>3, <2>1
<1>4. ASSUME CloseClient PROVE AnswerInv'
  BY <1>3, <1>4 DEF CloseClient, Leave, messages, socket
<1>5. ASSUME NEW side \in Sides, Fail(side) PROVE AnswerInv'
  <2>1. CASE side = Server
    BY <1>4, <1>5, <2>1 DEF Fail
  <2>2. CASE side # Server
    <3>1. /\ UNCHANGED <<answer, p_answer, flight>> /\ outcome' = "failed"
          /\ Leave(Initiator, "close")
      BY <1>5, <2>2 DEF Fail, messages, network
    <3>2. at'[Initiator] = "close"
      BY <1>0, <3>1, LeaveValues, TheSides
    <3> QED
      BY <1>2, <3>1, <3>2
  <2> QED
    BY <2>1, <2>2
<1>6. ASSUME NEW side \in Sides, NEW n \in Sizes, SendSome(side, n) PROVE AnswerInv'
  <2>1. CASE side = Server
    <3>1. answer # -1
      BY <1>0, <1>6, <2>1 DEF SendSome, Sends, ReceivedInv, Initiator, Server
    <3>2. todo'[Initiator] = todo[Initiator] /\ at' = at
      BY <1>0, <1>6, <2>1, TheSides DEF SendSome, CallsOK
    <3> QED
      BY <1>1, <1>6, <3>1, <3>2 DEF SendSome, messages, socket
  <2>2. CASE side = Initiator
    <3>1. at[Initiator] \in RequestParts
      BY <1>6, <2>2 DEF SendSome, Sends
    <3>2. flight'[Server] = flight[Server] /\ at' = at
      BY <1>0, <1>6, <2>2, TheSides DEF SendSome, NetworkOK
    <3>3. outcome # "ok"
      BY <1>0, <3>1 DEF InitiatorInv, Done, RequestParts
    <3> QED
      BY <1>0, <1>6, <3>1, <3>2, <3>3 DEF SendSome, AnswerInv, RequestParts, messages, socket
  <2> QED
    BY <2>1, <2>2 DEF Sides
<1>7. ASSUME NEW side \in Sides, NEW n \in Sizes, RecvSome(side, n) PROVE AnswerInv'
  <2>1. CASE side = Server
    <3>1. /\ flight'[Server] = flight[Server] /\ at' = at
          /\ todo'[Initiator] = todo[Initiator]
      BY <1>0, <1>7, <2>1, TheSides DEF RecvSome, NetworkOK, CallsOK, Other
    <3> QED
      BY <1>1, <1>7, <3>1 DEF RecvSome, socket
  <2>2. CASE side = Initiator
    <3>1. n <= flight[Server]
      BY <1>7, <2>2 DEF RecvSome, Other
    <3>2. answer # -1
      <4>1. ~ (n <= 0)
        BY Numbers DEF Sizes
      <4>2. flight[Server] # 0
        BY <3>1, <4>1
      <4> QED
        BY <1>0, <4>2 DEF AnswerInv
    <3> QED
      BY <1>0, <1>7, <3>2 DEF RecvSome, AnswerInv, socket
  <2> QED
    BY <2>1, <2>2 DEF Sides
<1>8. ASSUME NEW side \in Sides, SideStep(side) PROVE AnswerInv'
  BY <1>5, <1>6, <1>7, <1>8 DEF SideStep, TimeOut, PeerGone
<1>9. CASE NothingToSend \/ Create \/ CreateFails \/ ConnectFails
  <2>1. /\ UNCHANGED <<answer, p_answer, flight>>
        /\ \E place \in {"connect", "close", "destroy"} : Leave(Initiator, place)
        /\ outcome' # "ok"
    BY <1>0, <1>9
       DEF NothingToSend, Create, CreateFails, ConnectFails, messages, network,
           InitiatorInv, Done
  <2>2. at'[Initiator] \in {"connect", "close", "destroy"}
    BY <1>0, <2>1, LeaveValues, TheSides
  <2> QED
    BY <1>2, <2>1, <2>2
<1>10. CASE Connect \/ RequestHeaderSent \/ RequestSent
  <2>1. /\ UNCHANGED <<answer, p_answer, flight, outcome>>
        /\ at[Initiator] \in RequestParts \cup {"connect"}
    BY <1>10, TheParts DEF Connect, RequestHeaderSent, RequestSent, messages, network, socket
  <2>2. outcome # "ok"
    BY <1>0, <2>1 DEF InitiatorInv, Done, RequestParts
  <2>3. \/ \E part \in RequestParts : \E size, timeout : Call(Initiator, part, size, timeout)
        \/ Call(Initiator, "answer header", HeaderSize, ReadTimeout)
    BY <1>10, TheParts DEF Connect, RequestHeaderSent, RequestSent
  <2>4. \/ at'[Initiator] \in RequestParts
        \/ at'[Initiator] = "answer header" /\ todo'[Initiator] = HeaderSize
    <3>1. CallsOK /\ Initiator \in Sides
      BY <1>0, TheSides
    <3>2. ASSUME NEW part \in RequestParts, NEW size, NEW timeout,
                 Call(Initiator, part, size, timeout)
          PROVE  at'[Initiator] \in RequestParts
      BY <3>1, <3>2 DEF Call, CallsOK
    <3>3. ASSUME Call(Initiator, "answer header", HeaderSize, ReadTimeout)
          PROVE  at'[Initiator] = "answer header" /\ todo'[Initiator] = HeaderSize
      BY <3>1, <3>3 DEF Call, CallsOK
    <3> QED
      BY <2>3, <3>2, <3>3
  <2> QED
    BY <1>2, <2>1, <2>2, <2>4 DEF RequestParts
<1>11. CASE AnswerHeaderCame
  <2>1. answer # -1
    BY <1>0, <1>11, Numbers DEF AnswerHeaderCame, AnswerInv
  <2>2. p_answer' = answer /\ answer' = answer
    BY <1>11 DEF AnswerHeaderCame
  <2> QED
    BY <2>1, <2>2 DEF AnswerInv
<1>12. CASE AnswerCame
  BY <1>0, <1>12 DEF AnswerCame, AnswerInv, messages
<1>13. CASE Close \/ Destroy
  <2>1. /\ UNCHANGED <<answer, p_answer, flight, outcome>>
        /\ at'[Initiator] \in {"destroy", "gone"}
    BY <1>0, <1>13, LeaveValues, TheSides DEF Close, Destroy, messages
  <2> QED
    BY <1>0, <2>1 DEF AnswerInv
<1>14. CASE ServerStep
  <2>1. CASE Accept \/ HeaderCame \/ RequestCame
    <3>1. \E part, size, timeout : Call(Server, part, size, timeout)
      BY <2>1, Zenon DEF Accept, HeaderCame, RequestCame, Leave
    <3> QED
      BY <1>3, <2>1, <3>1 DEF Accept, HeaderCame, RequestCame, messages, network, socket
  <2>2. CASE Replies
    <3>1. PICK size \in AnswerSizes : Reply(size)
      BY <2>2 DEF Replies
    <3>2. answer = -1 /\ answer' # -1
      BY <1>0, <3>1 DEF Reply, ReceivedInv
    <3>3. at'[Initiator] = at[Initiator] /\ outcome' = outcome
      <4>1. \E part, amount, timeout : Call(Server, part, amount, timeout)
        BY <3>1, Zenon DEF Reply
      <4> QED
        BY <1>0, <3>1, <4>1, ServerCalls DEF Reply, socket
    <3> QED
      BY <1>0, <3>2, <3>3 DEF AnswerInv
  <2>3. CASE AnswerHeaderSent \/ AnswerSent
    <3>1. CASE ~ CloseClient
      <4>1. \E part, size, timeout : Call(Server, part, size, timeout)
        BY <2>3, <3>1, Zenon DEF AnswerHeaderSent, AnswerSent
      <4> QED
        BY <1>3, <2>3, <3>1, <4>1 DEF AnswerHeaderSent, AnswerSent, messages, network, socket
    <3> QED
      BY <1>4, <3>1
  <2>4. CASE GetFieldGoesOn
    BY <1>1, <2>4 DEF GetFieldGoesOn, calls, network, socket
  <2> QED
    BY <1>8, <1>14, <2>1, <2>2, <2>3, <2>4, TheSides DEF ServerStep, Replies
<1>15. CASE \/ Adds \/ Asks \/ ConnectRetry \/ Stall \/ Tick \/ WaitInSend \/ Over
            \/ UNCHANGED vars
  BY <1>1, <1>15
     DEF Adds, Asks, AddRequestField, GetField, ConnectRetry, Stall, Tick, WaitInSend, Over,
         vars, messages, calls, network, socket
<1> QED
  BY <1>8, <1>9, <1>10, <1>11, <1>12, <1>13, <1>14, <1>15, TheSides
     DEF Next, InitiatorStep, Adds, Asks

-----------------------------------------------------------------------------
(***************************************************************************)
(* The theorems.                                                           *)
(***************************************************************************)
LEMMA IInvInit == Init => IInv
<1> SUFFICES ASSUME Init PROVE IInv
  OBVIOUS
<1>1. TypeOK
  BY TypeInit
<1>2. RequestInv
  BY DEF Init, RequestInv, Layout, NewMessage, NoFields
<1>3. ReceivedInv
  <2>1. received.payload_size <= received.message_alloc_size
    BY DEF Init, NewMessage
  <2>2. at[Server] = "accept" /\ ~ handled /\ search = NoSearch /\ answer = -1
    BY DEF Init, Sides, Initiator, Server
  <2> QED
    BY <2>1, <2>2, Zenon DEF ReceivedInv, AnswerParts
<1>4. SearchInv
  BY DEF Init, SearchInv, NoSearch
<1>5. InitiatorInv
  BY DEF Init, InitiatorInv, Done, Sides, Initiator, Server
<1>6. AnswerInv
  BY DEF Init, AnswerInv, Sides, Initiator, Server
<1>7. TimeInv
  <2>1. \A side \in Sides : waited[side] = 0 /\ tv[side] = 0
    BY DEF Init
  <2> QED
    BY <2>1, LimitType DEF TimeInv
<1> QED
  BY <1>1, <1>2, <1>3, <1>4, <1>5, <1>6, <1>7 DEF IInv

LEMMA TypeStep == ASSUME IInv, [Next]_vars PROVE TypeOK'
<1>1. TypeOK /\ RequestInv /\ ReceivedInv /\ SearchInv /\ AnswerInv
  BY DEF IInv
<1>2. CASE InitiatorStep
  BY <1>1, <1>2, TypeInitiator, TypeBytes, TheSides DEF InitiatorStep, SideStep
<1>3. CASE ServerStep
  BY <1>1, <1>3, TypeServer, TypeBytes, TheSides DEF ServerStep, SideStep
<1>4. CASE Stall
  BY <1>1, <1>4, TypeInitiator
<1>5. CASE \E id \in Ids : GetField(id)
  BY <1>1, <1>5, TypeServer
<1>6. CASE \/ \E id \in Ids, size \in FieldSizes : AddRequestField(id, size)
           \/ Tick \/ WaitInSend \/ Over \/ UNCHANGED vars
  BY <1>1, <1>6, TypeBytes
<1> QED
  BY <1>2, <1>3, <1>4, <1>5, <1>6 DEF Next

LEMMA IInvStep == ASSUME IInv, [Next]_vars PROVE IInv'
BY TypeStep, RequestStep, ReceivedStep, LookUpStep, InitiatorInvStep, AnswerInvStep, TimeStep
   DEF IInv

LEMMA IInvAlways == Spec => []IInv
<1>1. IInv /\ [Next]_vars => IInv'
  BY IInvStep
<1> QED
  BY <1>1, IInvInit, PTL DEF Spec

\* Every variable of the exchange keeps its type.
THEOREM ExchangeTypes == Spec => []TypeOK
<1>1. IInv => TypeOK
  BY DEF IInv
<1> QED
  BY <1>1, IInvAlways, PTL

\* Whatever fields a request is made of, and however a look-up goes through
\* them, add_field_to_message and get_field_from_message stay inside the buffer.
THEOREM BuffersHold == Spec => []InsideTheBuffer
<1>1. IInv => InsideTheBuffer
  <2> SUFFICES ASSUME IInv PROVE InsideTheBuffer
    OBVIOUS
  <2>1. /\ request.payload_size <= request.message_alloc_size
        /\ received.payload_size <= received.message_alloc_size
    BY DEF IInv, RequestInv, ReceivedInv
  <2>2. ASSUME search.result = "searching"
        PROVE  /\ search.p_message_pointer + search.size_to_parse = received.payload_size
               /\ search.size_to_parse > 0 =>
                    /\ search.p_message_pointer \in DOMAIN received.fields
                    /\ End(received, search.p_message_pointer) <= received.payload_size
    <3>1. received.fields = request.fields /\ received.payload_size = request.payload_size
      BY <2>2, Handling DEF IInv
    <3>2. search.size_to_parse > 0 =>
            /\ search.p_message_pointer \in DOMAIN request.fields
            /\ End(request, search.p_message_pointer) <= request.payload_size
      BY <2>2 DEF IInv, SearchInv, RequestInv, Layout
    <3> QED
      BY <2>2, <3>1, <3>2 DEF IInv, SearchInv, End
  <2> QED
    BY <2>1, <2>2 DEF InsideTheBuffer, End
<1> QED
  BY <1>1, IInvAlways, PTL

\* get_field_from_message finds the first field with an id, and fails only when
\* the message has none.
THEOREM SearchesFindFirst == Spec => []SearchFindsFirst
<1>1. IInv => SearchFindsFirst
  BY DEF IInv, SearchInv, SearchFindsFirst, AskedFor
<1> QED
  BY <1>1, IInvAlways, PTL

\* No call of send_data or recv_data waits in select beyond its timeout.
THEOREM CallsWaitBounded == Spec => []WaitsAreBounded
<1>1. IInv => WaitsAreBounded
  <2> SUFFICES ASSUME IInv, NEW side \in Sides PROVE waited[side] <= Limit(side, at[side])
    BY DEF WaitsAreBounded, Limit, Sends
  <2>1. waited[side] \in Nat /\ tv[side] \in Nat
    BY DEF IInv, TypeOK
  <2>2. waited[side] + tv[side] <= Limit(side, at[side])
    BY DEF IInv, TimeInv
  <2>3. Limit(side, at[side]) \in Nat
    BY LimitType
  <2> QED
    BY <2>1, <2>2, <2>3
<1> QED
  BY <1>1, IInvAlways, PTL

\* Only an initiator that never got a socket closes a number it does not own.
THEOREM StrayIsUnused == Spec => []OnlyUnusedStray
<1>1. IInv => OnlyUnusedStray
  BY DEF IInv, InitiatorInv, OnlyUnusedStray
<1> QED
  BY <1>1, IInvAlways, PTL

-----------------------------------------------------------------------------
(***************************************************************************)
(* An exchange keeps the promise of ExchangeOutcome.                       *)
(***************************************************************************)
Begun == ~ (at[Initiator] = "prepare" \/ outcome \in {"unused", "no socket"})

LEMMA SentValue == Sent = (IF Begun THEN {request.fields} ELSE {})
BY DEF Sent, Begun

\* What a step must leave alone to leave each variable of ExchangeOutcome alone.
LEMMA Kept ==
  /\ (Begun' <=> Begun) /\ (Begun => UNCHANGED request) => UNCHANGED Sent
  /\ UNCHANGED handled /\ (handled => UNCHANGED received) => UNCHANGED Handled
  /\ UNCHANGED answer => UNCHANGED Replied
  /\ UNCHANGED outcome /\ (outcome = "ok" => UNCHANGED p_answer) => UNCHANGED Got
  /\ UNCHANGED outcome => UNCHANGED Result
<1>1. ASSUME Begun' <=> Begun, Begun => UNCHANGED request PROVE UNCHANGED Sent
  BY <1>1, Zenon DEF Sent, Begun
<1>2. ASSUME UNCHANGED handled, handled => UNCHANGED received PROVE UNCHANGED Handled
  BY <1>2, Zenon DEF Handled
<1>3. UNCHANGED answer => UNCHANGED Replied
  BY DEF Replied
<1>4. UNCHANGED outcome /\ (outcome = "ok" => UNCHANGED p_answer) => UNCHANGED Got
  BY DEF Got
<1>5. UNCHANGED outcome => UNCHANGED Result
  BY DEF Result
<1> QED
  BY <1>1, <1>2, <1>3, <1>4, <1>5

\* The request is complete before anything of it is sent, and what the handler
\* has been given stays.
LEMMA Settled ==
  ASSUME IInv, [Next]_vars
  PROVE  /\ Begun => UNCHANGED request
         /\ handled => UNCHANGED received
<1>1. ASSUME Begun PROVE UNCHANGED request
  BY <1>1, Writers DEF Adds, AddRequestField, Begun
<1>2. ASSUME handled PROVE UNCHANGED received
  <2>1. at[Server] \notin {"request header", "request payload"}
    BY <1>2, Zenon DEF IInv, ReceivedInv
  <2>2. ASSUME HeaderCame PROVE FALSE
    BY <2>1, <2>2 DEF HeaderCame
  <2>3. ASSUME NEW n \in Sizes, RecvSome(Server, n) PROVE UNCHANGED received
    BY <2>1, <2>3 DEF RecvSome
  <2>4. ASSUME NEW n \in Sizes, RecvSome(Initiator, n) PROVE UNCHANGED received
    <3>1. at[Initiator] # "request payload"
      BY <2>4 DEF RecvSome, Sends, RequestParts
    <3> QED
      BY <2>4, <3>1 DEF RecvSome
  <2> QED
    BY <2>2, <2>3, <2>4, Writers
<1> QED
  BY <1>1, <1>2

\* The handler runs when all of the request is there.
LEMMA HandleStep ==
  ASSUME IInv, [Next]_vars, ~ handled, handled', HeaderCame \/ RequestCame
  PROVE  Outcome!Handle
<1>1. received'.fields = request.fields
  <2>1. IInv'
    BY IInvStep
  <2>2. received'.fields = request'.fields
    BY <2>1, Zenon DEF IInv, ReceivedInv
  <2> QED
    BY <2>2 DEF HeaderCame, RequestCame
<1>2. Begun
  BY DEF HeaderCame, RequestCame, IInv, InitiatorInv, Begun
<1>3. CallsOK
  BY TypeParts DEF IInv
<1>4. \E part, size, timeout : Call(Server, part, size, timeout)
  BY Zenon DEF HeaderCame, RequestCame, Leave
<1>5. /\ at'[Initiator] = at[Initiator]
      /\ UNCHANGED <<request, answer, p_answer, outcome>>
  BY <1>3, <1>4, ServerCalls DEF HeaderCame, RequestCame, socket
<1>6. Begun' <=> Begun
  BY <1>5 DEF Begun
<1>7. UNCHANGED <<Sent, Replied, Got, Result>>
  BY <1>5, <1>6, Kept
<1>8. Sent = {request.fields}
  BY <1>2, SentValue
<1>9. Handled = {} /\ Handled' = {request.fields}
  BY <1>1, Zenon DEF Handled
<1> QED
  BY <1>7, <1>8, <1>9 DEF Outcome!Handle

\* An initiator that is under way has no outcome yet; how it ends is its outcome.
LEMMA EndStep ==
  ASSUME IInv, at[Initiator] \in Parts \cup {"connect"}, at'[Initiator] = "close",
         UNCHANGED <<request, received, handled, answer>>
  PROVE  /\ outcome' = "failed" => Outcome!Fail
         /\ /\ outcome' = "ok" /\ p_answer' = answer /\ answer \in AnswerSizes
            => Outcome!Succeed
<1>1. outcome = "none"
  BY DEF IInv, InitiatorInv, Done, Parts, RequestParts, AnswerParts
<1>2. Result = "pending" /\ Got = {} /\ Begun
  BY <1>1 DEF Result, Got, Begun, Parts, RequestParts, AnswerParts
<1>3. UNCHANGED <<Handled, Replied>>
  <2>1. UNCHANGED Handled
    BY Zenon DEF Handled
  <2> QED
    BY <2>1, Kept
<1>4. ASSUME outcome' \in {"ok", "failed"} PROVE UNCHANGED Sent
  <2>1. Begun'
    BY <1>4 DEF Begun
  <2> QED
    BY <1>2, <2>1, Kept
<1>5. ASSUME outcome' = "failed" PROVE Outcome!Fail
  <2>1. Result' = "failed" /\ Got' = {}
    BY <1>5 DEF Result, Got
  <2> QED
    BY <1>2, <1>3, <1>4, <1>5, <2>1 DEF Outcome!Fail
<1>6. ASSUME outcome' = "ok", p_answer' = answer, answer \in AnswerSizes
      PROVE  Outcome!Succeed
  <2>1. Replied = {answer}
    <3>1. answer \in Nat
      BY <1>6, Numbers
    <3> QED
      BY <3>1 DEF Replied
  <2>2. Result' = "ok" /\ Got' = {answer}
    BY <1>6 DEF Result, Got
  <2> QED
    BY <1>2, <1>3, <1>4, <1>6, <2>1, <2>2 DEF Outcome!Succeed
<1> QED
  BY <1>5, <1>6

LEMMA OutcomeStep == ASSUME IInv, [Next]_vars PROVE Outcome!Next \/ UNCHANGED Outcome!vars
<1> DEFINE Goal == Outcome!Next \/ UNCHANGED Outcome!vars
<1>0. /\ CallsOK /\ ReceivedInv /\ InitiatorInv /\ AnswerInv
      /\ answer \in AnswerSizes \/ answer = -1
  BY TypeParts DEF IInv, TypeOK
<1>1. ASSUME UNCHANGED <<handled, answer, outcome>>, Begun' <=> Begun,
             outcome = "ok" => UNCHANGED p_answer
      PROVE  Goal
  BY <1>1, Kept, Settled DEF Outcome!vars
<1>2. ASSUME UNCHANGED <<handled, answer, outcome, p_answer>>,
             at'[Initiator] = at[Initiator]
      PROVE  Goal
  BY <1>1, <1>2 DEF Begun
<1>3. ASSUME CloseClient PROVE Goal
  <2>1. at'[Initiator] = at[Initiator]
    BY <1>0, <1>3, ServerCalls DEF CloseClient, Leave
  <2> QED
    BY <1>2, <1>3, <2>1 DEF CloseClient, messages, socket
<1>4. ASSUME Fail(Initiator), at[Initiator] \in Parts PROVE Goal
  <2>1. /\ at'[Initiator] = "close" /\ outcome' = "failed"
        /\ UNCHANGED <<request, received, handled, answer>>
    BY <1>0, <1>4, LeaveValues, TheSides DEF Fail, messages
  <2> QED
    BY <1>4, <2>1, EndStep DEF Outcome!Next
<1>5. ASSUME NEW side \in Sides, SideStep(side) PROVE Goal
  <2>1. CASE \E n \in Sizes : SendSome(side, n) \/ RecvSome(side, n)
    <3>1. UNCHANGED <<handled, answer, outcome, p_answer, at>>
      BY <2>1 DEF SendSome, RecvSome, messages, socket
    <3> QED
      BY <1>2, <3>1
  <2>2. CASE TimeOut(side) \/ PeerGone(side)
    <3>1. Fail(side) /\ at[side] \in Parts
      BY <2>2 DEF TimeOut, PeerGone, Waiting, InCall
    <3> QED
      BY <1>3, <1>4, <3>1 DEF Fail, Sides
  <2> QED
    BY <1>5, <2>1, <2>2 DEF SideStep
<1>6. ASSUME NothingToSend PROVE Goal
  <2>1. outcome = "none" /\ outcome' = "unused" /\ UNCHANGED <<handled, answer, received>>
    BY <1>0, <1>6 DEF NothingToSend, InitiatorInv, Done, messages
  <2>2. ~ Begun /\ ~ Begun'
    BY <1>6, <2>1 DEF NothingToSend, Begun
  <2>3. UNCHANGED <<Sent, Got, Result>>
    BY <2>1, <2>2, SentValue DEF Sent, Begun, Got, Result
  <2>4. UNCHANGED <<Handled, Replied>>
    BY <2>1, Zenon DEF Handled, Replied
  <2> QED
    BY <2>3, <2>4 DEF Outcome!vars
<1>7. ASSUME Create PROVE Goal
  <2>1. outcome = "none" /\ UNCHANGED <<outcome, handled, answer, received, request, p_answer>>
    BY <1>0, <1>7 DEF Create, InitiatorInv, Done, messages
  <2>2. ~ Begun /\ Begun'
    <3>1. at'[Initiator] = "connect"
      BY <1>0, <1>7, LeaveValues, TheSides DEF Create
    <3> QED
      BY <1>7, <2>1, <3>1 DEF Create, Begun
  <2>3. Sent = {} /\ Sent' # {}
    BY <2>2, SentValue DEF Sent, Begun
  <2>4. UNCHANGED <<Handled, Replied, Got, Result>>
    BY <2>1, Kept
  <2> QED
    BY <2>3, <2>4 DEF Outcome!Send, Outcome!Next
<1>8. ASSUME CreateFails PROVE Goal
  <2>1. outcome = "none" /\ outcome' = "no socket" /\ UNCHANGED <<handled, answer, received>>
    BY <1>0, <1>8 DEF CreateFails, InitiatorInv, Done, messages
  <2>2. Sent = {} /\ Sent' = {}
    BY <1>8, <2>1 DEF CreateFails, Sent
  <2>3. Got = {} /\ Got' = {} /\ Result = "pending" /\ Result' = "failed"
    BY <2>1 DEF Got, Result
  <2>4. UNCHANGED <<Handled, Replied>>
    BY <2>1, Zenon DEF Handled, Replied
  <2> QED
    BY <2>2, <2>3, <2>4 DEF Outcome!Fail, Outcome!Next
<1>9. ASSUME ConnectFails PROVE Goal
  <2>1. /\ at[Initiator] = "connect" /\ at'[Initiator] = "close" /\ outcome' = "failed"
        /\ UNCHANGED <<request, received, handled, answer>>
    BY <1>0, <1>9, LeaveValues, TheSides DEF ConnectFails, messages
  <2> QED
    BY <2>1, EndStep DEF Outcome!Next
<1>10. ASSUME AnswerHeaderCame \/ AnswerCame PROVE Goal
  <2>1. answer \in AnswerSizes
    BY <1>0, <1>10, Numbers DEF AnswerHeaderCame, AnswerCame, AnswerInv
  <2>2. /\ at[Initiator] \in Parts /\ p_answer' = answer
        /\ UNCHANGED <<request, received, handled, answer>>
    BY <1>0, <1>10, TheParts DEF AnswerHeaderCame, AnswerCame, AnswerInv, Parts, messages
  <2>3. CASE Succeed
    <3>1. at'[Initiator] = "close" /\ outcome' = "ok"
      BY <1>0, <2>3, LeaveValues, TheSides DEF Succeed
    <3> QED
      BY <2>1, <2>2, <3>1, EndStep DEF Outcome!Next
  <2>4. CASE ~ Succeed
    <3>1. at'[Initiator] = "answer payload" /\ UNCHANGED outcome
      BY <1>0, <1>10, <2>4, CallValues, TheSides DEF AnswerHeaderCame, AnswerCame
    <3>2. at[Initiator] = "answer header" /\ outcome = "none"
      BY <1>0, <1>10, <2>4 DEF AnswerHeaderCame, AnswerCame, InitiatorInv, Done
    <3> QED
      BY <1>1, <2>2, <3>1, <3>2 DEF Begun
  <2> QED
    BY <2>3, <2>4
<1>11. ASSUME Connect \/ RequestHeaderSent \/ RequestSent \/ Close \/ Destroy PROVE Goal
  <2>1. UNCHANGED <<handled, answer, outcome, p_answer>> /\ at[Initiator] # "prepare"
    BY <1>11 DEF Connect, RequestHeaderSent, RequestSent, Close, Destroy, messages, socket
  <2>2. at'[Initiator] # "prepare"
    <3>1. \E part \in Parts \cup {"destroy", "gone"} : \E size, timeout :
            Call(Initiator, part, size, timeout)
      BY <1>11, TheParts
         DEF Connect, RequestHeaderSent, RequestSent, Close, Destroy, Leave, Parts
    <3>2. at'[Initiator] \in Parts \cup {"destroy", "gone"}
      <4>1. PICK part \in Parts \cup {"destroy", "gone"} : \E size, timeout :
              Call(Initiator, part, size, timeout)
        BY <3>1
      <4> QED
        BY <1>0, <4>1, TheSides DEF Call, CallsOK
    <3> QED
      BY <3>2 DEF Parts, RequestParts, AnswerParts
  <2> QED
    BY <1>1, <2>1, <2>2 DEF Begun
<1>12. ASSUME HeaderCame \/ RequestCame PROVE Goal
  <2>1. ~ handled
    BY <1>0, <1>12, Zenon DEF HeaderCame, RequestCame, ReceivedInv
  <2>2. CASE handled'
    BY <1>12, <2>1, <2>2, HandleStep DEF Outcome!Next
  <2>3. CASE ~ handled'
    <3>1. UNCHANGED Handled
      BY <2>1, <2>3, Zenon DEF Handled
    <3>2. \E part, size, timeout : Call(Server, part, size, timeout)
      BY <1>12, Zenon DEF HeaderCame, RequestCame, Leave
    <3>3. /\ at'[Initiator] = at[Initiator]
          /\ UNCHANGED <<request, answer, p_answer, outcome>>
      BY <1>0, <1>12, <3>2, ServerCalls DEF HeaderCame, RequestCame, socket
    <3>4. Begun' <=> Begun
      BY <3>3 DEF Begun
    <3> QED
      BY <3>1, <3>3, <3>4, Kept DEF Outcome!vars
  <2> QED
    BY <2>2, <2>3
<1>13. ASSUME Replies PROVE Goal
  <2>1. PICK size \in AnswerSizes : Reply(size)
    BY <1>13 DEF Replies
  <2>2. answer = -1 /\ answer' = size
        /\ UNCHANGED <<request, received, handled, p_answer, outcome>>
    BY <1>0, <2>1 DEF Reply, ReceivedInv, socket
  <2>3. handled
    BY <1>0, <2>1, Handling DEF Reply
  <2>4. at'[Initiator] = at[Initiator]
    <3>1. \E part, amount, timeout : Call(Server, part, amount, timeout)
      BY <2>1, Zenon DEF Reply
    <3> QED
      BY <1>0, <3>1, ServerCalls
  <2>5. Replied = {} /\ Replied' # {}
    <3>1. size >= 0
      BY Numbers
    <3> QED
      BY <2>2, <3>1 DEF Replied
  <2>6. Handled # {}
    BY <2>3, Zenon DEF Handled
  <2>7. Begun' <=> Begun
    BY <2>2, <2>4 DEF Begun
  <2>8. UNCHANGED <<Sent, Handled, Got, Result>>
    BY <2>2, <2>7, Kept
  <2> QED
    BY <2>5, <2>6, <2>8 DEF Outcome!Answer, Outcome!Next
<1>14. ASSUME Accept \/ AnswerHeaderSent \/ AnswerSent PROVE Goal
  <2>1. CASE ~ CloseClient
    <3>1. \E part, size, timeout : Call(Server, part, size, timeout)
      BY <1>14, <2>1, Zenon DEF Accept, AnswerHeaderSent, AnswerSent
    <3>2. at'[Initiator] = at[Initiator]
      BY <1>0, <3>1, ServerCalls
    <3> QED
      BY <1>2, <1>14, <2>1, <3>2 DEF Accept, AnswerHeaderSent, AnswerSent, messages, socket
  <2> QED
    BY <1>3, <2>1
<1>15. ASSUME \/ Adds \/ Asks \/ GetFieldGoesOn \/ ConnectRetry \/ Stall \/ Tick
              \/ WaitInSend \/ Over \/ UNCHANGED vars
       PROVE  Goal
  BY <1>2, <1>15
     DEF Adds, Asks, AddRequestField, GetField, GetFieldGoesOn, ConnectRetry, Stall, Tick,
         WaitInSend, Over, vars, messages, calls, network, socket
<1> QED
  BY <1>5, <1>6, <1>7, <1>8, <1>9, <1>10, <1>11, <1>12, <1>13, <1>14, <1>15, TheSides
     DEF Next, InitiatorStep, ServerStep, Adds, Asks, Replies

\* The bytes, parts, timeouts and failures of an exchange implement what it
\* promises: a request is handled whole and once, and the answer that the
\* initiator gets is the one to its request.
THEOREM ExchangeKeepsPromise == Spec => ImplementsOutcome
<1>1. Init => Outcome!Init
  <2> SUFFICES ASSUME Init PROVE Outcome!Init
    OBVIOUS
  <2>1. Sent = {} /\ Replied = {} /\ Got = {} /\ Result = "pending"
    BY DEF Init, Sent, Replied, Got, Result, Sides, Initiator, Server
  <2>2. Handled = {}
    BY DEF Init, Handled
  <2> QED
    BY <2>1, <2>2 DEF Outcome!Init
<1>2. IInv /\ [Next]_vars => [Outcome!Next]_(Outcome!vars)
  BY OutcomeStep
<1> QED
  BY <1>1, <1>2, IInvAlways, PTL DEF Spec, ImplementsOutcome, Outcome!Spec
=============================================================================
