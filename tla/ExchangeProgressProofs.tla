----------------------- MODULE ExchangeProgressProofs -----------------------
(***************************************************************************)
(* More proofs about Exchange, on top of the invariant of ExchangeProofs:  *)
(* that an exchange comes to an end, where the worker of a server can      *)
(* block, and that no byte is left behind.                                 *)
(***************************************************************************)
EXTENDS ExchangeProofs

-----------------------------------------------------------------------------
(***************************************************************************)
(* Every step is progress.                                                 *)
(***************************************************************************)
LEMMA TurnsValues ==
  /\ \A place : Turns(place) \in Nat
  /\ Turns("prepare") = 9 /\ Turns("connect") = 8 /\ Turns("accept") = 8
  /\ Turns("request header") = 7 /\ Turns("request payload") = 6 /\ Turns("handle") = 5
  /\ Turns("answer header") = 4 /\ Turns("answer payload") = 3 /\ Turns("close") = 2
  /\ Turns("destroy") = 1 /\ Turns("gone") = 0 /\ Turns("free") = 0
BY DEF Turns

\* The summands of what is left to do are natural numbers.
LEMMA WorkNumbers ==
  ASSUME TypeOK
  PROVE  /\ MaxPayload - request.payload_size \in Nat /\ try_count \in Nat
         /\ LookUpsLeft \in Nat
         /\ \A side \in Sides : todo[side] \in Nat /\ tv[side] \in Nat
         /\ WorkLeft \in Nat
<1>1. MaxPayload - request.payload_size \in Nat /\ try_count \in Nat
  <2>1. request \in AMessage /\ try_count \in 0 .. Attempts
    BY DEF TypeOK
  <2>2. request.payload_size \in 0 .. MaxPayload
    BY <2>1 DEF AMessage
  <2> QED
    BY <2>1, <2>2, Numbers
<1>2. LookUpsLeft \in Nat
  <2>1. search \in ASearch
    BY DEF TypeOK
  <2>2. search.size_to_parse \in 0 .. MaxPayload
    BY <2>1 DEF ASearch
  <2> QED
    BY <2>2, Numbers DEF LookUpsLeft
<1>3. \A side \in Sides : todo[side] \in Nat /\ tv[side] \in Nat
  BY DEF TypeOK
<1>4. (IF stalled THEN 0 ELSE 1) \in Nat
  OBVIOUS
<1> QED
  BY <1>1, <1>2, <1>3, <1>4, TheSides DEF WorkLeft

\* A side comes to a place further on, the other stays.
LEMMA TurnTaken ==
  ASSUME NEW side \in Sides, Turns(at'[side]) < Turns(at[side]),
         \A other \in Sides \ {side} : at'[other] = at[other]
  PROVE  TurnsLeft' < TurnsLeft
<1>1. /\ TurnsLeft' = Turns(at'[Initiator]) + Turns(at'[Server])
      /\ TurnsLeft = Turns(at[Initiator]) + Turns(at[Server])
  BY DEF TurnsLeft
<1>2. /\ Turns(at'[Initiator]) \in Nat /\ Turns(at'[Server]) \in Nat
      /\ Turns(at[Initiator]) \in Nat /\ Turns(at[Server]) \in Nat
  BY TurnsValues
<1>3. CASE side = Initiator
  BY <1>1, <1>2, <1>3, TheSides
<1>4. CASE side = Server
  BY <1>1, <1>2, <1>4, TheSides
<1> QED
  BY <1>3, <1>4 DEF Sides

\* A side leaves its call, or the exchange, when the other end has given up.
LEMMA FailIsProgress ==
  ASSUME CallsOK, NEW side \in Sides, at[side] \in Parts, Fail(side)
  PROVE  TurnsLeft' < TurnsLeft
<1>1. Turns(at[side]) \in {7, 6, 4, 3}
  <2>1. at[side] \in {"request header", "request payload", "answer header", "answer payload"}
    BY DEF Parts, RequestParts, AnswerParts
  <2> QED
    BY <2>1, TurnsValues
<1>2. \E place \in {"free", "close"} : at' = [at EXCEPT ![side] = place]
  BY DEF Fail, CloseClient, Leave, Call, Sides
<1>3. /\ at'[side] \in {"free", "close"}
      /\ \A other \in Sides \ {side} : at'[other] = at[other]
  BY <1>2 DEF CallsOK
<1>4. Turns(at'[side]) \in {0, 2}
  BY <1>3, TurnsValues
<1>5. Turns(at'[side]) < Turns(at[side])
  BY <1>1, <1>4
<1> QED
  BY <1>3, <1>5, TurnTaken

\* The steps of the initiator that bring it to its next turn.
LEMMA InitiatorTurns ==
  ASSUME CallsOK,
         \/ NothingToSend \/ Create \/ CreateFails \/ Connect \/ ConnectFails
         \/ RequestHeaderSent \/ RequestSent \/ AnswerHeaderCame \/ AnswerCame
         \/ Close \/ Destroy
  PROVE  TurnsLeft' < TurnsLeft
<1> SUFFICES /\ Turns(at'[Initiator]) < Turns(at[Initiator])
             /\ \A other \in Sides \ {Initiator} : at'[other] = at[other]
  BY TurnTaken, TheSides
<1>0. at \in [Sides -> Places(Initiator) \cup Places(Server)]
  BY DEF CallsOK
<1>1. CASE NothingToSend \/ Create \/ CreateFails
  <2>1. /\ at[Initiator] = "prepare"
        /\ \E place \in {"connect", "close", "destroy"} : at' = [at EXCEPT ![Initiator] = place]
    BY <1>1 DEF NothingToSend, Create, CreateFails, Leave, Call
  <2>2. /\ at'[Initiator] \in {"connect", "close", "destroy"}
        /\ \A other \in Sides \ {Initiator} : at'[other] = at[other]
    BY <1>0, <2>1, TheSides
  <2>3. Turns(at[Initiator]) = 9 /\ Turns(at'[Initiator]) \in {8, 2, 1}
    BY <2>1, <2>2, TurnsValues
  <2>4. Turns(at'[Initiator]) < Turns(at[Initiator])
    BY ONLY <2>3
  <2> QED
    BY <2>2, <2>4
<1>2. CASE Connect \/ ConnectFails
  <2>1. /\ at[Initiator] = "connect"
        /\ \E place \in {"request header", "close"} : at' = [at EXCEPT ![Initiator] = place]
    BY <1>2 DEF Connect, ConnectFails, Leave, Call
  <2>2. /\ at'[Initiator] \in {"request header", "close"}
        /\ \A other \in Sides \ {Initiator} : at'[other] = at[other]
    BY <1>0, <2>1, TheSides
  <2>3. Turns(at[Initiator]) = 8 /\ Turns(at'[Initiator]) \in {7, 2}
    BY <2>1, <2>2, TurnsValues
  <2>4. Turns(at'[Initiator]) < Turns(at[Initiator])
    BY ONLY <2>3
  <2> QED
    BY <2>2, <2>4
<1>3. CASE RequestHeaderSent
  <2>1. /\ at[Initiator] = "request header"
        /\ \E place \in {"request payload", "answer header"} :
             at' = [at EXCEPT ![Initiator] = place]
    BY <1>3 DEF RequestHeaderSent, Call
  <2>2. /\ at'[Initiator] \in {"request payload", "answer header"}
        /\ \A other \in Sides \ {Initiator} : at'[other] = at[other]
    BY <1>0, <2>1, TheSides
  <2>3. Turns(at[Initiator]) = 7 /\ Turns(at'[Initiator]) \in {6, 4}
    BY <2>1, <2>2, TurnsValues
  <2>4. Turns(at'[Initiator]) < Turns(at[Initiator])
    BY ONLY <2>3
  <2> QED
    BY <2>2, <2>4
<1>4. CASE RequestSent
  <2>1. at[Initiator] = "request payload" /\ at' = [at EXCEPT ![Initiator] = "answer header"]
    BY <1>4 DEF RequestSent, Call
  <2>2. /\ at'[Initiator] \in {"answer header"}
        /\ \A other \in Sides \ {Initiator} : at'[other] = at[other]
    BY <1>0, <2>1, TheSides
  <2>3. Turns(at[Initiator]) = 6 /\ Turns(at'[Initiator]) \in {4}
    BY <2>1, <2>2, TurnsValues
  <2>4. Turns(at'[Initiator]) < Turns(at[Initiator])
    BY ONLY <2>3
  <2> QED
    BY <2>2, <2>4
<1>5. CASE AnswerHeaderCame
  <2>1. /\ at[Initiator] = "answer header"
        /\ \E place \in {"answer payload", "close"} : at' = [at EXCEPT ![Initiator] = place]
    BY <1>5 DEF AnswerHeaderCame, Succeed, Leave, Call
  <2>2. /\ at'[Initiator] \in {"answer payload", "close"}
        /\ \A other \in Sides \ {Initiator} : at'[other] = at[other]
    BY <1>0, <2>1, TheSides
  <2>3. Turns(at[Initiator]) = 4 /\ Turns(at'[Initiator]) \in {3, 2}
    BY <2>1, <2>2, TurnsValues
  <2>4. Turns(at'[Initiator]) < Turns(at[Initiator])
    BY ONLY <2>3
  <2> QED
    BY <2>2, <2>4
<1>6. CASE AnswerCame
  <2>1. at[Initiator] = "answer payload" /\ at' = [at EXCEPT ![Initiator] = "close"]
    BY <1>6 DEF AnswerCame, Succeed, Leave, Call
  <2>2. /\ at'[Initiator] \in {"close"}
        /\ \A other \in Sides \ {Initiator} : at'[other] = at[other]
    BY <1>0, <2>1, TheSides
  <2>3. Turns(at[Initiator]) = 3 /\ Turns(at'[Initiator]) \in {2}
    BY <2>1, <2>2, TurnsValues
  <2>4. Turns(at'[Initiator]) < Turns(at[Initiator])
    BY ONLY <2>3
  <2> QED
    BY <2>2, <2>4
<1>7. CASE Close
  <2>1. at[Initiator] = "close" /\ at' = [at EXCEPT ![Initiator] = "destroy"]
    BY <1>7 DEF Close, Leave, Call
  <2>2. /\ at'[Initiator] \in {"destroy"}
        /\ \A other \in Sides \ {Initiator} : at'[other] = at[other]
    BY <1>0, <2>1, TheSides
  <2>3. Turns(at[Initiator]) = 2 /\ Turns(at'[Initiator]) \in {1}
    BY <2>1, <2>2, TurnsValues
  <2>4. Turns(at'[Initiator]) < Turns(at[Initiator])
    BY ONLY <2>3
  <2> QED
    BY <2>2, <2>4
<1>8. CASE Destroy
  <2>1. at[Initiator] = "destroy" /\ at' = [at EXCEPT ![Initiator] = "gone"]
    BY <1>8 DEF Destroy, Leave, Call
  <2>2. /\ at'[Initiator] \in {"gone"}
        /\ \A other \in Sides \ {Initiator} : at'[other] = at[other]
    BY <1>0, <2>1, TheSides
  <2>3. Turns(at[Initiator]) = 1 /\ Turns(at'[Initiator]) \in {0}
    BY <2>1, <2>2, TurnsValues
  <2>4. Turns(at'[Initiator]) < Turns(at[Initiator])
    BY ONLY <2>3
  <2> QED
    BY <2>2, <2>4
<1> QED
  BY <1>1, <1>2, <1>3, <1>4, <1>5, <1>6, <1>7, <1>8

\* The steps of the server that bring it to its next turn.
LEMMA ServerTurns ==
  ASSUME CallsOK,
         \/ Accept \/ HeaderCame \/ RequestCame \/ Replies
         \/ AnswerHeaderSent \/ AnswerSent
  PROVE  TurnsLeft' < TurnsLeft
<1> SUFFICES /\ Turns(at'[Server]) < Turns(at[Server])
             /\ \A other \in Sides \ {Server} : at'[other] = at[other]
  BY TurnTaken, TheSides
<1>0. at \in [Sides -> Places(Initiator) \cup Places(Server)]
  BY DEF CallsOK
<1>1. CASE Accept
  <2>1. at[Server] = "accept" /\ at' = [at EXCEPT ![Server] = "request header"]
    BY <1>1 DEF Accept, Call
  <2>2. /\ at'[Server] \in {"request header"}
        /\ \A other \in Sides \ {Server} : at'[other] = at[other]
    BY <1>0, <2>1, TheSides
  <2>3. Turns(at[Server]) = 8 /\ Turns(at'[Server]) \in {7}
    BY <2>1, <2>2, TurnsValues
  <2>4. Turns(at'[Server]) < Turns(at[Server])
    BY ONLY <2>3
  <2> QED
    BY <2>2, <2>4
<1>2. CASE HeaderCame
  <2>1. /\ at[Server] = "request header"
        /\ \E place \in {"request payload", "handle"} : at' = [at EXCEPT ![Server] = place]
    BY <1>2 DEF HeaderCame, Leave, Call
  <2>2. /\ at'[Server] \in {"request payload", "handle"}
        /\ \A other \in Sides \ {Server} : at'[other] = at[other]
    BY <1>0, <2>1, TheSides
  <2>3. Turns(at[Server]) = 7 /\ Turns(at'[Server]) \in {6, 5}
    BY <2>1, <2>2, TurnsValues
  <2>4. Turns(at'[Server]) < Turns(at[Server])
    BY ONLY <2>3
  <2> QED
    BY <2>2, <2>4
<1>3. CASE RequestCame
  <2>1. at[Server] = "request payload" /\ at' = [at EXCEPT ![Server] = "handle"]
    BY <1>3 DEF RequestCame, Leave, Call
  <2>2. /\ at'[Server] \in {"handle"}
        /\ \A other \in Sides \ {Server} : at'[other] = at[other]
    BY <1>0, <2>1, TheSides
  <2>3. Turns(at[Server]) = 6 /\ Turns(at'[Server]) \in {5}
    BY <2>1, <2>2, TurnsValues
  <2>4. Turns(at'[Server]) < Turns(at[Server])
    BY ONLY <2>3
  <2> QED
    BY <2>2, <2>4
<1>4. CASE Replies
  <2>1. at[Server] = "handle" /\ at' = [at EXCEPT ![Server] = "answer header"]
    BY <1>4 DEF Replies, Reply, Call
  <2>2. /\ at'[Server] \in {"answer header"}
        /\ \A other \in Sides \ {Server} : at'[other] = at[other]
    BY <1>0, <2>1, TheSides
  <2>3. Turns(at[Server]) = 5 /\ Turns(at'[Server]) \in {4}
    BY <2>1, <2>2, TurnsValues
  <2>4. Turns(at'[Server]) < Turns(at[Server])
    BY ONLY <2>3
  <2> QED
    BY <2>2, <2>4
<1>5. CASE AnswerHeaderSent
  <2>1. /\ at[Server] = "answer header"
        /\ \E place \in {"answer payload", "free"} : at' = [at EXCEPT ![Server] = place]
    BY <1>5 DEF AnswerHeaderSent, CloseClient, Leave, Call
  <2>2. /\ at'[Server] \in {"answer payload", "free"}
        /\ \A other \in Sides \ {Server} : at'[other] = at[other]
    BY <1>0, <2>1, TheSides
  <2>3. Turns(at[Server]) = 4 /\ Turns(at'[Server]) \in {3, 0}
    BY <2>1, <2>2, TurnsValues
  <2>4. Turns(at'[Server]) < Turns(at[Server])
    BY ONLY <2>3
  <2> QED
    BY <2>2, <2>4
<1>6. CASE AnswerSent
  <2>1. at[Server] = "answer payload" /\ at' = [at EXCEPT ![Server] = "free"]
    BY <1>6 DEF AnswerSent, CloseClient, Leave, Call
  <2>2. /\ at'[Server] \in {"free"}
        /\ \A other \in Sides \ {Server} : at'[other] = at[other]
    BY <1>0, <2>1, TheSides
  <2>3. Turns(at[Server]) = 3 /\ Turns(at'[Server]) \in {0}
    BY <2>1, <2>2, TurnsValues
  <2>4. Turns(at'[Server]) < Turns(at[Server])
    BY ONLY <2>3
  <2> QED
    BY <2>2, <2>4
<1> QED
  BY <1>1, <1>2, <1>3, <1>4, <1>5, <1>6

\* Bytes are moved, or time passes.
LEMMA CallIsProgress ==
  ASSUME IInv, TypeOK',
         \/ \E side \in Sides, n \in Sizes : SendSome(side, n) \/ RecvSome(side, n)
         \/ Tick
  PROVE  TurnsLeft' = TurnsLeft /\ WorkLeft' < WorkLeft
<1>0. /\ TypeOK
      /\ todo \in [Sides -> Nat] /\ tv \in [Sides -> Nat]
      /\ todo' \in [Sides -> Nat] /\ tv' \in [Sides -> Nat]
  BY DEF IInv, TypeOK
<1>1. UNCHANGED <<request, search, at, stalled, try_count>>
  BY DEF SendSome, RecvSome, Tick, messages, network, socket
<1>2. TurnsLeft' = TurnsLeft
  BY <1>1 DEF TurnsLeft
<1>3. LookUpsLeft' = LookUpsLeft
  BY <1>1 DEF LookUpsLeft
<1>4. todo'[Initiator] + todo'[Server] + tv'[Initiator] + tv'[Server]
        < todo[Initiator] + todo[Server] + tv[Initiator] + tv[Server]
  <2>1. CASE \E side \in Sides, n \in Sizes : SendSome(side, n) \/ RecvSome(side, n)
    <3>1. PICK side \in Sides, n \in Sizes : SendSome(side, n) \/ RecvSome(side, n)
      BY <2>1
    <3>2. /\ todo' = [todo EXCEPT ![side] = todo[side] - n] /\ tv' = tv
          /\ n <= todo[side]
      BY <3>1 DEF SendSome, RecvSome
    <3>3. n \in Nat /\ n > 0
      BY Numbers DEF Sizes
    <3>4. /\ todo'[side] < todo[side]
          /\ \A other \in Sides \ {side} : todo'[other] = todo[other]
      BY <1>0, <3>2, <3>3
    <3>5. side = Initiator \/ side = Server
      BY DEF Sides
    <3> QED
      BY <1>0, <3>2, <3>4, <3>5, TheSides
  <2>2. CASE Tick
    <3>1. \A side \in Sides : /\ Waiting(side) => tv[side] > 0 /\ tv'[side] = tv[side] - 1
                              /\ ~ Waiting(side) => tv'[side] = tv[side]
      BY <2>2 DEF Tick
    <3>2. \E side \in Sides : Waiting(side)
      BY <2>2 DEF Tick
    <3>3. todo' = todo
      BY <2>2 DEF Tick
    <3>4. /\ \A side \in Sides : tv'[side] <= tv[side]
          /\ \E side \in Sides : tv'[side] < tv[side]
      BY <1>0, <3>1, <3>2
    <3>5. \/ tv'[Initiator] < tv[Initiator] /\ tv'[Server] <= tv[Server]
          \/ tv'[Initiator] <= tv[Initiator] /\ tv'[Server] < tv[Server]
      BY <3>4, TheSides DEF Sides
    <3> QED
      BY <1>0, <3>3, <3>5, TheSides
  <2> QED
    BY <2>1, <2>2
<1>5. /\ todo'[Initiator] + todo'[Server] + tv'[Initiator] + tv'[Server] \in Nat
      /\ todo[Initiator] + todo[Server] + tv[Initiator] + tv[Server] \in Nat
  BY <1>0, TheSides
<1> QED
  BY <1>0, <1>1, <1>2, <1>3, <1>4, <1>5, WorkNumbers, TheSides DEF WorkLeft

\* A look-up begins, or passes a field: each has a header at least.
LEMMA LookUpIsProgress ==
  ASSUME IInv, TypeOK', Asks \/ GetFieldGoesOn
  PROVE  LookUpsLeft' < LookUpsLeft
<1>0. TypeOK /\ received \in AMessage /\ search \in ASearch
  BY DEF IInv, TypeOK
<1>1. CASE Asks
  <2>1. PICK id \in Ids : GetField(id)
    BY <1>1 DEF Asks
  <2>2. /\ search.result = "none" /\ search'.result = "searching"
        /\ search'.size_to_parse = received.payload_size
    BY <2>1 DEF GetField, NoSearch, StartSearch
  <2>3. received.payload_size \in 0 .. MaxPayload
    BY <1>0 DEF AMessage
  <2> QED
    BY <2>2, <2>3, Numbers DEF LookUpsLeft
<1>2. CASE GetFieldGoesOn
  <2> DEFINE here == search.p_message_pointer
             left == search.size_to_parse
  <2>1. /\ search.result = "searching" /\ search' = SearchStep(received, search)
        /\ left \in Nat
    BY <1>0, <1>2, Numbers DEF GetFieldGoesOn, ASearch
  <2>2. CASE search' = [search EXCEPT !.result = "RESULT_INVALID_PARAM"]
    <3>1. search'.result = "RESULT_INVALID_PARAM"
      BY <1>0, <2>2 DEF ASearch
    <3> QED
      BY <2>1, <3>1 DEF LookUpsLeft
  <2>3. CASE search' = [search EXCEPT !.result = "RESULT_OK"]
    <3>1. search'.result = "RESULT_OK"
      BY <1>0, <2>3 DEF ASearch
    <3> QED
      BY <2>1, <3>1 DEF LookUpsLeft
  <2>4. CASE /\ left > 0
             /\ search' = [search EXCEPT
                  !.size_to_parse = Uint(left - (FieldHeader + received.fields[here].size)),
                  !.p_message_pointer = here + FieldHeader + received.fields[here].size]
    <3>1. /\ search'.result = "searching"
          /\ search'.size_to_parse = Uint(left - (FieldHeader + received.fields[here].size))
      BY <1>0, <2>1, <2>4 DEF ASearch
    <3>2. /\ received.fields = request.fields
          /\ received.payload_size = request.payload_size
      BY <2>1, Handling DEF IInv
    <3>3. /\ here \in DOMAIN request.fields /\ here + left = request.payload_size
          /\ Layout(request) /\ request \in AMessage
      BY <2>1, <2>4 DEF IInv, SearchInv, RequestInv, TypeOK
    <3>4. /\ here \in Nat /\ request.fields[here].size \in Nat
          /\ End(request, here) <= request.payload_size
      BY <3>3, FieldFacts
    <3>5. /\ left - (FieldHeader + request.fields[here].size) \in 0 .. UintLimit - 1
          /\ left - (FieldHeader + request.fields[here].size) < left
      <4>1. /\ FieldHeader \in Nat \ {0} /\ UintLimit \in Nat /\ left <= MaxPayload
            /\ MaxPayload < UintLimit
        BY <1>0, MessageAssumption, ExchangeAssumption DEF ASearch
      <4> HIDE DEF here, left
      <4> QED
        BY <2>1, <3>3, <3>4, <4>1, Numbers DEF End
    <3>6. Uint(left - (FieldHeader + request.fields[here].size))
            = left - (FieldHeader + request.fields[here].size)
      BY <3>5, UintSmall
    <3>7. search'.size_to_parse < left /\ search'.size_to_parse \in Nat
      BY <3>1, <3>2, <3>5, <3>6
    <3> QED
      BY <2>1, <3>1, <3>7 DEF LookUpsLeft
  <2> QED
    BY <2>1, <2>2, <2>3, <2>4 DEF SearchStep
<1> QED
  BY <1>1, <1>2

\* What the two ends do without a call.
LEMMA PreparationIsProgress ==
  ASSUME IInv, TypeOK', Adds \/ Asks \/ GetFieldGoesOn \/ ConnectRetry \/ Stall
  PROVE  TurnsLeft' = TurnsLeft /\ WorkLeft' < WorkLeft
<1>0. TypeOK
  BY DEF IInv
<1>1. UNCHANGED <<at, todo, tv>>
  BY DEF Adds, AddRequestField, Asks, GetField, GetFieldGoesOn, ConnectRetry, Stall, calls
<1>2. TurnsLeft' = TurnsLeft
  BY <1>1 DEF TurnsLeft
<1>3. /\ MaxPayload - request.payload_size \in Nat /\ try_count \in Nat /\ LookUpsLeft \in Nat
      /\ MaxPayload - request'.payload_size \in Nat /\ try_count' \in Nat
      /\ LookUpsLeft' \in Nat
      /\ todo[Initiator] \in Nat /\ todo[Server] \in Nat
      /\ tv[Initiator] \in Nat /\ tv[Server] \in Nat
  <2>1. LookUpsLeft' \in Nat
    <3>1. search' \in ASearch
      BY DEF TypeOK
    <3>2. search'.size_to_parse \in 0 .. MaxPayload
      BY <3>1 DEF ASearch
    <3> QED
      BY <3>2, Numbers DEF LookUpsLeft
  <2>2. MaxPayload - request'.payload_size \in Nat /\ try_count' \in Nat
    <3>1. request' \in AMessage /\ try_count' \in 0 .. Attempts
      BY DEF TypeOK
    <3>2. request'.payload_size \in 0 .. MaxPayload
      BY <3>1 DEF AMessage
    <3> QED
      BY <3>1, <3>2, Numbers
  <2> QED
    BY <1>0, <2>1, <2>2, WorkNumbers, TheSides
<1>4. CASE Adds
  <2>1. PICK id \in Ids, size \in FieldSizes : AddRequestField(id, size)
    BY <1>4 DEF Adds
  <2>2. /\ request \in AMessage /\ request.payload_size + FieldHeader + size <= MaxPayload
        /\ request' = AddField(request, id, size)
        /\ UNCHANGED <<search, stalled, try_count>>
    BY <1>0, <2>1 DEF AddRequestField, TypeOK, network, socket
  <2>3. request'.payload_size = request.payload_size + FieldHeader + size
    BY <2>2, AllocHolds DEF AddField
  <2>4. request'.payload_size > request.payload_size
    BY <2>2, <2>3, MessageAssumption, ExchangeAssumption DEF AMessage
  <2>5. /\ LookUpsLeft' = LookUpsLeft
        /\ request.payload_size \in Nat /\ request'.payload_size \in Nat
    BY <2>2, <2>3, MessageAssumption, ExchangeAssumption DEF LookUpsLeft, AMessage
  <2> QED
    BY <1>1, <1>2, <1>3, <2>2, <2>4, <2>5, Numbers DEF WorkLeft
<1>5. CASE Asks \/ GetFieldGoesOn
  <2>1. UNCHANGED <<request, stalled, try_count>>
    BY <1>5 DEF Asks, GetField, GetFieldGoesOn, network, socket
  <2>2. LookUpsLeft' < LookUpsLeft
    BY <1>5, LookUpIsProgress
  <2> QED
    BY <1>1, <1>2, <1>3, <2>1, <2>2 DEF WorkLeft
<1>6. CASE ConnectRetry
  <2>1. UNCHANGED <<request, search, stalled>> /\ try_count' = try_count - 1
    BY <1>6 DEF ConnectRetry, messages, network
  <2>2. LookUpsLeft' = LookUpsLeft
    BY <2>1 DEF LookUpsLeft
  <2> QED
    BY <1>1, <1>2, <1>3, <2>1, <2>2 DEF WorkLeft
<1>7. CASE Stall
  <2>1. UNCHANGED <<request, search, try_count>> /\ ~ stalled /\ stalled'
    BY <1>7 DEF Stall, messages, socket
  <2>2. LookUpsLeft' = LookUpsLeft
    BY <2>1 DEF LookUpsLeft
  <2> QED
    BY <1>1, <1>2, <1>3, <2>1, <2>2 DEF WorkLeft
<1> QED
  BY <1>4, <1>5, <1>6, <1>7

\* Both measures are natural numbers, so no exchange goes on for ever: every
\* loop of send_data, recv_data, connect and get_field_from_message ends, in
\* whatever pieces the bytes come and whoever gives up when (socket.cpp,
\* socket_client.cpp, message.cpp).
THEOREM ExchangesEnd == Spec => [](TurnsLeft \in Nat /\ WorkLeft \in Nat) /\ EveryStepIsProgress
<1>1. IInv => TurnsLeft \in Nat /\ WorkLeft \in Nat
  <2>1. Turns(at[Initiator]) \in Nat /\ Turns(at[Server]) \in Nat
    BY TurnsValues
  <2> QED
    BY <2>1, WorkNumbers DEF IInv, TurnsLeft
<1>2. IInv /\ [Next]_vars =>
        [ TurnsLeft' < TurnsLeft \/ (TurnsLeft' = TurnsLeft /\ WorkLeft' < WorkLeft) ]_vars
  <2> SUFFICES ASSUME IInv, [Next]_vars
               PROVE  \/ TurnsLeft' < TurnsLeft
                      \/ TurnsLeft' = TurnsLeft /\ WorkLeft' < WorkLeft
                      \/ UNCHANGED vars
    OBVIOUS
  <2>0. TypeOK' /\ CallsOK
    BY TypeStep, TypeParts DEF IInv
  <2>1. ASSUME NEW side \in Sides, SideStep(side)
        PROVE  \/ TurnsLeft' < TurnsLeft
               \/ TurnsLeft' = TurnsLeft /\ WorkLeft' < WorkLeft
    <3>1. CASE TimeOut(side) \/ PeerGone(side)
      <4>1. at[side] \in Parts /\ Fail(side)
        BY <3>1 DEF TimeOut, PeerGone, Waiting, InCall
      <4> QED
        BY <2>0, <4>1, FailIsProgress
    <3>2. CASE \E n \in Sizes : SendSome(side, n) \/ RecvSome(side, n)
      BY <2>0, <3>2, CallIsProgress
    <3> QED
      BY <2>1, <3>1, <3>2 DEF SideStep
  <2>2. CASE InitiatorStep \/ Stall
    BY <2>0, <2>1, <2>2, InitiatorTurns, PreparationIsProgress, TheSides DEF InitiatorStep
  <2>3. CASE ServerStep
    BY <2>0, <2>1, <2>3, ServerTurns, PreparationIsProgress, TheSides
       DEF ServerStep, Replies
  <2>4. CASE Adds \/ Asks
    BY <2>0, <2>4, PreparationIsProgress
  <2>5. CASE Tick
    BY <2>0, <2>5, CallIsProgress
  <2>6. CASE WaitInSend \/ Over \/ UNCHANGED vars
    BY <2>6 DEF WaitInSend, Over
  <2> QED
    BY <2>2, <2>3, <2>4, <2>5, <2>6 DEF Next, Adds, Asks
<1> QED
  BY <1>1, <1>2, IInvAlways, PTL DEF Spec, EveryStepIsProgress

-----------------------------------------------------------------------------
(***************************************************************************)
(* Where the bytes of the two messages are.                                *)
(***************************************************************************)
\* How much of a message a side has moved that is in a call with so much left.
RequestMoved(place, left, size) ==
  IF place \in {"prepare", "connect", "accept"} THEN 0
  ELSE IF place = "request header" THEN HeaderSize - left
  ELSE IF place = "request payload" THEN HeaderSize + size - left
  ELSE HeaderSize + size

AnswerMoved(place, left, size) ==
  IF place = "answer header" THEN HeaderSize - left
  ELSE IF place = "answer payload" THEN HeaderSize + size - left
  ELSE 0

RequestAt(side) == RequestMoved(at[side], todo[side], request.payload_size)
AnswerAt(side) == AnswerMoved(at[side], todo[side], answer)

PartSize(part) ==
  IF part = "request payload" THEN request.payload_size
  ELSE IF part = "answer payload" THEN answer
  ELSE HeaderSize

CallInv == \A side \in Sides : at[side] \in Parts => todo[side] <= PartSize(at[side])

StartInv ==
  at[Initiator] \in {"prepare", "connect"} =>
    /\ at[Server] = "accept" /\ ~ open[Server]
    /\ flight[Initiator] = 0 /\ flight[Server] = 0

\* What one side has written, the other has read or it is on its way.
RequestFlow ==
  at[Initiator] \in Parts =>
    /\ at[Server] # "free" => flight[Initiator] + RequestAt(Server) = RequestAt(Initiator)
    /\ handled => /\ flight[Initiator] = 0
                  /\ RequestAt(Initiator) = HeaderSize + request.payload_size

AnswerFlow ==
  /\ at[Initiator] \in Parts =>
       /\ at[Server] # "free" => flight[Server] + AnswerAt(Initiator) = AnswerAt(Server)
       /\ answer # -1 => flight[Server] + AnswerAt(Initiator) <= HeaderSize + answer
  /\ at[Server] # "free" => flight[Server] <= AnswerAt(Server)

EndInv ==
  outcome = "ok" => /\ flight[Initiator] = 0 /\ flight[Server] = 0
                    /\ at[Server] # "free" => AnswerAt(Server) = HeaderSize + answer

FlowInv == CallInv /\ StartInv /\ RequestFlow /\ AnswerFlow /\ EndInv

\* The numbers of FlowInv.
LEMMA FlowNumbers ==
  ASSUME TypeOK
  PROVE  /\ HeaderSize \in Nat \ {0}
         /\ todo[Initiator] \in Nat /\ todo[Server] \in Nat
         /\ flight[Initiator] \in Nat /\ flight[Server] \in Nat
         /\ request.payload_size \in Nat
         /\ answer \in Int /\ (answer \in Nat \/ answer = -1)
         /\ at[Initiator] \in Places(Initiator) /\ at[Server] \in Places(Server)
<1>1. request \in AMessage /\ answer \in AnswerSizes \cup {-1}
  BY DEF TypeOK
<1>2. request.payload_size \in Nat /\ (answer \in Nat \/ answer = -1)
  BY <1>1, ExchangeAssumption DEF AMessage
<1>3. flight[Initiator] \in 0 .. SocketBuffer /\ flight[Server] \in 0 .. SocketBuffer
  BY TheSides DEF TypeOK
<1>4. /\ todo[Initiator] \in Nat /\ todo[Server] \in Nat
      /\ at[Initiator] \in Places(Initiator) /\ at[Server] \in Places(Server)
  BY TheSides DEF TypeOK
<1> QED
  BY <1>2, <1>3, <1>4, ExchangeAssumption

\* Bytes that are moved count for the message that they belong to.
LEMMA MovedValues ==
  ASSUME NEW left, NEW size
  PROVE  /\ RequestMoved("prepare", left, size) = 0
         /\ RequestMoved("connect", left, size) = 0
         /\ RequestMoved("accept", left, size) = 0
         /\ RequestMoved("request header", left, size) = HeaderSize - left
         /\ RequestMoved("request payload", left, size) = HeaderSize + size - left
         /\ RequestMoved("handle", left, size) = HeaderSize + size
         /\ AnswerMoved("answer header", left, size) = HeaderSize - left
         /\ AnswerMoved("answer payload", left, size) = HeaderSize + size - left
BY Zenon DEF RequestMoved, AnswerMoved

LEMMA RequestIsSent ==
  ASSUME NEW left, NEW size, NEW place \in AnswerParts
  PROVE  RequestMoved(place, left, size) = HeaderSize + size
BY Zenon DEF RequestMoved, AnswerParts

LEMMA NoAnswerYet ==
  ASSUME NEW left, NEW size, NEW place, place \notin AnswerParts
  PROVE  AnswerMoved(place, left, size) = 0
BY Zenon DEF AnswerMoved, AnswerParts

\* Before a call nothing of its part has been moved, after it all of it.
LEMMA MovedAtEnds ==
  ASSUME NEW size \in Int
  PROVE  /\ RequestMoved("request header", HeaderSize, size) = 0
         /\ RequestMoved("request header", 0, size) = HeaderSize
         /\ RequestMoved("request payload", size, size) = HeaderSize
         /\ RequestMoved("request payload", 0, size) = HeaderSize + size
         /\ AnswerMoved("answer header", HeaderSize, size) = 0
         /\ AnswerMoved("answer header", 0, size) = HeaderSize
         /\ AnswerMoved("answer payload", size, size) = HeaderSize
         /\ AnswerMoved("answer payload", 0, size) = HeaderSize + size
<1>1. /\ HeaderSize - HeaderSize = 0 /\ HeaderSize - 0 = HeaderSize
      /\ HeaderSize + size - size = HeaderSize /\ HeaderSize + size - 0 = HeaderSize + size
  BY ExchangeAssumption
<1>2. /\ RequestMoved("request header", HeaderSize, size) = HeaderSize - HeaderSize
      /\ RequestMoved("request header", 0, size) = HeaderSize - 0
      /\ RequestMoved("request payload", size, size) = HeaderSize + size - size
      /\ RequestMoved("request payload", 0, size) = HeaderSize + size - 0
      /\ AnswerMoved("answer header", HeaderSize, size) = HeaderSize - HeaderSize
      /\ AnswerMoved("answer header", 0, size) = HeaderSize - 0
      /\ AnswerMoved("answer payload", size, size) = HeaderSize + size - size
      /\ AnswerMoved("answer payload", 0, size) = HeaderSize + size - 0
  BY MovedValues
<1> QED
  BY <1>1, <1>2

LEMMA MovedNumbers ==
  ASSUME NEW left \in Int, NEW size \in Int
  PROVE  /\ \A place : RequestMoved(place, left, size) \in Int
         /\ \A place : AnswerMoved(place, left, size) \in Int
BY ExchangeAssumption DEF RequestMoved, AnswerMoved

LEMMA RequestBytes ==
  ASSUME NEW left \in Int, NEW size \in Int, NEW n \in Int, NEW place \in RequestParts
  PROVE  RequestMoved(place, left - n, size) = RequestMoved(place, left, size) + n
<1>1. HeaderSize \in Int
  BY ExchangeAssumption
<1>2. /\ RequestMoved("request header", left - n, size) = HeaderSize - (left - n)
      /\ RequestMoved("request payload", left - n, size) = HeaderSize + size - (left - n)
      /\ RequestMoved("request header", left, size) = HeaderSize - left
      /\ RequestMoved("request payload", left, size) = HeaderSize + size - left
  BY MovedValues
<1>3. /\ HeaderSize - (left - n) = (HeaderSize - left) + n
      /\ HeaderSize + size - (left - n) = (HeaderSize + size - left) + n
  BY <1>1
<1> QED
  BY <1>2, <1>3, Zenon DEF RequestParts

LEMMA AnswerBytes ==
  ASSUME NEW left \in Int, NEW size \in Int, NEW n \in Int, NEW place \in AnswerParts
  PROVE  AnswerMoved(place, left - n, size) = AnswerMoved(place, left, size) + n
<1>1. HeaderSize \in Int
  BY ExchangeAssumption
<1>2. /\ AnswerMoved("answer header", left - n, size) = HeaderSize - (left - n)
      /\ AnswerMoved("answer payload", left - n, size) = HeaderSize + size - (left - n)
      /\ AnswerMoved("answer header", left, size) = HeaderSize - left
      /\ AnswerMoved("answer payload", left, size) = HeaderSize + size - left
  BY MovedValues
<1>3. /\ HeaderSize - (left - n) = (HeaderSize - left) + n
      /\ HeaderSize + size - (left - n) = (HeaderSize + size - left) + n
  BY <1>1
<1> QED
  BY <1>2, <1>3, Zenon DEF AnswerParts

\* Steps that move no bytes, and no side.
LEMMA FlowQuiet ==
  ASSUME FlowInv,
         UNCHANGED <<at, todo, flight, open, answer, handled, outcome>>,
         request'.payload_size = request.payload_size
  PROVE  FlowInv'
BY DEF FlowInv, CallInv, StartInv, RequestFlow, AnswerFlow, EndInv, RequestAt, AnswerAt,
       PartSize, RequestMoved, AnswerMoved

LEMMA PartSizeType == ASSUME TypeOK PROVE \A part : PartSize(part) \in Int
<1>1. request.payload_size \in Int /\ answer \in Int /\ HeaderSize \in Int
  BY FlowNumbers
<1> QED
  BY <1>1, Zenon DEF PartSize

\* Of a call, less is left to do.
LEMMA CallShrinks ==
  ASSUME TypeOK, CallInv, at' = at, UNCHANGED <<request, answer>>,
         NEW side \in Sides, NEW n \in Nat, todo'[side] = todo[side] - n,
         \A other \in Sides \ {side} : todo'[other] = todo[other]
  PROVE  CallInv'
<1>1. \A part : PartSize(part)' = PartSize(part)
  BY DEF PartSize
<1>2. ASSUME NEW other \in Sides, at'[other] \in Parts
      PROVE  todo'[other] <= PartSize(at'[other])
  <2>1. todo[other] <= PartSize(at[other])
    BY <1>2 DEF CallInv
  <2>2. todo[other] \in Int /\ PartSize(at[other]) \in Int
    <3>1. todo[other] \in Int
      BY FlowNumbers DEF Sides
    <3> QED
      BY <3>1, PartSizeType
  <2>3. todo'[other] = todo[other] \/ todo'[other] = todo[other] - n
    OBVIOUS
  <2> QED
    BY <2>1, <2>2, <2>3
<1> QED
  BY <1>1, <1>2 DEF CallInv

\* Bytes are moved.
LEMMA FlowSend ==
  ASSUME IInv, TypeOK', FlowInv, NEW side \in Sides, NEW n \in Sizes, SendSome(side, n)
  PROVE  FlowInv'
<1>0. /\ TypeOK /\ CallsOK /\ NetworkOK /\ n \in Nat /\ n # 0
  BY TypeParts, Numbers DEF IInv, Sizes
<1>1. /\ at' = at /\ UNCHANGED <<open, answer, handled, outcome, request>>
      /\ n <= todo[side]
      /\ todo'[side] = todo[side] - n /\ flight'[side] = flight[side] + n
      /\ \A other \in Sides \ {side} :
           todo'[other] = todo[other] /\ flight'[other] = flight[other]
  BY <1>0 DEF SendSome, CallsOK, NetworkOK, messages, socket
<1>2. /\ HeaderSize \in Nat
      /\ todo[Initiator] \in Nat /\ todo[Server] \in Nat
      /\ flight[Initiator] \in Nat /\ flight[Server] \in Nat
      /\ request.payload_size \in Nat
  BY FlowNumbers DEF IInv
<1>3. CASE side = Initiator
  <2>1. /\ at[Initiator] \in RequestParts /\ outcome # "ok"
        /\ todo'[Initiator] = todo[Initiator] - n /\ flight'[Initiator] = flight[Initiator] + n
        /\ todo'[Server] = todo[Server] /\ flight'[Server] = flight[Server]
        /\ n <= todo[Initiator]
    BY <1>1, <1>3, TheSides DEF SendSome, Sends, IInv, InitiatorInv, Done, RequestParts
  <2>2. /\ RequestAt(Initiator)' = RequestAt(Initiator) + n /\ RequestAt(Server)' = RequestAt(Server)
        /\ AnswerAt(Initiator)' = AnswerAt(Initiator) /\ AnswerAt(Server)' = AnswerAt(Server)
    <3>1. /\ RequestAt(Initiator)' = RequestMoved(at[Initiator], todo[Initiator] - n, request.payload_size)
          /\ RequestAt(Initiator) = RequestMoved(at[Initiator], todo[Initiator], request.payload_size)
      BY <1>1, <2>1 DEF RequestAt
    <3>2. todo[Initiator] \in Int /\ request.payload_size \in Int /\ n \in Int /\ at[Initiator] \in RequestParts
      BY <1>0, <1>2, <2>1
    <3>3. RequestMoved(at[Initiator], todo[Initiator] - n, request.payload_size)
            = RequestMoved(at[Initiator], todo[Initiator], request.payload_size) + n
      BY <3>2, RequestBytes
    <3>4. RequestAt(Server)' = RequestAt(Server) /\ AnswerAt(Server)' = AnswerAt(Server)
      BY <1>1, <2>1 DEF RequestAt, AnswerAt
    <3>5. AnswerAt(Initiator)' = AnswerAt(Initiator)
      <4>1. at[Initiator] \notin AnswerParts /\ at'[Initiator] \notin AnswerParts
        BY <1>1, <2>1 DEF RequestParts, AnswerParts
      <4>2. AnswerAt(Initiator) = 0
        BY <4>1, NoAnswerYet DEF AnswerAt
      <4>3. AnswerAt(Initiator)' = 0
        BY <4>1, NoAnswerYet DEF AnswerAt
      <4> QED
        BY <4>2, <4>3
    <3> QED
      BY <3>1, <3>3, <3>4, <3>5
  <2>3. CallInv'
    BY <1>0, <1>1, <1>2, CallShrinks DEF FlowInv
  <2>4. StartInv'
    BY <1>1, <2>1 DEF StartInv, RequestParts
  <2>5. /\ RequestAt(Initiator) \in Int /\ RequestAt(Server) \in Int
        /\ todo[Initiator] <= PartSize(at[Initiator])
    BY <1>2, <2>1, TheSides, MovedNumbers DEF RequestAt, FlowInv, CallInv, Parts
  <2>6. handled => n <= 0
    <3>1. handled => RequestAt(Initiator) = HeaderSize + request.payload_size
      BY <2>1 DEF FlowInv, RequestFlow, Parts
    <3>2. \/ RequestAt(Initiator) = HeaderSize - todo[Initiator]
          \/ RequestAt(Initiator) = HeaderSize + request.payload_size - todo[Initiator]
      <4>1. at[Initiator] = "request header" \/ at[Initiator] = "request payload"
        BY <2>1 DEF RequestParts
      <4>2. RequestAt(Initiator)
              = RequestMoved(at[Initiator], todo[Initiator], request.payload_size)
        BY DEF RequestAt
      <4> QED
        BY <4>1, <4>2, MovedValues, Zenon
    <3> QED
      BY <1>0, <1>2, <2>1, <3>1, <3>2
  <2>7. RequestFlow'
    BY <1>0, <1>1, <1>2, <2>1, <2>2, <2>5, <2>6 DEF FlowInv, RequestFlow
  <2>8. AnswerFlow' /\ EndInv'
    BY <1>1, <2>1, <2>2 DEF FlowInv, AnswerFlow, EndInv
  <2> QED
    BY <2>3, <2>4, <2>7, <2>8 DEF FlowInv
<1>4. CASE side = Server
  <2>1. /\ at[Server] \in AnswerParts
        /\ todo'[Server] = todo[Server] - n /\ flight'[Server] = flight[Server] + n
        /\ todo'[Initiator] = todo[Initiator] /\ flight'[Initiator] = flight[Initiator]
        /\ n <= todo[Server]
    BY <1>1, <1>4, TheSides DEF SendSome, Sends
  <2>2. answer \in Nat /\ todo[Server] <= PartSize(at[Server])
    BY <2>1, TheSides, Numbers DEF IInv, ReceivedInv, FlowInv, CallInv, Parts
  <2>3. /\ RequestAt(Initiator)' = RequestAt(Initiator) /\ RequestAt(Server)' = RequestAt(Server)
        /\ AnswerAt(Initiator)' = AnswerAt(Initiator)
        /\ AnswerAt(Server)' = AnswerAt(Server) + n
    <3>1. /\ AnswerAt(Server)' = AnswerMoved(at[Server], todo[Server] - n, answer)
          /\ AnswerAt(Server) = AnswerMoved(at[Server], todo[Server], answer)
      BY <1>1, <2>1 DEF AnswerAt
    <3>2. todo[Server] \in Int /\ answer \in Int /\ n \in Int /\ at[Server] \in AnswerParts
      BY <1>0, <1>2, <2>1, <2>2
    <3>3. AnswerMoved(at[Server], todo[Server] - n, answer)
            = AnswerMoved(at[Server], todo[Server], answer) + n
      BY <3>2, AnswerBytes
    <3>4. RequestAt(Initiator)' = RequestAt(Initiator) /\ AnswerAt(Initiator)' = AnswerAt(Initiator)
      BY <1>1, <2>1 DEF RequestAt, AnswerAt
    <3>5. RequestAt(Server)' = RequestAt(Server)
      <4>1. at[Server] \in AnswerParts /\ at'[Server] \in AnswerParts
        BY <1>1, <2>1
      <4>2. RequestAt(Server) = HeaderSize + request.payload_size
        BY <4>1, RequestIsSent DEF RequestAt
      <4>3. RequestAt(Server)' = HeaderSize + request'.payload_size
        BY <4>1, RequestIsSent DEF RequestAt
      <4> QED
        BY <1>1, <4>2, <4>3
    <3> QED
      BY <3>1, <3>3, <3>4, <3>5
  <2>4. /\ AnswerAt(Server) + n <= HeaderSize + answer
        /\ AnswerAt(Server) \in Int /\ AnswerAt(Initiator) \in Int
    <3>1. \/ AnswerAt(Server) = HeaderSize - todo[Server]
          \/ AnswerAt(Server) = HeaderSize + answer - todo[Server]
      BY <2>1, MovedValues DEF AnswerAt, AnswerParts
    <3>2. AnswerAt(Server) + n <= HeaderSize + answer
      BY <1>0, <1>2, <2>1, <2>2, <3>1
    <3>3. answer \in Int /\ todo[Initiator] \in Int /\ todo[Server] \in Int
      BY <1>2, <2>2
    <3>4. AnswerAt(Server) \in Int /\ AnswerAt(Initiator) \in Int
      BY <3>3, MovedNumbers DEF AnswerAt
    <3> QED
      BY <3>2, <3>4
  <2>5. CallInv'
    BY <1>0, <1>1, <1>2, CallShrinks DEF FlowInv
  <2>6. StartInv'
    BY <1>1, <2>1 DEF StartInv, FlowInv, AnswerParts
  <2>7. RequestFlow'
    BY <1>1, <2>1, <2>3 DEF FlowInv, RequestFlow
  <2>8. AnswerFlow'
    <3>1. at[Server] # "free"
      BY <2>1 DEF AnswerParts
    <3>2. /\ AnswerFlow /\ at' = at /\ answer' = answer
          /\ flight'[Server] = flight[Server] + n
      BY <1>1, <2>1 DEF FlowInv
    <3>3. flight'[Server] <= AnswerAt(Server)'
      BY <1>0, <1>2, <2>3, <2>4, <3>1, <3>2 DEF AnswerFlow
    <3>4. ASSUME at[Initiator] \in Parts
          PROVE  /\ flight'[Server] + AnswerAt(Initiator)' = AnswerAt(Server)'
                 /\ flight'[Server] + AnswerAt(Initiator)' <= HeaderSize + answer
      BY <1>0, <1>2, <2>2, <2>3, <2>4, <3>1, <3>2, <3>4, ExchangeAssumption DEF AnswerFlow
    <3> QED
      BY <3>2, <3>3, <3>4 DEF AnswerFlow
  <2>9. EndInv'
    <3>1. /\ outcome = "ok" => AnswerAt(Server) = HeaderSize + answer
          /\ UNCHANGED outcome
      BY <1>1, <2>1 DEF FlowInv, EndInv, AnswerParts
    <3>2. outcome # "ok"
      BY <1>0, <1>2, <2>2, <2>4, <3>1, ExchangeAssumption
    <3> QED
      BY <3>1, <3>2 DEF EndInv
  <2> QED
    BY <2>5, <2>6, <2>7, <2>8, <2>9 DEF FlowInv
<1> QED
  BY <1>3, <1>4 DEF Sides

LEMMA FlowRecv ==
  ASSUME IInv, TypeOK', FlowInv, NEW side \in Sides, NEW n \in Sizes, RecvSome(side, n)
  PROVE  FlowInv'
<1>0. /\ TypeOK /\ CallsOK /\ NetworkOK /\ n \in Nat /\ n # 0
  BY TypeParts, Numbers DEF IInv, Sizes
<1>1. /\ at' = at /\ UNCHANGED <<open, answer, handled, outcome, request>>
      /\ n <= todo[side] /\ n <= flight[Other(side)] /\ Other(side) \in Sides
      /\ todo'[side] = todo[side] - n /\ flight'[Other(side)] = flight[Other(side)] - n
      /\ \A other \in Sides \ {side} : todo'[other] = todo[other]
      /\ \A other \in Sides \ {Other(side)} : flight'[other] = flight[other]
  BY <1>0, TheSides DEF RecvSome, CallsOK, NetworkOK, socket, Other
<1>2. /\ HeaderSize \in Nat
      /\ todo[Initiator] \in Nat /\ todo[Server] \in Nat
      /\ flight[Initiator] \in Nat /\ flight[Server] \in Nat
      /\ request.payload_size \in Nat
  BY FlowNumbers DEF IInv
<1>3. CASE side = Server
  <2>1. /\ at[Server] \in RequestParts /\ answer = -1 /\ ~ handled
        /\ todo'[Server] = todo[Server] - n /\ flight'[Initiator] = flight[Initiator] - n
        /\ todo'[Initiator] = todo[Initiator] /\ flight'[Server] = flight[Server]
        /\ n <= todo[Server] /\ n <= flight[Initiator]
    BY <1>1, <1>3, TheSides
       DEF RecvSome, Sends, InCall, Parts, Other, IInv, ReceivedInv, RequestParts
  <2>2. /\ RequestAt(Initiator)' = RequestAt(Initiator)
        /\ RequestAt(Server)' = RequestAt(Server) + n
        /\ AnswerAt(Initiator)' = AnswerAt(Initiator) /\ AnswerAt(Server)' = AnswerAt(Server)
    <3>1. /\ RequestAt(Server)' = RequestMoved(at[Server], todo[Server] - n, request.payload_size)
          /\ RequestAt(Server) = RequestMoved(at[Server], todo[Server], request.payload_size)
      BY <1>1, <2>1 DEF RequestAt
    <3>2. todo[Server] \in Int /\ request.payload_size \in Int /\ n \in Int /\ at[Server] \in RequestParts
      BY <1>0, <1>2, <2>1
    <3>3. RequestMoved(at[Server], todo[Server] - n, request.payload_size)
            = RequestMoved(at[Server], todo[Server], request.payload_size) + n
      BY <3>2, RequestBytes
    <3>4. RequestAt(Initiator)' = RequestAt(Initiator) /\ AnswerAt(Initiator)' = AnswerAt(Initiator)
      BY <1>1, <2>1 DEF RequestAt, AnswerAt
    <3>5. AnswerAt(Server)' = AnswerAt(Server)
      <4>1. at[Server] \notin AnswerParts /\ at'[Server] \notin AnswerParts
        BY <1>1, <2>1 DEF RequestParts, AnswerParts
      <4>2. AnswerAt(Server) = 0
        BY <4>1, NoAnswerYet DEF AnswerAt
      <4>3. AnswerAt(Server)' = 0
        BY <4>1, NoAnswerYet DEF AnswerAt
      <4> QED
        BY <4>2, <4>3
    <3> QED
      BY <3>1, <3>3, <3>4, <3>5
  <2>3. CallInv'
    BY <1>0, <1>1, <1>2, CallShrinks DEF FlowInv
  <2>4. StartInv'
    BY <1>1, <2>1 DEF StartInv, FlowInv, RequestParts
  <2>5. RequestAt(Initiator) \in Int /\ RequestAt(Server) \in Int
    BY <1>2, MovedNumbers DEF RequestAt
  <2>6. RequestFlow'
    BY <1>0, <1>1, <1>2, <2>1, <2>2, <2>5 DEF FlowInv, RequestFlow
  <2>7. AnswerFlow' /\ EndInv'
    BY <1>1, <2>1, <2>2 DEF FlowInv, AnswerFlow, EndInv, IInv, AnswerInv
  <2> QED
    BY <2>3, <2>4, <2>6, <2>7 DEF FlowInv
<1>4. CASE side = Initiator
  <2>1. /\ at[Initiator] \in AnswerParts /\ outcome # "ok"
        /\ todo'[Initiator] = todo[Initiator] - n /\ flight'[Server] = flight[Server] - n
        /\ todo'[Server] = todo[Server] /\ flight'[Initiator] = flight[Initiator]
        /\ n <= todo[Initiator] /\ n <= flight[Server]
    BY <1>1, <1>4, TheSides
       DEF RecvSome, Sends, InCall, Parts, Other, IInv, InitiatorInv, Done, AnswerParts
  <2>2. answer \in Nat
    <3>1. flight[Server] # 0
      BY <1>0, <1>2, <2>1
    <3>2. answer # -1
      BY <3>1 DEF IInv, AnswerInv
    <3> QED
      BY <1>0, <3>2, FlowNumbers
  <2>3. /\ RequestAt(Initiator)' = RequestAt(Initiator) /\ RequestAt(Server)' = RequestAt(Server)
        /\ AnswerAt(Initiator)' = AnswerAt(Initiator) + n
        /\ AnswerAt(Server)' = AnswerAt(Server)
    <3>1. /\ AnswerAt(Initiator)' = AnswerMoved(at[Initiator], todo[Initiator] - n, answer)
          /\ AnswerAt(Initiator) = AnswerMoved(at[Initiator], todo[Initiator], answer)
      BY <1>1, <2>1 DEF AnswerAt
    <3>2. todo[Initiator] \in Int /\ answer \in Int /\ n \in Int /\ at[Initiator] \in AnswerParts
      BY <1>0, <1>2, <2>1, <2>2
    <3>3. AnswerMoved(at[Initiator], todo[Initiator] - n, answer)
            = AnswerMoved(at[Initiator], todo[Initiator], answer) + n
      BY <3>2, AnswerBytes
    <3>4. RequestAt(Server)' = RequestAt(Server) /\ AnswerAt(Server)' = AnswerAt(Server)
      BY <1>1, <2>1 DEF RequestAt, AnswerAt
    <3>5. RequestAt(Initiator)' = RequestAt(Initiator)
      <4>1. at[Initiator] \in AnswerParts /\ at'[Initiator] \in AnswerParts
        BY <1>1, <2>1
      <4>2. RequestAt(Initiator) = HeaderSize + request.payload_size
        BY <4>1, RequestIsSent DEF RequestAt
      <4>3. RequestAt(Initiator)' = HeaderSize + request'.payload_size
        BY <4>1, RequestIsSent DEF RequestAt
      <4> QED
        BY <1>1, <4>2, <4>3
    <3> QED
      BY <3>1, <3>3, <3>4, <3>5
  <2>4. AnswerAt(Server) \in Int /\ AnswerAt(Initiator) \in Int
    BY <1>2, <2>2, MovedNumbers DEF AnswerAt
  <2>5. CallInv'
    BY <1>0, <1>1, <1>2, CallShrinks DEF FlowInv
  <2>6. StartInv'
    BY <1>1, <2>1 DEF StartInv, AnswerParts
  <2>7. RequestFlow'
    BY <1>1, <2>1, <2>3 DEF FlowInv, RequestFlow
  <2>8. AnswerFlow'
    BY <1>0, <1>1, <1>2, <2>1, <2>2, <2>3, <2>4 DEF FlowInv, AnswerFlow
  <2>9. EndInv'
    BY <1>1, <2>1 DEF EndInv
  <2> QED
    BY <2>5, <2>6, <2>7, <2>8, <2>9 DEF FlowInv
<1> QED
  BY <1>3, <1>4 DEF Sides

\* A side leaves: the initiator its exchange, the server its client.
LEMMA FlowLeave ==
  ASSUME FlowInv, UNCHANGED <<flight, answer, request>>, at'[Initiator] \in Done,
         at'[Server] = at[Server], todo'[Server] = todo[Server],
         outcome' = "ok" => outcome = "ok"
  PROVE  FlowInv'
<1>1. AnswerAt(Server)' = AnswerAt(Server) /\ \A part : PartSize(part)' = PartSize(part)
  BY DEF AnswerAt, PartSize
<1>2. at'[Initiator] \notin Parts \cup {"prepare", "connect"}
  BY DEF Done, Parts, RequestParts, AnswerParts
<1>3. CallInv'
  BY <1>1, <1>2 DEF FlowInv, CallInv, Sides
<1>4. StartInv' /\ RequestFlow'
  BY <1>2 DEF StartInv, RequestFlow
<1>5. AnswerFlow' /\ EndInv'
  BY <1>1, <1>2 DEF FlowInv, AnswerFlow, EndInv
<1> QED
  BY <1>3, <1>4, <1>5 DEF FlowInv

LEMMA FlowFree ==
  ASSUME FlowInv, UNCHANGED <<flight, answer, request, handled, outcome>>,
         at[Server] # "accept", at'[Server] = "free",
         at'[Initiator] = at[Initiator], todo'[Initiator] = todo[Initiator]
  PROVE  FlowInv'
<1>1. /\ RequestAt(Initiator)' = RequestAt(Initiator)
      /\ AnswerAt(Initiator)' = AnswerAt(Initiator)
      /\ \A part : PartSize(part)' = PartSize(part)
  BY DEF RequestAt, AnswerAt, PartSize
<1>2. at'[Server] \notin Parts
  BY DEF Parts, RequestParts, AnswerParts
<1>3. CallInv'
  BY <1>1, <1>2 DEF FlowInv, CallInv, Sides
<1>4. StartInv' /\ RequestFlow'
  BY <1>1 DEF FlowInv, StartInv, RequestFlow
<1>5. AnswerFlow' /\ EndInv'
  BY <1>1 DEF FlowInv, AnswerFlow, EndInv
<1> QED
  BY <1>3, <1>4, <1>5 DEF FlowInv

\* A side comes from one call to the next.
LEMMA FlowInitiatorCall ==
  ASSUME FlowInv, UNCHANGED <<flight, answer, request, handled>>, outcome' # "ok",
         at[Initiator] \in Parts, at'[Initiator] \in Parts,
         todo'[Initiator] <= PartSize(at'[Initiator]),
         RequestAt(Initiator)' = RequestAt(Initiator),
         AnswerAt(Initiator)' = AnswerAt(Initiator),
         at'[Server] = at[Server], todo'[Server] = todo[Server]
  PROVE  FlowInv'
<1>1. /\ RequestAt(Server)' = RequestAt(Server) /\ AnswerAt(Server)' = AnswerAt(Server)
      /\ \A part : PartSize(part)' = PartSize(part)
  BY DEF RequestAt, AnswerAt, PartSize
<1>2. at'[Initiator] \notin {"prepare", "connect"}
  BY DEF Parts, RequestParts, AnswerParts
<1>3. CallInv'
  BY <1>1 DEF FlowInv, CallInv, Sides
<1>4. StartInv' /\ RequestFlow'
  BY <1>1, <1>2 DEF FlowInv, StartInv, RequestFlow
<1>5. AnswerFlow' /\ EndInv'
  BY <1>1 DEF FlowInv, AnswerFlow, EndInv
<1> QED
  BY <1>3, <1>4, <1>5 DEF FlowInv

LEMMA RequestBound ==
  ASSUME TypeOK, at[Initiator] \in Parts
  PROVE  /\ RequestAt(Initiator) \in Int
         /\ RequestAt(Initiator) <= HeaderSize + request.payload_size
<1>1. /\ HeaderSize \in Nat /\ todo[Initiator] \in Nat /\ request.payload_size \in Nat
  BY FlowNumbers
<1>2. RequestAt(Initiator) = RequestMoved(at[Initiator], todo[Initiator], request.payload_size)
  BY DEF RequestAt
<1>3. \/ RequestAt(Initiator) = HeaderSize - todo[Initiator]
      \/ RequestAt(Initiator) = HeaderSize + request.payload_size - todo[Initiator]
      \/ RequestAt(Initiator) = HeaderSize + request.payload_size
  <2>1. CASE at[Initiator] \in AnswerParts
    BY <1>2, <2>1, RequestIsSent
  <2>2. CASE at[Initiator] = "request header"
    BY <1>2, <2>2, MovedValues, Zenon
  <2>3. CASE at[Initiator] = "request payload"
    BY <1>2, <2>3, MovedValues, Zenon
  <2> QED
    BY <2>1, <2>2, <2>3 DEF Parts, RequestParts
<1> QED
  BY <1>1, <1>3

LEMMA FlowServerCall ==
  ASSUME TypeOK, FlowInv, UNCHANGED <<flight, answer, request, outcome>>,
         at[Initiator] \notin {"prepare", "connect"},
         at[Server] # "free", at'[Server] # "free",
         at'[Server] \in Parts => todo'[Server] <= PartSize(at'[Server]),
         RequestAt(Server)' = RequestAt(Server), AnswerAt(Server)' = AnswerAt(Server),
         at'[Initiator] = at[Initiator], todo'[Initiator] = todo[Initiator],
         handled' => handled \/ RequestAt(Server) = HeaderSize + request.payload_size
  PROVE  FlowInv'
<1>1. /\ RequestAt(Initiator)' = RequestAt(Initiator)
      /\ AnswerAt(Initiator)' = AnswerAt(Initiator)
      /\ \A part : PartSize(part)' = PartSize(part)
  BY DEF RequestAt, AnswerAt, PartSize
<1>2. CallInv'
  BY <1>1 DEF FlowInv, CallInv, Sides
<1>3. StartInv'
  BY DEF StartInv
<1>4. ASSUME at[Initiator] \in Parts, handled'
      PROVE  flight[Initiator] = 0 /\ RequestAt(Initiator) = HeaderSize + request.payload_size
  <2>1. CASE handled
    BY <1>4, <2>1 DEF FlowInv, RequestFlow
  <2>2. CASE RequestAt(Server) = HeaderSize + request.payload_size
    <3>1. flight[Initiator] + RequestAt(Server) = RequestAt(Initiator)
      BY <1>4 DEF FlowInv, RequestFlow
    <3>2. /\ RequestAt(Initiator) \in Int
          /\ RequestAt(Initiator) <= HeaderSize + request.payload_size
      BY <1>4, RequestBound
    <3>3. HeaderSize \in Nat /\ request.payload_size \in Nat /\ flight[Initiator] \in Nat
      BY FlowNumbers
    <3> QED
      BY <2>2, <3>1, <3>2, <3>3
  <2> QED
    BY <1>4, <2>1, <2>2
<1>5. RequestFlow'
  BY <1>1, <1>4 DEF FlowInv, RequestFlow
<1>6. AnswerFlow' /\ EndInv'
  BY <1>1 DEF FlowInv, AnswerFlow, EndInv
<1> QED
  BY <1>2, <1>3, <1>5, <1>6 DEF FlowInv

\* The server begins to answer: nothing of an answer has been sent or read.
LEMMA FlowReply ==
  ASSUME IInv, FlowInv, NEW size \in AnswerSizes, Reply(size) PROVE FlowInv'
<1>1. /\ at[Server] = "handle" /\ handled /\ answer = -1 /\ answer' = size /\ size \in Nat
      /\ UNCHANGED <<flight, request, handled, outcome>>
  BY Numbers DEF IInv, ReceivedInv, Reply, network, socket
<1>2. /\ at'[Server] = "answer header" /\ todo'[Server] = HeaderSize
      /\ at'[Initiator] = at[Initiator] /\ todo'[Initiator] = todo[Initiator]
  BY TypeParts, CallValues, TheSides DEF IInv, Reply
<1>3. /\ flight[Server] = 0 /\ outcome # "ok" /\ at[Initiator] # "answer payload"
      /\ at[Initiator] = "answer header" => todo[Initiator] = HeaderSize
  BY <1>1 DEF IInv, AnswerInv
<1>4. HeaderSize \in Nat \ {0} /\ flight[Initiator] \in Nat /\ todo[Initiator] \in Nat
  BY FlowNumbers DEF IInv
<1>5. AnswerAt(Server)' = 0
  <2>1. AnswerAt(Server)' = AnswerMoved("answer header", HeaderSize, answer')
    BY <1>2 DEF AnswerAt
  <2>2. AnswerMoved("answer header", HeaderSize, answer') = HeaderSize - HeaderSize
    BY MovedValues
  <2>3. HeaderSize - HeaderSize = 0
    BY <1>4
  <2> QED
    BY <2>1, <2>2, <2>3, Zenon
<1>6. AnswerAt(Initiator)' = 0
  <2>1. CASE at[Initiator] = "answer header"
    <3>1. AnswerAt(Initiator)' = HeaderSize - HeaderSize
      <4>1. at'[Initiator] = "answer header" /\ todo'[Initiator] = HeaderSize
        BY <1>2, <1>3, <2>1
      <4> QED
        BY <4>1, MovedValues, Zenon DEF AnswerAt
    <3> QED
      BY <1>4, <3>1
  <2>2. CASE at[Initiator] # "answer header"
    <3>1. at'[Initiator] \notin AnswerParts
      BY <1>2, <1>3, <2>2 DEF AnswerParts
    <3> QED
      BY <3>1, NoAnswerYet DEF AnswerAt
  <2> QED
    BY <2>1, <2>2
<1>7. RequestAt(Initiator)' = RequestAt(Initiator) /\ RequestAt(Server)' = RequestAt(Server)
  <2>1. RequestAt(Initiator)' = RequestAt(Initiator)
    BY <1>1, <1>2 DEF RequestAt
  <2>2. RequestAt(Server) = HeaderSize + request.payload_size
    <3>1. RequestAt(Server) = RequestMoved("handle", todo[Server], request.payload_size)
      BY <1>1 DEF RequestAt
    <3> QED
      BY <3>1, MovedValues
  <2>3. RequestAt(Server)' = HeaderSize + request'.payload_size
    BY <1>2, TheParts, RequestIsSent DEF RequestAt
  <2> QED
    BY <1>1, <2>1, <2>2, <2>3
<1>8. CallInv'
  <2>1. todo'[Server] <= PartSize(at[Server])'
    <3>1. PartSize(at[Server])' = HeaderSize
      BY <1>2, Zenon DEF PartSize
    <3>2. HeaderSize <= HeaderSize
      BY <1>4
    <3> QED
      BY <1>2, <3>1, <3>2, Zenon
  <2>2. at'[Initiator] \in Parts => todo'[Initiator] <= PartSize(at[Initiator])'
    <3>1. PartSize(at[Initiator])' = PartSize(at[Initiator])
      BY <1>1, <1>2, <1>3 DEF PartSize
    <3> QED
      BY <1>2, <3>1, TheSides DEF FlowInv, CallInv
  <2> QED
    BY <2>1, <2>2 DEF CallInv, Sides
<1>9. StartInv'
  BY <1>1, <1>2 DEF FlowInv, StartInv
<1>10. RequestFlow'
  BY <1>1, <1>2, <1>7 DEF FlowInv, RequestFlow
<1>11. AnswerFlow' /\ EndInv'
  <2>1. flight'[Server] = 0 /\ answer' \in Nat /\ outcome' # "ok"
    BY <1>1, <1>3
  <2>2. /\ flight'[Server] + AnswerAt(Initiator)' = AnswerAt(Server)'
        /\ flight'[Server] + AnswerAt(Initiator)' <= HeaderSize + answer'
        /\ flight'[Server] <= AnswerAt(Server)'
    <3>1. 0 + 0 = 0 /\ 0 <= 0
      OBVIOUS
    <3>2. 0 + 0 <= HeaderSize + size
      <4>1. HeaderSize \in Nat /\ size \in Nat
        BY <1>1, <1>4
      <4> QED
        BY <4>1
    <3> QED
      BY <1>1, <1>5, <1>6, <2>1, <3>1, <3>2, Zenon
  <2> QED
    BY <2>1, <2>2 DEF AnswerFlow, EndInv
<1> QED
  BY <1>8, <1>9, <1>10, <1>11 DEF FlowInv

\* The request is still being made.
LEMMA FlowPrepare ==
  ASSUME IInv, FlowInv, Adds PROVE FlowInv'
<1>1. PICK id \in Ids, size \in FieldSizes : AddRequestField(id, size)
  BY DEF Adds
<1>2. /\ at[Initiator] = "prepare" /\ outcome # "ok" /\ at[Server] = "accept"
      /\ UNCHANGED <<at, todo, flight, open, answer, handled, outcome>>
  BY <1>1 DEF AddRequestField, IInv, InitiatorInv, Done, FlowInv, StartInv, calls, network,
              socket
<1>3. at[Initiator] \notin Parts /\ at[Server] \notin Parts
  BY <1>2 DEF Parts, RequestParts, AnswerParts
<1>4. AnswerAt(Server)' = AnswerAt(Server)
  BY <1>2 DEF AnswerAt
<1>5. CallInv' /\ RequestFlow'
  BY <1>2, <1>3 DEF CallInv, RequestFlow, Sides
<1>6. StartInv' /\ AnswerFlow' /\ EndInv'
  BY <1>2, <1>3, <1>4 DEF FlowInv, StartInv, AnswerFlow, EndInv
<1> QED
  BY <1>5, <1>6 DEF FlowInv

\* The connection is there, and the initiator begins to send.
LEMMA FlowConnect ==
  ASSUME IInv, FlowInv, Create \/ Connect PROVE FlowInv'
<1>1. CASE Create
  <2>1. /\ at[Initiator] = "prepare" /\ at'[Initiator] = "connect" /\ outcome # "ok"
        /\ UNCHANGED <<flight, open, answer, handled, request, outcome>>
        /\ at'[Server] = at[Server] /\ todo'[Server] = todo[Server]
    BY <1>1, TypeParts, LeaveValues, TheSides
       DEF Create, messages, network, IInv, InitiatorInv, Done
  <2>2. at[Server] = "accept" /\ at'[Initiator] \notin Parts
    BY <2>1 DEF FlowInv, StartInv, Parts, RequestParts, AnswerParts
  <2>3. at[Server] \notin Parts
    BY <2>2 DEF Parts, RequestParts, AnswerParts
  <2>4. AnswerAt(Server)' = AnswerAt(Server)
    BY <2>1 DEF AnswerAt
  <2>5. CallInv' /\ RequestFlow'
    BY <2>1, <2>2, <2>3 DEF CallInv, RequestFlow, Sides
  <2>6. StartInv' /\ AnswerFlow' /\ EndInv'
    BY <2>1, <2>2, <2>4 DEF FlowInv, StartInv, AnswerFlow, EndInv
  <2> QED
    BY <2>5, <2>6 DEF FlowInv
<1>2. CASE Connect
  <2>1. /\ at[Initiator] = "connect" /\ at'[Initiator] = "request header"
        /\ todo'[Initiator] = HeaderSize
        /\ outcome # "ok"
        /\ UNCHANGED <<flight, answer, handled, request, outcome>>
        /\ at'[Server] = at[Server] /\ todo'[Server] = todo[Server]
    BY <1>2, TypeParts, CallValues, TheSides
       DEF Connect, messages, socket, IInv, InitiatorInv, Done
  <2>2. /\ at[Server] = "accept" /\ flight[Initiator] = 0 /\ flight[Server] = 0
        /\ ~ handled /\ answer = -1
    BY <2>1 DEF FlowInv, StartInv, IInv, ReceivedInv
  <2>3. at[Server] \notin Parts
    BY <2>2 DEF Parts, RequestParts, AnswerParts
  <2>4. HeaderSize \in Nat
    BY FlowNumbers DEF IInv
  <2>5. /\ AnswerAt(Server)' = 0 /\ AnswerAt(Initiator)' = 0
        /\ RequestAt(Server)' = 0 /\ RequestAt(Initiator)' = 0
    <3>1. at'[Server] \notin AnswerParts /\ at'[Initiator] \notin AnswerParts
      BY <2>1, <2>2 DEF AnswerParts
    <3>2. AnswerAt(Server)' = 0 /\ AnswerAt(Initiator)' = 0
      BY <3>1, NoAnswerYet DEF AnswerAt
    <3>3. /\ RequestAt(Server)' = RequestMoved("accept", todo'[Server], request'.payload_size)
          /\ RequestAt(Initiator)'
               = RequestMoved("request header", HeaderSize, request'.payload_size)
      BY <2>1, <2>2 DEF RequestAt
    <3>4. /\ RequestMoved("accept", todo'[Server], request'.payload_size) = 0
          /\ RequestMoved("request header", HeaderSize, request'.payload_size)
               = HeaderSize - HeaderSize
      BY MovedValues
    <3>5. HeaderSize - HeaderSize = 0
      BY <2>4
    <3> QED
      BY <3>2, <3>3, <3>4, <3>5, Zenon
  <2>6. CallInv'
    <3>1. PartSize(at[Initiator])' = HeaderSize
      BY <2>1, Zenon DEF PartSize
    <3>2. HeaderSize <= HeaderSize
      BY <2>4
    <3>3. todo'[Initiator] <= PartSize(at[Initiator])'
      BY <2>1, <3>1, <3>2, Zenon
    <3>4. at'[Server] \notin Parts
      BY <2>1, <2>3
    <3> QED
      BY <3>3, <3>4 DEF CallInv, Sides
  <2>7. StartInv' /\ RequestFlow'
    <3>1. /\ flight'[Initiator] = 0 /\ ~ handled'
          /\ at'[Initiator] \notin {"prepare", "connect"}
      BY <2>1, <2>2
    <3>2. 0 + 0 = 0
      OBVIOUS
    <3>3. flight'[Initiator] + RequestAt(Server)' = RequestAt(Initiator)'
      BY <2>5, <3>1, <3>2, Zenon
    <3> QED
      BY <3>1, <3>3, Zenon DEF StartInv, RequestFlow
  <2>8. AnswerFlow' /\ EndInv'
    <3>1. flight'[Server] = 0 /\ answer' = -1 /\ outcome' # "ok"
      BY <2>1, <2>2
    <3>2. 0 + 0 = 0 /\ 0 <= 0
      OBVIOUS
    <3>3. /\ flight'[Server] + AnswerAt(Initiator)' = AnswerAt(Server)'
          /\ flight'[Server] <= AnswerAt(Server)'
      BY <2>5, <3>1, <3>2, Zenon
    <3> QED
      BY <3>1, <3>3, Zenon DEF AnswerFlow, EndInv
  <2> QED
    BY <2>6, <2>7, <2>8 DEF FlowInv
<1> QED
  BY <1>1, <1>2

\* The initiator's calls after each other.
LEMMA FlowInitiator ==
  ASSUME IInv, FlowInv,
         RequestHeaderSent \/ RequestSent \/ AnswerHeaderCame \/ AnswerCame
  PROVE  FlowInv'
<1>0. /\ TypeOK /\ CallsOK /\ at[Initiator] \in Parts /\ at'[Server] = at[Server]
      /\ todo'[Server] = todo[Server] /\ todo[Initiator] = 0
      /\ outcome # "ok" /\ UNCHANGED <<flight, answer, request, handled>>
  <2>1. /\ at[Initiator] \in Parts /\ todo[Initiator] = 0
        /\ UNCHANGED <<flight, answer, request, handled>>
        /\ \E place, size, timeout : Call(Initiator, place, size, timeout)
    BY TheParts, Zenon
       DEF RequestHeaderSent, RequestSent, AnswerHeaderCame, AnswerCame, Succeed, Leave,
           messages, network, Parts
  <2>2. TypeOK /\ CallsOK
    BY TypeParts DEF IInv
  <2>3. at'[Server] = at[Server] /\ todo'[Server] = todo[Server]
    BY <2>1, <2>2, CallValues, TheSides
  <2>4. outcome # "ok"
    BY <2>1 DEF IInv, InitiatorInv, Done, Parts, RequestParts, AnswerParts
  <2> QED
    BY <2>1, <2>2, <2>3, <2>4
<1>1. /\ HeaderSize \in Nat \ {0}
      /\ request.payload_size \in Nat /\ request.payload_size \in Int
      /\ flight[Initiator] \in Nat /\ flight[Server] \in Nat
  BY <1>0, FlowNumbers
<1> DEFINE part == at[Initiator]
           next == at'[Initiator]
           left == todo'[Initiator]
<1>2. /\ RequestAt(Initiator) = RequestMoved(part, 0, request.payload_size)
      /\ RequestAt(Initiator)' = RequestMoved(next, left, request.payload_size)
      /\ AnswerAt(Initiator) = AnswerMoved(part, 0, answer)
      /\ AnswerAt(Initiator)' = AnswerMoved(next, left, answer)
  BY <1>0, Zenon DEF RequestAt, AnswerAt
<1>3. /\ HeaderSize - 0 = HeaderSize /\ HeaderSize - HeaderSize = 0
      /\ HeaderSize <= HeaderSize /\ request.payload_size <= request.payload_size
      /\ HeaderSize + request.payload_size - 0 = HeaderSize + request.payload_size
      /\ HeaderSize + request.payload_size - request.payload_size = HeaderSize
  BY <1>1
<1>4. CASE RequestHeaderSent
  <2>1. part = "request header" /\ outcome' # "ok"
    BY <1>0, <1>4 DEF RequestHeaderSent, socket
  <2>2. RequestAt(Initiator) = HeaderSize /\ AnswerAt(Initiator) = 0
    <3>1. "request header" \notin AnswerParts
      BY DEF AnswerParts
    <3>2. AnswerMoved("request header", 0, answer) = 0
      BY <3>1, NoAnswerYet
    <3>3. RequestMoved("request header", 0, request.payload_size) = HeaderSize
      BY <1>1, MovedAtEnds
    <3> QED
      BY <1>2, <2>1, <3>2, <3>3
  <2>3. CASE request.payload_size > 0
    <3>1. next = "request payload" /\ left = request.payload_size
      <4>1. Call(Initiator, "request payload", request.payload_size, WriteTimeout)
        BY <1>4, <2>3 DEF RequestHeaderSent
      <4> QED
        BY <1>0, <4>1, TheSides DEF Call, CallsOK
    <3>2. "request payload" \notin AnswerParts /\ "request payload" \in Parts
      BY DEF AnswerParts, Parts, RequestParts
    <3>3. RequestAt(Initiator)' = HeaderSize /\ AnswerAt(Initiator)' = 0
      <4>1. AnswerMoved("request payload", left, answer) = 0
        BY <3>2, NoAnswerYet
      <4>2. RequestMoved("request payload", request.payload_size, request.payload_size)
              = HeaderSize
        BY <1>1, MovedAtEnds
      <4> QED
        BY <1>2, <3>1, <4>1, <4>2
    <3>4. PartSize(next) = request.payload_size
      BY <3>1, Zenon DEF PartSize
    <3> QED
      BY <1>0, <1>3, <2>1, <2>2, <3>1, <3>2, <3>3, <3>4, FlowInitiatorCall, Zenon
  <2>4. CASE ~ (request.payload_size > 0)
    <3>1. next = "answer header" /\ left = HeaderSize
      BY <1>0, <1>4, <2>4, CallValues, TheSides DEF RequestHeaderSent
    <3>2. "answer header" \in AnswerParts /\ "answer header" \in Parts
      BY DEF AnswerParts, Parts
    <3>3. HeaderSize + request.payload_size = HeaderSize
      BY <1>1, <2>4
    <3>4. RequestAt(Initiator)' = HeaderSize /\ AnswerAt(Initiator)' = 0
      <4>1. AnswerMoved("answer header", HeaderSize, answer) = 0
        BY <1>0, FlowNumbers, MovedAtEnds
      <4>2. RequestMoved("answer header", left, request.payload_size)
              = HeaderSize + request.payload_size
        BY <3>2, RequestIsSent
      <4> QED
        BY <1>2, <3>1, <3>3, <4>1, <4>2
    <3>5. PartSize(next) = HeaderSize
      BY <3>1, Zenon DEF PartSize
    <3> QED
      BY <1>0, <1>3, <2>1, <2>2, <3>1, <3>2, <3>4, <3>5, FlowInitiatorCall, Zenon
  <2> QED
    BY <2>3, <2>4
<1>5. CASE RequestSent
  <2>1. part = "request payload" /\ outcome' # "ok"
    BY <1>0, <1>5 DEF RequestSent, socket
  <2>2. next = "answer header" /\ left = HeaderSize
    BY <1>0, <1>5, CallValues, TheSides DEF RequestSent
  <2>3. /\ "request payload" \notin AnswerParts
        /\ "answer header" \in AnswerParts /\ "answer header" \in Parts
    BY DEF AnswerParts, Parts
  <2>4. RequestAt(Initiator)' = RequestAt(Initiator) /\ AnswerAt(Initiator)' = AnswerAt(Initiator)
    <3>1. /\ AnswerMoved("request payload", 0, answer) = 0
          /\ RequestMoved("answer header", left, request.payload_size)
               = HeaderSize + request.payload_size
      BY <2>3, NoAnswerYet, RequestIsSent
    <3>2. AnswerMoved("answer header", HeaderSize, answer) = 0
      BY <1>0, FlowNumbers, MovedAtEnds
    <3>3. RequestMoved("request payload", 0, request.payload_size)
            = HeaderSize + request.payload_size
      BY <1>1, MovedAtEnds
    <3> QED
      BY <1>2, <2>1, <2>2, <3>1, <3>2, <3>3
  <2>5. PartSize(next) = HeaderSize
    BY <2>2, Zenon DEF PartSize
  <2> QED
    BY <1>0, <1>3, <2>1, <2>2, <2>3, <2>4, <2>5, FlowInitiatorCall, Zenon
<1>6. CASE AnswerHeaderCame \/ AnswerCame
  <2>1. part \in AnswerParts
    BY <1>6, TheParts DEF AnswerHeaderCame, AnswerCame
  <2>2. answer # -1
    BY <1>0, <1>1, <1>6 DEF AnswerHeaderCame, AnswerCame, IInv, AnswerInv
  <2>3. answer \in Nat /\ answer \in Int /\ handled
    BY <1>0, <2>2, FlowNumbers DEF IInv, ReceivedInv
  <2>4. CASE AnswerHeaderCame /\ answer > 0
    <3>1. /\ part = "answer header" /\ next = "answer payload" /\ left = answer
          /\ outcome' # "ok"
      BY <1>0, <2>4, CallValues, TheSides DEF AnswerHeaderCame
    <3>2. /\ answer <= answer /\ HeaderSize + answer - answer = HeaderSize
      BY <1>1, <2>3
    <3>3. "answer payload" \in AnswerParts /\ "answer payload" \in Parts
      BY DEF AnswerParts, Parts
    <3>4. AnswerAt(Initiator) = HeaderSize /\ AnswerAt(Initiator)' = HeaderSize
      <4>1. /\ AnswerMoved("answer header", 0, answer) = HeaderSize
            /\ AnswerMoved("answer payload", answer, answer) = HeaderSize
        BY <2>3, MovedAtEnds
      <4> QED
        BY <1>2, <3>1, <4>1
    <3>5. RequestAt(Initiator) = RequestAt(Initiator)'
      BY <1>2, <2>1, <3>1, <3>3, RequestIsSent, Zenon
    <3>6. PartSize(next) = answer
      BY <3>1, Zenon DEF PartSize
    <3> QED
      BY <1>0, <3>1, <3>2, <3>3, <3>4, <3>5, <3>6, FlowInitiatorCall, Zenon
  <2>5. CASE ~ (AnswerHeaderCame /\ answer > 0)
    <3>1. /\ Succeed
          /\ (part = "answer header" /\ answer = 0) \/ part = "answer payload"
      <4>1. CASE AnswerHeaderCame
        <5>1. ~ (answer > 0) /\ answer = 0
          BY <2>3, <2>5, <4>1
        <5> QED
          BY <4>1, <5>1 DEF AnswerHeaderCame
      <4>2. CASE AnswerCame
        BY <4>2 DEF AnswerCame
      <4> QED
        BY <1>6, <4>1, <4>2
    <3>2. AnswerAt(Initiator) = HeaderSize + answer
      <4>1. /\ AnswerMoved("answer header", 0, answer) = HeaderSize
            /\ AnswerMoved("answer payload", 0, answer) = HeaderSize + answer
        BY <2>3, MovedAtEnds
      <4>2. answer = 0 => HeaderSize + answer = HeaderSize
        BY <1>1
      <4> QED
        BY <1>2, <3>1, <4>1, <4>2
    <3>3. /\ flight[Initiator] = 0
          /\ flight[Server] + AnswerAt(Initiator) <= HeaderSize + answer
          /\ at[Server] # "free" =>
               /\ flight[Server] + AnswerAt(Initiator) = AnswerAt(Server)
      BY <1>0, <2>2, <2>3 DEF FlowInv, RequestFlow, AnswerFlow
    <3>4. flight[Server] = 0
      BY <1>1, <2>3, <3>2, <3>3
    <3>5. at[Server] # "free" => AnswerAt(Server) = HeaderSize + answer
      BY <1>1, <2>3, <3>2, <3>3, <3>4
    <3>6. /\ next = "close"
          /\ \A place : PartSize(place)' = PartSize(place)
          /\ AnswerAt(Server)' = AnswerAt(Server)
      BY <1>0, <3>1, LeaveValues, TheSides DEF Succeed, PartSize, AnswerAt
    <3>7. next \notin Parts \cup {"prepare", "connect"}
      BY <3>6 DEF Parts, RequestParts, AnswerParts
    <3>8. CallInv'
      BY <1>0, <3>6, <3>7 DEF FlowInv, CallInv, Sides
    <3>9. StartInv' /\ RequestFlow' /\ AnswerFlow' /\ EndInv'
      BY <1>0, <3>3, <3>4, <3>5, <3>6, <3>7
         DEF FlowInv, StartInv, RequestFlow, AnswerFlow, EndInv
    <3> QED
      BY <3>8, <3>9 DEF FlowInv
  <2> QED
    BY <2>4, <2>5
<1> QED
  BY <1>4, <1>5, <1>6

\* The server's calls before its answer, and between the parts of that.
LEMMA FlowServer ==
  ASSUME IInv, FlowInv, Accept \/ HeaderCame \/ RequestCame \/ (AnswerHeaderSent /\ answer > 0)
  PROVE  FlowInv'
<1>0. /\ TypeOK /\ CallsOK
      /\ at'[Initiator] = at[Initiator] /\ todo'[Initiator] = todo[Initiator]
      /\ UNCHANGED <<flight, answer, request, outcome>>
      /\ at[Server] # "free" /\ at[Initiator] \notin {"prepare", "connect"}
  <2>1. /\ UNCHANGED <<flight, answer, request, outcome>>
        /\ \E place, size, timeout : Call(Server, place, size, timeout)
        /\ at[Server] # "free" /\ (at[Server] # "accept" \/ open[Server])
    BY Zenon
       DEF Accept, HeaderCame, RequestCame, AnswerHeaderSent, Leave, messages, network, socket
  <2>2. TypeOK /\ CallsOK
    BY TypeParts DEF IInv
  <2>3. at'[Initiator] = at[Initiator] /\ todo'[Initiator] = todo[Initiator]
    BY <2>1, <2>2, ServerCalls
  <2> QED
    BY <2>1, <2>2, <2>3 DEF FlowInv, StartInv
<1>1. /\ HeaderSize \in Nat \ {0}
      /\ request.payload_size \in Nat /\ request.payload_size \in Int /\ answer \in Int
  BY <1>0, FlowNumbers
<1> DEFINE part == at[Server]
           next == at'[Server]
           left == todo'[Server]
<1>2. /\ RequestAt(Server) = RequestMoved(part, todo[Server], request.payload_size)
      /\ RequestAt(Server)' = RequestMoved(next, left, request.payload_size)
      /\ AnswerAt(Server) = AnswerMoved(part, todo[Server], answer)
      /\ AnswerAt(Server)' = AnswerMoved(next, left, answer)
  BY <1>0, Zenon DEF RequestAt, AnswerAt
<1>3. HeaderSize <= HeaderSize /\ request.payload_size <= request.payload_size
  BY <1>1
<1>4. /\ {"accept", "request header", "request payload", "handle"} \cap AnswerParts = {}
      /\ "handle" \notin Parts
  BY DEF AnswerParts, RequestParts, Parts
<1>5. CASE Accept
  <2>1. /\ part = "accept" /\ next = "request header" /\ left = HeaderSize /\ handled' = handled
    BY <1>0, <1>5, CallValues, TheSides DEF Accept, messages
  <2>2. RequestAt(Server) = 0 /\ RequestAt(Server)' = 0
    <3>1. /\ RequestMoved("accept", todo[Server], request.payload_size) = 0
          /\ RequestMoved("request header", HeaderSize, request.payload_size) = 0
      BY <1>1, MovedValues, MovedAtEnds
    <3> QED
      BY <1>2, <2>1, <3>1
  <2>3. AnswerAt(Server) = 0 /\ AnswerAt(Server)' = 0
    BY <1>2, <1>4, <2>1, NoAnswerYet
  <2>4. PartSize(next) = HeaderSize
    BY <2>1, Zenon DEF PartSize
  <2> QED
    BY <1>0, <1>3, <2>1, <2>2, <2>3, <2>4, FlowServerCall, Zenon
<1>6. CASE HeaderCame
  <2>1. part = "request header" /\ todo[Server] = 0
    BY <1>6 DEF HeaderCame
  <2>2. RequestAt(Server) = HeaderSize
    BY <1>1, <1>2, <2>1, MovedAtEnds
  <2>3. CASE request.payload_size > 0
    <3>1. /\ Call(Server, "request payload", request.payload_size, ReadTimeout)
          /\ ~ handled'
      <4>1. request.payload_size # 0
        BY <1>1, <2>3
      <4> QED
        BY <1>6, <2>3, <4>1, Zenon DEF HeaderCame
    <3>2. next = "request payload" /\ left = request.payload_size
      BY <1>0, <3>1, TheSides DEF Call, CallsOK
    <3>3. RequestAt(Server)' = HeaderSize
      BY <1>1, <1>2, <3>2, MovedAtEnds
    <3>4. AnswerAt(Server) = 0 /\ AnswerAt(Server)' = 0
      BY <1>2, <1>4, <2>1, <3>2, NoAnswerYet
    <3>5. PartSize(next) = request.payload_size
      BY <3>2, Zenon DEF PartSize
    <3> QED
      BY <1>0, <1>3, <2>2, <3>1, <3>2, <3>3, <3>4, <3>5, FlowServerCall, Zenon
  <2>4. CASE ~ (request.payload_size > 0)
    <3>1. Leave(Server, "handle")
      BY <1>6, <2>4 DEF HeaderCame
    <3>2. next = "handle"
      BY <1>0, <3>1, LeaveValues, TheSides
    <3>3. HeaderSize + request.payload_size = HeaderSize
      BY <1>1, <2>4
    <3>4. RequestMoved("handle", left, request.payload_size) = HeaderSize + request.payload_size
      BY MovedValues
    <3>5. RequestAt(Server)' = HeaderSize
      BY <1>2, <3>2, <3>3, <3>4
    <3>6. AnswerAt(Server) = 0 /\ AnswerAt(Server)' = 0
      BY <1>2, <1>4, <2>1, <3>2, NoAnswerYet
    <3> QED
      BY <1>0, <1>4, <2>2, <3>2, <3>3, <3>5, <3>6, FlowServerCall, Zenon
  <2> QED
    BY <2>3, <2>4
<1>7. CASE RequestCame
  <2>1. /\ part = "request payload" /\ todo[Server] = 0 /\ next = "handle"
    BY <1>0, <1>7, LeaveValues, TheSides DEF RequestCame
  <2>2. RequestAt(Server) = HeaderSize + request.payload_size
    BY <1>1, <1>2, <2>1, MovedAtEnds
  <2>3. RequestMoved("handle", left, request.payload_size) = HeaderSize + request.payload_size
    BY MovedValues
  <2>4. RequestAt(Server)' = HeaderSize + request.payload_size
    BY <1>2, <2>1, <2>3
  <2>5. AnswerAt(Server) = 0 /\ AnswerAt(Server)' = 0
    BY <1>2, <1>4, <2>1, NoAnswerYet
  <2> QED
    BY <1>0, <1>4, <2>1, <2>2, <2>4, <2>5, FlowServerCall, Zenon
<1>8. CASE AnswerHeaderSent /\ answer > 0
  <2>1. /\ part = "answer header" /\ todo[Server] = 0 /\ handled' = handled
        /\ Call(Server, "answer payload", answer, WriteTimeout)
    BY <1>8 DEF AnswerHeaderSent, messages
  <2>2. next = "answer payload" /\ left = answer
    BY <1>0, <2>1, TheSides DEF Call, CallsOK
  <2>3. AnswerAt(Server) = HeaderSize /\ AnswerAt(Server)' = HeaderSize
    BY <1>1, <1>2, <2>1, <2>2, MovedAtEnds
  <2>4. /\ "answer header" \in AnswerParts /\ "answer payload" \in AnswerParts
    BY TheParts
  <2>5. RequestAt(Server)' = RequestAt(Server)
    BY <1>2, <2>1, <2>2, <2>4, RequestIsSent
  <2>6. PartSize(next) = answer
    BY <2>2, Zenon DEF PartSize
  <2>7. answer <= answer
    BY <1>1
  <2> QED
    BY <1>0, <2>1, <2>2, <2>3, <2>5, <2>6, <2>7, FlowServerCall, Zenon
<1> QED
  BY <1>5, <1>6, <1>7, <1>8

LEMMA FlowFail ==
  ASSUME IInv, FlowInv, NEW side \in Sides, at[side] \in Parts, Fail(side)
  PROVE  FlowInv'
<1>1. CASE side = Server
  <2>1. /\ UNCHANGED <<flight, answer, request, handled, outcome>>
        /\ Leave(Server, "free") /\ at[Server] # "accept"
    BY <1>1
       DEF Fail, CloseClient, messages, socket, Parts, RequestParts, AnswerParts
  <2> QED
    BY <2>1, TypeParts, LeaveValues, TheSides, FlowFree DEF IInv
<1>2. CASE side # Server
  <2>1. /\ UNCHANGED <<flight, answer, request, handled>> /\ outcome' # "ok"
        /\ Leave(Initiator, "close")
    BY <1>2 DEF Fail, messages, network
  <2> QED
    BY <2>1, TypeParts, LeaveValues, TheSides, FlowLeave DEF IInv, Done
<1> QED
  BY <1>1, <1>2

LEMMA FlowInit == Init => FlowInv
<1> SUFFICES ASSUME Init PROVE FlowInv
  OBVIOUS
<1>1. /\ at[Initiator] = "prepare" /\ at[Server] = "accept"
      /\ flight[Initiator] = 0 /\ flight[Server] = 0 /\ ~ open[Server]
      /\ outcome # "ok"
  BY TheSides DEF Init
<1>2. at[Initiator] \notin Parts /\ at[Server] \notin Parts
  BY <1>1 DEF Parts, RequestParts, AnswerParts
<1>3. AnswerAt(Server) = 0
  <2>1. at[Server] \notin AnswerParts
    BY <1>2 DEF Parts
  <2> QED
    BY <2>1, NoAnswerYet DEF AnswerAt
<1> QED
  BY <1>1, <1>2, <1>3
     DEF FlowInv, CallInv, StartInv, RequestFlow, AnswerFlow, EndInv, Sides

LEMMA FlowStep == ASSUME IInv, FlowInv, [Next]_vars PROVE FlowInv'
<1>1. ASSUME NEW side \in Sides, SideStep(side) PROVE FlowInv'
  <2>1. TypeOK'
    BY TypeStep
  <2>2. CASE TimeOut(side) \/ PeerGone(side)
    <3>1. at[side] \in Parts /\ Fail(side)
      BY <2>2 DEF TimeOut, PeerGone, Waiting, InCall
    <3> QED
      BY <3>1, FlowFail
  <2> QED
    BY <1>1, <2>1, <2>2, FlowSend, FlowRecv DEF SideStep
<1>2. CASE NothingToSend \/ CreateFails \/ ConnectFails \/ Close \/ Destroy
  <2>1. /\ UNCHANGED <<flight, answer, request>>
        /\ outcome' = "ok" => outcome = "ok"
        /\ \E place \in Done : Leave(Initiator, place)
    BY <1>2
       DEF NothingToSend, CreateFails, ConnectFails, Close, Destroy, messages, network, Done
  <2> QED
    BY <2>1, TypeParts, LeaveValues, TheSides, FlowLeave DEF IInv
<1>3. CASE InitiatorStep
  <2>1. CASE ConnectRetry
    BY <2>1, FlowQuiet DEF ConnectRetry, messages, calls, network
  <2> QED
    BY <1>1, <1>2, <1>3, <2>1, TheSides, FlowConnect, FlowInitiator DEF InitiatorStep
<1>4. CASE (AnswerHeaderSent \/ AnswerSent) /\ CloseClient
  <2>1. /\ UNCHANGED <<flight, answer, request, handled, outcome>>
        /\ Leave(Server, "free") /\ at[Server] # "accept"
    BY <1>4 DEF AnswerHeaderSent, AnswerSent, CloseClient, messages, socket
  <2> QED
    BY <2>1, TypeParts, LeaveValues, TheSides, FlowFree DEF IInv
<1>5. CASE ServerStep
  <2>1. CASE GetFieldGoesOn
    BY <2>1, FlowQuiet DEF GetFieldGoesOn, calls, network, socket
  <2>2. CASE AnswerHeaderSent \/ AnswerSent
    BY <1>4, <2>2, FlowServer DEF AnswerHeaderSent, AnswerSent
  <2> QED
    BY <1>1, <1>5, <2>1, <2>2, TheSides, FlowServer, FlowReply DEF ServerStep
<1>6. CASE Stall \/ Tick \/ WaitInSend \/ Over \/ Asks \/ UNCHANGED vars
  <2>1. /\ UNCHANGED <<at, todo, flight, open, answer, handled, outcome>>
        /\ request' = request
    BY <1>6
       DEF Stall, Tick, WaitInSend, Over, Asks, GetField, vars, messages, calls, network,
           socket
  <2> QED
    BY <2>1, FlowQuiet
<1> QED
  BY <1>3, <1>5, <1>6, FlowPrepare DEF Next, Adds, Asks

LEMMA FlowAlways == Spec => []FlowInv
<1>1. IInv /\ FlowInv /\ [Next]_vars => FlowInv'
  BY FlowStep
<1> QED
  BY <1>1, FlowInit, IInvAlways, PTL DEF Spec

\* A worker of the server waits outside select only with an answer that is too
\* large for what the kernel takes (socket_server.cpp:69): that is the price of
\* its blocking socket, and all of it.
THEOREM LargeAnswersBlock == Spec => []OnlyLargeAnswersBlock
<1>1. IInv /\ FlowInv => OnlyLargeAnswersBlock
  <2> SUFFICES ASSUME IInv, FlowInv, InCall(Server), Blocked(Server), ~ Ready(Server)
               PROVE  HeaderSize + answer > SocketBuffer
    BY DEF OnlyLargeAnswersBlock
  <2>1. at[Server] \in AnswerParts
    BY TheSides DEF Blocked, Sends
  <2>2. ~ (flight[Server] < SocketBuffer)
    BY TheSides DEF Blocked, Ready
  <2>3. answer \in Nat
    BY <2>1, Numbers DEF IInv, ReceivedInv
  <2>4. /\ HeaderSize \in Nat /\ todo[Server] \in Nat /\ flight[Server] \in Nat
        /\ SocketBuffer \in Nat
    BY FlowNumbers, Numbers DEF IInv
  <2>5. flight[Server] <= AnswerAt(Server)
    BY <2>1 DEF FlowInv, AnswerFlow, AnswerParts
  <2>6. CASE at[Server] = "answer header"
    <3>1. AnswerMoved("answer header", todo[Server], answer) = HeaderSize - todo[Server]
      BY MovedValues
    <3>2. AnswerAt(Server) = HeaderSize - todo[Server] /\ todo[Server] > 0
      BY <2>6, <3>1 DEF AnswerAt, InCall
    <3> QED
      BY <2>2, <2>3, <2>4, <2>5, <3>2
  <2>7. CASE at[Server] = "answer payload"
    <3>1. AnswerMoved("answer payload", todo[Server], answer)
            = HeaderSize + answer - todo[Server]
      BY MovedValues
    <3>2. AnswerAt(Server) = HeaderSize + answer - todo[Server] /\ todo[Server] > 0
      BY <2>7, <3>1 DEF AnswerAt, InCall
    <3> QED
      BY <2>2, <2>3, <2>4, <2>5, <3>2
  <2> QED
    BY <2>1, <2>6, <2>7 DEF AnswerParts
<1> QED
  BY <1>1, IInvAlways, FlowAlways, PTL

\* An exchange that has succeeded leaves nothing behind: each end has read all
\* that the other has written, so no rest of one message is taken for another
\* (socket_client.cpp:69, socket_server.cpp:79).
THEOREM NothingLeftOver == Spec => []NothingIsLeftOver
<1>1. FlowInv => NothingIsLeftOver
  BY DEF FlowInv, EndInv, NothingIsLeftOver, Sides
<1> QED
  BY <1>1, FlowAlways, PTL
=============================================================================
