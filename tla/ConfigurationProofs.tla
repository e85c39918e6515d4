------------------------ MODULE ConfigurationProofs ------------------------
(***************************************************************************)
(* Proofs about Configuration, for any clients, settings, pins and bounds. *)
(*                                                                         *)
(* The inductive invariant is TypeOK, OneClientAtATime (both ends of the   *)
(* register exchange must be whole for either to stay so) with what a      *)
(* client read and made before it sent it, the rows, and the order of the  *)
(* events: whatever is still in a queue is newer than     *)
(* whatever is ahead of it, down to the rows of the screen.                *)
(***************************************************************************)
EXTENDS Configuration, SequenceTheorems, TLAPS

Message == [config_client_id : Clients \cup {None}, config_sensor_count : Nat,
            config_sensor_data : Seq(Sensors)]

\* The rows of a list of sensors, one for each.
LEMMA RowsType ==
  ASSUME NEW list \in Seq(Sensors)
  PROVE  /\ Rows(list) \in Seq(Row)
         /\ Len(Rows(list)) = Len(list)
<1>1. DOMAIN list = 1 .. Len(list) /\ Len(list) \in Nat
  OBVIOUS
<1>2. \A i \in 1 .. Len(list) : Rows(list)[i] \in Row
  BY <1>1, ConfigurationAssumption DEF Rows, Row
<1>3. Rows(list) \in [1 .. Len(list) -> Row]
  BY <1>1, <1>2 DEF Rows
<1> QED
  BY <1>1, <1>3

\* Receiving a message whose count its data cover.
LEMMA ReceivedType ==
  ASSUME NEW old \in Config, NEW m \in Message,
         m.config_sensor_count <= Len(m.config_sensor_data)
  PROVE  /\ Received(old, m) \in Config
         /\ Received(old, m).sensors_count <= Len(Received(old, m).p_sensors)
         /\ Received(old, m).sensors_count <= Len(Received(old, m).p_screen)
<1>1. /\ Rows(m.config_sensor_data) \in Seq(Row)
      /\ Len(Rows(m.config_sensor_data)) = Len(m.config_sensor_data)
  BY RowsType DEF Message
<1>2. CASE m.config_sensor_count > 0
  BY <1>1, <1>2 DEF Received, Config, Message
<1>3. CASE m.config_sensor_count = 0
  BY <1>3 DEF Received, Config, Message
<1> QED
  BY <1>2, <1>3 DEF Message

LEMMA ShownInType ==
  ASSUME NEW screen \in Seq(Row), NEW count \in Nat, NEW e \in Event
  PROVE  /\ ShownIn(screen, count, e) \in Seq(Row)
         /\ Len(ShownIn(screen, count, e)) = Len(screen)
<1>1. DOMAIN screen = 1 .. Len(screen) /\ Len(screen) \in Nat
  OBVIOUS
<1>2. ASSUME NEW i \in 1 .. Len(screen) PROVE ShownIn(screen, count, e)[i] \in Row
  <2>1. screen[i] \in Row
    OBVIOUS
  <2>2. [screen[i] EXCEPT !.last = e] \in Row
    BY <2>1 DEF Row
  <2> QED
    BY <1>1, <2>1, <2>2 DEF ShownIn
<1>3. ShownIn(screen, count, e) \in [1 .. Len(screen) -> Row]
  BY <1>1, <1>2 DEF ShownIn
<1> QED
  BY <1>1, <1>3

LEMMA ConfigMessageType ==
  ASSUME NEW c \in Clients, NEW list \in Seq(Sensors)
  PROVE  /\ ConfigMessage(c, list) \in Message
         /\ ConfigMessage(c, list).config_sensor_count
              <= Len(ConfigMessage(c, list).config_sensor_data)
BY DEF ConfigMessage, Message

LEMMA RegisterMessageType ==
  ASSUME config \in Config, config.sensors_count <= Len(config.p_sensors)
  PROVE  /\ RegisterMessage \in Message
         /\ RegisterMessage.config_sensor_count
              <= Len(RegisterMessage.config_sensor_data)
<1>1. <<>> \in Seq(Sensors) /\ Len(<<>>) = 0
  OBVIOUS
<1>2. CASE config.sensors_count > 0
  BY <1>2 DEF RegisterMessage, Message, Config
<1>3. CASE config.sensors_count = 0
  BY <1>1, <1>3 DEF RegisterMessage, Message, Config
<1> QED
  BY <1>2, <1>3 DEF Config

-----------------------------------------------------------------------------
(***************************************************************************)
(* Types.                                                                  *)
(***************************************************************************)
LEMMA NoConfigType == NoConfig \in Config /\ Len(NoConfig.p_sensors) = 0
                                          /\ Len(NoConfig.p_screen) = 0
                                          /\ NoConfig.sensors_count = 0
BY DEF NoConfig, Config

LEMMA TypeInit == Init => TypeOK
BY NoConfigType, ConfigurationAssumption DEF Init, TypeOK

LEMMA TypeNext == TypeOK /\ [Next]_vars => TypeOK'
<1> SUFFICES ASSUME TypeOK, [Next]_vars PROVE TypeOK'
  OBVIOUS
<1> USE ConfigurationAssumption DEF TypeOK
<1>0. ASSUME NEW c \in Clients, Setup(c) PROVE TypeOK'
  <2>1. PICK list \in Seq(Sensors) :
          /\ settings' = [settings EXCEPT ![c] = list]
          /\ sensors' = [sensors EXCEPT ![c] = Created(list)]
    BY <1>0 DEF Setup, ReadConfig
  <2>2. Created(list) \subseteq Sensors
    BY DEF Created, Listed
  <2> QED
    BY <1>0, <2>1, <2>2 DEF Setup, proxy, head
<1>1. ASSUME NEW c \in Clients, SendConfig(c) PROVE TypeOK'
  BY <1>1, ConfigMessageType, ReceivedType DEF SendConfig, head
<1>2. ASSUME NEW c \in Clients, ConfigUnanswered(c) PROVE TypeOK'
  BY <1>2, ConfigMessageType, ReceivedType DEF ConfigUnanswered, StartsAgain, Fault, head
<1>3. ASSUME NEW c \in Clients, ClientFails(c) PROVE TypeOK'
  BY <1>3 DEF ClientFails, StartsAgain, Fault, proxy, head
<1>4. ASSUME NEW c \in Clients, NEW s \in Sensors, SendEvent(c, s) PROVE TypeOK'
  <2>1. [sensor |-> s, n |-> reported + 1] \in Event
    BY <1>4 DEF SendEvent, Event
  <2> QED
    BY <1>4, <2>1 DEF SendEvent, clients, head
<1>5. ASSUME Forward PROVE TypeOK'
  <2>1. Head(queue) \in Event /\ Tail(queue) \in Seq(Event)
    BY <1>5 DEF Forward
  <2> QED
    BY <1>5, <2>1 DEF Forward, clients
<1>6. ASSUME ForwardLost PROVE TypeOK'
  <2>1. Tail(queue) \in Seq(Event)
    BY <1>6 DEF ForwardLost
  <2> QED
    BY <1>6, <2>1 DEF ForwardLost, Fault, clients, head
<1>7. ASSUME ProxyRestart PROVE TypeOK'
  BY <1>7, NoConfigType DEF ProxyRestart, Fault, clients, head
<1>8. ASSUME HeadStart PROVE TypeOK'
  BY <1>8 DEF HeadStart, clients, proxy
<1>9. ASSUME Register PROVE TypeOK'
  BY <1>9, RegisterMessageType, ReceivedType DEF Register, clients, proxy
<1>10. ASSUME RegisterFails PROVE TypeOK'
  BY <1>10 DEF RegisterFails, Fault, clients, proxy
<1>11. ASSUME Show PROVE TypeOK'
  <2> DEFINE screen == ShownIn(headConfig.p_screen, headConfig.sensors_count,
                               Head(headQueue))
  <2>1. Head(headQueue) \in Event /\ Tail(headQueue) \in Seq(Event)
    BY <1>11 DEF Show
  <2>2. screen \in Seq(Row) /\ Len(screen) = Len(headConfig.p_screen)
    BY <2>1, ShownInType DEF Config
  <2>3. headConfig' = [headConfig EXCEPT !.p_screen = screen]
    BY <1>11 DEF Show
  <2> HIDE DEF screen
  <2>4. headConfig' \in Config /\ headConfig'.sensors_count <= Len(headConfig'.p_screen)
    BY <2>2, <2>3 DEF Config
  <2> QED
    BY <1>11, <2>1, <2>4 DEF Show, clients, proxy
<1>12. ASSUME HeadRestart PROVE TypeOK'
  BY <1>12, NoConfigType DEF HeadRestart, Fault, clients, proxy
<1>13. ASSUME UNCHANGED vars PROVE TypeOK'
  BY <1>13 DEF vars, clients, proxy, head
<1> QED
  BY <1>0, <1>1, <1>2, <1>3, <1>4, <1>5, <1>6, <1>7, <1>8, <1>9, <1>10, <1>11, <1>12, <1>13
     DEF Next, ClientStep, ProxyStep, HeadStep, Idle

\* The types, for any clients and settings.
THEOREM ConfigurationTypes == Spec => []TypeOK
BY TypeInit, TypeNext, PTL DEF Spec

-----------------------------------------------------------------------------
(***************************************************************************)
(* One client at a time.                                                   *)
(***************************************************************************)
\* A message that has one version of the settings of one client, or none.
WholeMessage(m) ==
  IF m.config_client_id = None THEN m.config_sensor_count = 0
  ELSE \E list \in versions[m.config_client_id] :
         /\ m.config_sensor_count = Len(list)
         /\ m.config_sensor_count > 0 => m.config_sensor_data = list

LEMMA ReceivedHolds ==
  ASSUME NEW old, NEW m, NEW list \in Seq(Sensors),
         m.config_sensor_count = Len(list),
         m.config_sensor_count > 0 => m.config_sensor_data = list
  PROVE  Holds(Received(old, m), list)
<1>1. Received(old, m).sensors_count = Len(list)
  BY DEF Received
<1>2. CASE list = <<>>
  BY <1>1, <1>2 DEF Holds
<1>3. CASE list # <<>>
  <2>1. Received(old, m).p_sensors = list /\ Received(old, m).p_screen = Rows(list)
    BY <1>3 DEF Received
  <2> QED
    BY <1>1, <2>1 DEF Holds, Rows
<1> QED
  BY <1>2, <1>3

LEMMA ReceivedWhole ==
  ASSUME NEW old, NEW m \in Message, WholeMessage(m)
  PROVE  Whole(Received(old, m))
<1>1. /\ Received(old, m).client_id = m.config_client_id
      /\ Received(old, m).sensors_count = m.config_sensor_count
  BY DEF Received
<1>2. CASE m.config_client_id = None
  BY <1>1, <1>2 DEF WholeMessage, Whole
<1>3. CASE m.config_client_id # None
  <2>1. m.config_client_id \in Clients
    BY <1>3 DEF Message
  <2>2. PICK list \in versions[m.config_client_id] :
          /\ m.config_sensor_count = Len(list)
          /\ m.config_sensor_count > 0 => m.config_sensor_data = list
    BY <1>3 DEF WholeMessage
  <2>3. list \in Seq(Sensors)
    BY <2>1, ConfigurationAssumption
  <2> QED
    BY <1>1, <1>3, <2>2, <2>3, ReceivedHolds DEF Whole
<1> QED
  BY <1>2, <1>3

LEMMA ConfigMessageWhole ==
  \A c \in Clients : \A list \in versions[c] : WholeMessage(ConfigMessage(c, list))
BY NoneAssumption DEF WholeMessage, ConfigMessage

LEMMA RegisterMessageWhole ==
  ASSUME config \in Config, Whole(config) PROVE WholeMessage(RegisterMessage)
<1>1. CASE config.client_id = None
  BY <1>1 DEF Whole, WholeMessage, RegisterMessage
<1>2. CASE config.client_id # None
  <2>1. config.client_id \in Clients
    BY <1>2 DEF Config
  <2>2. PICK list \in versions[config.client_id] : Holds(config, list)
    BY <1>2 DEF Whole
  <2>3. list \in Seq(Sensors)
    BY <2>1, ConfigurationAssumption
  <2> QED
    BY <1>2, <2>2, <2>3 DEF Holds, WholeMessage, RegisterMessage
<1> QED
  BY <1>1, <1>2

LEMMA ShownWhole ==
  ASSUME NEW cf \in Config, Whole(cf), NEW count, NEW e
  PROVE  Whole([cf EXCEPT !.p_screen = ShownIn(cf.p_screen, count, e)])
<1> DEFINE screen == ShownIn(cf.p_screen, count, e)
           new == [cf EXCEPT !.p_screen = screen]
<1>1. DOMAIN screen = DOMAIN cf.p_screen
  BY DEF ShownIn
<1>2. ASSUME NEW i \in DOMAIN cf.p_screen
      PROVE  screen[i].name = cf.p_screen[i].name /\ screen[i].gpio = cf.p_screen[i].gpio
  <2>1. cf.p_screen[i] \in Row
    BY DEF Config
  <2>2. /\ [cf.p_screen[i] EXCEPT !.last = e].name = cf.p_screen[i].name
        /\ [cf.p_screen[i] EXCEPT !.last = e].gpio = cf.p_screen[i].gpio
    BY <2>1 DEF Row
  <2> QED
    BY <2>2 DEF ShownIn
<1>3. /\ new.client_id = cf.client_id
      /\ new.sensors_count = cf.sensors_count
      /\ new.p_sensors = cf.p_sensors
      /\ new.p_screen = screen
  BY DEF Config
<1> HIDE DEF screen, new
<1>4. \A list : Holds(cf, list) => Holds(new, list)
  BY <1>1, <1>2, <1>3 DEF Holds
<1>5. Whole(new)
  BY <1>3, <1>4 DEF Whole
<1> QED
  BY <1>5 DEF new, screen

\* What a client holds once it has read the file; the part of the invariant that
\* makes what it sends whole.
ReadFromFile ==
  \A c \in Clients : state[c] # "RESET" => /\ settings[c] \in versions[c]
                                           /\ sensors[c] = Created(settings[c])

LEMMA ReadFromFileInit == Init => ReadFromFile
BY DEF Init, ReadFromFile

LEMMA ReadFromFileNext == TypeOK /\ ReadFromFile /\ [Next]_vars => ReadFromFile'
<1> SUFFICES ASSUME TypeOK, ReadFromFile, [Next]_vars PROVE ReadFromFile'
  OBVIOUS
<1>1. ASSUME NEW c \in Clients, Setup(c) PROVE ReadFromFile'
  <2>1. PICK list \in versions[c] : /\ settings' = [settings EXCEPT ![c] = list]
                                    /\ sensors' = [sensors EXCEPT ![c] = Created(list)]
    BY <1>1 DEF Setup, ReadConfig
  <2> QED
    BY <1>1, <2>1 DEF Setup, ReadFromFile, TypeOK, Created, Listed
<1>2. ASSUME NEW c \in Clients, SendConfig(c) PROVE ReadFromFile'
  BY <1>2 DEF SendConfig, ReadFromFile, TypeOK, Created, Listed
<1>3. ASSUME NEW c \in Clients, ConfigUnanswered(c) \/ ClientFails(c) PROVE ReadFromFile'
  <2>1. StartsAgain(c)
    BY <1>3 DEF ConfigUnanswered, ClientFails
  <2>2. /\ state' = [state EXCEPT ![c] = "RESET"]
        /\ \A d \in Clients : d # c => settings'[d] = settings[d] /\ sensors'[d] = sensors[d]
    BY <2>1 DEF StartsAgain, TypeOK
  <2>3. state \in [Clients -> {"RESET", "CONFIG", "PROCESS"}]
    BY DEF TypeOK
  <2> QED
    BY <2>2, <2>3 DEF ReadFromFile, Created, Listed
<1>4. ASSUME UNCHANGED clients PROVE ReadFromFile'
  BY <1>4 DEF clients, ReadFromFile, Created, Listed
<1>5. ASSUME NEW c \in Clients, \E s \in Sensors : SendEvent(c, s) PROVE UNCHANGED clients
  BY <1>5 DEF SendEvent
<1>6. ASSUME ProxyStep \/ HeadStep \/ UNCHANGED vars PROVE UNCHANGED clients
  BY <1>6 DEF ProxyStep, HeadStep, Forward, ForwardLost, ProxyRestart, HeadStart, Register,
              RegisterFails, Show, Idle, HeadRestart, vars
<1> QED
  BY <1>1, <1>2, <1>3, <1>4, <1>5, <1>6 DEF Next, ClientStep

LEMMA OneClientInit == Init => OneClientAtATime
BY DEF Init, OneClientAtATime, Whole, Current, NoConfig

\* The head's and the proxy's configurations stay whole.
LEMMA WholeNext ==
  ASSUME TypeOK, ReadFromFile, OneClientAtATime, [Next]_vars
  PROVE  Whole(config)' /\ Whole(headConfig)'
<1> DEFINE Goal == Whole(config') /\ Whole(headConfig')
<1> SUFFICES Goal
  BY DEF Whole, Holds
<1>0. Whole(config) /\ Whole(headConfig)
  BY DEF OneClientAtATime
<1>1. ASSUME NEW c \in Clients, SendConfig(c) \/ ConfigUnanswered(c) PROVE Goal
  <2>1. /\ config' = Received(config, ConfigMessage(c, settings[c]))
        /\ headConfig' = headConfig
        /\ state[c] = "CONFIG"
    BY <1>1 DEF SendConfig, ConfigUnanswered, head
  <2>2. settings[c] \in versions[c] /\ settings[c] \in Seq(Sensors)
    BY <2>1 DEF ReadFromFile, TypeOK
  <2>3. Whole(Received(config, ConfigMessage(c, settings[c])))
    BY <2>2, ConfigMessageType, ConfigMessageWhole, ReceivedWhole
  <2> QED
    BY <1>0, <2>1, <2>3
<1>2. ASSUME Register PROVE Goal
  <2>1. headConfig' = Received(headConfig, RegisterMessage) /\ config' = config
    BY <1>2 DEF Register, proxy
  <2>2. Whole(Received(headConfig, RegisterMessage))
    BY <1>0, RegisterMessageType, RegisterMessageWhole, ReceivedWhole DEF TypeOK
  <2> QED
    BY <1>0, <2>1, <2>2
<1>3. ASSUME Show PROVE Goal
  <2>1. /\ config' = config
        /\ headConfig' = [headConfig EXCEPT !.p_screen =
              ShownIn(headConfig.p_screen, headConfig.sensors_count, Head(headQueue))]
    BY <1>3 DEF Show, proxy
  <2>2. Whole(headConfig')
    BY <1>0, <2>1, ShownWhole DEF TypeOK
  <2> QED
    BY <1>0, <2>1, <2>2
<1>4. ASSUME ProxyRestart \/ HeadRestart PROVE Goal
  <2>1. Whole(NoConfig)
    BY DEF Whole, NoConfig
  <2> QED
    BY <1>0, <1>4, <2>1 DEF ProxyRestart, HeadRestart, proxy, head
<1>5. ASSUME UNCHANGED <<config, headConfig>> PROVE Goal
  BY <1>0, <1>5
<1>6. ASSUME NEW c \in Clients, Setup(c) \/ ClientFails(c) \/ \E s \in Sensors : SendEvent(c, s)
      PROVE  UNCHANGED <<config, headConfig>>
  BY <1>6 DEF Setup, ClientFails, SendEvent, proxy, head
<1>7. ASSUME Forward \/ ForwardLost \/ HeadStart \/ RegisterFails \/ Idle \/ UNCHANGED vars
      PROVE  UNCHANGED <<config, headConfig>>
  BY <1>7 DEF Forward, ForwardLost, HeadStart, RegisterFails, Idle, vars, proxy, head
<1> QED
  BY <1>1, <1>2, <1>3, <1>4, <1>5, <1>6, <1>7
     DEF Next, ClientStep, ProxyStep, HeadStep

\* What the proxy has of a client in PROCESS is what that runs with.
LEMMA CurrentNext ==
  ASSUME TypeOK, ReadFromFile, OneClientAtATime, [Next]_vars, NEW d \in Clients
  PROVE  Current(d)'
<1> SUFFICES ASSUME state'[d] = "PROCESS", config'.client_id = d
             PROVE  Holds(config', settings'[d]) /\ sensors'[d] = Created(settings'[d])
  BY DEF Current, Holds, Created, Listed
<1> DEFINE Goal == Holds(config', settings'[d]) /\ sensors'[d] = Created(settings'[d])
<1>0. Current(d)
  BY DEF OneClientAtATime
<1>1. ASSUME NEW c \in Clients, SendConfig(c) PROVE Goal
  <2>1. /\ config' = Received(config, ConfigMessage(c, settings[c]))
        /\ UNCHANGED <<settings, sensors>>
        /\ settings[c] \in Seq(Sensors)
        /\ sensors[c] = Created(settings[c])
    BY <1>1 DEF SendConfig, TypeOK, ReadFromFile
  <2>2. d = c
    BY <2>1 DEF Received, ConfigMessage
  <2>3. Holds(Received(config, ConfigMessage(c, settings[c])), settings[c])
    BY <2>1, ReceivedHolds DEF ConfigMessage
  <2> QED
    BY <2>1, <2>2, <2>3
<1>2. ASSUME NEW c \in Clients, ConfigUnanswered(c) PROVE Goal
  <2>1. config'.client_id = c /\ state'[c] = "RESET"
    BY <1>2 DEF ConfigUnanswered, StartsAgain, Received, ConfigMessage, TypeOK
  <2> QED
    BY <2>1
<1>3. ASSUME NEW c \in Clients, Setup(c) \/ ClientFails(c) PROVE Goal
  <2>1. state'[c] # "PROCESS" /\ config' = config
    BY <1>3 DEF Setup, ClientFails, StartsAgain, proxy, TypeOK
  <2>2. /\ state'[d] = state[d] /\ settings'[d] = settings[d]
        /\ sensors'[d] = sensors[d]
    BY <1>3, <2>1 DEF Setup, ClientFails, StartsAgain, TypeOK
  <2> QED
    BY <1>0, <2>1, <2>2 DEF Current
<1>4. ASSUME ProxyRestart PROVE Goal
  BY <1>4, NoneAssumption DEF ProxyRestart, NoConfig
<1>5. ASSUME UNCHANGED <<clients, config>> PROVE Goal
  BY <1>0, <1>5 DEF Current, clients
<1>6. ASSUME NEW c \in Clients, \E s \in Sensors : SendEvent(c, s)
      PROVE  UNCHANGED <<clients, config>>
  BY <1>6 DEF SendEvent
<1>7. ASSUME Forward \/ ForwardLost \/ HeadStep \/ UNCHANGED vars
      PROVE  UNCHANGED <<clients, config>>
  BY <1>7 DEF HeadStep, Forward, ForwardLost, HeadStart, Register, RegisterFails, Show, Idle,
              HeadRestart, vars, proxy
<1> QED
  BY <1>1, <1>2, <1>3, <1>4, <1>5, <1>6, <1>7 DEF Next, ClientStep, ProxyStep

LEMMA OneClientNext ==
  TypeOK /\ ReadFromFile /\ OneClientAtATime /\ [Next]_vars => OneClientAtATime'
BY WholeNext, CurrentNext DEF OneClientAtATime

\* The proxy and the head never mix the settings of two clients or of two
\* versions of a file, and the proxy has no old ones of a client that runs.
THEOREM SettingsAreNotMixed == Spec => []OneClientAtATime
BY TypeInit, TypeNext, ReadFromFileInit, ReadFromFileNext, OneClientInit, OneClientNext, PTL
   DEF Spec

-----------------------------------------------------------------------------
(***************************************************************************)
(* The rows.                                                               *)
(***************************************************************************)
LEMMA NewRows ==
  ASSUME NEW old, NEW m \in Message,
         NEW i \in DOMAIN Received(old, m).p_screen,
         Received(old, m).sensors_count > 0
  PROVE  Received(old, m).p_screen[i].last = None
BY DEF Received, Rows

\* A row that counts has the pin of the sensor that it names.
LEMMA RowPin ==
  ASSUME TypeOK, OneClientAtATime, NEW i \in 1 .. headConfig.sensors_count
  PROVE  /\ headConfig.p_screen[i].name \in Sensors
         /\ headConfig.p_screen[i].gpio = gpio[headConfig.p_screen[i].name]
<1>1. i \in DOMAIN headConfig.p_screen /\ headConfig.p_screen[i] \in Row
  BY DEF TypeOK, Config
<1>2. headConfig.client_id \in Clients /\ headConfig.sensors_count > 0
  BY DEF OneClientAtATime, Whole, TypeOK, Config
<1>3. PICK list \in versions[headConfig.client_id] : Holds(headConfig, list)
  BY <1>2, NoneAssumption DEF OneClientAtATime, Whole
<1>4. list \in Seq(Sensors) /\ list # <<>>
  BY <1>2, <1>3, ConfigurationAssumption DEF Holds
<1> QED
  BY <1>1, <1>3, <1>4 DEF Holds, Row

LEMMA RowsInit == Init => RowsShowTheirPin
BY DEF Init, RowsShowTheirPin, NoConfig

LEMMA RowsNext ==
  TypeOK /\ OneClientAtATime /\ RowsShowTheirPin /\ [Next]_vars => RowsShowTheirPin'
<1> SUFFICES ASSUME TypeOK, OneClientAtATime, RowsShowTheirPin, [Next]_vars
             PROVE  \A i \in 1 .. headConfig'.sensors_count :
                      headConfig'.p_screen[i].last # None =>
                        gpio[headConfig'.p_screen[i].last.sensor]
                          = gpio[headConfig'.p_screen[i].name]
  BY DEF RowsShowTheirPin
<1> DEFINE Shows(cf, i) == cf.p_screen[i].last # None =>
                             gpio[cf.p_screen[i].last.sensor] = gpio[cf.p_screen[i].name]
<1>0. \A i \in 1 .. headConfig.sensors_count : Shows(headConfig, i)
  BY DEF RowsShowTheirPin
<1>1. ASSUME Register, NEW i \in 1 .. headConfig'.sensors_count
      PROVE  Shows(headConfig', i)
  <2>1. headConfig' = Received(headConfig, RegisterMessage)
    BY <1>1 DEF Register
  <2>2. /\ RegisterMessage \in Message
        /\ Received(headConfig, RegisterMessage) \in Config
        /\ Received(headConfig, RegisterMessage).sensors_count
             <= Len(Received(headConfig, RegisterMessage).p_screen)
    BY RegisterMessageType, ReceivedType DEF TypeOK
  <2>3. i \in DOMAIN headConfig'.p_screen /\ headConfig'.sensors_count > 0
    BY <1>1, <2>1, <2>2 DEF Config
  <2> QED
    BY <2>1, <2>2, <2>3, NewRows
<1>2. ASSUME Show, NEW i \in 1 .. headConfig'.sensors_count
      PROVE  Shows(headConfig', i)
  <2> DEFINE e == Head(headQueue)
             row == headConfig.p_screen[i]
             screen == ShownIn(headConfig.p_screen, headConfig.sensors_count, e)
  <2>1. /\ headConfig'.p_screen = screen
        /\ headConfig'.sensors_count = headConfig.sensors_count
    BY <1>2 DEF Show, TypeOK, Config
  <2>2. i \in DOMAIN headConfig.p_screen /\ i <= headConfig.sensors_count
    BY <1>2, <2>1 DEF TypeOK, Config
  <2>3. row \in Row /\ e \in Event
    BY <1>2, <2>2 DEF Show, TypeOK, Config
  <2>4. row.name \in Sensors /\ row.gpio = gpio[row.name]
    BY <1>2, <2>1, RowPin
  <2>5. CASE row.gpio = gpio[e.sensor]
    <3>1. screen[i] = [row EXCEPT !.last = e]
      BY <2>2, <2>5 DEF ShownIn
    <3>2. screen[i].last = e /\ screen[i].name = row.name
      BY <2>3, <3>1 DEF Row
    <3> QED
      BY <2>1, <2>4, <2>5, <3>2
  <2>6. CASE row.gpio # gpio[e.sensor]
    <3>1. screen[i] = row
      BY <2>2, <2>6 DEF ShownIn
    <3> QED
      BY <1>0, <2>1, <2>2, <3>1, <1>2
  <2> QED
    BY <2>5, <2>6
<1>3. ASSUME HeadRestart, NEW i \in 1 .. headConfig'.sensors_count
      PROVE  Shows(headConfig', i)
  BY <1>3 DEF HeadRestart, NoConfig
<1>4. ASSUME UNCHANGED headConfig, NEW i \in 1 .. headConfig'.sensors_count
      PROVE  Shows(headConfig', i)
  BY <1>0, <1>4
<1>5. Register \/ Show \/ HeadRestart \/ UNCHANGED headConfig
  BY DEF Next, ClientStep, ProxyStep, HeadStep, Setup, SendConfig, ConfigUnanswered,
         ClientFails, SendEvent, Forward, ForwardLost, ProxyRestart, HeadStart,
         RegisterFails, Idle, vars, proxy, head
<1> QED
  BY <1>1, <1>2, <1>3, <1>4, <1>5

\* What a row shows is an event from the pin that it was registered with, whichever
\* clients share that pin or send their settings meanwhile.
THEOREM RowsAreRight == Spec => []RowsShowTheirPin
BY TypeInit, TypeNext, ReadFromFileInit, ReadFromFileNext, OneClientInit, OneClientNext,
   RowsInit, RowsNext, PTL DEF Spec

-----------------------------------------------------------------------------
(***************************************************************************)
(* The order of events, by their numbers.                                  *)
(***************************************************************************)
Numbers(q) == {q[i].n : i \in 1 .. Len(q)}

\* The numbers of the events that rows show.
Shown(screen) == {screen[i].last.n : i \in {j \in 1 .. Len(screen) : screen[j].last # None}}

InOrder(q) == \A i, j \in 1 .. Len(q) : i < j => q[i].n < q[j].n

Before(S, T) == \A m \in S, n \in T : m < n

Ordered ==
  /\ InOrder(queue) /\ InOrder(headQueue)
  /\ Before(Numbers(headQueue), Numbers(queue))
  /\ Before(Shown(headConfig.p_screen), Numbers(headQueue))
  /\ Before(Shown(headConfig.p_screen), Numbers(queue))
  /\ Numbers(queue) \cup Numbers(headQueue) \cup Shown(headConfig.p_screen)
       \subseteq 0 .. reported

LEMMA TailInOrder ==
  ASSUME NEW q \in Seq(Event), q # <<>>
  PROVE  /\ Tail(q) \in Seq(Event) /\ Head(q) \in Event
         /\ Head(q).n \in Numbers(q)
         /\ Numbers(Tail(q)) \subseteq Numbers(q)
         /\ InOrder(q) => /\ InOrder(Tail(q))
                          /\ Before({Head(q).n}, Numbers(Tail(q)))
<1>1. /\ Tail(q) \in Seq(Event) /\ Head(q) \in Event
      /\ Len(q) \in Nat \ {0} /\ Len(Tail(q)) = Len(q) - 1
      /\ Head(q) = q[1]
      /\ \A i \in 1 .. Len(Tail(q)) : i + 1 \in 1 .. Len(q) /\ Tail(q)[i] = q[i + 1]
  OBVIOUS
<1>2. Head(q).n \in Numbers(q) /\ Numbers(Tail(q)) \subseteq Numbers(q)
  BY <1>1 DEF Numbers
<1>3. ASSUME InOrder(q), NEW i \in 1 .. Len(Tail(q)), NEW j \in 1 .. Len(Tail(q)), i < j
      PROVE  Tail(q)[i].n < Tail(q)[j].n
  <2>1. /\ i + 1 \in 1 .. Len(q) /\ j + 1 \in 1 .. Len(q) /\ i + 1 < j + 1
        /\ Tail(q)[i] = q[i + 1] /\ Tail(q)[j] = q[j + 1]
    BY <1>1, <1>3
  <2> QED
    BY <1>3, <2>1 DEF InOrder
<1>4. ASSUME InOrder(q), NEW n \in Numbers(Tail(q)) PROVE Head(q).n < n
  <2>1. PICK i \in 1 .. Len(Tail(q)) : n = Tail(q)[i].n
    BY DEF Numbers
  <2>2. i + 1 \in 1 .. Len(q) /\ 1 \in 1 .. Len(q) /\ 1 < i + 1 /\ n = q[i + 1].n
    BY <1>1, <2>1
  <2> QED
    BY <1>1, <1>4, <2>2 DEF InOrder
<1> QED
  BY <1>1, <1>2, <1>3, <1>4 DEF InOrder, Before

LEMMA AppendInOrder ==
  ASSUME NEW q \in Seq(Event), NEW e \in Event
  PROVE  /\ Numbers(Append(q, e)) = Numbers(q) \cup {e.n}
         /\ InOrder(q) /\ Before(Numbers(q), {e.n}) => InOrder(Append(q, e))
<1> DEFINE r == Append(q, e)
<1>1. /\ Len(r) = Len(q) + 1 /\ Len(q) \in Nat
      /\ r[Len(q) + 1] = e
      /\ \A i \in 1 .. Len(q) : r[i] = q[i]
  OBVIOUS
<1> HIDE DEF r
<1>2. 1 .. Len(r) = 1 .. Len(q) \cup {Len(q) + 1}
  BY <1>1
<1>3. Numbers(r) = Numbers(q) \cup {e.n}
  BY <1>1, <1>2, Zenon DEF Numbers
<1>4. ASSUME InOrder(q), Before(Numbers(q), {e.n}),
             NEW i \in 1 .. Len(r), NEW j \in 1 .. Len(r), i < j
      PROVE  r[i].n < r[j].n
  <2>1. i \in 1 .. Len(q) /\ r[i] = q[i] /\ q[i].n \in Numbers(q)
    BY <1>1, <1>4 DEF Numbers
  <2>2. CASE j \in 1 .. Len(q)
    BY <1>1, <1>4, <2>1, <2>2 DEF InOrder
  <2>3. CASE j = Len(q) + 1
    BY <1>1, <1>4, <2>1, <2>3 DEF Before
  <2> QED
    BY <1>2, <2>2, <2>3
<1> QED
  BY <1>3, <1>4 DEF InOrder, r

LEMMA ShownInNumbers ==
  ASSUME NEW screen \in Seq(Row), NEW count \in Nat, NEW e \in Event
  PROVE  Shown(ShownIn(screen, count, e)) \subseteq Shown(screen) \cup {e.n}
<1> DEFINE new == ShownIn(screen, count, e)
<1>1. Len(new) = Len(screen) /\ DOMAIN screen = 1 .. Len(screen)
  BY ShownInType
<1>2. ASSUME NEW i \in 1 .. Len(screen)
      PROVE  new[i] = screen[i] \/ new[i].last = e
  <2>1. [screen[i] EXCEPT !.last = e].last = e
    BY DEF Row
  <2> QED
    BY <1>1, <2>1 DEF ShownIn
<1> HIDE DEF new
<1>3. Shown(new) \subseteq Shown(screen) \cup {e.n}
  BY <1>1, <1>2 DEF Shown
<1> QED
  BY <1>3 DEF new

\* Register makes all rows new, or keeps those the head had.
LEMMA ReceivedNumbers ==
  ASSUME NEW old \in Config, NEW m \in Message
  PROVE  Shown(Received(old, m).p_screen) \subseteq Shown(old.p_screen)
<1>1. CASE m.config_sensor_count > 0
  <2>1. /\ Rows(m.config_sensor_data) \in Seq(Row)
        /\ Received(old, m).p_screen = Rows(m.config_sensor_data)
    BY <1>1, RowsType DEF Received, Message
  <2>2. \A i \in 1 .. Len(Rows(m.config_sensor_data)) :
          Rows(m.config_sensor_data)[i].last = None
    BY <2>1 DEF Rows
  <2> QED
    BY <2>1, <2>2 DEF Shown
<1>2. CASE m.config_sensor_count = 0
  BY <1>2 DEF Received
<1> QED
  BY <1>1, <1>2 DEF Message

LEMMA OrderedInit == Init => Ordered
BY DEF Init, Ordered, InOrder, Before, Numbers, Shown, NoConfig

LEMMA OrderedNext == TypeOK /\ Ordered /\ [Next]_vars => Ordered'
<1> SUFFICES ASSUME TypeOK, Ordered, [Next]_vars PROVE Ordered'
  OBVIOUS
<1> DEFINE S == Shown(headConfig.p_screen)
<1>t. /\ queue \in Seq(Event) /\ headQueue \in Seq(Event)
      /\ headConfig \in Config /\ headConfig.p_screen \in Seq(Row)
      /\ reported \in Nat
  BY ConfigurationAssumption DEF TypeOK, Config
<1>1. ASSUME NEW c \in Clients, NEW s \in Sensors, SendEvent(c, s) PROVE Ordered'
  <2> DEFINE e == [sensor |-> s, n |-> reported + 1]
  <2>1. /\ queue' = Append(queue, e) /\ reported' = reported + 1
        /\ headQueue' = headQueue /\ headConfig' = headConfig
    BY <1>1 DEF SendEvent, head
  <2>2. e \in Event /\ e.n = reported + 1
    BY <1>1, <1>t, ConfigurationAssumption DEF SendEvent, Event
  <2> HIDE DEF e
  <2>3. \A m \in 0 .. reported : m < e.n /\ m \in 0 .. reported'
    BY <1>t, <2>1, <2>2
  <2>4. e.n \in 0 .. reported'
    BY <1>t, <2>1, <2>2
  <2>5. Numbers(queue') = Numbers(queue) \cup {e.n} /\ InOrder(queue')
    BY <1>t, <2>1, <2>2, <2>3, AppendInOrder DEF Ordered, Before
  <2>6. Numbers(headQueue') = Numbers(headQueue) /\ InOrder(headQueue') /\ S' = S
    BY <2>1 DEF Ordered
  <2> QED
    BY <2>3, <2>4, <2>5, <2>6 DEF Ordered, Before
<1>2. ASSUME Forward PROVE Ordered'
  <2>1. /\ queue # <<>> /\ queue' = Tail(queue) /\ reported' = reported
        /\ headConfig' = headConfig
        /\ headQueue' = headQueue \/ headQueue' = Append(headQueue, Head(queue))
    BY <1>2 DEF Forward
  <2>2. /\ Head(queue) \in Event /\ Head(queue).n \in Numbers(queue)
        /\ Numbers(queue') \subseteq Numbers(queue) /\ InOrder(queue')
        /\ Before({Head(queue).n}, Numbers(queue'))
    BY <1>t, <2>1, TailInOrder DEF Ordered
  <2>3. Before(Numbers(headQueue), {Head(queue).n})
    BY <2>2 DEF Ordered, Before
  <2>4. /\ Numbers(headQueue') \subseteq Numbers(headQueue) \cup {Head(queue).n}
        /\ InOrder(headQueue')
    BY <1>t, <2>1, <2>2, <2>3, AppendInOrder DEF Ordered
  <2>5. S' = S
    BY <2>1
  <2> QED
    BY <2>1, <2>2, <2>4, <2>5 DEF Ordered, Before
<1>3. ASSUME ForwardLost PROVE Ordered'
  <2>1. /\ queue # <<>> /\ queue' = Tail(queue) /\ reported' = reported
        /\ headConfig' = headConfig /\ headQueue' = headQueue
    BY <1>3 DEF ForwardLost, head
  <2>2. Numbers(queue') \subseteq Numbers(queue) /\ InOrder(queue')
    BY <1>t, <2>1, TailInOrder DEF Ordered
  <2> QED
    BY <2>1, <2>2 DEF Ordered, Before
<1>4. ASSUME Show PROVE Ordered'
  <2> DEFINE e == Head(headQueue)
             screen == ShownIn(headConfig.p_screen, headConfig.sensors_count, e)
  <2>1. /\ headQueue # <<>> /\ headQueue' = Tail(headQueue)
        /\ reported' = reported /\ queue' = queue
        /\ headConfig'.p_screen = screen
    BY <1>4, <1>t DEF Show, proxy, Config
  <2>2. /\ e \in Event /\ e.n \in Numbers(headQueue)
        /\ Numbers(headQueue') \subseteq Numbers(headQueue) /\ InOrder(headQueue')
        /\ Before({e.n}, Numbers(headQueue'))
    BY <1>t, <2>1, TailInOrder DEF Ordered
  <2>3. Shown(screen) \subseteq S \cup {e.n}
    BY <1>t, <2>2, ShownInNumbers DEF Config
  <2> HIDE DEF e, screen
  <2>4. S' \subseteq S \cup {e.n}
    BY <2>1, <2>3
  <2> QED
    BY <2>1, <2>2, <2>4 DEF Ordered, Before
<1>5. ASSUME Register PROVE Ordered'
  <2>1. /\ headConfig' = Received(headConfig, RegisterMessage)
        /\ UNCHANGED <<reported, queue, headQueue>>
    BY <1>5 DEF Register, proxy
  <2>2. S' \subseteq S
    BY <1>t, <2>1, RegisterMessageType, ReceivedNumbers DEF TypeOK
  <2> QED
    BY <2>1, <2>2 DEF Ordered, Before
<1>6. ASSUME ProxyRestart PROVE Ordered'
  <2>1. /\ UNCHANGED <<reported, headQueue, headConfig>>
        /\ Numbers(queue') = {} /\ InOrder(queue')
    BY <1>6 DEF ProxyRestart, head, Numbers, InOrder
  <2> QED
    BY <2>1 DEF Ordered, Before
<1>7. ASSUME HeadRestart PROVE Ordered'
  <2>1. /\ UNCHANGED <<reported, queue>>
        /\ Numbers(headQueue') = {} /\ InOrder(headQueue') /\ S' = {}
    BY <1>7 DEF HeadRestart, proxy, Numbers, InOrder, Shown, NoConfig
  <2> QED
    BY <2>1 DEF Ordered, Before
<1>8. ASSUME UNCHANGED <<reported, queue, headQueue, headConfig>> PROVE Ordered'
  BY <1>8 DEF Ordered
<1>9. ASSUME NEW c \in Clients,
             Setup(c) \/ SendConfig(c) \/ ConfigUnanswered(c) \/ ClientFails(c)
      PROVE  UNCHANGED <<reported, queue, headQueue, headConfig>>
  BY <1>9 DEF Setup, SendConfig, ConfigUnanswered, ClientFails, proxy, head
<1>10. ASSUME HeadStart \/ RegisterFails \/ Idle \/ UNCHANGED vars
       PROVE  UNCHANGED <<reported, queue, headQueue, headConfig>>
  BY <1>10 DEF HeadStart, RegisterFails, Idle, vars, proxy, head
<1> QED
  BY <1>1, <1>2, <1>3, <1>4, <1>5, <1>6, <1>7, <1>8, <1>9, <1>10
     DEF Next, ClientStep, ProxyStep, HeadStep

\* While the head runs, only Show changes a row, to the event that is next and
\* so newer than what any row shows.
LEMMA RowStep ==
  ASSUME TypeOK, Ordered, [Next]_vars, headState = "show", headState' = "show",
         NEW i \in 1 .. headConfig.sensors_count,
         headConfig.p_screen[i].last # None
  PROVE  /\ headConfig'.p_screen[i].last # None
         /\ headConfig'.p_screen[i].last.n >= headConfig.p_screen[i].last.n
<1> DEFINE row == headConfig.p_screen[i]
<1>1. i \in 1 .. Len(headConfig.p_screen) /\ row \in Row
  BY DEF TypeOK, Config
<1>2. row.last \in Event /\ row.last.n \in Nat
  BY <1>1 DEF Row, Event
<1>3. CASE Show
  <2> DEFINE e == Head(headQueue)
             screen == ShownIn(headConfig.p_screen, headConfig.sensors_count, e)
  <2>1. headConfig'.p_screen = screen /\ headQueue # <<>>
    BY <1>3 DEF Show, TypeOK, Config
  <2>2. e \in Event /\ e.n \in Numbers(headQueue)
    BY <2>1, TailInOrder DEF TypeOK
  <2>3. row.last.n \in Shown(headConfig.p_screen)
    BY <1>1 DEF Shown
  <2>4. row.last.n < e.n /\ e.n \in Nat
    BY <2>2, <2>3 DEF Ordered, Before, Event
  <2>5. [row EXCEPT !.last = e].last = e
    BY <1>1 DEF Row
  <2>6. screen[i] = row \/ screen[i].last = e
    BY <1>1, <2>5 DEF ShownIn, TypeOK, Config
  <2>7. e # None
    BY <2>2, NoneAssumption
  <2> HIDE DEF e, screen
  <2> QED
    BY <1>2, <2>1, <2>4, <2>6, <2>7
<1>4. CASE headConfig' = headConfig
  BY <1>2, <1>4
<1>5. Show \/ headConfig' = headConfig
  BY DEF Next, ClientStep, ProxyStep, HeadStep, Setup, SendConfig, ConfigUnanswered,
         ClientFails, SendEvent, Forward, ForwardLost, ProxyRestart, HeadStart,
         Register, RegisterFails, Idle, HeadRestart, vars, proxy, head
<1> QED
  BY <1>3, <1>4, <1>5

\* A row of a running head never goes back to an older event.
THEOREM RowsNeverGoBack == Spec => RowsOnlyAdvance
<1> DEFINE Advance ==
      headState = "show" /\ headState' = "show" =>
        \A i \in 1 .. headConfig.sensors_count :
          LET old == headConfig.p_screen[i].last
              new == headConfig'.p_screen[i].last
          IN  old # None => new # None /\ new.n >= old.n
<1>1. TypeOK /\ Ordered /\ [Next]_vars => [Advance]_vars
  BY RowStep
<1> QED
  BY <1>1, TypeInit, TypeNext, OrderedInit, OrderedNext, PTL DEF Spec, RowsOnlyAdvance

-----------------------------------------------------------------------------
(***************************************************************************)
(* Events get on to their rows.                                            *)
(***************************************************************************)
\* What a step adds to or takes from a queue leaves every other event in it.
LEMMA StaysInAppended ==
  ASSUME NEW q \in Seq(Event), NEW new \in Event, NEW k \in DOMAIN q
  PROVE  k \in DOMAIN Append(q, new) /\ Append(q, new)[k] = q[k]
OBVIOUS

LEMMA LastOfAppended ==
  ASSUME NEW q \in Seq(Event), NEW new \in Event
  PROVE  \E k \in DOMAIN Append(q, new) : Append(q, new)[k] = new
<1>1. /\ Len(q) + 1 \in DOMAIN Append(q, new)
      /\ Append(q, new)[Len(q) + 1] = new
  OBVIOUS
<1> QED
  BY <1>1

LEMMA StaysInTail ==
  ASSUME NEW q \in Seq(Event), NEW k \in DOMAIN q, q # <<>>
  PROVE  q[k] = Head(q) \/ \E l \in DOMAIN Tail(q) : Tail(q)[l] = q[k]
<1>1. k \in 1 .. Len(q) /\ Head(q) = q[1] /\ Len(q) \in Nat
  OBVIOUS
<1>2. CASE k = 1
  BY <1>1, <1>2
<1>3. CASE k > 1
  <2>1. k - 1 \in DOMAIN Tail(q) /\ Tail(q)[k - 1] = q[k]
    BY <1>1, <1>3
  <2> QED
    BY <2>1
<1> QED
  BY <1>1, <1>2, <1>3

\* The step that shows an event e puts it into the rows of its sensor.
LEMMA ShowShows ==
  ASSUME TypeOK, OneClientAtATime, Show,
         NEW i \in 1 .. headConfig.sensors_count
  PROVE  /\ headConfig'.sensors_count = headConfig.sensors_count
         /\ headConfig'.p_screen[i].name = headConfig.p_screen[i].name
         /\ headConfig.p_screen[i].name = Head(headQueue).sensor
              => headConfig'.p_screen[i].last = Head(headQueue)
<1> DEFINE e == Head(headQueue)
           row == headConfig.p_screen[i]
           screen == ShownIn(headConfig.p_screen, headConfig.sensors_count, e)
<1>1. /\ headConfig'.p_screen = screen
      /\ headConfig'.sensors_count = headConfig.sensors_count
  BY DEF Show, TypeOK, Config
<1>2. i \in DOMAIN headConfig.p_screen /\ i <= headConfig.sensors_count /\ row \in Row
  BY DEF TypeOK, Config
<1>3. screen[i] = IF row.gpio = gpio[e.sensor] THEN [row EXCEPT !.last = e] ELSE row
  BY <1>2 DEF ShownIn
<1>4. row.gpio = gpio[row.name]
  BY RowPin
<1>5. [row EXCEPT !.last = e].name = row.name /\ [row EXCEPT !.last = e].last = e
  BY <1>2 DEF Row
<1> HIDE DEF e, row, screen
<1>6. screen[i].name = row.name
  BY <1>3, <1>5
<1>7. row.name = e.sensor => screen[i].last = e
  BY <1>3, <1>4, <1>5
<1> QED
  BY <1>1, <1>6, <1>7 DEF e, row

\* Without a fault a running head goes on running.
LEMMA Faultless ==
  ASSUME TypeOK, [Next]_vars, headState = "show", faults' = faults
  PROVE  /\ headState' = "show"
         /\ \/ /\ \E c \in Clients, s \in Sensors : SendEvent(c, s)
               /\ UNCHANGED <<headConfig, headQueue>>
            \/ Forward /\ UNCHANGED headConfig
            \/ Show
            \/ UNCHANGED <<queue, headConfig, headQueue>>
<1>1. ~ Fault
  BY DEF Fault, TypeOK
<1>2. ASSUME NEW c \in Clients, Setup(c) \/ SendConfig(c)
      PROVE  UNCHANGED <<queue, head>>
  BY <1>2 DEF Setup, SendConfig, proxy
<1>3. ASSUME NEW c \in Clients, NEW s \in Sensors, SendEvent(c, s)
      PROVE  UNCHANGED head
  BY <1>3 DEF SendEvent
<1>4. ASSUME Forward
      PROVE  headState' = headState /\ headConfig' = headConfig
  BY <1>4 DEF Forward
<1>5. ASSUME Show PROVE headState' = headState
  BY <1>5 DEF Show
<1>6. ASSUME Idle \/ UNCHANGED vars PROVE UNCHANGED <<queue, head>>
  BY <1>6 DEF Idle, vars, proxy, head
<1>7. \/ \E c \in Clients : Setup(c) \/ SendConfig(c)
      \/ \E c \in Clients, s \in Sensors : SendEvent(c, s)
      \/ Forward \/ Show \/ Idle \/ UNCHANGED vars
  BY <1>1 DEF Next, ClientStep, ProxyStep, HeadStep, ConfigUnanswered, ClientFails,
              ForwardLost, ProxyRestart, HeadStart, Register, RegisterFails, HeadRestart
<1> QED
  BY <1>2, <1>3, <1>4, <1>5, <1>6, <1>7 DEF head

LEMMA EventGetsOn ==
  ASSUME TypeOK, OneClientAtATime, Ordered, [Next]_vars,
         headState = "show", faults' = faults,
         NEW e \in Event, HasRow(e), Underway(e) \/ InItsRow(e)
  PROVE  headState' = "show" /\ HasRow(e)' /\ (Underway(e)' \/ InItsRow(e)')
<1>t. /\ queue \in Seq(Event) /\ headQueue \in Seq(Event)
      /\ \A i \in 1 .. headConfig.sensors_count : headConfig.p_screen[i] \in Row
  BY DEF TypeOK, Config
<1>1. headState' = "show"
  BY Faultless
<1>2. /\ headConfig'.sensors_count = headConfig.sensors_count
      /\ \A i \in 1 .. headConfig.sensors_count :
           headConfig'.p_screen[i].name = headConfig.p_screen[i].name
  <2>1. CASE Show
    BY <2>1, ShowShows DEF HasRow
  <2>2. CASE headConfig' = headConfig
    BY <2>2
  <2> QED
    BY <2>1, <2>2, Faultless
<1>3. HasRow(e)'
  BY <1>2 DEF HasRow
<1>4. ASSUME InItsRow(e) PROVE InItsRow(e)'
  <2>1. PICK i \in 1 .. headConfig.sensors_count :
          LET row == headConfig.p_screen[i]
          IN  row.name = e.sensor /\ row.last # None /\ row.last.n >= e.n
    BY <1>4 DEF InItsRow
  <2>2. /\ headConfig'.p_screen[i].last # None
        /\ headConfig'.p_screen[i].last.n >= headConfig.p_screen[i].last.n
    BY <1>1, <2>1, RowStep
  <2>3. headConfig'.p_screen[i].last.n \in Nat /\ headConfig.p_screen[i].last.n \in Nat
    <3>1. TypeOK'
      BY TypeNext
    <3>2. /\ headConfig'.p_screen \in Seq(Row)
          /\ headConfig'.sensors_count <= Len(headConfig'.p_screen)
          /\ headConfig'.sensors_count \in Nat
      BY <3>1 DEF TypeOK, Config
    <3>3. i \in 1 .. headConfig'.sensors_count
      BY <1>2, <2>1
    <3>4. headConfig'.p_screen[i] \in Row
      BY <3>2, <3>3
    <3> QED
      BY <1>t, <2>1, <2>2, <3>4 DEF Row, Event
  <2> QED
    BY <1>2, <2>1, <2>2, <2>3 DEF InItsRow, Event
<1>5. ASSUME NEW k \in DOMAIN queue, queue[k] = e PROVE Underway(e)' \/ InItsRow(e)'
  <2>1. CASE \E c \in Clients, s \in Sensors : SendEvent(c, s)
    <3>1. PICK c \in Clients, s \in Sensors : SendEvent(c, s)
      BY <2>1
    <3>2. /\ queue' = Append(queue, [sensor |-> s, n |-> reported + 1])
          /\ [sensor |-> s, n |-> reported + 1] \in Event
      BY <3>1, ConfigurationAssumption DEF SendEvent, TypeOK, Event
    <3> QED
      BY <1>t, <1>5, <3>2, StaysInAppended DEF Underway
  <2>2. CASE Forward
    <3>1. /\ queue # <<>> /\ queue' = Tail(queue)
          /\ headQueue' = Append(headQueue, Head(queue))
      BY <2>2 DEF Forward
    <3>2. CASE e = Head(queue)
      BY <1>t, <3>1, <3>2, LastOfAppended DEF Underway
    <3>3. CASE e # Head(queue)
      BY <1>t, <1>5, <3>1, <3>3, StaysInTail DEF Underway
    <3> QED
      BY <3>2, <3>3
  <2>3. CASE queue' = queue
    BY <1>5, <2>3 DEF Underway
  <2> QED
    BY <2>1, <2>2, <2>3, Faultless DEF Show, proxy
<1>6. ASSUME NEW k \in DOMAIN headQueue, headQueue[k] = e
      PROVE  Underway(e)' \/ InItsRow(e)'
  <2>1. CASE Forward
    <3>1. queue # <<>> /\ headQueue' = Append(headQueue, Head(queue))
      BY <2>1 DEF Forward
    <3>2. Head(queue) \in Event
      BY <1>t, <3>1
    <3> QED
      BY <1>t, <1>6, <3>1, <3>2, StaysInAppended DEF Underway
  <2>2. CASE Show
    <3>1. headQueue # <<>> /\ headQueue' = Tail(headQueue)
      BY <2>2 DEF Show
    <3>2. CASE e = Head(headQueue)
      <4>1. PICK i \in 1 .. headConfig.sensors_count :
              headConfig.p_screen[i].name = e.sensor
        BY DEF HasRow
      <4>2. headConfig'.p_screen[i].last = e
        BY <2>2, <3>2, <4>1, ShowShows
      <4>3. e # None /\ e.n >= e.n
        BY NoneAssumption DEF Event
      <4> QED
        BY <1>2, <4>1, <4>2, <4>3 DEF InItsRow
    <3>3. CASE e # Head(headQueue)
      BY <1>t, <1>6, <3>1, <3>3, StaysInTail DEF Underway
    <3> QED
      BY <3>2, <3>3
  <2>3. CASE headQueue' = headQueue
    BY <1>6, <2>3 DEF Underway
  <2> QED
    BY <2>1, <2>2, <2>3, Faultless
<1> QED
  BY <1>1, <1>3, <1>4, <1>5, <1>6 DEF Underway

\* Between two faults an event whose sensor has a row of the running head is in
\* a queue until this row shows it or a later one, and the row stays.
THEOREM EventsNeverStray == Spec => EventsGetOn
<1> DEFINE GetOn ==
      \A e \in Event :
        /\ headState = "show" /\ faults' = faults
        /\ HasRow(e) /\ (Underway(e) \/ InItsRow(e))
        => /\ headState' = "show"
           /\ HasRow(e)' /\ (Underway(e)' \/ InItsRow(e)')
<1>1. TypeOK /\ OneClientAtATime /\ Ordered /\ [Next]_vars => [GetOn]_vars
  BY EventGetsOn
<1> QED
  BY <1>1, TypeInit, TypeNext, ReadFromFileInit, ReadFromFileNext, OneClientInit,
     OneClientNext, OrderedInit, OrderedNext, PTL DEF Spec, EventsGetOn
=============================================================================
