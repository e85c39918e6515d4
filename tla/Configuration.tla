--------------------------- MODULE Configuration ---------------------------
(***************************************************************************)
(* Who knows which sensors: clients read their settings from a file        *)
(* (client_config.cpp), make their sensors (client_sensor_manager.cpp) and *)
(* send the settings to the proxy (client_process_config.cpp,              *)
(* proxy_config.cpp), which keeps those of the last one; the head asks for *)
(* them once, when it starts (proxy_register.cpp, head_config.cpp), and    *)
(* shows events in the rows they give it (head_main.cpp).                  *)
(*                                                                         *)
(* An exchange is one step here, or one step that only its receiver takes; *)
(* EventPath and Exchange have its parts.  A message is the record of its  *)
(* fields.  The name of a sensor is the sensor.                            *)
(***************************************************************************)
EXTENDS Integers, Sequences

CONSTANTS Clients,
          Sensors,
          versions,         \* versions[c]: the lists of sensors that shp_client.cfg
                            \* of c has had and will have, while somebody edits it
          gpio,             \* gpio[s]: the pin of sensor s at its client
          type,             \* type[s]: what the file says that sensor s is
          None,             \* no client, or no event yet
          MaxEvents,        \* bound on the events
          MaxFaults         \* bound on restarts and lost exchanges

ASSUME ConfigurationAssumption ==
  /\ versions \in [Clients -> SUBSET Seq(Sensors)]
  /\ gpio \in [Sensors -> Nat]
  /\ type \in [Sensors -> STRING]
  /\ MaxEvents \in Nat
  /\ MaxFaults \in Nat

VARIABLES
  state,        \* current_state of each client
  settings,     \* settings[c]: sensors_settings of client c
  sensors,      \* sensors[c]: those that its sensor manager has made
  reported,     \* events so far
  config,       \* of the proxy
  queue,        \* of the proxy
  headState,    \* "down", "register" or "show"
  headConfig,   \* of the head, with its screen
  headQueue,
  faults

clients == <<state, settings, sensors>>
proxy == <<config, queue>>
head == <<headState, headConfig, headQueue>>
vars == <<clients, reported, proxy, head, faults>>

Event == [sensor : Sensors, n : 1 .. MaxEvents]

ASSUME NoneAssumption == None \notin Clients \cup Event

NoConfig == [client_id |-> None, sensors_count |-> 0, p_sensors |-> <<>>, p_screen |-> <<>>]

Init ==
  /\ state = [c \in Clients |-> "RESET"]
  /\ settings = [c \in Clients |-> <<>>]
  /\ sensors = [c \in Clients |-> {}]
  /\ reported = 0
  /\ config = NoConfig
  /\ queue = <<>>
  /\ headState = "down"
  /\ headConfig = NoConfig
  /\ headQueue = <<>>
  /\ faults = 0

Fault == faults < MaxFaults /\ faults' = faults + 1

-----------------------------------------------------------------------------
(***************************************************************************)
(* The messages send_config and send_register_result; config_sensor_data   *)
(* is in them only if there are sensors.                                   *)
(***************************************************************************)
ConfigMessage(c, list) ==
  [config_client_id |-> c,
   config_sensor_count |-> Len(list),
   config_sensor_data |-> list]

RegisterMessage ==
  [config_client_id |-> config.client_id,
   config_sensor_count |-> config.sensors_count,
   config_sensor_data |-> IF config.sensors_count > 0 THEN config.p_sensors ELSE <<>>]

Rows(list) == [i \in DOMAIN list |-> [name |-> list[i], gpio |-> gpio[list[i]], last |-> None]]

\* Fault: the count is one too high.
ReceivedOffByOne(old, m) ==
  [client_id |-> m.config_client_id,
   sensors_count |-> m.config_sensor_count + 1,
   p_sensors |-> IF m.config_sensor_count > 0 THEN m.config_sensor_data ELSE old.p_sensors,
   p_screen |-> IF m.config_sensor_count > 0 THEN Rows(m.config_sensor_data) ELSE old.p_screen]

\* Fault: the count is taken over only when there are sensors.
ReceivedKeepsCount(old, m) ==
  IF m.config_sensor_count > 0
  THEN [client_id |-> m.config_client_id,
        sensors_count |-> m.config_sensor_count,
        p_sensors |-> m.config_sensor_data,
        p_screen |-> Rows(m.config_sensor_data)]
  ELSE [old EXCEPT !.client_id = m.config_client_id]

\* process_message_configuration, the same in the proxy and in the head: without
\* sensors the old arrays stay, and are not looked at.
Received(old, m) ==
  [client_id |-> m.config_client_id,
   sensors_count |-> m.config_sensor_count,
   p_sensors |-> IF m.config_sensor_count > 0 THEN m.config_sensor_data ELSE old.p_sensors,
   p_screen |-> IF m.config_sensor_count > 0 THEN Rows(m.config_sensor_data) ELSE old.p_screen]

-----------------------------------------------------------------------------
(***************************************************************************)
(* Clients.                                                                *)
(***************************************************************************)
\* What reading the file can leave in sensors_settings: its list, or what was
\* there if the file cannot be read just then or has no list.
ReadConfig(c, old) == versions[c] \cup {old}

\* The types that add_sensor knows; LEDs report nothing.
EventTypes == {"BUTTON", "DHT11", "FLAME", "PIR"}
KnownTypes == EventTypes \cup {"LED"}

Listed(list) == {list[i] : i \in DOMAIN list}

Created(list) == {s \in Listed(list) : type[s] \in KnownTypes}

\* RESET, VERSION and the beginning of CONFIG: the file is read twice, by main,
\* which needs the list, and by the first function that asks for a setting;
\* then setup_sensors runs.
Setup(c) ==
  /\ state[c] = "RESET"
  /\ \E first \in versions[c] : \E second \in ReadConfig(c, first) :
       /\ settings' = [settings EXCEPT ![c] = second]
       /\ sensors' = [sensors EXCEPT ![c] = Created(second)]
  /\ state' = [state EXCEPT ![c] = "CONFIG"]
  /\ UNCHANGED <<reported, proxy, head, faults>>

\* Fault: each look at the settings reads the file.
SendConfigReadsAgain(c) ==
  /\ state[c] = "CONFIG"
  /\ \E list \in ReadConfig(c, settings[c]) :
       config' = Received(config, ConfigMessage(c, list))
  /\ state' = [state EXCEPT ![c] = "PROCESS"]
  /\ UNCHANGED <<settings, sensors, reported, queue, head, faults>>

SendConfig(c) ==
  /\ state[c] = "CONFIG"
  /\ config' = Received(config, ConfigMessage(c, settings[c]))
  /\ state' = [state EXCEPT ![c] = "PROCESS"]
  /\ UNCHANGED <<settings, sensors, reported, queue, head, faults>>

\* The script starts the client again.
StartsAgain(c) ==
  /\ state' = [state EXCEPT ![c] = "RESET"]
  /\ settings' = [settings EXCEPT ![c] = <<>>]
  /\ sensors' = [sensors EXCEPT ![c] = {}]

\* The proxy has the settings, but the client not the answer.
ConfigUnanswered(c) ==
  /\ state[c] = "CONFIG"
  /\ Fault
  /\ config' = Received(config, ConfigMessage(c, settings[c]))
  /\ StartsAgain(c)
  /\ UNCHANGED <<reported, queue, head>>

ClientFails(c) ==
  /\ state[c] # "RESET"
  /\ Fault
  /\ StartsAgain(c)
  /\ UNCHANGED <<reported, proxy, head>>

SendEvent(c, s) ==
  /\ state[c] = "PROCESS"
  /\ s \in sensors[c] /\ type[s] \in EventTypes
  /\ reported < MaxEvents
  /\ reported' = reported + 1
  /\ queue' = Append(queue, [sensor |-> s, n |-> reported + 1])
  /\ UNCHANGED <<clients, config, head, faults>>

-----------------------------------------------------------------------------
(***************************************************************************)
(* The proxy.                                                              *)
(***************************************************************************)
\* Fault: the newest event goes first.
ForwardNewest ==
  /\ queue # <<>>
  /\ queue' = SubSeq(queue, 1, Len(queue) - 1)
  /\ headQueue' = IF headState = "down" THEN headQueue
                  ELSE Append(headQueue, queue[Len(queue)])
  /\ UNCHANGED <<clients, reported, config, headState, headConfig, faults>>

\* an event for a head that is down is lost
Forward ==
  /\ queue # <<>>
  /\ queue' = Tail(queue)
  /\ headQueue' = IF headState = "down" THEN headQueue ELSE Append(headQueue, Head(queue))
  /\ UNCHANGED <<clients, reported, config, headState, headConfig, faults>>

ForwardLost ==
  /\ queue # <<>>
  /\ Fault
  /\ queue' = Tail(queue)
  /\ UNCHANGED <<clients, reported, config, head>>

ProxyRestart ==
  /\ Fault
  /\ config' = NoConfig
  /\ queue' = <<>>
  /\ UNCHANGED <<clients, reported, head>>

-----------------------------------------------------------------------------
(***************************************************************************)
(* The head.  Its working thread takes events before it has registered.    *)
(***************************************************************************)
HeadStart ==
  /\ headState = "down"
  /\ headState' = "register"
  /\ UNCHANGED <<clients, reported, proxy, headConfig, headQueue, faults>>

Register ==
  /\ headState = "register"
  /\ headConfig' = Received(headConfig, RegisterMessage)
  /\ headState' = "show"
  /\ UNCHANGED <<clients, reported, proxy, headQueue, faults>>

\* no connection or no answer: it goes on without a configuration
RegisterFails ==
  /\ headState = "register"
  /\ Fault
  /\ headState' = "show"
  /\ UNCHANGED <<clients, reported, proxy, headConfig, headQueue>>

\* the rows of the screen, those of the pin of event e showing it
ShownIn(screen, count, e) ==
  [i \in DOMAIN screen |->
     IF i <= count /\ screen[i].gpio = gpio[e.sensor] THEN [screen[i] EXCEPT !.last = e]
                                                      ELSE screen[i]]

\* Fault: the pin is not compared.
ShowInEveryRow ==
  /\ headState = "show" /\ headQueue # <<>>
  /\ headConfig' = [headConfig EXCEPT !.p_screen =
                      [i \in DOMAIN @ |-> [@[i] EXCEPT !.last = Head(headQueue)]]]
  /\ headQueue' = Tail(headQueue)
  /\ UNCHANGED <<clients, reported, proxy, headState, faults>>

\* Fault: the message stays in the queue.
ShowKeepsMessage ==
  /\ headState = "show" /\ headQueue # <<>>
  /\ headConfig' = [headConfig EXCEPT !.p_screen =
                      ShownIn(@, headConfig.sensors_count, Head(headQueue))]
  /\ UNCHANGED <<clients, reported, proxy, headState, headQueue, faults>>

Show ==
  /\ headState = "show" /\ headQueue # <<>>
  /\ headConfig' = [headConfig EXCEPT !.p_screen =
                      ShownIn(@, headConfig.sensors_count, Head(headQueue))]
  /\ headQueue' = Tail(headQueue)
  /\ UNCHANGED <<clients, reported, proxy, headState, faults>>

Idle == headState = "show" /\ headQueue = <<>> /\ UNCHANGED vars

HeadRestart ==
  /\ headState # "down"
  /\ Fault
  /\ headState' = "down"
  /\ headConfig' = NoConfig
  /\ headQueue' = <<>>
  /\ UNCHANGED <<clients, reported, proxy>>

ClientStep(c) == \/ Setup(c) \/ SendConfig(c) \/ ConfigUnanswered(c) \/ ClientFails(c)
                 \/ \E s \in Sensors : SendEvent(c, s)
ProxyStep == Forward \/ ForwardLost \/ ProxyRestart
HeadStep == HeadStart \/ Register \/ RegisterFails \/ Show \/ Idle \/ HeadRestart

Next == (\E c \in Clients : ClientStep(c)) \/ ProxyStep \/ HeadStep

Spec == Init /\ [][Next]_vars

Fairness == WF_vars(Forward) /\ WF_vars(HeadStart) /\ WF_vars(Register) /\ WF_vars(Show)

FairSpec == Spec /\ Fairness

-----------------------------------------------------------------------------
(***************************************************************************)
(* Properties.                                                             *)
(***************************************************************************)
Row == [name : Sensors, gpio : Nat, last : Event \cup {None}]

Config == [client_id : Clients \cup {None}, sensors_count : Nat,
           p_sensors : Seq(Sensors), p_screen : Seq(Row)]

TypeOK ==
  /\ state \in [Clients -> {"RESET", "CONFIG", "PROCESS"}]
  /\ settings \in [Clients -> Seq(Sensors)]
  /\ sensors \in [Clients -> SUBSET Sensors]
  /\ reported \in 0 .. MaxEvents
  /\ config \in Config
  /\ config.sensors_count <= Len(config.p_sensors)
  /\ queue \in Seq(Event)
  /\ headState \in {"down", "register", "show"}
  /\ headConfig \in Config
  /\ headConfig.sensors_count <= Len(headConfig.p_screen)
  /\ headQueue \in Seq(Event)
  /\ faults \in 0 .. MaxFaults

\* cf has the sensors of list, in its arrays and in its screen.
Holds(cf, list) ==
  /\ cf.sensors_count = Len(list)
  /\ list # <<>> =>
       /\ cf.p_sensors = list
       /\ DOMAIN cf.p_screen = DOMAIN list
       /\ \A i \in DOMAIN list : /\ cf.p_screen[i].name = list[i]
                                 /\ cf.p_screen[i].gpio = gpio[list[i]]

\* cf is the configuration of one client, as one version of its file has it, or
\* of none.
Whole(cf) ==
  IF cf.client_id = None THEN cf.sensors_count = 0
  ELSE \E list \in versions[cf.client_id] : Holds(cf, list)

\* What the proxy has of a client that has got through CONFIG is what that runs
\* with: its list, with every sensor that the manager made.
Current(c) ==
  state[c] = "PROCESS" /\ config.client_id = c =>
    Holds(config, settings[c]) /\ sensors[c] = Created(settings[c])

\* Clients with many, few and no sensors come and go, files are edited between
\* any two readings, and restarts wipe either side: the proxy and the head never
\* mix the settings of two clients or of two versions of a file, and the proxy
\* never has an old version of those that a client runs with.
OneClientAtATime ==
  Whole(config) /\ Whole(headConfig) /\ \A c \in Clients : Current(c)

\* Rows outlive the settings that they were made for: the proxy may have another
\* client's by now, events of both arrive, and their pins may coincide.  What a row
\* shows is still an event from the pin that it was registered with
\* (head_main.cpp:52, head_config.cpp).
RowsShowTheirPin ==
  \A i \in 1 .. headConfig.sensors_count :
    LET row == headConfig.p_screen[i]
    IN  row.last # None => gpio[row.last.sensor] = gpio[row.name]

\* A row never goes back to an older event while the head runs: no path lets one
\* event overtake another, whichever restarts and losses come between.
RowsOnlyAdvance ==
  [][ headState = "show" /\ headState' = "show" =>
      \A i \in 1 .. headConfig.sensors_count :
        LET old == headConfig.p_screen[i].last
            new == headConfig'.p_screen[i].last
        IN  old # None => new # None /\ new.n >= old.n ]_vars

\* The event e is in one of the two queues; the head has a row of its sensor; that
\* row shows it, or a later event.
Underway(e) == \/ \E k \in DOMAIN queue : queue[k] = e
               \/ \E k \in DOMAIN headQueue : headQueue[k] = e

HasRow(e) ==
  \E i \in 1 .. headConfig.sensors_count : headConfig.p_screen[i].name = e.sensor

InItsRow(e) ==
  \E i \in 1 .. headConfig.sensors_count :
    LET row == headConfig.p_screen[i]
    IN  row.name = e.sensor /\ row.last # None /\ row.last.n >= e.n

\* Between two faults no step of the three programs takes an event out of the way
\* to its row other than into this row, nor the row away from the event: neither a
\* client that sends other settings meanwhile, nor events of other sensors
\* (head_main.cpp, proxy_config.cpp).
EventsGetOn ==
  [][ \A e \in Event :
        /\ headState = "show" /\ faults' = faults
        /\ HasRow(e) /\ (Underway(e) \/ InItsRow(e))
        => /\ headState' = "show"
           /\ HasRow(e)' /\ (Underway(e)' \/ InItsRow(e)') ]_vars

\* Once the head has registered with a client, and faults have stopped, every
\* event of that client that reaches the proxy gets to the row of its sensor.
EventsReachTheirRow ==
  \A e \in Event :
    /\ faults = MaxFaults
    /\ headState = "show"
    /\ \E i \in DOMAIN queue : queue[i] = e
    /\ HasRow(e)
    ~> InItsRow(e)
=============================================================================
