---------------------------- MODULE SensorThread ----------------------------
(***************************************************************************)
(* The threads of the event sensors (sensor_event.cpp, sensor_dht.cpp):    *)
(* each is created with its sensor, waits until the main thread activates  *)
(* it, reports, activates itself again, and is cancelled and joined by the *)
(* destructor of its sensor.  The pins are external.                       *)
(*                                                                         *)
(* The destructor of the base class cancels the thread when the derived    *)
(* part is gone already: virtual calls of the thread then reach the base   *)
(* class (do_task, sensor_setup) or, for is_data_crc_valid, which the base *)
(* class does not have, have no defined outcome.                           *)
(***************************************************************************)
EXTENDS Integers

CONSTANTS Sensors,
          Kind,             \* Kind[s]: "button" (flame, reed too), "opto", "pir", "dht"
          Pulses,           \* low-high pulses of one answer of a DHT (41)
          DhtAnswers        \* whether a DHT always ends its answer and no
                            \* pulse of it is missed

RETRY_COUNT == 3

ASSUME SensorAssumption ==
  /\ Kind \in [Sensors -> {"button", "opto", "pir", "dht"}]
  /\ Pulses \in Nat \ {0}
  /\ DhtAnswers \in BOOLEAN

VARIABLES
  level,        \* level of each pin
  mode,         \* its mode: "none", "INPUT" or "OUTPUT"
  activated,
  pc,           \* where each sensor's thread is
  task,         \* the class whose do_task it runs
  retry,        \* retry_count
  pulse,        \* pulses seen of the answer
  data,         \* p_data: "none", "valid", "bad" or "zero"
  reads,        \* history: reads since the thread last reported
  main,         \* where the main thread is with the sensors
  current,      \* the sensors it is working on: none or one
  todo,         \* the sensors it has still to activate, later to delete
  destroyed,    \* sensors whose derived part is destroyed
  cancelled     \* sensors pthread_cancel was called for

threads == <<activated, pc, task, retry, pulse, data, reads>>
mainVars == <<main, current, todo, destroyed, cancelled>>
vars == <<level, mode, threads, mainVars>>

Dhts == {s \in Sensors : Kind[s] = "dht"}

\* the level that do_task waits for first
OnLevel(k) == IF k = "opto" THEN "HIGH" ELSE "LOW"

\* the class that a virtual call of s reaches
Class(s) == IF s \in destroyed THEN "button" ELSE Kind[s]

\* sensor_setup; that of a DHT pulls the bus high
Setup(s) ==
  IF Class(s) = "dht"
  THEN mode' = [mode EXCEPT ![s] = "OUTPUT"] /\ level' = [level EXCEPT ![s] = "HIGH"]
  ELSE mode' = [mode EXCEPT ![s] = "INPUT"] /\ UNCHANGED level

Init ==
  /\ level \in [Sensors -> {"LOW", "HIGH"}]
  /\ mode = [s \in Sensors |-> "none"]
  /\ activated = [s \in Sensors |-> FALSE]
  /\ pc = [s \in Sensors |-> "poll"]
  /\ task = [s \in Sensors |-> "none"]
  /\ retry = [s \in Sensors |-> 0]
  /\ pulse = [s \in Sensors |-> 0]
  /\ data = [s \in Sensors |-> "none"]
  /\ reads = [s \in Sensors |-> 0]
  /\ main = "config"
  /\ current = {}
  /\ todo = Sensors
  /\ destroyed = {}
  /\ cancelled = {}

Goto(s, label) == pc' = [pc EXCEPT ![s] = label]

(***************************************************************************)
(* usleep, delay, sleep and printf; digitalRead and delayMicroseconds are  *)
(* none, nor is the check of the data.                                     *)
(***************************************************************************)
\* Fault: the loops that wait for the pin do not sleep.
CancelPointsNotInWaits == {"poll", "on", "off", "request", "pause"}

CancelPoints == {"poll", "idle", "on", "busy", "off", "request", "pause"}

At(s, label) ==
  /\ main # "crashed"
  /\ pc[s] = label
  /\ s \in cancelled => label \notin CancelPoints

-----------------------------------------------------------------------------
(***************************************************************************)
(* The thread: working_thread, do_task, event_on, event_off, activate.     *)
(***************************************************************************)
Sleep(s) == At(s, "poll") /\ ~ activated[s] /\ UNCHANGED vars

Begin(s) ==
  /\ At(s, "poll") /\ activated[s]
  /\ activated' = [activated EXCEPT ![s] = FALSE]
  /\ task' = [task EXCEPT ![s] = Class(s)]
  /\ retry' = [retry EXCEPT ![s] = RETRY_COUNT]
  /\ Goto(s, IF Class(s) = "dht" THEN "request" ELSE "idle")
  /\ UNCHANGED <<level, mode, pulse, data, reads, mainVars>>

SeesOn(s) ==
  /\ At(s, "idle")
  /\ task[s] = "pir" \/ level[s] = OnLevel(task[s])
  /\ Goto(s, "on")
  /\ UNCHANGED <<level, mode, activated, task, retry, pulse, data, reads, mainVars>>

EventOn(s) ==
  /\ At(s, "on")
  /\ Goto(s, "busy")
  /\ UNCHANGED <<level, mode, activated, task, retry, pulse, data, reads, mainVars>>

SeesOff(s) ==
  /\ At(s, "busy")
  /\ task[s] = "pir" \/ level[s] # OnLevel(task[s])
  /\ Goto(s, "off")
  /\ UNCHANGED <<level, mode, activated, task, retry, pulse, data, reads, mainVars>>

EventOff(s) ==
  /\ At(s, "off")
  /\ reads' = [reads EXCEPT ![s] = 0]
  /\ Goto(s, "setup")
  /\ UNCHANGED <<level, mode, activated, task, retry, pulse, data, mainVars>>

\* the callback activates the sensor again, unless it is active
SetupAgain(s) ==
  /\ At(s, "setup")
  /\ IF activated[s]
     THEN Goto(s, "poll") /\ UNCHANGED <<mode, level>>
     ELSE Goto(s, "set") /\ Setup(s)
  /\ UNCHANGED <<activated, task, retry, pulse, data, reads, mainVars>>

\* Fault: do_task clears the flag when it is done, not when it begins.
SetAgainLate(s) ==
  /\ At(s, "set")
  /\ activated' = [activated EXCEPT ![s] = FALSE]
  /\ Goto(s, "poll")
  /\ UNCHANGED <<level, mode, task, retry, pulse, data, reads, mainVars>>

SetAgain(s) ==
  /\ At(s, "set")
  /\ activated' = [activated EXCEPT ![s] = TRUE]
  /\ Goto(s, "poll")
  /\ UNCHANGED <<level, mode, task, retry, pulse, data, reads, mainVars>>

Stop(s) ==
  /\ main # "crashed"
  /\ s \in cancelled /\ pc[s] \in CancelPoints
  /\ Goto(s, "stopped")
  /\ UNCHANGED <<level, mode, activated, task, retry, pulse, data, reads, mainVars>>

-----------------------------------------------------------------------------
(***************************************************************************)
(* sensor_dht_class: read_data busy-waits for every change of the pin.     *)
(***************************************************************************)
Request(s) ==
  /\ At(s, "request")
  /\ mode' = [mode EXCEPT ![s] = "INPUT"]
  /\ level' = [level EXCEPT ![s] = "HIGH"]
  /\ pulse' = [pulse EXCEPT ![s] = 0]
  /\ Goto(s, "while_high")
  /\ UNCHANGED <<activated, task, retry, data, reads, mainVars>>

SeesLow(s) ==
  /\ At(s, "while_high") /\ level[s] = "LOW"
  /\ Goto(s, "while_low")
  /\ UNCHANGED <<level, mode, activated, task, retry, pulse, data, reads, mainVars>>

SeesHigh(s) ==
  /\ At(s, "while_low") /\ level[s] = "HIGH"
  /\ pulse' = [pulse EXCEPT ![s] = @ + 1]
  /\ IF pulse[s] + 1 < Pulses
     THEN /\ Goto(s, "while_high")
          /\ UNCHANGED <<mode, data, reads>>
     ELSE /\ Goto(s, "check")
          /\ mode' = [mode EXCEPT ![s] = "OUTPUT"]
          /\ \E d \in {"valid", "bad"} : data' = [data EXCEPT ![s] = d]
          /\ reads' = [reads EXCEPT ![s] = @ + 1]
  /\ UNCHANGED <<level, activated, task, retry, mainVars>>

Valid(s) ==
  /\ At(s, "check") /\ data[s] = "valid"
  /\ Goto(s, "off")
  /\ UNCHANGED <<level, mode, activated, task, retry, pulse, data, reads, mainVars>>

\* Fault: the last attempt's data are kept.
InvalidKept(s) ==
  /\ At(s, "check") /\ data[s] = "bad"
  /\ retry' = [retry EXCEPT ![s] = @ - 1]
  /\ Goto(s, IF retry[s] - 1 < 0 THEN "off" ELSE "pause")
  /\ UNCHANGED <<level, mode, activated, task, pulse, data, reads, mainVars>>

\* Fault: retry_count -- is compared instead of -- retry_count.
InvalidOffByOne(s) ==
  /\ At(s, "check") /\ data[s] = "bad"
  /\ retry' = [retry EXCEPT ![s] = @ - 1]
  /\ IF retry[s] < 0
     THEN Goto(s, "off") /\ data' = [data EXCEPT ![s] = "zero"]
     ELSE Goto(s, "pause") /\ UNCHANGED data
  /\ UNCHANGED <<level, mode, activated, task, pulse, reads, mainVars>>

\* if (-- retry_count < 0): give up and report zeros
Invalid(s) ==
  /\ At(s, "check") /\ data[s] = "bad"
  /\ retry' = [retry EXCEPT ![s] = @ - 1]
  /\ IF retry[s] - 1 < 0
     THEN Goto(s, "off") /\ data' = [data EXCEPT ![s] = "zero"]
     ELSE Goto(s, "pause") /\ UNCHANGED data
  /\ UNCHANGED <<level, mode, activated, task, pulse, reads, mainVars>>

\* is_data_crc_valid of a sensor without its derived part may do anything else
CheckGone(s) ==
  /\ At(s, "check") /\ s \in destroyed
  /\ main' = "crashed"
  /\ UNCHANGED <<level, mode, threads, current, todo, destroyed, cancelled>>

Retry(s) ==
  /\ At(s, "pause")
  /\ Goto(s, "request")
  /\ UNCHANGED <<level, mode, activated, task, retry, pulse, data, reads, mainVars>>

-----------------------------------------------------------------------------
(***************************************************************************)
(* The main thread: activate_sensors, and the deletion of the sensors.     *)
(***************************************************************************)
ConfigSent ==
  /\ main = "config"
  /\ main' = "activate"
  /\ UNCHANGED <<level, mode, threads, current, todo, destroyed, cancelled>>

\* Fault: the flag is set before sensor_setup is called.
ActivateFlagFirst(s) ==
  /\ main = "activate" /\ s \in todo /\ current = {}
  /\ activated' = [activated EXCEPT ![s] = TRUE]
  /\ current' = {s}
  /\ UNCHANGED <<level, mode, pc, task, retry, pulse, data, reads,
                 main, todo, destroyed, cancelled>>

ActivateSetup(s) ==
  /\ main = "activate" /\ s \in todo /\ current = {}
  /\ IF activated[s]
     THEN todo' = todo \ {s} /\ UNCHANGED <<mode, level, current>>
     ELSE Setup(s) /\ current' = {s} /\ UNCHANGED todo
  /\ UNCHANGED <<threads, main, destroyed, cancelled>>

ActivateSet(s) ==
  /\ main = "activate" /\ s \in current
  /\ activated' = [activated EXCEPT ![s] = TRUE]
  /\ current' = {}
  /\ todo' = todo \ {s}
  /\ UNCHANGED <<level, mode, pc, task, retry, pulse, data, reads,
                 main, destroyed, cancelled>>

AllActive ==
  /\ main = "activate" /\ todo = {}
  /\ main' = "process"
  /\ UNCHANGED <<level, mode, threads, current, todo, destroyed, cancelled>>

\* send_config or an event fails and the loop of main ends
ExchangeFails ==
  /\ main \in {"config", "process"}
  /\ main' = "delete"
  /\ todo' = Sensors
  /\ UNCHANGED <<level, mode, threads, current, destroyed, cancelled>>

\* delete sensors[i]: the derived part goes first
DestroyDerived(s) ==
  /\ main = "delete" /\ s \in todo /\ current = {}
  /\ destroyed' = destroyed \cup {s}
  /\ current' = {s}
  /\ UNCHANGED <<level, mode, threads, main, todo, cancelled>>

Cancel(s) ==
  /\ main = "delete" /\ s \in current \ cancelled
  /\ cancelled' = cancelled \cup {s}
  /\ UNCHANGED <<level, mode, threads, main, current, todo, destroyed>>

Join(s) ==
  /\ main = "delete" /\ s \in current /\ pc[s] = "stopped"
  /\ current' = {}
  /\ todo' = todo \ {s}
  /\ UNCHANGED <<level, mode, threads, main, destroyed, cancelled>>

AllDeleted ==
  /\ main = "delete" /\ todo = {}
  /\ main' = "done"
  /\ UNCHANGED <<level, mode, threads, current, todo, destroyed, cancelled>>

Ended == main \in {"done", "crashed"} /\ UNCHANGED vars

-----------------------------------------------------------------------------
\* What is connected to the pin changes its level; a DHT only answers, by the
\* change that its thread waits for.
Toggle(s) ==
  /\ Kind[s] = "dht" => <<pc[s], level[s]>> \in {<<"while_high", "HIGH">>,
                                                <<"while_low", "LOW">>}
  /\ level' = [level EXCEPT ![s] = IF @ = "LOW" THEN "HIGH" ELSE "LOW"]
  /\ UNCHANGED <<mode, threads, mainVars>>

DhtStep(s) ==
  \/ Request(s) \/ SeesLow(s) \/ SeesHigh(s) \/ Valid(s) \/ Invalid(s)
  \/ CheckGone(s) \/ Retry(s)

ThreadStep(s) ==
  \/ Begin(s) \/ SeesOn(s) \/ EventOn(s) \/ SeesOff(s) \/ EventOff(s)
  \/ SetupAgain(s) \/ SetAgain(s) \/ Stop(s) \/ DhtStep(s)

MainStep ==
  \/ \E s \in Sensors : \/ ActivateSetup(s) \/ ActivateSet(s)
                        \/ DestroyDerived(s) \/ Cancel(s) \/ Join(s)
  \/ ConfigSent \/ AllActive \/ AllDeleted

Next == \/ \E s \in Sensors : Sleep(s) \/ ThreadStep(s) \/ Toggle(s)
        \/ MainStep \/ ExchangeFails \/ Ended

Spec == Init /\ [][Next]_vars

Fairness ==
  /\ WF_vars(MainStep)
  /\ \A s \in Sensors : WF_vars(ThreadStep(s))
  /\ DhtAnswers => \A s \in Dhts : WF_vars(Toggle(s))

FairSpec == Spec /\ Fairness

-----------------------------------------------------------------------------
(***************************************************************************)
(* Properties.                                                             *)
(***************************************************************************)
TypeOK ==
  /\ level \in [Sensors -> {"LOW", "HIGH"}]
  /\ mode \in [Sensors -> {"none", "INPUT", "OUTPUT"}]
  /\ activated \in [Sensors -> BOOLEAN]
  /\ pc \in [Sensors -> CancelPoints \cup {"setup", "set", "while_high",
                                           "while_low", "check", "stopped"}]
  /\ task \in [Sensors -> {"none", "button", "opto", "pir", "dht"}]
  /\ retry \in [Sensors -> -1 .. RETRY_COUNT]
  /\ pulse \in [Sensors -> 0 .. Pulses]
  /\ data \in [Sensors -> {"none", "valid", "bad", "zero"}]
  /\ reads \in [Sensors -> 0 .. RETRY_COUNT + 1]
  /\ main \in {"config", "activate", "process", "delete", "done", "crashed"}
  /\ current \in {{}} \cup {{s} : s \in Sensors}
  /\ todo \subseteq Sensors
  /\ destroyed \subseteq Sensors
  /\ cancelled \subseteq Sensors

\* Until the teardown a thread samples its pin in INPUT mode only: the main
\* thread and the callback set a pin up before they set the flag.
SamplesInput ==
  \A s \in Sensors :
    /\ main \in {"config", "activate", "process"}
    /\ pc[s] \in {"idle", "busy", "while_high", "while_low"}
    /\ task[s] # "pir"
    => mode[s] = "INPUT"

\* What a DHT reports was checked, or is zero after RETRY_COUNT retries.
ReportsCheckedData ==
  \A s \in Dhts :
    pc[s] = "off" /\ task[s] = "dht" =>
                     \/ data[s] = "valid" /\ reads[s] <= RETRY_COUNT + 1
                     \/ data[s] = "zero" /\ reads[s] = RETRY_COUNT + 1

\* While the client works, a sensor that does not depend on anybody reports
\* again and again: activating itself at the end of do_task is not undone.
KeepsReporting ==
  \A s \in Sensors :
    Kind[s] = "pir" \/ (Kind[s] = "dht" /\ DhtAnswers)
      => []<>(pc[s] = "off" \/ main \notin {"config", "activate", "process"})

\* The deletion of the sensors ends, after "wait for our thread to finish
\* before continuing" (sensor_event.cpp:66).
DeletionEnds == (main = "delete") ~> (main \in {"done", "crashed"})

\* The sensor is there, with all its parts, until its thread has finished: that
\* is what the wait in sensor_event.cpp:66 is for.
ThreadRunsOnWholeSensor ==
  \A s \in Sensors : pc[s] = "check" => s \notin destroyed

\* Although nothing locks the flag, no activation is lost: it is set only when it
\* is down and its thread polls or comes back to poll, and from its turn in
\* activate_sensors on no sensor polls without it (sensor_event.cpp:73, :91).
NoLostActivation ==
  main \in {"config", "activate", "process"} =>
    \A s \in Sensors :
      /\ activated[s] => pc[s] = "poll"
      /\ pc[s] = "poll" /\ ~ activated[s] => main # "process" /\ s \in todo

\* A sensor whose destructor has returned has no thread any more, so none uses
\* the memory that is freed then; after the last one there is no thread at all.
SensorOutlivesThread ==
  /\ main \in {"delete", "done"} => \A s \in Sensors \ todo : pc[s] = "stopped"
  /\ main = "done" => \A s \in Sensors : pc[s] = "stopped"
=============================================================================
