---------------------------- MODULE SensorProofs ----------------------------
(***************************************************************************)
(* Proofs about SensorThread, for any sensors of any kinds and any number  *)
(* of pulses.                                                              *)
(*                                                                         *)
(* TypeOK and Reading are inductive together: the number of reads and the  *)
(* retry counter add up at each place of do_task.  Prepared adds that the  *)
(* mode of a pin is set before each way to come to read it.                *)
(***************************************************************************)
EXTENDS SensorThread, TLAPS

DhtPlaces == {"request", "while_high", "while_low", "check", "pause"}

\* What the counters and the data of s are, wherever its thread is.
Reading ==
  \A s \in Sensors :
    /\ pc[s] \in DhtPlaces => task[s] = "dht"
    /\ pc[s] \in {"idle", "on", "busy"} => task[s] # "dht"
    /\ pc[s] \in {"poll", "idle", "on", "busy", "setup", "set"} => reads[s] = 0
    /\ pc[s] \in DhtPlaces \ {"check"} => retry[s] >= 0 /\ reads[s] = RETRY_COUNT - retry[s]
    /\ pc[s] = "check" => /\ retry[s] >= 0 /\ reads[s] = RETRY_COUNT - retry[s] + 1
                          /\ data[s] \in {"valid", "bad"}
    /\ pc[s] \in {"while_high", "while_low"} => pulse[s] < Pulses
    /\ pc[s] = "off" /\ task[s] = "dht" =>
         \/ data[s] = "valid" /\ reads[s] <= RETRY_COUNT + 1
         \/ data[s] = "zero" /\ reads[s] = RETRY_COUNT + 1

Working == main \in {"config", "activate", "process"}

\* While the client works, no sensor is touched before its turn, and whoever may
\* come to read a pin finds it set up.
Prepared ==
  Working =>
    /\ destroyed = {} /\ cancelled = {}
    /\ main # "process" =>
         \A s \in todo : pc[s] = "poll" /\ ~ activated[s]
    /\ current \subseteq todo
    /\ main # "activate" => current = {}
    /\ \A s \in Sensors :
         /\ task[s] \in {"none", Kind[s]}
         /\ pc[s] \in {"while_high", "while_low"} => mode[s] = "INPUT"
         /\ pc[s] \in {"idle", "on", "busy"} /\ task[s] # "pir" => mode[s] = "INPUT"
         /\ Kind[s] # "dht" /\ (activated[s] \/ pc[s] = "set" \/ s \in current)
              => mode[s] = "INPUT"

LEMMA SensorInit == Init => TypeOK /\ Reading /\ Prepared
BY SensorAssumption
   DEF Init, TypeOK, Reading, Prepared, DhtPlaces, CancelPoints, RETRY_COUNT

LEMMA ReadingNext == TypeOK /\ Reading /\ [Next]_vars => TypeOK' /\ Reading'
<1> SUFFICES ASSUME TypeOK, Reading, [Next]_vars PROVE TypeOK' /\ Reading'
  OBVIOUS
<1> USE SensorAssumption DEF TypeOK, Reading, DhtPlaces, CancelPoints, RETRY_COUNT,
        At, Goto, threads, mainVars
<1>1. ASSUME NEW s \in Sensors, Begin(s) PROVE TypeOK' /\ Reading'
  BY <1>1 DEF Begin, Class
<1>2. ASSUME NEW s \in Sensors, SeesOn(s) \/ EventOn(s) \/ SeesOff(s) PROVE TypeOK' /\ Reading'
  BY <1>2 DEF SeesOn, EventOn, SeesOff
<1>3. ASSUME NEW s \in Sensors, EventOff(s) PROVE TypeOK' /\ Reading'
  BY <1>3 DEF EventOff
<1>4. ASSUME NEW s \in Sensors, SetupAgain(s) PROVE TypeOK' /\ Reading'
  BY <1>4 DEF SetupAgain, Setup
<1>5. ASSUME NEW s \in Sensors, SetAgain(s) PROVE TypeOK' /\ Reading'
  BY <1>5 DEF SetAgain
<1>18. ASSUME NEW s \in Sensors, Stop(s) PROVE TypeOK' /\ Reading'
  BY <1>18 DEF Stop
<1>6. ASSUME NEW s \in Sensors, Request(s) \/ SeesLow(s) \/ Retry(s) PROVE TypeOK' /\ Reading'
  BY <1>6 DEF Request, SeesLow, Retry
<1>7. ASSUME NEW s \in Sensors, SeesHigh(s) PROVE TypeOK' /\ Reading'
  BY <1>7 DEF SeesHigh
<1>8. ASSUME NEW s \in Sensors, Valid(s) PROVE TypeOK' /\ Reading'
  BY <1>8 DEF Valid
<1>9. ASSUME NEW s \in Sensors, Invalid(s) PROVE TypeOK' /\ Reading'
  BY <1>9 DEF Invalid
<1>10. ASSUME NEW s \in Sensors, CheckGone(s) PROVE TypeOK' /\ Reading'
  BY <1>10 DEF CheckGone
<1>11. ASSUME NEW s \in Sensors, Toggle(s) PROVE TypeOK' /\ Reading'
  BY <1>11 DEF Toggle
<1>12. ASSUME NEW s \in Sensors, ActivateSetup(s) PROVE TypeOK' /\ Reading'
  BY <1>12 DEF ActivateSetup, Setup
<1>13. ASSUME NEW s \in Sensors, ActivateSet(s) PROVE TypeOK' /\ Reading'
  BY <1>13 DEF ActivateSet
<1>14. ASSUME NEW s \in Sensors, DestroyDerived(s) \/ Cancel(s) \/ Join(s)
       PROVE  TypeOK' /\ Reading'
  BY <1>14 DEF DestroyDerived, Cancel, Join
<1>15. ASSUME ConfigSent \/ AllActive \/ AllDeleted \/ ExchangeFails PROVE TypeOK' /\ Reading'
  BY <1>15 DEF ConfigSent, AllActive, AllDeleted, ExchangeFails
<1>16. ASSUME UNCHANGED vars PROVE TypeOK' /\ Reading'
  BY <1>16 DEF vars
<1>17. ASSUME Ended \/ \E s \in Sensors : Sleep(s) PROVE UNCHANGED vars
  BY <1>17 DEF Ended, Sleep
<1> QED
  BY <1>1, <1>2, <1>3, <1>4, <1>5, <1>6, <1>7, <1>8, <1>9, <1>10, <1>11, <1>12,
     <1>13, <1>14, <1>15, <1>16, <1>17, <1>18 DEF Next, ThreadStep, DhtStep, MainStep

\* The types; that retry_count stays above -2 takes Reading.
THEOREM SensorTypes == Spec => []TypeOK
BY SensorInit, ReadingNext, PTL DEF Spec

LEMMA ReadingReports == TypeOK /\ Reading => ReportsCheckedData
BY DEF Reading, ReportsCheckedData, Dhts

\* A DHT never reports data whose check failed.
THEOREM DataAreChecked == Spec => []ReportsCheckedData
BY SensorInit, ReadingNext, ReadingReports, PTL DEF Spec

-----------------------------------------------------------------------------
(***************************************************************************)
(* Pins are set up before they are read.                                   *)
(***************************************************************************)
LEMMA PreparedNext ==
  TypeOK /\ Reading /\ Prepared /\ [Next]_vars => Prepared'
<1> SUFFICES ASSUME TypeOK, Reading, Prepared, [Next]_vars, Working'
             PROVE  Prepared'
  BY DEF Prepared, Working
<1> USE DEF Working, At, Goto, threads, mainVars
<1>t. /\ pc \in [Sensors -> CancelPoints \cup {"setup", "set", "while_high", "while_low",
                                               "check", "stopped"}]
      /\ mode \in [Sensors -> {"none", "INPUT", "OUTPUT"}]
      /\ activated \in [Sensors -> BOOLEAN]
      /\ task \in [Sensors -> {"none", "button", "opto", "pir", "dht"}]
      /\ todo \subseteq Sensors
  BY DEF TypeOK
<1>k. \A s \in Sensors : pc[s] \in {"idle", "on", "busy"} => task[s] # "dht"
  BY DEF Reading
<1>d. \A s \in Sensors : pc[s] \in DhtPlaces => task[s] = "dht"
  BY DEF Reading
<1> USE DEF Prepared
<1>1. ASSUME NEW s \in Sensors, Begin(s) PROVE Prepared'
  <2>1. Working /\ destroyed = {} /\ Class(s) = Kind[s]
    BY <1>1, <1>t DEF Begin, Class
  <2> QED
    BY <1>1, <1>t, <2>1, SensorAssumption DEF Begin
<1>2. ASSUME NEW s \in Sensors, SeesOn(s) \/ EventOn(s) \/ SeesOff(s) PROVE Prepared'
  BY <1>2, <1>t DEF SeesOn, EventOn, SeesOff
<1>3. ASSUME NEW s \in Sensors, EventOff(s) PROVE Prepared'
  BY <1>3, <1>t DEF EventOff
<1>4. ASSUME NEW s \in Sensors, SetupAgain(s) PROVE Prepared'
  <2>1. Working /\ destroyed = {} /\ Class(s) = Kind[s]
    BY <1>4 DEF SetupAgain, Class
  <2> QED
    BY <1>4, <1>t, <2>1 DEF SetupAgain, Setup
<1>5. ASSUME NEW s \in Sensors, SetAgain(s) PROVE Prepared'
  BY <1>5, <1>t DEF SetAgain
<1>6. ASSUME NEW s \in Sensors, Request(s) PROVE Prepared'
  BY <1>6, <1>t DEF Request
<1>7. ASSUME NEW s \in Sensors, SeesLow(s) \/ Retry(s) PROVE Prepared'
  BY <1>7, <1>t DEF SeesLow, Retry
<1>8. ASSUME NEW s \in Sensors, SeesHigh(s) PROVE Prepared'
  <2>1. Kind[s] = "dht"
    BY <1>8, <1>d DEF SeesHigh, DhtPlaces
  <2>2. CASE pulse[s] + 1 < Pulses
    BY <1>8, <1>t, <2>2 DEF SeesHigh
  <2>3. CASE ~ (pulse[s] + 1 < Pulses)
    BY <1>8, <1>t, <2>1, <2>3 DEF SeesHigh
  <2> QED
    BY <2>2, <2>3
<1>9. ASSUME NEW s \in Sensors, Valid(s) \/ Invalid(s) PROVE Prepared'
  BY <1>9, <1>t DEF Valid, Invalid
<1>10. ASSUME NEW s \in Sensors, Toggle(s) PROVE Prepared'
  BY <1>10, <1>t DEF Toggle
<1>11. ASSUME NEW s \in Sensors, ActivateSetup(s) PROVE Prepared'
  <2>1. Working /\ destroyed = {} /\ Class(s) = Kind[s] /\ pc[s] = "poll"
    BY <1>11, <1>t DEF ActivateSetup, Class
  <2> QED
    BY <1>11, <1>t, <2>1 DEF ActivateSetup, Setup
<1>12. ASSUME NEW s \in Sensors, ActivateSet(s) PROVE Prepared'
  BY <1>12, <1>t DEF ActivateSet
<1>13. ASSUME ConfigSent \/ AllActive PROVE Prepared'
  BY <1>13, <1>t DEF ConfigSent, AllActive
<1>14. ASSUME UNCHANGED vars \/ Ended \/ \E s \in Sensors : Sleep(s) PROVE Prepared'
  BY <1>14 DEF vars, Ended, Sleep
<1>15. ASSUME NEW s \in Sensors,
              Stop(s) \/ CheckGone(s) \/ DestroyDerived(s) \/ Cancel(s) \/ Join(s)
       PROVE  FALSE
  BY <1>15, <1>t DEF Stop, CheckGone, DestroyDerived, Cancel, Join
<1>16. ~ (AllDeleted \/ ExchangeFails)
  BY DEF AllDeleted, ExchangeFails
<1> QED
  BY <1>1, <1>2, <1>3, <1>4, <1>5, <1>6, <1>7, <1>8, <1>9, <1>10, <1>11, <1>12,
     <1>13, <1>14, <1>15, <1>16 DEF Next, ThreadStep, DhtStep, MainStep

LEMMA PreparedSamples == Reading /\ Prepared => SamplesInput
BY DEF Prepared, Working, SamplesInput

\* While the client works, no thread reads a pin that was not made an input.
THEOREM PinsAreInputs == Spec => []SamplesInput
BY SensorInit, ReadingNext, PreparedNext, PreparedSamples, PTL DEF Spec

-----------------------------------------------------------------------------
(***************************************************************************)
(* The flag, which both threads write.                                     *)
(***************************************************************************)
LEMMA ActivationNext ==
  TypeOK /\ Prepared /\ NoLostActivation /\ [Next]_vars => NoLostActivation'
<1> SUFFICES ASSUME TypeOK, Prepared, NoLostActivation, [Next]_vars, Working'
             PROVE  NoLostActivation'
  BY DEF NoLostActivation, Working
<1> USE DEF Working, At, Goto, threads, mainVars
<1>t. /\ pc \in [Sensors -> CancelPoints \cup {"setup", "set", "while_high", "while_low",
                                               "check", "stopped"}]
      /\ activated \in [Sensors -> BOOLEAN]
      /\ todo \subseteq Sensors
  BY DEF TypeOK
<1> USE DEF NoLostActivation
<1>1. ASSUME NEW s \in Sensors, Begin(s) PROVE NoLostActivation'
  BY <1>1, <1>t DEF Begin
<1>2. ASSUME NEW s \in Sensors, SeesOn(s) \/ EventOn(s) \/ SeesOff(s) \/ EventOff(s)
      PROVE  NoLostActivation'
  BY <1>2, <1>t DEF SeesOn, EventOn, SeesOff, EventOff
<1>3. ASSUME NEW s \in Sensors, SetupAgain(s) PROVE NoLostActivation'
  BY <1>3, <1>t DEF SetupAgain
<1>4. ASSUME NEW s \in Sensors, SetAgain(s) PROVE NoLostActivation'
  BY <1>4, <1>t DEF SetAgain
<1>5. ASSUME NEW s \in Sensors,
             Request(s) \/ SeesLow(s) \/ SeesHigh(s) \/ Valid(s) \/ Invalid(s) \/ Retry(s)
      PROVE  NoLostActivation'
  BY <1>5, <1>t DEF Request, SeesLow, SeesHigh, Valid, Invalid, Retry
<1>6. ASSUME NEW s \in Sensors, Toggle(s) PROVE NoLostActivation'
  BY <1>6, <1>t DEF Toggle
<1>7. ASSUME NEW s \in Sensors, ActivateSetup(s) PROVE NoLostActivation'
  BY <1>7, <1>t DEF ActivateSetup, Prepared
<1>8. ASSUME NEW s \in Sensors, ActivateSet(s) PROVE NoLostActivation'
  BY <1>8, <1>t DEF ActivateSet, Prepared
<1>9. ASSUME ConfigSent \/ AllActive PROVE NoLostActivation'
  BY <1>9, <1>t DEF ConfigSent, AllActive
<1>10. ASSUME UNCHANGED vars \/ Ended \/ \E s \in Sensors : Sleep(s)
       PROVE  NoLostActivation'
  BY <1>10 DEF vars, Ended, Sleep
<1>11. ASSUME NEW s \in Sensors,
              Stop(s) \/ CheckGone(s) \/ DestroyDerived(s) \/ Cancel(s) \/ Join(s)
       PROVE  FALSE
  BY <1>11, <1>t DEF Stop, CheckGone, DestroyDerived, Cancel, Join, Prepared
<1>12. ~ (AllDeleted \/ ExchangeFails)
  BY DEF AllDeleted, ExchangeFails
<1> QED
  BY <1>1, <1>2, <1>3, <1>4, <1>5, <1>6, <1>7, <1>8, <1>9, <1>10, <1>11, <1>12
     DEF Next, ThreadStep, DhtStep, MainStep

\* While the client works, no sensor sleeps for ever: the flag that both threads
\* write without a lock is never up when its thread does not poll, so do_task
\* clears no activation that came meanwhile (sensor_event.cpp:73, :91).
THEOREM NoActivationIsLost == Spec => []NoLostActivation
<1>1. Init => NoLostActivation
  BY DEF Init, NoLostActivation
<1> QED
  BY <1>1, SensorInit, ReadingNext, PreparedNext, ActivationNext, PTL DEF Spec

-----------------------------------------------------------------------------
(***************************************************************************)
(* The teardown.                                                           *)
(***************************************************************************)
\* A sensor is destroyed before its thread is cancelled, and joined after that.
Teardown ==
  /\ main = "delete" =>
       /\ current \subseteq destroyed \cap todo
       /\ \A s \in Sensors \ todo : pc[s] = "stopped"
  /\ main = "done" => todo = {} /\ \A s \in Sensors : pc[s] = "stopped"

LEMMA TeardownNext ==
  TypeOK /\ Prepared /\ Teardown /\ [Next]_vars => Teardown'
<1> SUFFICES ASSUME TypeOK, Prepared, Teardown, [Next]_vars PROVE Teardown'
  OBVIOUS
<1> USE DEF At, Goto, threads, mainVars
<1>t. /\ pc \in [Sensors -> CancelPoints \cup {"setup", "set", "while_high", "while_low",
                                               "check", "stopped"}]
      /\ task \in [Sensors -> {"none", "button", "opto", "pir", "dht"}]
      /\ todo \subseteq Sensors
  BY DEF TypeOK
<1>c. "stopped" \notin CancelPoints
  BY DEF CancelPoints
<1> USE DEF Teardown
<1>1. ASSUME NEW s \in Sensors, Begin(s) PROVE Teardown'
  <2>1. Class(s) = "dht" => Kind[s] = "dht"
    BY DEF Class
  <2> QED
    BY <1>1, <1>t, <2>1 DEF Begin
<1>2. ASSUME NEW s \in Sensors, SeesOn(s) \/ EventOn(s) \/ SeesOff(s) \/ EventOff(s)
      PROVE  Teardown'
  BY <1>2, <1>t DEF SeesOn, EventOn, SeesOff, EventOff
<1>3. ASSUME NEW s \in Sensors, SetupAgain(s) \/ SetAgain(s) PROVE Teardown'
  BY <1>3, <1>t DEF SetupAgain, SetAgain
<1>4. ASSUME NEW s \in Sensors,
             Request(s) \/ SeesLow(s) \/ SeesHigh(s) \/ Valid(s) \/ Invalid(s) \/ Retry(s)
      PROVE  Teardown'
  BY <1>4, <1>t DEF Request, SeesLow, SeesHigh, Valid, Invalid, Retry
<1>5. ASSUME NEW s \in Sensors, Stop(s) PROVE Teardown'
  BY <1>5, <1>t DEF Stop
<1>6. ASSUME NEW s \in Sensors, CheckGone(s) \/ Toggle(s) PROVE Teardown'
  BY <1>6 DEF CheckGone, Toggle
<1>7. ASSUME NEW s \in Sensors, ActivateSetup(s) \/ ActivateSet(s) PROVE Teardown'
  BY <1>7 DEF ActivateSetup, ActivateSet
<1>8. ASSUME NEW s \in Sensors, DestroyDerived(s) \/ Cancel(s) \/ Join(s) PROVE Teardown'
  <2>1. CASE Join(s)
    <3>1. current = {s}
      BY <2>1 DEF Join, TypeOK
    <3> QED
      BY <1>t, <2>1, <3>1 DEF Join
  <2> QED
    BY <1>8, <2>1 DEF DestroyDerived, Cancel
<1>9. ASSUME ExchangeFails PROVE Teardown'
  BY <1>9, <1>t DEF ExchangeFails, Prepared, Working
<1>10. ASSUME ConfigSent \/ AllActive \/ AllDeleted PROVE Teardown'
  BY <1>10 DEF ConfigSent, AllActive, AllDeleted
<1>11. ASSUME UNCHANGED vars \/ Ended \/ \E s \in Sensors : Sleep(s) PROVE Teardown'
  BY <1>11 DEF vars, Ended, Sleep
<1> QED
  BY <1>1, <1>2, <1>3, <1>4, <1>5, <1>6, <1>7, <1>8, <1>9, <1>10, <1>11
     DEF Next, ThreadStep, DhtStep, MainStep

LEMMA TeardownAlways == Spec => [](TypeOK /\ Reading /\ Teardown)
<1>1. Init => Teardown
  BY DEF Init, Teardown
<1> QED
  BY <1>1, SensorInit, ReadingNext, PreparedNext, TeardownNext, PTL DEF Spec

\* When the destructor of a sensor returns, its thread has finished: what is
\* freed then is used by nobody (sensor_event.cpp:64).
THEOREM ThreadsEndFirst == Spec => []SensorOutlivesThread
<1>1. Teardown => SensorOutlivesThread
  BY DEF Teardown, SensorOutlivesThread
<1> QED
  BY <1>1, TeardownAlways, PTL
=============================================================================
