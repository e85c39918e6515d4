-------------------------- MODULE MCConfiguration --------------------------
(***************************************************************************)
(* A small instance of Configuration for TLC: the file of one client lists *)
(* two sensors, the second of which moves up when the first is exchanged   *)
(* for one of a type that nobody knows; the file of the other lists one    *)
(* sensor or none, at a pin that the first uses too.                       *)
(***************************************************************************)
EXTENDS Configuration

CONSTANTS two, one, s1, s2, s3, s4

TwoClients == {two, one}
FourSensors == {s1, s2, s3, s4}
Versions == [c \in TwoClients |-> CASE c = two -> {<<s1, s2>>, <<s2, s4>>}
                                     [] c = one -> {<<s3>>, <<>>}]
Gpios == [s \in FourSensors |-> CASE s = s1 -> 3 [] s = s2 -> 5 [] s = s3 -> 5 [] s = s4 -> 11]
Types == [s \in FourSensors |-> CASE s = s1 -> "DHT11" [] s = s2 -> "BUTTON" [] s = s3 -> "PIR"
                                   [] s = s4 -> "RELAY"]
=============================================================================
