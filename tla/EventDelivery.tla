--------------------------- MODULE EventDelivery ---------------------------
(***************************************************************************)
(* What the sensor probes, the proxy and the head together promise about   *)
(* the events on the screen: only what a sensor reported is shown, nothing *)
(* is shown twice, and the events of one client are shown in the order in  *)
(* which they happened.  Events may be lost on the way.                    *)
(***************************************************************************)
EXTENDS Integers, Sequences

CONSTANT Clients

VARIABLES generated,        \* generated[c]: how many events c has reported
          shown             \* the events shown, oldest first

vars == <<generated, shown>>

Init == generated = [c \in Clients |-> 0] /\ shown = << >>

Report(c) == /\ generated' = [generated EXCEPT ![c] = @ + 1]
             /\ UNCHANGED shown

\* The n-th event of c may be shown if no later one has been.
Show(c, n) ==
  /\ n \in 1 .. generated[c]
  /\ \A k \in DOMAIN shown : shown[k].client = c => shown[k].n < n
  /\ shown' = Append(shown, [client |-> c, n |-> n])
  /\ UNCHANGED generated

Next == \E c \in Clients :
          Report(c) \/ \E n \in 1 .. generated[c] : Show(c, n)

Spec == Init /\ [][Next]_vars
=============================================================================
