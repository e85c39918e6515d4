-------------------------- MODULE ExchangeOutcome --------------------------
(***************************************************************************)
(* What one exchange promises its two ends: the server handles the message *)
(* that the initiator sent, unchanged, and at most once; an exchange that  *)
(* went well has been handled and brings the answer of that handling; one  *)
(* that failed may have been handled before or after it was given up.      *)
(* Each variable but outcome holds one value, or none.                     *)
(***************************************************************************)
VARIABLES sent, handled, reply, got, outcome

vars == <<sent, handled, reply, got, outcome>>

Init == /\ sent = {} /\ handled = {} /\ reply = {} /\ got = {}
        /\ outcome = "pending"

Send == /\ sent = {} /\ sent' # {}
        /\ UNCHANGED <<handled, reply, got, outcome>>

Handle == /\ handled = {} /\ sent # {} /\ handled' = sent
          /\ UNCHANGED <<sent, reply, got, outcome>>

Answer == /\ handled # {} /\ reply = {} /\ reply' # {}
          /\ UNCHANGED <<sent, handled, got, outcome>>

Succeed == /\ outcome = "pending" /\ reply # {}
           /\ outcome' = "ok" /\ got' = reply
           /\ UNCHANGED <<sent, handled, reply>>

Fail == /\ outcome = "pending" /\ outcome' = "failed"
        /\ UNCHANGED <<sent, handled, reply, got>>

Next == Send \/ Handle \/ Answer \/ Succeed \/ Fail

Spec == Init /\ [][Next]_vars
=============================================================================
