----------------------------- MODULE FifoQueue -----------------------------
(***************************************************************************)
(* What queue_class promises to the threads that share one: messages come  *)
(* out in the order they went in, none is lost or invented while the queue *)
(* exists, and destroying the queue discards what is left.                 *)
(***************************************************************************)
EXTENDS Sequences

CONSTANT Message            \* the messages that may ever be put

VARIABLES items,            \* what was put and not yet taken, oldest first
          open              \* FALSE once the queue is destroyed

vars == <<items, open>>

Init == items = << >> /\ open = TRUE

Put(m) == /\ open
          /\ items' = Append(items, m)
          /\ UNCHANGED open

Take == /\ open
        /\ items # << >>
        /\ items' = Tail(items)
        /\ UNCHANGED open

Destroy == /\ open
           /\ open' = FALSE
           /\ items' = << >>

Next == Take \/ Destroy \/ \E m \in Message : Put(m)

Spec == Init /\ [][Next]_vars
=============================================================================
