------------------------------- MODULE Queue -------------------------------
(***************************************************************************)
(* The data structure behind queue_class (src/queue.cpp, src/queue.hpp): a *)
(* std::map from message ids to messages together with the last id handed  *)
(* out.  Only the data structure: the locking around it is in QueueThreads.*)
(*                                                                         *)
(* Ids are C unsigned integers, so they wrap at IdLimit (2^32 in every     *)
(* build).  The callers of peek read id 0 as "the queue is empty".         *)
(***************************************************************************)
EXTENDS Integers

CONSTANT IdLimit            \* number of values of unsigned int

ASSUME IdLimitAssumption == IdLimit \in Nat \ {0}

(***************************************************************************)
(* The std::map.  begin() is the entry with the smallest id; insert leaves *)
(* an existing entry alone; erase of an absent id does nothing.            *)
(***************************************************************************)
NoEntries == [id \in {} |-> id]

InsertEntry(entries, id, m) ==
  IF id \in DOMAIN entries
  THEN entries
  ELSE [i \in DOMAIN entries \cup {id} |-> IF i = id THEN m ELSE entries[i]]

EraseEntry(entries, id) == [i \in DOMAIN entries \ {id} |-> entries[i]]

(***************************************************************************)
(* ++ message_id on an unsigned int.                                       *)
(***************************************************************************)
NextId(last) == (last + 1) % IdLimit

\* Fault: "empty" is reported as -1.
FirstIdOrMinusOne(entries) ==
  IF DOMAIN entries = {}
  THEN -1
  ELSE CHOOSE i \in DOMAIN entries : \A j \in DOMAIN entries : i <= j

\* Fault: peek reads the last entry of the map instead of the first.
FirstIdNewest(entries) ==
  IF DOMAIN entries = {}
  THEN 0
  ELSE CHOOSE i \in DOMAIN entries : \A j \in DOMAIN entries : j <= i

(***************************************************************************)
(* The id that peek reports: the smallest one, or 0 on an empty map.       *)
(***************************************************************************)
FirstId(entries) ==
  IF DOMAIN entries = {}
  THEN 0
  ELSE CHOOSE i \in DOMAIN entries : \A j \in DOMAIN entries : i <= j
=============================================================================
