------------------------------ MODULE Message ------------------------------
(***************************************************************************)
(* message_class: the payload of a message is a buffer of message_alloc_   *)
(* size bytes whose first payload_size bytes hold fields, one after the    *)
(* other, each with a header of an id and a length before its value        *)
(* (message.cpp).                                                          *)
(*                                                                         *)
(* The memory of a payload is a function from the offsets at which fields  *)
(* start to what is written there.  A value is known by its length.        *)
(***************************************************************************)
EXTENDS Integers

CONSTANTS FieldHeader,      \* sizeof (field_id_t) + sizeof (unsigned int)
          UintLimit         \* the range of an unsigned int

ASSUME MessageAssumption == FieldHeader \in Nat \ {0} /\ UintLimit \in Nat \ {0}

Uint(n) == n % UintLimit

Larger(a, b) == IF a > b THEN a ELSE b

NoFields == [at \in {} |-> [id |-> 0, size |-> 0]]

NewMessage == [payload_size |-> 0, message_alloc_size |-> 0, fields |-> NoFields]

\* An object for a header that was received: its payload is yet to come.
FromHeader(payload_size) ==
  [payload_size |-> payload_size, message_alloc_size |-> payload_size, fields |-> NoFields]

-----------------------------------------------------------------------------
(***************************************************************************)
(* add_field_to_message.                                                   *)
(***************************************************************************)
FullSize(size) == Uint(FieldHeader + size)

\* Fault: the buffer grows by the value and not by the field's header.
AllocWithoutHeader(m, size) ==
  IF Uint(m.payload_size + size) > m.message_alloc_size
  THEN Larger(Uint(m.message_alloc_size * 4), Uint(m.payload_size + size))
  ELSE m.message_alloc_size

\* the size of the buffer when the field is written
Alloc(m, size) ==
  IF Uint(m.payload_size + FullSize(size)) > m.message_alloc_size
  THEN Larger(Uint(m.message_alloc_size * 4), Uint(m.payload_size + FullSize(size)))
  ELSE m.message_alloc_size

AddField(m, field_id, size) ==
  [payload_size |-> Uint(m.payload_size + FullSize(size)),
   message_alloc_size |-> Alloc(m, size),
   fields |-> [at \in DOMAIN m.fields \cup {m.payload_size} |->
                 IF at = m.payload_size THEN [id |-> field_id, size |-> size]
                                        ELSE m.fields[at]]]

-----------------------------------------------------------------------------
(***************************************************************************)
(* get_field_from_message: result is "searching" in the loop.              *)
(***************************************************************************)
StartSearch(m, field_id) ==
  [field_id |-> field_id, p_message_pointer |-> 0, size_to_parse |-> m.payload_size,
   result |-> "searching"]

\* Fault: the loop ends when nothing but a header is left.
SearchStepOffByOne(m, s) ==
  IF s.size_to_parse <= FieldHeader THEN [s EXCEPT !.result = "RESULT_INVALID_PARAM"]
  ELSE LET field == m.fields[s.p_message_pointer] IN
       IF field.id = s.field_id
       THEN [s EXCEPT !.result = "RESULT_OK"]
       ELSE [s EXCEPT !.size_to_parse = Uint(@ - (FieldHeader + field.size)),
                      !.p_message_pointer = @ + FieldHeader + field.size]

\* The test of the loop and, if it holds, its body; p_payload is behind the
\* header of the field at p_message_pointer.
SearchStep(m, s) ==
  IF s.size_to_parse <= 0 THEN [s EXCEPT !.result = "RESULT_INVALID_PARAM"]
  ELSE LET field == m.fields[s.p_message_pointer] IN
       IF field.id = s.field_id
       THEN [s EXCEPT !.result = "RESULT_OK"]
       ELSE [s EXCEPT !.size_to_parse = Uint(@ - (FieldHeader + field.size)),
                      !.p_message_pointer = @ + FieldHeader + field.size]
=============================================================================
