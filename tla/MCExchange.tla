----------------------------- MODULE MCExchange -----------------------------
(***************************************************************************)
(* A small instance of Exchange for TLC: one unit is a few bytes.          *)
(***************************************************************************)
EXTENDS Exchange

TwoIds == {1, 2}
Lengths == {0, 1}
Answers == {0, 2}
=============================================================================
