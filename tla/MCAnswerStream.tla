---------------------------- MODULE MCAnswerStream ----------------------------
(***************************************************************************)
(* AnswerStream for TLC: counters on both sides of 0, and days enough for a  *)
(* streak to grow, to stand still and to start again.                        *)
(***************************************************************************)
EXTENDS AnswerStream

CONSTANTS u1, u2, grammar, travel

MCAnswers ==
  {[user |-> u1, theme |-> grammar, counter |-> 1],
   [user |-> u1, theme |-> travel, counter |-> 1],
   [user |-> u2, theme |-> travel, counter |-> -1]}
===============================================================================
