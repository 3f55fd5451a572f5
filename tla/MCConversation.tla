----------------------------- MODULE MCConversation -----------------------------
(* An instance of Conversation for TLC: three messages, which come in the order *)
(* of their names, differ in who sends them and how they fail, so that there is *)
(* no symmetry to use; a reaction comes whenever it likes.                      *)
EXTENDS Conversation

CONSTANTS m1, m2, m3, r1

InOrder == [m \in Msg |-> CASE m = m1 -> {} [] m = m2 -> {m1} [] OTHER -> {m1, m2}]
=============================================================================
