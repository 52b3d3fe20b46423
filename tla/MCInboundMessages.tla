--------------------------- MODULE MCInboundMessages ---------------------------
(* Finite instances of InboundMessages for TLC. *)
EXTENDS InboundMessages, TLC

CONSTANTS c1, c2, u1

\* Two messages of one contact to one bot.
OneThread == {[channel |-> c1, contact |-> u1, no |-> n] : n \in 1 .. 2}

\* The first message of one user to each of two bots.
TwoBots == {[channel |-> ch, contact |-> u1, no |-> 1] : ch \in {c1, c2}}

Symmetry == Permutations(Handlers)
================================================================================
