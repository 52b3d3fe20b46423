------------------------------ MODULE AtMostOnce ------------------------------
(***************************************************************************)
(* What inbound processing promises for each message: it is claimed before *)
(* anything happens on its behalf, and each of its effects happens at most *)
(* once, however often the provider delivers it.  That each effect happens *)
(* at all is not promised.                                                 *)
(***************************************************************************)
EXTENDS Naturals

CONSTANTS Messages, Effects

VARIABLES
    claimed,   \* messages whose processing has begun
    done       \* how often each effect of each message has happened

Init ==
    /\ claimed = {}
    /\ done = [m \in Messages |-> [e \in Effects |-> 0]]

Claim(m) ==
    /\ m \notin claimed
    /\ claimed' = claimed \cup {m}
    /\ UNCHANGED done

Do(m, e) ==
    /\ m \in claimed /\ done[m][e] = 0
    /\ done' = [done EXCEPT ![m][e] = 1]
    /\ UNCHANGED claimed

Next == \E m \in Messages : Claim(m) \/ \E e \in Effects : Do(m, e)

Spec == Init /\ [][Next]_<<claimed, done>>
===============================================================================
