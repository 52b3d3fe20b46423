---------------------------- MODULE MCSubscriptions ----------------------------
(* A client with a hire and one without, two agents, two currencies, one free phone. *)
EXTENDS Subscriptions

CONSTANTS c1, c2, a1, a2, pers, pers2, n1, n2, e1, e2, r1, r2, h1, none

MCClients == {c1, c2}
MCAgents == {a1, a2}
MCCatalogue == {a1, a2, pers, pers2}
MCPriced == {<<a1, "USD">>, <<a2, "USD">>, <<a2, "EUR">>}
MCHires == [i \in {h1} |-> [client |-> c1, agent |-> a1, status |-> "active",
                            currency |-> "USD", phone |-> n1, personality |-> pers]]
MCPhones == {[number |-> n1, client |-> c1]}
MCUsers == {[email |-> e1, client |-> c1]}
MCCurrency == [c \in {c1, c2} |-> "USD"]

HireCall(c, a, n, valid) ==
    [op |-> "hire", client |-> c, agent |-> a, personality |-> pers, phone |-> n, valid |-> valid]
OnboardCall(e, a, n, x, valid) ==
    [op |-> "onboard", email |-> e, agent |-> a, personality |-> pers, phone |-> n,
     currency |-> x, valid |-> valid]
MCCalls ==
    {HireCall(c1, a1, none, TRUE), HireCall(c1, a2, n1, TRUE), HireCall(c2, a1, n1, TRUE),
     HireCall(c2, a2, n2, TRUE), HireCall(c1, a1, n2, FALSE)}
    \cup {OnboardCall(e2, a2, n2, "EUR", TRUE), OnboardCall(e2, a1, none, "EUR", TRUE),
          OnboardCall(e1, a1, n2, "USD", TRUE), OnboardCall(e2, a1, n2, "USD", FALSE),
          OnboardCall(e2, a1, n1, "USD", TRUE)}
    \cup {[op |-> "user", email |-> e2, client |-> c2]}
    \cup {[op |-> "status", id |-> x, to |-> s] : x \in {c2, a1, pers2}, s \in {"active", "archived"}}
    \cup {[op |-> "currency", id |-> c1, to |-> "EUR"]}
    \cup {[op |-> "update", id |-> h1, personality |-> pers2]}
    \cup {[op |-> "hireStatus", id |-> i, to |-> s] : i \in {h1, r1},
                                                     s \in {"active", "archived"}}
================================================================================
