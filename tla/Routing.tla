------------------------------- MODULE Routing -------------------------------
(***************************************************************************)
(* Which agent answers a message: several hires, of one client or of       *)
(* several, may share a phone or an account, and the sender's message is   *)
(* routed by a number or name in it, by the last conversation, by          *)
(* keywords, by a model, or answered with a list to choose from.           *)
(*                                                                         *)
(* One account and one sender.  A message is handled by a run; the runs of *)
(* messages sent in a row overlap.  What a run does once it has its agent  *)
(* is in InboundMessages.                                                  *)
(***************************************************************************)
EXTENDS Naturals, Sequences, FiniteSets, SequencesExt

CONSTANTS
    Routes,          \* 1..n, the hires with the account, in the order the database finds them
    ClientOf, AgentOf,
    Names,           \* of agents; a name is its place in the alphabet
    FirstNames,      \* per agent, the name it begins with
    Texts,           \* what may be written: number, whole, names, words
    SemanticRouting, \* ENABLE_SEMANTIC_ROUTING
    RoutingRuns,
    MaxChanges       \* bound: hires and agents switched on or off, agents renamed

Agents == {AgentOf[h] : h \in Routes}

\* A candidate of a message (RouteCandidate): a hire, and its agent's name as it was read for
\* this message.
Candidate == [hire : Routes, agentName : Names]

\* A text is a number (0: none), or is a whole name, has names in it and some of the words of
\* names.
ASSUME RoutingAssumption ==
    /\ Routes \subseteq Nat /\ IsFiniteSet(Routes)
    /\ Names \subseteq Nat /\ FirstNames \in [Agents -> Names]
    /\ \A t \in Texts : /\ t.number \in Nat /\ t.names \subseteq Names
                        /\ t.whole \subseteq t.names /\ t.words \in [Names -> Nat]
    /\ SemanticRouting \in BOOLEAN /\ MaxChanges \in Nat

VARIABLES
    hireStatus, \* per hire, whether it is active and whether its channel is
    live,       \* the agents that are active
    name,       \* per agent, its name
    contacts,   \* clients that know the sender
    stored,     \* the sender's messages and their answers: client and agent, oldest first
    shown,      \* the list last sent to the sender, of candidates
    route,      \* per run: pc, text, hires, candidates, chosen, and (history) last and alone
    changes

routingVars == <<hireStatus, live, name, contacts, stored, shown, route, changes>>

RoutingInit ==
    /\ hireStatus = [h \in Routes |-> [hire |-> TRUE, channel |-> TRUE]] /\ live \in SUBSET Agents
    /\ name = FirstNames
    /\ contacts = {} /\ stored = <<>> /\ shown = <<>>
    /\ route = [r \in RoutingRuns |-> [pc |-> "new"]]
    /\ changes = 0

------------------------------------------------------------------------------
Side(h) == [client |-> ClientOf[h], agent |-> AgentOf[h]]

\* By name, as in the list that is sent; agents of the same name as the database finds them.
Precedes(c, d) ==
    \/ c.agentName < d.agentName
    \/ c.agentName = d.agentName /\ c.hire < d.hire
Listed(found) == CHOOSE list \in [1..Cardinality(found) -> found] :
    \A i, j \in 1..Cardinality(found) : i < j => Precedes(list[i], list[j])

Only(found) == IF Cardinality(found) = 1 THEN found ELSE {}
Named(found, names) == Only({c \in found : c.agentName \in names})

\* Variant: the number counts the candidates as the database finds them.
MutantExplicit_FindOrder(found, text) ==
    LET list == SetToSortSeq(found, LAMBDA c, d : c.hire < d.hire)
    IN  IF text.number \in 1..Len(list) THEN {list[text.number]}
        ELSE IF Named(found, text.whole) # {} THEN Named(found, text.whole)
        ELSE Named(found, text.names)

\* The number in the list, the one whose name is the text, the only one it names; or none.
Explicit(found, text) ==
    LET list == Listed(found)
    IN  IF text.number \in 1..Len(list) THEN {list[text.number]}
        ELSE IF Named(found, text.whole) # {} THEN Named(found, text.whole)
        ELSE Named(found, text.names)

\* The candidate of the latest message stored with any of them; or none.
Recent(found) ==
    LET with == {i \in DOMAIN stored : /\ stored[i].client \in contacts
                                       /\ \E c \in found : Side(c.hire) = stored[i]}
    IN  IF with = {} THEN {}
        ELSE LET latest == CHOOSE i \in with : \A j \in with : j <= i
             IN  {c \in found : Side(c.hire) = stored[latest]}

\* The only candidate with the most words of its name in the text; or none.
Keyword(found, text) ==
    LET score(c) == text.words[c.agentName] IN
    Only({c \in found : score(c) > 0 /\ \A d \in found : score(d) <= score(c)})

\* What the model may pick: any candidate, or none.
Semantic(found) == IF SemanticRouting THEN {{}} \cup {{c} : c \in found} ELSE {{}}

InFlight(r) == route[r].pc \in {"find", "agents", "history", "context", "identify", "store"}
Resolve(r, pick) ==
    route' = [route EXCEPT ![r].pc = "context", ![r].chosen = (CHOOSE c \in pick : TRUE).hire]

\* A message arrives (history: what was stored last, and whether nothing else is under way).
Arrive(r, text) ==
    /\ route[r].pc = "new"
    /\ route' = [q \in RoutingRuns |->
         IF q = r THEN [pc |-> "find", text |-> text, hires |-> {}, candidates |-> {}, chosen |-> 0,
                        last |-> IF stored = <<>> THEN {} ELSE {Last(stored)},
                        alone |-> ~\E p \in RoutingRuns : InFlight(p)]
         ELSE IF InFlight(q) THEN [route[q] EXCEPT !.alone = FALSE] ELSE route[q]]
    /\ UNCHANGED <<hireStatus, live, name, contacts, stored, shown, changes>>

\* What the query of the channel returns: active hires with an active channel on the account.
Matching == {h \in Routes : hireStatus[h].hire /\ hireStatus[h].channel}

FindHires(r) ==
    /\ route[r].pc = "find"
    /\ route' = [route EXCEPT ![r].hires = Matching, ![r].pc = "agents"]
    /\ UNCHANGED <<hireStatus, live, name, contacts, stored, shown, changes>>

\* The hires that were found, if their agents, read together, are active; with their names.
Candidates(r) ==
    {[hire |-> h, agentName |-> name[AgentOf[h]]] : h \in {g \in route[r].hires : AgentOf[g] \in live}}

\* The candidates: none, the one there is, or the one the text asks for.
ResolveRoute(r) ==
    /\ route[r].pc = "agents"
    /\ LET found == Candidates(r)
           pick == IF Cardinality(found) = 1 THEN found ELSE Explicit(found, route[r].text)
       IN  route' = [route EXCEPT ![r].candidates = found,
                       ![r].pc = IF found = {} THEN "unroutable"
                                 ELSE IF pick # {} THEN "context" ELSE "history",
                       ![r].chosen = IF pick = {} THEN 0 ELSE (CHOOSE c \in pick : TRUE).hire]
    /\ UNCHANGED <<hireStatus, live, name, contacts, stored, shown, changes>>

\* Variant: keywords come before the last conversation.
MutantReadHistory_KeywordFirst(r) ==
    /\ route[r].pc = "history"
    /\ LET found == route[r].candidates
           keyword == Keyword(found, route[r].text)
           pick == IF keyword # {} THEN keyword ELSE Recent(found)
       IN  IF pick # {} THEN Resolve(r, pick) /\ UNCHANGED shown
           ELSE /\ shown' = Listed(found)
                /\ route' = [route EXCEPT ![r].pc = "ambiguous"]
    /\ UNCHANGED <<hireStatus, live, name, contacts, stored, changes>>

\* The last conversation, keywords, the model; at last the list, of which nothing is stored.
ReadHistory(r) ==
    /\ route[r].pc = "history"
    /\ LET found == route[r].candidates
           recent == Recent(found)
           keyword == Keyword(found, route[r].text)
       IN  \E guess \in Semantic(found) :
             LET pick == IF recent # {} THEN recent ELSE IF keyword # {} THEN keyword ELSE guess
             IN  IF pick # {} THEN Resolve(r, pick) /\ UNCHANGED shown
                 ELSE /\ shown' = Listed(found)
                      /\ route' = [route EXCEPT ![r].pc = "ambiguous"]
    /\ UNCHANGED <<hireStatus, live, name, contacts, stored, changes>>

\* The agent is read again, with its client, model and personality: it may be inactive by now.
BuildContext(r) ==
    /\ route[r].pc = "context"
    /\ route' = [route EXCEPT ![r].pc =
                   IF AgentOf[route[r].chosen] \in live THEN "identify" ELSE "dropped"]
    /\ UNCHANGED <<hireStatus, live, name, contacts, stored, shown, changes>>

\* The message is not for the agent after all: quota, human mode, an error.
Drop(r) ==
    /\ route[r].pc \in {"identify", "store"}
    /\ route' = [route EXCEPT ![r].pc = "dropped"]
    /\ UNCHANGED <<hireStatus, live, name, contacts, stored, shown, changes>>

\* The contact of the client with the sender's identifier is found, or inserted.
WithContact(client) == contacts \cup {client}

\* The sender becomes a contact of the client, if it is not one.
Identify(r) ==
    /\ route[r].pc = "identify"
    /\ contacts' = WithContact(ClientOf[route[r].chosen])
    /\ route' = [route EXCEPT ![r].pc = "store"]
    /\ UNCHANGED <<hireStatus, live, name, stored, shown, changes>>

\* The message is stored with the agent that answers it.
Store(r) ==
    /\ route[r].pc = "store"
    /\ stored' = Append(stored, Side(route[r].chosen))
    /\ route' = [route EXCEPT ![r].pc = "answered"]
    /\ UNCHANGED <<hireStatus, live, name, contacts, shown, changes>>

\* A hire or its channel, or an agent, is switched on or off.
Toggle(h, what) ==
    /\ changes < MaxChanges /\ changes' = changes + 1
    /\ hireStatus' = [hireStatus EXCEPT ![h][what] = ~@]
    /\ UNCHANGED <<live, name, contacts, stored, shown, route>>

ToggleAgent(a) ==
    /\ changes < MaxChanges /\ changes' = changes + 1
    /\ live' = IF a \in live THEN live \ {a} ELSE live \cup {a}
    /\ UNCHANGED <<hireStatus, name, contacts, stored, shown, route>>

\* An agent gets another name, which may be another agent's: names are not unique.
RenameAgent(a, new) ==
    /\ changes < MaxChanges /\ changes' = changes + 1
    /\ new # name[a] /\ name' = [name EXCEPT ![a] = new]
    /\ UNCHANGED <<hireStatus, live, contacts, stored, shown, route>>

RoutingStep(r) ==
    FindHires(r) \/ ResolveRoute(r) \/ ReadHistory(r) \/ BuildContext(r) \/ Drop(r) \/ Identify(r)
    \/ Store(r)

RoutingNext ==
    \/ \E r \in RoutingRuns : (\E t \in Texts : Arrive(r, t)) \/ RoutingStep(r)
    \/ \E h \in Routes, what \in {"hire", "channel"} : Toggle(h, what)
    \/ \E a \in Agents : ToggleAgent(a) \/ \E new \in Names : RenameAgent(a, new)

RoutingSpec == RoutingInit /\ [][RoutingNext]_routingVars

------------------------------------------------------------------------------
(* Properties *)

RoutingTypeOK ==
    /\ live \subseteq Agents /\ name \in [Agents -> Names]
    /\ contacts \subseteq {ClientOf[h] : h \in Routes}
    /\ stored \in Seq({Side(h) : h \in Routes}) /\ shown \in Seq(Candidate)
    /\ changes \in 0..MaxChanges
    /\ \A r \in RoutingRuns : route[r].pc # "new" => route[r].chosen \in Routes \cup {0}

Resolved(r) == route[r].pc \in {"agents", "history"} /\ route'[r].pc = "context"

\* "Just reply with a number or name to get started!" (agent-context.service.ts:203): a number
\* picks the hire that stands next to it in the list the sender was sent, as long as the
\* candidates are the ones of the list, none more and none less, under the names they had in
\* it: they are read and sorted afresh.
NumberPicksShown ==
    [][\A r \in RoutingRuns :
         /\ Resolved(r) /\ route'[r].text.number \in DOMAIN shown
         /\ route'[r].candidates = Range(shown) /\ Len(shown) > 1
         => route'[r].chosen = shown[route'[r].text.number].hire]_routingVars

\* A conversation stays with its agent: a message that neither is a number nor names an
\* agent, sent when nothing else of the sender's is under way, goes to the agent of the
\* last one, while that one is a candidate.
StaysWithAgent ==
    [][\A r \in RoutingRuns :
         Resolved(r) /\ route[r].alone /\ route[r].text.names = {} /\ route[r].text.number = 0
         => \A side \in route[r].last :
              (\E c \in route'[r].candidates : Side(c.hire) = side) => Side(route'[r].chosen) = side
      ]_routingVars
================================================================================
