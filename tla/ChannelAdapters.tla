---------------------------- MODULE ChannelAdapters ----------------------------
(***************************************************************************)
(* The edges of WhatsApp, Instagram and TikTok: from a provider's webhook  *)
(* to the orchestrator, and from its answer back to the provider.          *)
(*                                                                         *)
(* Of the orchestrator only the registration of the message and whether    *)
(* there is a reply are kept (see InboundMessages for the rest).  Telegram *)
(* is there, too.                                                          *)
(***************************************************************************)
EXTENDS Integers, Sequences

CONSTANTS
    Servers,
    Webhooks,      \* calls of a provider
    EventsOf,      \* per webhook: its messages, in order
    NotText,       \* a message without text, or what is no message
    ProviderOf,    \* per webhook: a key of Needs
    StoredFields,  \* per webhook: the credentials stored with the hire it is for
    Environment,   \* providers with credentials in the environment
    Deliveries,    \* concurrent runs of handleIncoming
    MaxPosts,      \* bound: calls
    MaxTroubles    \* bound: failed calls and crashes

\* The fields of credentials, in the alternatives a provider takes.
Needs == [meta |-> {{"accessToken"}}, dialog360 |-> {{"apiKey"}, {"accessToken"}},
          twilio |-> {{"accountSid", "authToken"}},
          instagram |-> {{"accessToken"}}, tiktok |-> {{"accessToken"}}]

ASSUME AdaptersAssumption ==
    /\ ProviderOf \in [Webhooks -> DOMAIN Needs] /\ Environment \subseteq DOMAIN Needs
    /\ \A w \in Webhooks : EventsOf[w] \in Seq(STRING \cup {NotText})
    /\ \A w \in Webhooks : ProviderOf[w] = "tiktok" => Len(EventsOf[w]) <= 1
    \* A provider sends a message again only by the same call.
    /\ \A v, w \in Webhooks : \A i \in DOMAIN EventsOf[v], j \in DOMAIN EventsOf[w] :
         EventsOf[v][i] = EventsOf[w][j] => v = w \/ EventsOf[v][i] = NotText
    /\ MaxPosts \in Nat /\ MaxTroubles \in Nat

VARIABLES
    remembered,    \* per server: processedMessages
    registered,    \* processed_events
    acknowledged,  \* webhooks that were answered with 200
    delivery,      \* per run: pc, server, webhook, and at in its messages
    replies,       \* per message: how often the provider took a reply to it
    posts, troubles,
    troubled       \* (history) webhooks of which a run failed or died

adaptersVars ==
    <<remembered, registered, acknowledged, delivery, replies, posts, troubles, troubled>>

Texting == (UNION {{EventsOf[w][i] : i \in DOMAIN EventsOf[w]} : w \in Webhooks}) \ {NotText}

AdaptersInit ==
    /\ remembered = [s \in Servers |-> {}]
    /\ registered = {} /\ acknowledged = {} /\ troubled = {}
    /\ delivery = [d \in Deliveries |-> [pc |-> "idle"]]
    /\ replies = [m \in Texting |-> 0]
    /\ posts = 0 /\ troubles = 0

------------------------------------------------------------------------------
WhatsApp(w) == ProviderOf[w] \in {"meta", "dialog360", "twilio"}
Message(d) == EventsOf[delivery[d].hook][delivery[d].at]
Proceed(d, pc) == delivery' = [delivery EXCEPT ![d].pc = pc]
NextEvent(d) == delivery' = [delivery EXCEPT ![d].pc = "take", ![d].at = @ + 1]
Trouble(hooks) ==
    /\ troubles < MaxTroubles /\ troubles' = troubles + 1
    /\ troubled' = troubled \cup hooks

\* The run returns or throws: WhatsApp's controller waited for it, and answers 200 either way.
Finish(d) ==
    /\ delivery' = [delivery EXCEPT ![d] = [pc |-> "idle"]]
    /\ acknowledged' = acknowledged \cup {delivery[d].hook}

\* The messages of a webhook that are looked at.  The parser of WhatsApp takes the first, of
\* Twilio and TikTok there is one.
Considered(w) ==
    IF ProviderOf[w] = "instagram" THEN DOMAIN EventsOf[w] ELSE DOMAIN EventsOf[w] \cap {1}

\* resolveCredentialsOrThrow for a reply: the hire's, or else those of the environment.
CredentialsFound(w) ==
    \/ \E need \in Needs[ProviderOf[w]] : need \subseteq StoredFields[w]
    \/ ProviderOf[w] \in Environment

\* What is not a text, or lacks a part, is passed over.
IsText(m) == m # NotText

\* A provider calls, for the first time or again.  The controllers of Instagram and TikTok
\* answer at once.
Post(d, s, w) ==
    /\ delivery[d].pc = "idle" /\ posts < MaxPosts /\ posts' = posts + 1
    /\ delivery' = [delivery EXCEPT ![d] = [pc |-> "take", server |-> s, hook |-> w, at |-> 1]]
    /\ acknowledged' = IF WhatsApp(w) THEN acknowledged ELSE acknowledged \cup {w}
    /\ UNCHANGED <<remembered, registered, replies, troubles, troubled>>

\* Variant: what has no text ends the run.
MutantTake_Returns(d) ==
    LET w == delivery[d].hook  s == delivery[d].server IN
    /\ delivery[d].pc = "take"
    /\ \/ /\ delivery[d].at \notin Considered(w) \/ ~IsText(Message(d))
          /\ Finish(d) /\ UNCHANGED remembered
       \/ /\ delivery[d].at \in Considered(w) /\ IsText(Message(d))
          /\ UNCHANGED acknowledged
          /\ IF WhatsApp(w) /\ Message(d) \in remembered[s]
             THEN NextEvent(d) /\ UNCHANGED remembered
             ELSE /\ Proceed(d, "register")
                  /\ remembered' = [remembered EXCEPT ![s] =
                       IF WhatsApp(w) THEN @ \cup {Message(d)} ELSE @]
    /\ UNCHANGED <<registered, replies, posts, troubles, troubled>>

\* The next message: what has no text is passed over.  WhatsApp remembers it before anything
\* is done with it (isDuplicate).
Take(d) ==
    LET w == delivery[d].hook  s == delivery[d].server IN
    /\ delivery[d].pc = "take"
    /\ \/ /\ delivery[d].at \notin Considered(w)
          /\ Finish(d) /\ UNCHANGED remembered
       \/ /\ delivery[d].at \in Considered(w) /\ UNCHANGED acknowledged
          /\ IF ~IsText(Message(d)) \/ (WhatsApp(w) /\ Message(d) \in remembered[s])
             THEN NextEvent(d) /\ UNCHANGED remembered
             ELSE /\ Proceed(d, "register")
                  /\ remembered' = [remembered EXCEPT ![s] =
                       IF WhatsApp(w) THEN @ \cup {Message(d)} ELSE @]
    /\ UNCHANGED <<registered, replies, posts, troubles, troubled>>

\* The orchestrator registers the message; one that is registered gets no reply.
RegisterEvent(d) ==
    /\ delivery[d].pc = "register"
    /\ registered' = registered \cup {Message(d)}
    /\ IF Message(d) \in registered THEN NextEvent(d) ELSE Proceed(d, "answer")
    /\ UNCHANGED <<remembered, acknowledged, replies, posts, troubles, troubled>>

\* The rest of the orchestrator: a reply, or none.  Without credentials it is not sent.
Decide(d) ==
    /\ delivery[d].pc = "answer"
    /\ \/ CredentialsFound(delivery[d].hook) /\ Proceed(d, "send")
       \/ NextEvent(d)
    /\ UNCHANGED <<remembered, registered, acknowledged, replies, posts, troubles, troubled>>

SendReply(d) ==
    /\ delivery[d].pc = "send"
    /\ replies' = [replies EXCEPT ![Message(d)] = @ + 1]
    /\ NextEvent(d)
    /\ UNCHANGED <<remembered, registered, acknowledged, posts, troubles, troubled>>

\* The reply is not taken, or the provider's answer is lost.  WhatsApp and TikTok log it;
\* Instagram throws, and does not come to the messages after it.
ReplyFails(d) ==
    /\ delivery[d].pc = "send"
    /\ Trouble(IF ProviderOf[delivery[d].hook] = "instagram" THEN {delivery[d].hook} ELSE {})
    /\ replies' \in {replies, [replies EXCEPT ![Message(d)] = @ + 1]}
    /\ IF ProviderOf[delivery[d].hook] = "instagram" THEN Finish(d)
       ELSE NextEvent(d) /\ UNCHANGED acknowledged
    /\ UNCHANGED <<remembered, registered, posts>>

\* The orchestrator throws; the controllers log it.
Throw(d) ==
    /\ delivery[d].pc \in {"register", "answer"}
    /\ Trouble({delivery[d].hook}) /\ Finish(d)
    /\ UNCHANGED <<remembered, registered, replies, posts>>

\* A server dies with its runs and its memory.
Restart(s) ==
    LET mine == {d \in Deliveries : delivery[d].pc # "idle" /\ delivery[d].server = s} IN
    /\ Trouble({delivery[d].hook : d \in mine})
    /\ delivery' = [d \in Deliveries |-> IF d \in mine THEN [pc |-> "idle"] ELSE delivery[d]]
    /\ remembered' = [remembered EXCEPT ![s] = {}]
    /\ UNCHANGED <<registered, acknowledged, replies, posts>>

\* evictExpiredEntries: five minutes have passed.
Forget(s, m) ==
    /\ m \in remembered[s]
    /\ remembered' = [remembered EXCEPT ![s] = @ \ {m}]
    /\ UNCHANGED <<registered, acknowledged, delivery, replies, posts, troubles, troubled>>

AdaptersNext ==
    \/ \E d \in Deliveries :
         \/ \E s \in Servers, w \in Webhooks : Post(d, s, w)
         \/ Take(d) \/ RegisterEvent(d) \/ Decide(d) \/ SendReply(d) \/ ReplyFails(d) \/ Throw(d)
    \/ \E s \in Servers : Restart(s) \/ \E m \in Texting : Forget(s, m)

AdaptersSpec == AdaptersInit /\ [][AdaptersNext]_adaptersVars

------------------------------------------------------------------------------
(* Properties *)

\* However often and wherever a webhook is delivered, a message is replied to once.
AdaptersTypeOK ==
    /\ remembered \in [Servers -> SUBSET Texting] /\ registered \subseteq Texting
    /\ acknowledged \subseteq Webhooks /\ troubled \subseteq Webhooks
    /\ replies \in [Texting -> 0..1]
    /\ posts \in 0..MaxPosts /\ troubles \in 0..MaxTroubles

\* A message is never registered, though its webhook is answered and no run works on it, only
\* if a run of that webhook failed or died, or if it is not the first message of a webhook of
\* WhatsApp.
LossExplained ==
    \A w \in acknowledged : \A i \in DOMAIN EventsOf[w] :
        \/ EventsOf[w][i] \in registered \cup {NotText}
        \/ \E d \in Deliveries : delivery[d].pc # "idle" /\ delivery[d].hook = w
        \/ w \in troubled
        \/ WhatsApp(w) /\ i > 1
================================================================================
