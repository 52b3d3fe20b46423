---------------------------- MODULE InboundMessages ----------------------------
(***************************************************************************)
(* Processing of inbound messages: from the webhook of a channel through   *)
(* the orchestrator to the stored conversation and the reply.              *)
(*                                                                         *)
(* A handler is one run of TelegramService.handleIncoming; runs of all     *)
(* host instances share MongoDB.  Handlers meet in the processed-event     *)
(* keys, in the conversation of a thread (a contact on a channel of a      *)
(* client), and in the channel's message count; operators of the inbox     *)
(* change the same conversations.  Between two steps of a handler anything *)
(* else may happen: each step is one database or provider call.            *)
(***************************************************************************)
EXTENDS Integers, FiniteSets

CONSTANTS
    Channels, Contacts,
    Messages,     \* the provider's messages: [channel, contact, no]
    Convs,        \* identifiers of conversations (bound: how many are created)
    NoConv,       \* a run has no conversation yet
    Handlers,     \* concurrent runs of handleIncoming
    Timeout,      \* WHATSAPP_CONVERSATION_TIMEOUT_MS
    Quota,        \* monthlyMessageQuota of a channel
    MaxTime,      \* bound: clock ticks in a behaviour
    MaxFaults,    \* bound: failed calls and crashes in a behaviour
    MaxChanges    \* bound: status changes by operators in a behaviour

ASSUME InboundAssumption ==
    /\ Messages # {} /\ NoConv \notin Convs /\ Handlers # {} /\ IsFiniteSet(Handlers)
    /\ Messages \subseteq [channel : Channels, contact : Contacts, no : Nat]
    /\ Timeout \in Nat \ {0} /\ Quota \in Nat /\ MaxTime \in Nat
    /\ MaxFaults \in Nat /\ MaxChanges \in Nat

VARIABLES
    processed,   \* processed_events: the keys inserted
    conv,        \* conversations: status, controlMode, lastMessageAt, thread
    stored,      \* active user messages of each channel in the billing period
    done,        \* per message: user rows, agent rows and replies so far
    handler,     \* per run: pc, message, conversation, the `now` it computed, and the
                 \* conversations in human mode ever since it began (history)
    clock,
    claimed,     \* history: messages whose registration succeeded
    refused,     \* history: messages dropped as duplicates
    declined,    \* history: messages left without a reply on purpose
    faults, changes   \* counters for the bounds

history == <<claimed, refused, declined>>
bounds  == <<faults, changes>>
vars == <<processed, conv, stored, done, handler, clock,
          claimed, refused, declined, faults, changes>>

Effects == {"user", "agent", "reply"}
Conv == [status : {"none", "open", "closed", "archived"}, mode : {"bot", "human"},
         last : Nat, thread : Channels \X Contacts]
Stages == {"idle", "register", "route", "quota", "find", "close", "create", "refind",
           "user", "touchUser", "answer", "touchAgent", "touch", "send"}
Handler == [pc : Stages,
            msg : Messages, conv : Convs \cup {NoConv}, now : Nat, human : SUBSET Convs]

Thread(m) == <<m.channel, m.contact>>
AnyMessage == CHOOSE m \in Messages : TRUE
IdleHandler == [pc |-> "idle", msg |-> AnyMessage, conv |-> NoConv, now |-> 0, human |-> {}]
NoConversation == [status |-> "none", mode |-> "bot", last |-> 0, thread |-> Thread(AnyMessage)]

\* The channel may have used part of its quota, or all of it, before.
Init ==
    /\ processed = {} /\ clock = 0
    /\ conv = [c \in Convs |-> NoConversation]
    /\ stored \in [Channels -> 0 .. Quota]
    /\ done = [m \in Messages |-> [e \in Effects |-> 0]]
    /\ handler = [h \in Handlers |-> IdleHandler]
    /\ claimed = {} /\ refused = {} /\ declined = {}
    /\ faults = 0 /\ changes = 0

------------------------------------------------------------------------------
(* Helpers *)

\* findLatestOpenByClientContactAndChannel
OpenConvs(t) == {c \in Convs : conv[c].status = "open" /\ conv[c].thread = t}

\* Variant: the partial unique index on open conversations is missing.
MutantIndexAllows_Always(t) == TRUE

\* The partial unique index on (clientId, contactId, channelId) of open conversations.
IndexAllows(t) == OpenConvs(t) = {}

\* Variant: a key that forgets the message id.
MutantKey_ContactOnly(m) == <<m.contact, 0>>

\* The key a Telegram message is registered under: the channel type, the same for
\* every bot, and `chatId:messageId`.  A private chat has the id of the user, and
\* every bot numbers its messages with that user by itself.
Key(m) == <<m.contact, m.no>>

\* Variant: the insert became an upsert, which never fails.
MutantRegistered_Never(m) == FALSE

\* The insert fails on the unique index (channel, messageId).
Registered(m) == Key(m) \in processed

\* Variant: a quota that is used up lets one more check pass.
MutantWithinQuota_OffByOne(ch) == stored[ch] <= Quota

\* QuotaPolicy.isExceeded, negated.
WithinQuota(ch) == stored[ch] < Quota

\* Variant: a conversation created without the schema's default controlMode.
MutantNewConversation_NoMode(t, now) ==
    [status |-> "open", mode |-> "unset", last |-> now, thread |-> t]

NewConversation(t, now) == [status |-> "open", mode |-> "bot", last |-> now, thread |-> t]

Goto(h, pc) == handler' = [handler EXCEPT ![h].pc = pc]
Count(m, e) == done' = [done EXCEPT ![m][e] = @ + 1]
Fault == faults < MaxFaults /\ faults' = faults + 1 /\ UNCHANGED changes

------------------------------------------------------------------------------
(* A run of handleIncoming *)

\* The provider delivers a message, for the first time or again.
Deliver(h, m) ==
    /\ handler[h].pc = "idle"
    /\ handler' = [handler EXCEPT ![h] =
         [pc |-> "register", msg |-> m, conv |-> NoConv, now |-> 0,
          human |-> {c \in Convs : conv[c].mode = "human"}]]
    /\ UNCHANGED <<processed, conv, stored, done, clock, history, bounds>>

\* registerIfFirst, inserted.
Claim(h) ==
    LET m == handler[h].msg IN
    /\ handler[h].pc = "register" /\ ~Registered(m)
    /\ processed' = processed \cup {Key(m)}
    /\ claimed' = claimed \cup {m}
    /\ Goto(h, "route")
    /\ UNCHANGED <<conv, stored, done, clock, refused, declined, bounds>>

\* registerIfFirst, duplicate key: handle returns {}.
Refuse(h) ==
    /\ handler[h].pc = "register" /\ Registered(handler[h].msg)
    /\ refused' = refused \cup {handler[h].msg}
    /\ handler' = [handler EXCEPT ![h] = IdleHandler]
    /\ UNCHANGED <<processed, conv, stored, done, clock, claimed, declined, bounds>>

\* The run ends without a reply, as intended.
Decline(h) ==
    /\ handler' = [handler EXCEPT ![h] = IdleHandler]
    /\ declined' = declined \cup {handler[h].msg}

\* resolveRoute and buildContextFromRoute: no hire, an inactive agent or no billing
\* anchor; several hires, which a prompt asks to choose from; one hire.
Route(h) ==
    /\ handler[h].pc = "route"
    /\ \/ Decline(h)
       \/ Goto(h, "send") /\ UNCHANGED declined
       \/ Goto(h, "quota") /\ UNCHANGED declined
    /\ UNCHANGED <<processed, conv, stored, done, clock, claimed, refused, bounds>>

\* QuotaEnforcementService.check: the channel's messages, or the tokens of the agent,
\* which are not counted here, are used up.
CheckQuota(h) ==
    /\ handler[h].pc = "quota"
    /\ \/ WithinQuota(handler[h].msg.channel) /\ Goto(h, "find") /\ UNCHANGED declined
       \/ Decline(h)
    /\ UNCHANGED <<processed, conv, stored, done, clock, claimed, refused, bounds>>

\* The inbox gate on the conversation resolveOrCreate returned, as it was read.
Gate(h, c) ==
    IF conv[c].mode = "human"
    THEN Decline(h)
    ELSE /\ handler' = [handler EXCEPT ![h].pc = "user", ![h].conv = c]
         /\ UNCHANGED declined

\* resolveOrCreate: look for the open conversation; reuse it if it is younger than the
\* timeout, otherwise it is to be closed.
Find(h) ==
    LET t == Thread(handler[h].msg) IN
    /\ handler[h].pc = "find"
    /\ \/ /\ OpenConvs(t) = {}
          /\ handler' = [handler EXCEPT ![h].pc = "create", ![h].now = clock]
          /\ UNCHANGED declined
       \/ \E c \in OpenConvs(t) : clock - conv[c].last < Timeout /\ Gate(h, c)
       \/ \E c \in OpenConvs(t) :
            /\ clock - conv[c].last >= Timeout
            /\ handler' = [handler EXCEPT ![h].pc = "close", ![h].conv = c, ![h].now = clock]
            /\ UNCHANGED declined
    /\ UNCHANGED <<processed, conv, stored, done, clock, claimed, refused, bounds>>

\* updateStatus(closed), whatever the conversation has become since it was read.
Close(h) ==
    /\ handler[h].pc = "close"
    /\ conv' = [conv EXCEPT ![handler[h].conv].status = "closed"]
    /\ handler' = [handler EXCEPT ![h].pc = "create", ![h].conv = NoConv]
    /\ UNCHANGED <<processed, stored, done, clock, history, bounds>>

\* createOpenConversation: the new conversation, or a duplicate-key error.
Create(h) ==
    LET t == Thread(handler[h].msg) IN
    /\ handler[h].pc = "create"
    /\ \/ /\ IndexAllows(t)
          /\ \E c \in Convs :
               /\ conv[c].status = "none"
               /\ conv' = [conv EXCEPT ![c] = NewConversation(t, handler[h].now)]
               /\ handler' = [handler EXCEPT ![h].pc = "user", ![h].conv = c, ![h].now = 0]
       \/ /\ ~IndexAllows(t) /\ UNCHANGED conv
          /\ handler' = [handler EXCEPT ![h].pc = "refind", ![h].now = 0]
    /\ UNCHANGED <<processed, stored, done, clock, history, bounds>>

\* Variant: the conversation another run created is not passed through the gate.
MutantRefind_NoGate(h) ==
    /\ handler[h].pc = "refind"
    /\ \E c \in OpenConvs(Thread(handler[h].msg)) :
         handler' = [handler EXCEPT ![h].pc = "user", ![h].conv = c]
    /\ UNCHANGED <<processed, conv, stored, done, clock, history, bounds>>

\* createOpenConversationWithDuplicateRecovery: take the conversation another run has
\* opened, however old; if it is gone again the error is thrown.
Refind(h) ==
    LET open == OpenConvs(Thread(handler[h].msg)) IN
    /\ handler[h].pc = "refind"
    /\ \/ \E c \in open : Gate(h, c)
       \/ /\ open = {}
          /\ handler' = [handler EXCEPT ![h] = IdleHandler] /\ UNCHANGED declined
    /\ UNCHANGED <<processed, conv, stored, done, clock, claimed, refused, bounds>>

\* createUserMessage: `now` is computed, then the row is inserted.
StoreUser(h) ==
    LET m == handler[h].msg IN
    /\ handler[h].pc = "user"
    /\ Count(m, "user")
    /\ stored' = [stored EXCEPT ![m.channel] = @ + 1]
    /\ handler' = [handler EXCEPT ![h].pc = "touchUser", ![h].now = clock]
    /\ UNCHANGED <<processed, conv, clock, history, bounds>>

\* The model answers and saveAgentMessage inserts the row; or it fails, and run()
\* returns a canned reply.
Answer(h) ==
    /\ handler[h].pc = "answer"
    /\ \/ /\ Count(handler[h].msg, "agent")
          /\ handler' = [handler EXCEPT ![h].pc = "touchAgent", ![h].now = clock]
       \/ Goto(h, "touch") /\ UNCHANGED done
    /\ UNCHANGED <<processed, conv, stored, clock, history, bounds>>

\* touch after an insert, with the `now` computed before it; or in the orchestrator's
\* `finally`, with the current time.
Touch(h) ==
    LET next == [touchUser |-> "answer", touchAgent |-> "touch", touch |-> "send"] IN
    /\ handler[h].pc \in DOMAIN next
    /\ conv' = [conv EXCEPT ![handler[h].conv].last =
                  IF handler[h].pc = "touch" THEN clock ELSE handler[h].now]
    /\ handler' = [handler EXCEPT ![h].pc = next[@], ![h].now = 0]
    /\ UNCHANGED <<processed, stored, done, clock, history, bounds>>

\* The channel's service sends the reply.
Send(h) ==
    /\ handler[h].pc = "send"
    /\ Count(handler[h].msg, "reply")
    /\ handler' = [handler EXCEPT ![h] = IdleHandler]
    /\ UNCHANGED <<processed, conv, stored, clock, history, bounds>>

\* A call fails.  run() turns its errors into a canned reply; any other error ends the
\* run, and the controller only logs it.  (A call that took effect before it failed is
\* the step followed by a failure.)
Fail(h) ==
    /\ handler[h].pc # "idle" /\ Fault
    /\ IF handler[h].pc \in {"user", "touchUser", "answer", "touchAgent"}
       THEN Goto(h, "touch")
       ELSE handler' = [handler EXCEPT ![h] = IdleHandler]
    /\ UNCHANGED <<processed, conv, stored, done, clock, history>>

\* The host dies.  The provider has its 200 already.
Crash(h) ==
    /\ handler[h].pc # "idle" /\ Fault
    /\ handler' = [handler EXCEPT ![h] = IdleHandler]
    /\ UNCHANGED <<processed, conv, stored, done, clock, history>>

------------------------------------------------------------------------------
(* Operators of the inbox, and time *)

\* updateControlMode: by id, whatever the conversation's status.
SetControlMode(c, mode) ==
    /\ conv[c].status # "none" /\ conv[c].mode # mode
    /\ conv' = [conv EXCEPT ![c].mode = mode]
    /\ handler' = [h \in Handlers |-> [handler[h] EXCEPT !.human = @ \ {c}]]
    /\ UNCHANGED <<processed, stored, done, clock, history, bounds>>

\* changeStatus: by id; reopening is subject to the unique index.
ChangeStatus(c, status) ==
    /\ conv[c].status \notin {"none", status}
    /\ status = "open" => IndexAllows(conv[c].thread)
    /\ changes < MaxChanges /\ changes' = changes + 1
    /\ conv' = [conv EXCEPT ![c].status = status]
    /\ UNCHANGED <<processed, stored, done, handler, clock, history, faults>>

\* The touch at the end of an operator's send, which passed its gate some time ago.
OperatorTouch(c) ==
    /\ conv[c].status # "none"
    /\ conv' = [conv EXCEPT ![c].last = clock]
    /\ UNCHANGED <<processed, stored, done, handler, clock, history, bounds>>

Tick ==
    /\ clock < MaxTime /\ clock' = clock + 1
    /\ UNCHANGED <<processed, conv, stored, done, handler, history, bounds>>

------------------------------------------------------------------------------
Next ==
    \/ \E h \in Handlers :
         \/ \E m \in Messages : Deliver(h, m)
         \/ Claim(h) \/ Refuse(h) \/ Route(h) \/ CheckQuota(h)
         \/ Find(h) \/ Close(h) \/ Create(h) \/ Refind(h)
         \/ StoreUser(h) \/ Answer(h) \/ Touch(h) \/ Send(h)
         \/ Fail(h) \/ Crash(h)
    \/ \E c \in Convs :
         \/ \E mode \in {"bot", "human"} : SetControlMode(c, mode)
         \/ \E status \in {"open", "closed", "archived"} : ChangeStatus(c, status)
         \/ OperatorTouch(c)
    \/ Tick

Spec == Init /\ [][Next]_vars
------------------------------------------------------------------------------
(* Properties *)

\* Type invariant.
TypeOK ==
    /\ processed \in SUBSET (Contacts \X Nat)
    /\ conv \in [Convs -> Conv]
    /\ stored \in [Channels -> Nat]
    /\ done \in [Messages -> [Effects -> Nat]]
    /\ handler \in [Handlers -> Handler]
    /\ clock \in Nat
    /\ claimed \in SUBSET Messages /\ refused \in SUBSET Messages
    /\ declined \in SUBSET Messages
    /\ faults \in Nat /\ changes \in Nat

\* A thread has one open conversation at most, whatever runs close, create and find
\* while operators reopen ("with a single open conversation",
\* conversation.service.spec.ts).
OneOpenConversation ==
    \A c, d \in Convs :
      conv[c].status = "open" /\ conv[d].status = "open" /\ conv[c].thread = conv[d].thread
        => c = d

\* Runs that passed the quota check and have not stored their message yet.
InFlight(ch) == {h \in Handlers :
    /\ handler[h].msg.channel = ch
    /\ handler[h].pc \in {"find", "close", "create", "refind", "user"}}

\* The quota check reads a count that runs in flight do not appear in: a channel
\* exceeds its quota, but by less than the number of concurrent runs.
QuotaOvershootBounded ==
    \A ch \in Channels :
      stored[ch] + Cardinality(InFlight(ch)) <= Quota - 1 + Cardinality(Handlers)

\* "`lastMessageAt` does not advance for inbound messages received while controlMode
\* === 'human'" (incoming-message.orchestrator.ts:147-148), nor is the message stored:
\* no step of a run changes the activity of a conversation that was in human mode ever
\* since the run began, however the run came by that conversation.
HumanConversationStaysSilent ==
    [][\A h \in Handlers : handler'[h] # handler[h] =>
         \A c \in handler[h].human :
           /\ conv'[c].last = conv[c].last
           /\ handler[h].pc = "user" => handler[h].conv # c]_vars

\* Every effect of a message happens at most once and only after it is claimed,
\* whatever the provider redelivers: the abstract specification is implemented.
Abstract == INSTANCE AtMostOnce
ImplementsAtMostOnce == Abstract!Spec

\* "Duplicate events must NOT" be processed (ARCHITECTURE_CONTRACT.md:239), and only
\* duplicates are dropped as such.  Holds while all messages come through one bot;
\* refuted for a user who writes to two.
OnlyDuplicatesRefused == refused \subseteq claimed

\* Refuted.  "Exactly-once semantics per inbound message are required"
\* (ARCHITECTURE_CONTRACT.md:246): a claimed message that no run works on any more has
\* been answered, or left unanswered on purpose.
WorkedOn(m) == \E h \in Handlers :
    handler[h].msg = m /\ handler[h].pc \notin {"idle", "register"}
NoMessageLost ==
    \A m \in claimed : WorkedOn(m) \/ m \in declined \/ done[m]["reply"] = 1
==============================================================================
