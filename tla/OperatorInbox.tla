----------------------------- MODULE OperatorInbox -----------------------------
(***************************************************************************)
(* The operators' inbox: sends, changes of a conversation, read marks and  *)
(* the paged list.                                                         *)
(*                                                                         *)
(* A request is one call of an endpoint of InboxController by a user of a  *)
(* client.  Each of its steps is one database or provider call; between    *)
(* two steps anything else may happen to the conversation.                 *)
(***************************************************************************)
EXTENDS Integers, Sequences, FiniteSets, SequencesExt

CONSTANTS
    Convs,         \* conversations: their ids, numbers ordered as MongoDB orders ids
    Users,         \* users of clients
    Nobody,        \* no assigned operator
    ConvClient, UserClient,   \* the client of a conversation, of a user
    Role,          \* "owner" or "operator", per user
    Active,        \* users whose status is active
    Requests,      \* concurrent requests
    Calls,         \* what they may ask: [op, user, conv, arg]
    Readers,       \* users who walk through the list
    InitialConvs,  \* states the conversations may be in at first
    Canon, Blank,  \* a raw tag trimmed and in lower case; nothing left of it
    MaxTags,       \* MAX_TAGS
    PageSize,      \* limit of the list
    MaxTime,       \* bound: a touch writes a time of 0 .. MaxTime (see SendTouch)
    MaxActors,     \* bound: requests and walks through the list in a behaviour
    MaxFaults      \* bound: failed calls and crashes in a behaviour

ASSUME InboxAssumption ==
    /\ Convs \subseteq Nat /\ IsFiniteSet(Convs)
    /\ Nobody \notin Users /\ Active \subseteq Users /\ Readers \subseteq Users
    /\ InitialConvs \subseteq [Convs -> [mode : {"bot", "human"}, status : {"open", "closed", "archived"},
                                       assigned : Users \cup {Nobody}, tags : {<<>>}, last : {0}, seen : {0}]]
    /\ Calls # {} /\ \A x \in Calls :
         /\ x.user \in Users /\ x.conv \in Convs
         /\ x.op = "mode" => x.arg \in {"bot", "human"}
         /\ x.op = "status" => x.arg \in {"open", "closed", "archived"}
         /\ x.op = "tags" => x.arg \in Seq(DOMAIN Canon)
    /\ PageSize \in Nat \ {0} /\ MaxTags \in Nat /\ MaxTime \in Nat
    /\ MaxActors \in Nat /\ MaxFaults \in Nat

VARIABLES
    conv,         \* conversations: mode, status, assigned, tags, last; and seen, when the contact
                  \* of the conversation was (updatedAt), each being another's
    row,          \* per send: deliveryStatus of the message it inserted, or "none"
    deliveries,   \* per submission: how often the channel accepted it
    reads,        \* conversation_reads: <<user, conversation>>, their times left out
    req,          \* per request: pc, call, the conversation as read, and (history)
                  \*   steady: the assignment has not changed since it was read
                  \*   bot: the mode has been bot ever since the request came
                  \*   held: what it asks for has been in force since it came
    list,         \* one user's walk through a list: pc, kind, user, cursor, how often each
                  \* row came up, and (history) those that changed meanwhile
    faults

vars == <<conv, row, deliveries, reads, req, list, faults>>

Modes == {"bot", "human"}
Statuses == {"open", "closed", "archived"}
Submissions == {<<x.conv, x.arg>> : x \in {y \in Calls : y.op = "send"}}
Sub(r) == <<req[r].call.conv, req[r].call.arg>>
NotRead == [mode |-> "not read"]
NoCursor == [t |-> MaxTime + 1, i |-> 0]

Init ==
    /\ conv \in InitialConvs
    /\ row = [r \in Requests |-> "none"]
    /\ deliveries = [s \in Submissions |-> 0]
    /\ reads = {}
    /\ req = [r \in Requests |-> [pc |-> "new"]]
    /\ list = [pc |-> "idle"]
    /\ faults = 0

------------------------------------------------------------------------------
(* Helpers *)

Answers == {"ok", "replay", "400", "403", "404", "409", "422", "500", "502"}
Ended == Answers \cup {"died"}

\* A request that has ended keeps what the properties ask for.
At(q, pc) == IF pc \in Ended THEN [pc |-> pc, call |-> q.call, held |-> q.held]
             ELSE [q EXCEPT !.pc = pc]
Goto(r, pc) == req' = [req EXCEPT ![r] = At(@, pc)]

\* findByIdForClient, and the filter of every update.
Owned(r) == ConvClient[req[r].call.conv] = UserClient[req[r].call.user]

\* Variant: tags are not compared before they are added.
MutantNormalise_Repeats(tags) ==
    SelectSeq([i \in DOMAIN tags |-> Canon[tags[i]]], LAMBDA t : t # Blank)

\* The k-th of a set of numbers.
Nth(S, k) == CHOOSE i \in S : Cardinality({j \in S : j < i}) = k - 1

\* replaceTags: drop blanks and repetitions, keep the first of each.
Normalise(tags) ==
    LET kept == {i \in DOMAIN tags : /\ Canon[tags[i]] # Blank
                                     /\ \A j \in 1 .. i - 1 : Canon[tags[j]] # Canon[tags[i]]}
    IN  [k \in 1 .. Cardinality(kept) |-> Canon[tags[Nth(kept, k)]]]

\* Variant: operators may clear any assignment.
MutantMayAssign_ClearAny(user, target, assigned) ==
    Role[user] = "owner" \/ target \in {user, Nobody}

\* The role gate of changeAssignment: an operator assigns itself, or clears what nobody
\* or itself is assigned to.
MayAssign(user, target, assigned) ==
    \/ Role[user] = "owner"
    \/ target = user
    \/ target = Nobody /\ assigned \in {Nobody, user}

\* Variant: the control mode is not looked at.
MutantMaySend_Always(c) == TRUE

\* "only legal while the operator owns the conversation"
MaySend(c) == c.mode = "human"

\* What a change writes: the field and its new value.
Field == [mode |-> "mode", status |-> "status", assign |-> "assigned", tags |-> "tags"]
Value(call) == IF call.op = "tags" THEN Normalise(call.arg) ELSE call.arg
InForce(call, c) == call.op \in DOMAIN Field /\ c[Field[call.op]] = Value(call)

\* The changes that are answered with a summary of the conversation, and the step after.
Summarised == {"status", "assign", "tags"}
Written(call) == IF call.op \in Summarised THEN "answer" ELSE "ok"

\* A conversation is written: the histories of the requests that work on it follow.
Write(c, new) ==
    /\ conv' = [conv EXCEPT ![c] = new]
    /\ list' = IF list.pc = "paging" /\ (IF list.kind = "contacts" THEN new.seen # conv[c].seen
                                        ELSE [new EXCEPT !.seen = 0] # [conv[c] EXCEPT !.seen = 0])
               THEN [list EXCEPT !.moved = @ \cup {c}] ELSE list

Observed(q, c, new) ==
    IF q.pc \in Ended \cup {"new"} \/ q.call.conv # c THEN q
    ELSE [q EXCEPT !.steady = @ /\ new.assigned = conv[c].assigned,
                   !.bot = @ /\ new.mode = "bot",
                   !.held = @ \/ InForce(q.call, new)]

\* The next step of a request that has just written its conversation.
WriteAndGoto(r, new, pc) ==
    LET c == req[r].call.conv IN
    /\ Write(c, new)
    /\ req' = [q \in Requests |->
         LET seen == Observed(req[q], c, new) IN IF q = r THEN At(seen, pc) ELSE seen]

------------------------------------------------------------------------------
(* Requests *)

Room == Cardinality({r \in Requests : req[r].pc # "new"})
          + (IF list.pc = "idle" THEN 0 ELSE 1) < MaxActors

\* A request arrives.  RolesGuard lets owners and operators pass.
Call(r, call) ==
    /\ req[r].pc = "new" /\ Room
    /\ req' = [req EXCEPT ![r] =
         [pc |-> "read", call |-> call, seen |-> NotRead,
          steady |-> TRUE, bot |-> conv[call.conv].mode = "bot",
          held |-> InForce(call, conv[call.conv])]]
    /\ UNCHANGED <<conv, row, deliveries, reads, list, faults>>

\* The conversation is read; 404 for another client's.  What the read decides:
\* a send needs human mode (409); an assignment the role (403) and an active user of the
\* client as its target (422); a change that is in force already writes nothing.
\* updateControlMode has no read before its write.
Read(r) ==
    LET q == req[r]  c == conv[q.call.conv]  op == q.call.op
        answer == CASE ~Owned(r) -> "404"
                    [] op = "send" -> IF MaySend(c) THEN "prior" ELSE "409"
                    [] op = "assign" /\ ~MayAssign(q.call.user, q.call.arg, c.assigned) -> "403"
                    [] op = "assign" /\ q.call.arg # Nobody -> "target"
                    [] op = "tags" /\ Len(Value(q.call)) > MaxTags -> "400"
                    [] op \in Summarised /\ InForce(q.call, c) -> "answer"
                    [] OTHER -> "write"
    IN
    /\ q.pc = "read"
    /\ req' = [req EXCEPT ![r] = At([@ EXCEPT !.seen = IF op = "send" THEN NotRead ELSE c, !.steady = TRUE], answer)]
    /\ UNCHANGED <<conv, row, deliveries, reads, list, faults>>

\* Variant: any assignment passes for the one that is asked for.
MutantTarget_AnyAssigned(r) ==
    LET q == req[r]  u == q.call.arg IN
    /\ q.pc = "target"
    /\ Goto(r, IF ~(u \in Active /\ UserClient[u] = UserClient[q.call.user]) THEN "422"
               ELSE IF q.seen.assigned # Nobody THEN "answer" ELSE "write")
    /\ UNCHANGED <<conv, row, deliveries, reads, list, faults>>

\* The target of an assignment is looked up; then the assignment as it was read decides
\* whether there is anything to write.
Target(r) ==
    LET q == req[r]  u == q.call.arg IN
    /\ q.pc = "target"
    /\ Goto(r, IF ~(u \in Active /\ UserClient[u] = UserClient[q.call.user]) THEN "422"
               ELSE IF q.seen.assigned = u THEN "answer" ELSE "write")
    /\ UNCHANGED <<conv, row, deliveries, reads, list, faults>>

\* Variant: the conversation is saved as it was read, with the field changed.
MutantChange_Document(r) ==
    LET q == req[r] IN
    /\ q.pc = "write" /\ q.call.op \in DOMAIN Field
    /\ \/ /\ Owned(r)
          /\ WriteAndGoto(r, [q.seen EXCEPT ![Field[q.call.op]] = Value(q.call)], Written(q.call))
       \/ /\ q.call.op = "status" /\ q.call.arg = "open"
          /\ Goto(r, "500") /\ UNCHANGED <<conv, list>>
    /\ UNCHANGED <<row, deliveries, reads, faults>>

\* The update, whatever the conversation has become since it was read.  A conversation
\* may be reopened only while its thread has no other open one: that index refuses some
\* updates with an error (500).
Change(r) ==
    LET q == req[r]  c == conv[q.call.conv] IN
    /\ q.pc = "write" /\ q.call.op \in DOMAIN Field
    /\ \/ /\ Owned(r)
          /\ WriteAndGoto(r, [c EXCEPT ![Field[q.call.op]] = Value(q.call)], Written(q.call))
       \/ /\ q.call.op = "status" /\ q.call.arg = "open"
          /\ Goto(r, "500") /\ UNCHANGED <<conv, list>>
    /\ UNCHANGED <<row, deliveries, reads, faults>>

\* The conversation is read again, with all that is joined to it, for the answer: it may show
\* what others have made of it since.
ReadSummary(r) ==
    /\ req[r].pc = "answer" /\ Owned(r)
    /\ Goto(r, "ok")
    /\ UNCHANGED <<conv, row, deliveries, reads, list, faults>>

\* markRead upserts the user's row, markUnread deletes it.
Mark(r, marks) ==
    /\ reads' = marks
    /\ req' = [req EXCEPT ![r] = At([@ EXCEPT !.held = TRUE], "ok")]
    /\ UNCHANGED <<conv, row, deliveries, list, faults>>

MarkRead(r) ==
    /\ req[r].pc = "write" /\ req[r].call.op = "read"
    /\ Mark(r, reads \cup {<<req[r].call.user, req[r].call.conv>>})

MarkUnread(r) ==
    /\ req[r].pc = "write" /\ req[r].call.op = "unread"
    /\ Mark(r, reads \ {<<req[r].call.user, req[r].call.conv>>})

------------------------------------------------------------------------------
(* sendOperatorMessage, after its gate *)

\* Variant: rows of another request are not looked at.
MutantStored_Own(r) == row[r] # "none"

\* A message with the conversation and key of r is stored: what findByIdempotencyKey
\* finds and the unique index on (conversationId, idempotencyKey) refuses.
Stored(r) == \E q \in Requests : row[q] # "none" /\ Sub(q) = Sub(r)

\* A stored message is returned as it is, without dispatch; otherwise channel, hire and
\* contact are looked up, and one of them may be missing.
Prior(r) ==
    /\ req[r].pc = "prior"
    /\ IF Stored(r) THEN Goto(r, "replay")
       ELSE Goto(r, "insert") \/ Goto(r, "400")
    /\ UNCHANGED <<conv, row, deliveries, reads, list, faults>>

\* createOperatorMessage; a duplicate key means that another request was faster, and its
\* message is read and returned (messages are never deleted).
Insert(r) ==
    /\ req[r].pc = "insert"
    /\ IF Stored(r)
       THEN Goto(r, "replay") /\ UNCHANGED row
       ELSE Goto(r, "dispatch") /\ row' = [row EXCEPT ![r] = "pending"]
    /\ UNCHANGED <<conv, deliveries, reads, list, faults>>

\* Variant: a failed dispatch is not caught.
MutantDispatch_Throws(r) ==
    /\ req[r].pc = "dispatch"
    /\ \/ deliveries' = [deliveries EXCEPT ![Sub(r)] = @ + 1] /\ Goto(r, "accepted")
       \/ deliveries' = [deliveries EXCEPT ![Sub(r)] = @ + 1] /\ Goto(r, "502")
       \/ UNCHANGED deliveries /\ Goto(r, "502")
    /\ UNCHANGED <<conv, row, reads, list, faults>>

\* messagingGatewayService.send: accepted; accepted, but the answer was lost; refused.
\* Errors are caught.
Dispatch(r) ==
    /\ req[r].pc = "dispatch"
    /\ \/ deliveries' = [deliveries EXCEPT ![Sub(r)] = @ + 1] /\ Goto(r, "accepted")
       \/ deliveries' = [deliveries EXCEPT ![Sub(r)] = @ + 1] /\ Goto(r, "refused")
       \/ UNCHANGED deliveries /\ Goto(r, "refused")
    /\ UNCHANGED <<conv, row, reads, list, faults>>

\* updateDeliveryStatus.
Report(r) ==
    /\ req[r].pc \in {"accepted", "refused"}
    /\ row' = [row EXCEPT ![r] = IF req[r].pc = "accepted" THEN "sent" ELSE "failed"]
    /\ Goto(r, "touch")
    /\ UNCHANGED <<conv, deliveries, reads, list, faults>>

\* The conversation is touched, whether or not the channel took the message (502), with
\* the time of the host: clocks of hosts differ, so it may be any.
SendTouch(r) ==
    /\ req[r].pc = "touch"
    /\ \E t \in 0 .. MaxTime :
         WriteAndGoto(r, [conv[req[r].call.conv] EXCEPT !.last = t],
                      IF row[r] = "sent" THEN "ok" ELSE "502")
    /\ UNCHANGED <<row, deliveries, reads, faults>>

Running(r) == req[r].pc \notin Ended \cup {"new"}

\* A database call fails, or the host dies.
Die(r) ==
    /\ Running(r) /\ faults < MaxFaults /\ faults' = faults + 1
    /\ Goto(r, "died")
    /\ UNCHANGED <<conv, row, deliveries, reads, list>>

------------------------------------------------------------------------------
(* The lists of open conversations and of contacts *)

\* Sorted by lastMessageAt, or updatedAt, then id, both descending.
Time(c) == IF list.kind = "contacts" THEN conv[c].seen ELSE conv[c].last
Before(c, d) == Time(c) > Time(d) \/ (Time(c) = Time(d) /\ c > d)

\* Variant: the cursor compares times only.
MutantBeyond_TimeOnly(c, cursor) == Time(c) < cursor.t

\* The cursor's filter.
Beyond(c, cursor) ==
    \/ Time(c) < cursor.t
    \/ Time(c) = cursor.t /\ c < cursor.i

OpenOf(u) == {c \in Convs : ConvClient[c] = UserClient[u] /\ conv[c].status = "open"}
ContactsOf(u) == {c \in Convs : ConvClient[c] = UserClient[u]}
Items(u) == IF list.kind = "contacts" THEN ContactsOf(u) ELSE OpenOf(u)

Matching(u, cursor) == {c \in Items(u) : Beyond(c, cursor)}

\* The first PageSize of them.
Page(u, cursor) ==
    LET all == Matching(u, cursor) IN
    {c \in all : Cardinality({d \in all : Before(d, c)}) < PageSize}

Start(u, kind) ==
    /\ list.pc = "idle" /\ Room
    /\ list' = [pc |-> "paging", kind |-> kind, user |-> u, cursor |-> NoCursor,
                times |-> [c \in Convs |-> 0], moved |-> {}]
    /\ UNCHANGED <<conv, row, deliveries, reads, req, faults>>

StartList(u) == Start(u, "conversations")
StartContacts(u) == Start(u, "contacts")

\* One page; the cursor is its last row, as long as one more row was found.
NextPage ==
    /\ list.pc = "paging"
    /\ LET page == Page(list.user, list.cursor)
           more == page # Matching(list.user, list.cursor)
           final == CHOOSE c \in page : \A d \in page : ~Before(c, d)
       IN list' = [list EXCEPT !.pc = IF more THEN "paging" ELSE "done",
                               !.cursor = IF more THEN [t |-> Time(final), i |-> final]
                                          ELSE NoCursor,
                               !.times = [c \in Convs |-> IF c \in page THEN @[c] + 1 ELSE @[c]]]
    /\ UNCHANGED <<conv, row, deliveries, reads, req, faults>>

------------------------------------------------------------------------------
\* A message of the contact: its run finds the contact, which sets updatedAt, and touches the
\* conversation with the time at which it stored the message.  (Before and after a walk it
\* changes nothing a property sees.)
ContactSeen(c, t) ==
    /\ list.pc = "paging" /\ list.kind = "contacts"
    /\ Write(c, [conv[c] EXCEPT !.seen = t])
    /\ UNCHANGED <<row, deliveries, reads, req, faults>>

InboundTouch(c, t) ==
    /\ list.pc = "paging" /\ list.kind = "conversations"
    /\ Write(c, [conv[c] EXCEPT !.last = t])
    /\ UNCHANGED <<row, deliveries, reads, req, faults>>

Step(r) ==
    \/ Read(r) \/ Target(r) \/ Change(r) \/ ReadSummary(r) \/ MarkRead(r) \/ MarkUnread(r)
    \/ Prior(r) \/ Insert(r) \/ Dispatch(r) \/ Report(r) \/ SendTouch(r)

Next ==
    \/ \E r \in Requests : (\E call \in Calls : Call(r, call)) \/ Step(r) \/ Die(r)
    \/ \E u \in Readers : StartList(u) \/ StartContacts(u)
    \/ NextPage
    \/ \E c \in Convs, t \in 0 .. MaxTime : ContactSeen(c, t) \/ InboundTouch(c, t)

\* A request that is served goes on until it is answered.
Spec == Init /\ [][Next]_vars /\ \A r \in Requests : WF_vars(Step(r))
------------------------------------------------------------------------------
(* Properties *)

\* Type invariant.  Tags are normal: no blank, no repetition, MaxTags at most.
TypeOK ==
    /\ \A c \in Convs :
         /\ conv[c].mode \in Modes /\ conv[c].status \in Statuses
         /\ conv[c].assigned \in Users \cup {Nobody} /\ {conv[c].last, conv[c].seen} \subseteq 0 .. MaxTime
         /\ LET tags == conv[c].tags IN
              /\ Len(tags) <= MaxTags /\ Blank \notin ToSet(tags)
              /\ \A i, j \in DOMAIN tags : tags[i] = tags[j] => i = j
    /\ row \in [Requests -> {"none", "pending", "sent", "failed"}]
    /\ deliveries \in [Submissions -> Nat]
    /\ reads \subseteq Users \X Convs
    /\ faults \in 0 .. MaxFaults

\* "Retries with the SAME key hit the replay branch and do NOT re-dispatch"
\* (inbox-operator-outbound-phase2.md:76-77): whatever requests race, fail or die, each
\* submission goes through Outbox: one record, one delivery at most, `sent` only if the
\* channel accepted.
StatusOf(s) ==
    LET mine == {r \in Requests : row[r] # "none" /\ Sub(r) = s}
    IN IF mine = {} THEN "none" ELSE row[CHOOSE r \in mine : TRUE]
Abstract == INSTANCE Outbox WITH
    Submissions <- Submissions,
    status <- [s \in Submissions |-> StatusOf(s)],
    deliveries <- deliveries
ImplementsOutbox == Abstract!Spec

\* A recorded message ends as sent or failed, unless its request died: then it stays
\* pending for ever.
PendingEnds ==
    \A r \in Requests :
      row[r] = "pending" ~> (row[r] \in {"sent", "failed"} \/ req[r].pc = "died")

\* The gate reads the control mode once, before everything else: no operator's message is
\* stored or delivered in a conversation that has been in bot mode since the request came.
NothingSentInBotMode ==
    [][\A r \in Requests :
         (req[r].pc \in {"insert", "dispatch"} /\ req'[r].pc \in {"dispatch", "accepted", "refused"}
            /\ req'[r].pc # req[r].pc) => ~req[r].bot]_vars

\* "Operator can only clear an assignment when nobody owns the conversation OR they are the
\* current assignee" (inbox-conversation-mutation.service.ts:179-180).  The write does not
\* repeat the check: this holds unless the assignment changed after it was read.
Clears(r) ==
    /\ req[r].pc = "write" /\ req'[r].pc = "answer" /\ req[r].call.op = "assign"
    /\ req[r].call.arg = Nobody /\ Role[req[r].call.user] = "operator"
ClearsOnlyOwn ==
    [][\A r \in Requests : Clears(r) /\ req[r].steady =>
         conv[req[r].call.conv].assigned \in {Nobody, req[r].call.user}]_vars

\* A change writes its own field: it never brings back what another request changed in
\* the conversation after this one read it.
NoLostUpdate ==
    [][\A r \in Requests :
         (req[r].pc = "write" /\ req'[r].pc = Written(req[r].call) /\ req[r].call.op \in DOMAIN Field) =>
           \A f \in {"mode", "status", "assigned", "tags", "last", "seen"} \ {Field[req[r].call.op]} :
             conv'[req[r].call.conv][f] = conv[req[r].call.conv][f]]_vars

\* A change answered with success was in force at some moment since its request came,
\* also if it was answered without a write.
ChangeWasInForce ==
    \A r \in Requests :
      req[r].pc = "ok" /\ req[r].call.op # "send" => req[r].held

\* The cursor is "stable under same-millisecond ties" (conversation.repository.ts:205-206):
\* a finished walk has shown every open conversation, or every contact, of the client that did
\* not change meanwhile exactly once, whatever moved around it, and none of another client.
ListedOnce ==
    [][(list.pc = "paging" /\ list'.pc = "done") =>
         \A c \in Convs \ list'.moved : list'.times[c] = IF c \in Items(list.user) THEN 1 ELSE 0]_vars
================================================================================
