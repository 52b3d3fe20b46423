-------------------------- MODULE OperatorInboxProofs --------------------------
(***************************************************************************)
(* Safety of the operators' inbox for any conversations, users, requests,  *)
(* calls and readers, any page size and any limit of tags.                 *)
(***************************************************************************)
EXTENDS OperatorInbox, FiniteSetTheorems, WellFoundedInduction, TLAPS

------------------------------------------------------------------------------
(* Numbers and ranks *)

LEMMA LeastElement ==
    ASSUME NEW S \in SUBSET Nat, S # {}
    PROVE  \E m \in S : \A k \in S : m <= k
<1>1. \E m \in S : \A k \in S : <<k, m>> \notin OpToRel(<, Nat)
  BY NatLessThanWellFounded, WFMin, Zenon
<1>2. \A x, y \in Nat : x < y => <<x, y>> \in OpToRel(<, Nat)
  BY Zenon DEF OpToRel
<1>3. \E m \in S : \A k \in S : ~(k < m)
  BY <1>1, <1>2, Zenon
<1> QED BY <1>3

LEMMA GreatestElement ==
    ASSUME NEW n \in Nat, NEW S, S # {}, \A k \in S : k \in Nat /\ k <= n
    PROVE  \E m \in S : \A k \in S : k <= m
<1> DEFINE T == {n - k : k \in S}
<1>1. T \in SUBSET Nat /\ T # {}
  <2>1. \A k \in S : n - k \in Nat
    OBVIOUS
  <2> QED BY <2>1
<1>2. PICK m \in T : \A k \in T : m <= k
  BY <1>1, LeastElement
<1>3. PICK i \in S : m = n - i
  OBVIOUS
<1>4. \A k \in S : k <= i
  <2> TAKE k \in S
  <2>1. n - k \in T
    OBVIOUS
  <2> QED BY <1>2, <1>3, <2>1
<1> QED BY <1>4

\* The set of the numbers up to a bound has a k-th smallest, for every k up to its size.
LEMMA NthExists ==
    ASSUME NEW n \in Nat, NEW S, S \subseteq 1 .. n, NEW k \in 1 .. Cardinality(S)
    PROVE  Nth(S, k) \in S /\ Cardinality({j \in S : j < Nth(S, k)}) = k - 1
<1> DEFINE Upto(i) == {j \in S : j <= i}
           Enough == {i \in 0 .. n : Cardinality(Upto(i)) >= k}
<1>0. \A j \in S : j \in Int /\ 1 <= j /\ j <= n
  OBVIOUS
<1>1. IsFiniteSet(S) /\ \A T \in SUBSET S : IsFiniteSet(T) /\ Cardinality(T) \in Nat
  <2>1. IsFiniteSet(1 .. n) /\ S \in SUBSET (1 .. n)
    BY FS_Interval
  <2>2. IsFiniteSet(S)
    BY <2>1, FS_Subset
  <2> QED BY <2>2, FS_Subset, FS_CardinalityType
<1>2. k \in Nat /\ 1 <= k /\ k <= Cardinality(S)
  BY <1>1
<1>3. \A i \in 0 .. n : Upto(i) \in SUBSET S /\ IsFiniteSet(Upto(i)) /\ Cardinality(Upto(i)) \in Nat
  BY <1>1
<1>4. n \in Enough
  <2>1. Upto(n) = S
    BY <1>0
  <2> QED BY <2>1, <1>2
<1>5. PICK i \in Enough : \A j \in Enough : i <= j
  <2>1. Enough \in SUBSET Nat
    OBVIOUS
  <2> HIDE DEF Enough
  <2> QED BY <2>1, <1>4, LeastElement
<1>6. i \in 0 .. n /\ Cardinality(Upto(i)) >= k
  OBVIOUS
<1>7. i # 0
  <2>1. \A j \in S : ~(j <= 0)
    BY <1>0
  <2>2. Upto(0) = {}
    BY <2>1
  <2> QED BY <2>2, <1>2, <1>6, FS_EmptySet
<1>8. i - 1 \in 0 .. n
  BY <1>6, <1>7
<1>9. Cardinality(Upto(i - 1)) < k
  <2>1. ~(i - 1 \in Enough)
    <3>1. i \in Int /\ ~(i <= i - 1)
      BY <1>6
    <3> HIDE DEF Enough
    <3> QED BY <1>5, <3>1
  <2>2. ~(Cardinality(Upto(i - 1)) >= k)
    BY <2>1, <1>8
  <2>3. Cardinality(Upto(i - 1)) \in Nat
    BY <1>3, <1>8
  <2> HIDE DEF Upto
  <2> QED BY <2>2, <2>3, <1>2
<1>10. i \notin S => Upto(i) = Upto(i - 1)
  <2> SUFFICES ASSUME i \notin S PROVE Upto(i) = Upto(i - 1)
    OBVIOUS
  <2>1. \A j \in S : j <= i <=> j <= i - 1
    BY <1>0, <1>6
  <2> QED BY <2>1
<1>11. i \in S
  BY <1>2, <1>3, <1>6, <1>8, <1>9, <1>10
<1>12. Upto(i) = Upto(i - 1) \cup {i} /\ i \notin Upto(i - 1)
  <2>1. \A j \in S : j <= i <=> (j <= i - 1 \/ j = i)
    BY <1>0, <1>6
  <2>2. ~(i <= i - 1)
    BY <1>6
  <2> QED BY <2>1, <2>2, <1>11
<1>13. Cardinality(Upto(i)) = Cardinality(Upto(i - 1)) + 1
  <2>1. IsFiniteSet(Upto(i - 1))
    BY <1>3, <1>8
  <2> HIDE DEF Upto
  <2> QED BY <2>1, <1>12, FS_AddElement
<1>14. Cardinality(Upto(i - 1)) = k - 1
  <2>1. Cardinality(Upto(i - 1)) \in Nat
    BY <1>3, <1>8
  <2> HIDE DEF Upto
  <2> QED BY <2>1, <1>2, <1>6, <1>9, <1>13
<1>15. Upto(i - 1) = {j \in S : j < i}
  <2>1. \A j \in S : j <= i - 1 <=> j < i
    BY <1>0, <1>6
  <2> QED BY <2>1
<1>16. i \in S /\ Cardinality({j \in S : j < i}) = k - 1
  BY <1>11, <1>14, <1>15
<1> QED BY <1>16 DEF Nth

\* What tags are after they are normalised: no blank, no repetition.
Normal(tags) ==
    /\ \A i \in DOMAIN tags : tags[i] # Blank
    /\ \A i, j \in DOMAIN tags : tags[i] = tags[j] => i = j

Firsts(raw) == {i \in DOMAIN raw : /\ Canon[raw[i]] # Blank
                                   /\ \A j \in 1 .. i - 1 : Canon[raw[j]] # Canon[raw[i]]}

\* Whatever is asked for, replaceTags stores normal tags.
LEMMA NormaliseIsNormal ==
    ASSUME NEW raw \in Seq(DOMAIN Canon)
    PROVE  Normalise(raw) \in Seq({Canon[x] : x \in DOMAIN Canon}) /\ Normal(Normalise(raw))
<1> DEFINE kept == Firsts(raw)
           tags == Normalise(raw)
<1>1. DOMAIN raw = 1 .. Len(raw) /\ Len(raw) \in Nat /\ \A i \in DOMAIN raw : raw[i] \in DOMAIN Canon
  OBVIOUS
<1>2. kept \in SUBSET (1 .. Len(raw))
  BY <1>1 DEF Firsts
<1>3. Cardinality(kept) \in Nat
  <2>1. IsFiniteSet(1 .. Len(raw))
    BY <1>1, FS_Interval
  <2> HIDE DEF kept
  <2> QED BY <1>2, <2>1, FS_Subset, FS_CardinalityType
<1>4. tags = [k \in 1 .. Cardinality(kept) |-> Canon[raw[Nth(kept, k)]]]
  BY DEF Normalise, Firsts
<1>5. \A k \in 1 .. Cardinality(kept) :
        Nth(kept, k) \in kept /\ Cardinality({j \in kept : j < Nth(kept, k)}) = k - 1
  BY <1>1, <1>2, NthExists
<1>6. \A k \in 1 .. Cardinality(kept) : tags[k] = Canon[raw[Nth(kept, k)]]
  BY <1>4
<1>7. tags \in Seq({Canon[x] : x \in DOMAIN Canon})
  <2>1. \A k \in 1 .. Cardinality(kept) : Canon[raw[Nth(kept, k)]] \in {Canon[x] : x \in DOMAIN Canon}
    BY <1>1, <1>2, <1>5
  <2> QED BY <1>3, <1>4, <2>1
<1>8. \A i \in DOMAIN tags : tags[i] # Blank
  BY <1>4, <1>5, <1>6 DEF Firsts
<1>9. ASSUME NEW i \in DOMAIN tags, NEW j \in DOMAIN tags, tags[i] = tags[j]
      PROVE  i = j
  <2> DEFINE a == Nth(kept, i)
             b == Nth(kept, j)
  <2>1. i \in 1 .. Cardinality(kept) /\ j \in 1 .. Cardinality(kept)
    BY <1>4
  <2>2. a \in kept /\ b \in kept /\ Canon[raw[a]] = Canon[raw[b]]
    BY <1>5, <1>6, <1>9, <2>1
  <2>3. ~(a < b) /\ ~(b < a) /\ a \in Int /\ b \in Int
    BY <1>2, <2>2 DEF Firsts
  <2>4. a = b
    BY <2>3
  <2>5. Cardinality({k \in kept : k < a}) = i - 1 /\ Cardinality({k \in kept : k < b}) = j - 1
    BY <1>5, <2>1
  <2> HIDE DEF a, b, kept
  <2> QED BY <2>1, <2>4, <2>5
<1> QED BY <1>7, <1>8, <1>9 DEF Normal

------------------------------------------------------------------------------
(* The inductive invariant *)

Tags == {t \in Seq({Canon[x] : x \in DOMAIN Canon}) : Normal(t) /\ Len(t) <= MaxTags}
Conversation == [mode : Modes, status : Statuses, assigned : Users \cup {Nobody}, tags : Tags,
                 last : 0 .. MaxTime, seen : 0 .. MaxTime]

RunningPcs == {"read", "target", "write", "answer", "prior", "insert", "dispatch", "accepted",
               "refused", "touch"}
RunningReq == [pc : RunningPcs, call : Calls, seen : Conversation \cup {NotRead},
               steady : BOOLEAN, bot : BOOLEAN, held : BOOLEAN]
EndedReq == [pc : Ended, call : Calls, held : BOOLEAN]
NewReq == [pc |-> "new"]

Cursor == [t : Nat, i : Nat]
Walk == [pc : {"paging", "done"}, kind : {"conversations", "contacts"}, user : Readers,
         cursor : Cursor, times : [Convs -> Nat], moved : SUBSET Convs]

Types ==
    /\ conv \in [Convs -> Conversation]
    /\ row \in [Requests -> {"none", "pending", "sent", "failed"}]
    /\ deliveries \in [Submissions -> Nat]
    /\ reads \subseteq Users \X Convs
    /\ req \in [Requests -> {NewReq} \cup RunningReq \cup EndedReq]
    /\ list \in {[pc |-> "idle"]} \cup Walk
    /\ faults \in 0 .. MaxFaults

\* A running request and its conversation c: what it has decided still stands on what it
\* read, unless its histories say that this has changed.
Standing(q, c) ==
    /\ q.pc \in {"prior", "insert", "dispatch", "accepted", "refused", "touch"} => q.call.op = "send"
    /\ q.pc = "target" => q.call.op = "assign"
    /\ q.pc = "write" /\ q.call.op = "assign" => q.call.arg \in Users \cup {Nobody}
    /\ q.pc = "write" /\ q.call.op = "tags" => Len(Value(q.call)) <= MaxTags
    /\ InForce(q.call, c) => q.held
    /\ q.pc = "answer" => q.held
    /\ q.pc = "target" /\ q.seen.assigned = q.call.arg => q.held
    /\ q.bot => c.mode = "bot"
    /\ q.pc \in {"prior", "insert", "dispatch"} => ~q.bot
    /\ q.pc = "write" /\ q.call.op = "assign" /\ q.call.arg = Nobody /\ q.steady =>
         MayAssign(q.call.user, Nobody, c.assigned)

Answered(q) == q.pc = "ok" /\ q.call.op # "send" => q.held

Stands(r) == IF req[r].pc \in RunningPcs THEN Standing(req[r], conv[req[r].call.conv])
             ELSE req[r].pc \in Ended => Answered(req[r])

RequestsStand == \A r \in Requests : Stands(r)

\* A submission has one row at most, and what the channel took of it fits its request.
Recorded(r) ==
    /\ row[r] # "none" => req[r].pc # "new" /\ req[r].call.op = "send"
    /\ req[r].pc \in {"read", "target", "write", "answer", "prior", "insert"} => row[r] = "none"
    /\ req[r].pc = "dispatch" => row[r] = "pending" /\ deliveries[Sub(r)] = 0
    /\ req[r].pc = "accepted" => row[r] = "pending" /\ deliveries[Sub(r)] = 1
    /\ req[r].pc = "refused" => row[r] = "pending"

OneRow ==
    /\ \A r \in Requests : Recorded(r)
    /\ \A q, r \in Requests : row[q] # "none" /\ row[r] # "none" /\ Sub(q) = Sub(r) => q = r
    /\ \A s \in Submissions : deliveries[s] # 0 => \E r \in Requests : row[r] # "none" /\ Sub(r) = s

\* A walk under way has shown what lies before its cursor, once, and nothing else.
ShownBeforeCursor ==
    list.pc = "paging" =>
      \A c \in Convs \ list.moved :
        list.times[c] = IF c \in Items(list.user) /\ ~Beyond(c, list.cursor) THEN 1 ELSE 0

IInv == Types /\ RequestsStand /\ OneRow /\ ShownBeforeCursor

------------------------------------------------------------------------------
(* Types *)

AnyReq == {NewReq} \cup RunningReq \cup EndedReq

LEMMA Pcs ==
    /\ RunningPcs \cap Ended = {} /\ "new" \notin RunningPcs \cup Ended
    /\ \A q \in AnyReq :
         /\ q.pc \in {"new"} \cup RunningPcs \cup Ended
         /\ q.pc \in RunningPcs <=> q \in RunningReq
         /\ q.pc \in Ended <=> q \in EndedReq
         /\ q.pc # "new" => q.call \in Calls
<1>1. RunningPcs \cap Ended = {} /\ "new" \notin RunningPcs \cup Ended
  BY DEF RunningPcs, Ended, Answers
<1>2. \A q \in RunningReq : q.pc \in RunningPcs /\ q.call \in Calls
  BY DEF RunningReq
<1>3. \A q \in EndedReq : q.pc \in Ended /\ q.call \in Calls
  BY DEF EndedReq
<1>4. NewReq.pc = "new"
  BY DEF NewReq
<1> QED BY <1>1, <1>2, <1>3, <1>4 DEF AnyReq

LEMMA AtType ==
    ASSUME NEW q \in RunningReq, NEW pc \in RunningPcs \cup Ended
    PROVE  /\ At(q, pc) \in AnyReq
           /\ At(q, pc).pc = pc /\ At(q, pc).call = q.call /\ At(q, pc).held = q.held
           /\ pc \in RunningPcs => /\ At(q, pc) \in RunningReq
                                   /\ At(q, pc).seen = q.seen /\ At(q, pc).steady = q.steady
                                   /\ At(q, pc).bot = q.bot
<1>1. CASE pc \in Ended
  BY <1>1, Pcs DEF At, EndedReq, RunningReq, AnyReq
<1>2. CASE pc \in RunningPcs
  BY <1>2, Pcs DEF At, RunningReq, AnyReq
<1> QED BY <1>1, <1>2

\* A step of a running request that changes no other.
LEMMA GotoType ==
    ASSUME Types, NEW r \in Requests, req[r].pc \in RunningPcs,
           NEW pc \in RunningPcs \cup Ended, Goto(r, pc)
    PROVE  /\ req' \in [Requests -> AnyReq]
           /\ req'[r] = At(req[r], pc) /\ req'[r].pc = pc /\ req'[r].call = req[r].call
           /\ req[r] \in RunningReq
           /\ \A q \in Requests \ {r} : req'[q] = req[q]
<1>1. req \in [Requests -> AnyReq]
  BY DEF Types, AnyReq
<1>2. req[r] \in RunningReq
  BY <1>1, Pcs
<1> QED BY <1>1, <1>2, AtType DEF Goto

LEMMA ObservedType ==
    ASSUME Types, NEW q \in AnyReq, NEW c \in Convs, NEW new \in Conversation
    PROVE  /\ Observed(q, c, new) \in AnyReq /\ Observed(q, c, new).pc = q.pc
           /\ q.pc # "new" => Observed(q, c, new).call = q.call
           /\ q.pc \notin RunningPcs => Observed(q, c, new) = q
           /\ q \in RunningReq /\ q.call.conv # c => Observed(q, c, new) = q
           /\ q \in RunningReq /\ q.call.conv = c =>
                /\ Observed(q, c, new) \in RunningReq
                /\ Observed(q, c, new).seen = q.seen
                /\ Observed(q, c, new).steady = (q.steady /\ new.assigned = conv[c].assigned)
                /\ Observed(q, c, new).bot = (q.bot /\ new.mode = "bot")
                /\ Observed(q, c, new).held = (q.held \/ InForce(q.call, new))
<1>1. q.pc \notin RunningPcs => q.pc \in Ended \cup {"new"}
  BY Pcs
<1>2. CASE q.pc \in Ended \cup {"new"}
  BY <1>2, Pcs DEF Observed
<1>3. CASE q \in RunningReq
  <2> DEFINE now == [q EXCEPT !.steady = @ /\ new.assigned = conv[c].assigned,
                              !.bot = @ /\ new.mode = "bot",
                              !.held = @ \/ InForce(q.call, new)]
  <2>1. q.pc \in RunningPcs /\ q.pc \notin Ended \cup {"new"}
    BY <1>3, Pcs DEF AnyReq
  <2>2. now = [q EXCEPT !.steady = q.steady /\ new.assigned = conv[c].assigned,
                        !.bot = q.bot /\ new.mode = "bot",
                        !.held = q.held \/ InForce(q.call, new)]
    BY <1>3 DEF RunningReq
  <2>3. /\ now \in RunningReq /\ now.pc = q.pc /\ now.call = q.call /\ now.seen = q.seen
        /\ now.steady = (q.steady /\ new.assigned = conv[c].assigned)
        /\ now.bot = (q.bot /\ new.mode = "bot")
        /\ now.held = (q.held \/ InForce(q.call, new))
    BY <1>3, <2>2 DEF RunningReq
  <2>4. Observed(q, c, new) = IF q.call.conv # c THEN q ELSE now
    BY <2>1 DEF Observed
  <2> HIDE DEF now
  <2> QED BY <1>1, <1>3, <2>1, <2>3, <2>4 DEF AnyReq
<1> QED BY <1>1, <1>2, <1>3, Pcs

\* A step of a running request that writes its conversation.
LEMMA WriteType ==
    ASSUME Types, NEW r \in Requests, req[r].pc \in RunningPcs,
           NEW new \in Conversation, NEW pc \in RunningPcs \cup Ended,
           WriteAndGoto(r, new, pc)
    PROVE  LET c == req[r].call.conv IN
           /\ c \in Convs /\ req[r] \in RunningReq
           /\ conv' = [conv EXCEPT ![c] = new] /\ conv' \in [Convs -> Conversation]
           /\ req' \in [Requests -> AnyReq]
           /\ req'[r] = At(Observed(req[r], c, new), pc)
           /\ \A q \in Requests \ {r} : req'[q] = Observed(req[q], c, new)
           /\ \A q \in Requests : req[q].pc # "new" => req'[q].call = req[q].call
           /\ \A q \in Requests : req'[q].pc = IF q = r THEN pc ELSE req[q].pc
<1> DEFINE c == req[r].call.conv
<1>1. req \in [Requests -> AnyReq]
  BY DEF Types, AnyReq
<1>2. req[r] \in RunningReq /\ req[r].call \in Calls /\ c \in Convs
  BY <1>1, Pcs, InboxAssumption
<1>3. conv' = [conv EXCEPT ![c] = new] /\ conv' \in [Convs -> Conversation]
  BY <1>2 DEF WriteAndGoto, Write, Types
<1>4. req' = [q \in Requests |-> IF q = r THEN At(Observed(req[q], c, new), pc)
                                 ELSE Observed(req[q], c, new)]
  BY DEF WriteAndGoto
<1>5. \A q \in Requests : /\ Observed(req[q], c, new) \in AnyReq
                          /\ Observed(req[q], c, new).pc = req[q].pc
                          /\ req[q].pc # "new" => Observed(req[q], c, new).call = req[q].call
  BY <1>1, <1>2, ObservedType
<1>6. Observed(req[r], c, new) \in RunningReq
  BY <1>1, <1>2, ObservedType
<1>7. /\ At(Observed(req[r], c, new), pc) \in AnyReq
      /\ At(Observed(req[r], c, new), pc).pc = pc
      /\ At(Observed(req[r], c, new), pc).call = req[r].call
  BY <1>5, <1>6, Pcs, AtType
<1> HIDE DEF c
<1>8. QED BY <1>2, <1>3, <1>4, <1>5, <1>7 DEF c

\* What a change writes is a conversation again, has what was asked for, and differs from what
\* it was in that field only.
LEMMA ChangedConversation ==
    ASSUME NEW q \in RunningReq, q.pc = "write", q.call.op \in DOMAIN Field,
           NEW c \in Conversation, Standing(q, c)
    PROVE  LET new == [c EXCEPT ![Field[q.call.op]] = Value(q.call)] IN
           /\ new \in Conversation /\ InForce(q.call, new)
           /\ \A f \in {"mode", "status", "assigned", "tags", "last", "seen"} \ {Field[q.call.op]} :
                new[f] = c[f]
<1>0. q.call \in Calls
  BY DEF RunningReq
<1>1. DOMAIN Field = {"mode", "status", "assign", "tags"}
  BY DEF Field
<1>2. CASE q.call.op = "mode"
  <2>1. Field[q.call.op] = "mode" /\ Value(q.call) \in Modes
    BY <1>0, <1>2, InboxAssumption DEF Field, Value, Modes
  <2> QED BY <1>1, <1>2, <2>1 DEF Conversation, InForce
<1>3. CASE q.call.op = "status"
  <2>1. Field[q.call.op] = "status" /\ Value(q.call) \in Statuses
    BY <1>0, <1>3, InboxAssumption DEF Field, Value, Statuses
  <2> QED BY <1>1, <1>3, <2>1 DEF Conversation, InForce
<1>4. CASE q.call.op = "assign"
  <2>1. Field[q.call.op] = "assigned" /\ Value(q.call) \in Users \cup {Nobody}
    BY <1>4 DEF Field, Value, Standing
  <2> QED BY <1>1, <1>4, <2>1 DEF Conversation, InForce
<1>5. CASE q.call.op = "tags"
  <2>1. q.call.arg \in Seq(DOMAIN Canon)
    BY <1>0, <1>5, InboxAssumption
  <2>2. Field[q.call.op] = "tags" /\ Value(q.call) = Normalise(q.call.arg)
    BY <1>5 DEF Field, Value
  <2>3. Value(q.call) \in Tags
    BY <1>5, <2>1, <2>2, NormaliseIsNormal DEF Tags, Standing
  <2> QED BY <1>1, <1>5, <2>2, <2>3 DEF Conversation, InForce
<1> QED BY <1>1, <1>2, <1>3, <1>4, <1>5

\* What a write makes of the list.
LEMMA WriteList ==
    ASSUME Types, NEW c \in Convs, NEW new, Write(c, new)
    PROVE  list' \in {[pc |-> "idle"]} \cup Walk
<1>1. CASE list' = list
  BY <1>1 DEF Types
<1>2. CASE list.pc = "paging" /\ list' = [list EXCEPT !.moved = @ \cup {c}]
  <2>1. list \in Walk
    BY <1>2 DEF Types
  <2> QED BY <1>2, <2>1 DEF Walk
<1> QED BY <1>1, <1>2 DEF Write

LEMMA InitTypes == Init => Types
<1> SUFFICES ASSUME Init PROVE Types
  OBVIOUS
<1>1. conv \in [Convs -> Conversation]
  <2>1. <<>> \in Tags
    BY InboxAssumption DEF Tags, Normal
  <2>2. 0 \in 0 .. MaxTime
    BY InboxAssumption
  <2>3. conv \in [Convs -> [mode : {"bot", "human"}, status : {"open", "closed", "archived"},
                            assigned : Users \cup {Nobody}, tags : {<<>>}, last : {0}, seen : {0}]]
    BY InboxAssumption DEF Init
  <2>4. \A c \in Convs : conv[c] \in Conversation
    BY <2>1, <2>2, <2>3 DEF Conversation, Modes, Statuses
  <2> QED BY <2>3, <2>4
<1>2. 0 \in 0 .. MaxFaults
  BY InboxAssumption
<1> QED BY <1>1, <1>2 DEF Init, Types, NewReq

------------------------------------------------------------------------------
(* The order of the lists and their pages *)

LEMMA TimeType ==
    ASSUME Types, NEW c \in Convs
    PROVE  Time(c) \in Nat /\ Time(c) <= MaxTime /\ c \in Nat
  BY InboxAssumption DEF Types, Conversation, Time

LEMMA BeforeIsTotalOrder ==
    ASSUME Types
    PROVE  /\ \A c \in Convs : ~Before(c, c)
           /\ \A c, d \in Convs : c # d => Before(c, d) \/ Before(d, c)
           /\ \A c, d, e \in Convs : Before(c, d) /\ Before(d, e) => Before(c, e)
<1>1. \A c \in Convs : Time(c) \in Nat /\ c \in Nat
  BY TimeType
<1> QED BY <1>1 DEF Before

\* The cursor that is made of a row lets the rows after it pass.
LEMMA BeyondIsAfter ==
    ASSUME Types, NEW c \in Convs, NEW d \in Convs
    PROVE  Beyond(c, [t |-> Time(d), i |-> d]) <=> Before(d, c)
<1>1. Time(c) \in Nat /\ c \in Nat /\ Time(d) \in Nat /\ d \in Nat
  BY TimeType
<1> QED BY <1>1 DEF Before, Beyond

LEMMA MatchingIsFinite ==
    ASSUME NEW u, NEW cursor
    PROVE  /\ Matching(u, cursor) \subseteq Convs /\ IsFiniteSet(Matching(u, cursor))
           /\ Page(u, cursor) \subseteq Matching(u, cursor)
<1>1. Matching(u, cursor) \subseteq Convs
  BY DEF Matching, Items, ContactsOf, OpenOf
<1> QED BY <1>1, InboxAssumption, FS_Subset DEF Page

\* A page that is not all there is ends in a row: the page has what is not after that row.
LEMMA PageIsCut ==
    ASSUME Types, NEW u, NEW cursor, Page(u, cursor) # Matching(u, cursor)
    PROVE  LET page == Page(u, cursor)
               final == CHOOSE c \in page : \A d \in page : ~Before(c, d)
           IN  final \in page /\ \A c \in Matching(u, cursor) : c \in page <=> ~Before(final, c)
<1> DEFINE all == Matching(u, cursor)
           page == Page(u, cursor)
           before(c) == {d \in all : Before(d, c)}
           rank(c) == Cardinality(before(c))
           final == CHOOSE c \in page : \A d \in page : ~Before(c, d)
<1>1. all \subseteq Convs /\ IsFiniteSet(all) /\ page \subseteq all
  BY MatchingIsFinite
<1>2. \A c \in all : IsFiniteSet(before(c)) /\ rank(c) \in Nat
  <2> TAKE c \in all
  <2>1. before(c) \in SUBSET all
    OBVIOUS
  <2> HIDE DEF before, all
  <2> QED BY <1>1, <2>1, FS_Subset, FS_CardinalityType
<1>3. \A c \in all : c \in page <=> rank(c) < PageSize
  BY DEF Page
<1>4. \A c, d \in all : Before(c, d) => rank(c) < rank(d)
  <2> SUFFICES ASSUME NEW c \in all, NEW d \in all, Before(c, d) PROVE rank(c) < rank(d)
    OBVIOUS
  <2>1. before(c) \in SUBSET before(d)
    BY <1>1, BeforeIsTotalOrder
  <2>2. c \in before(d) /\ c \notin before(c)
    BY <1>1, BeforeIsTotalOrder
  <2>3. rank(c) <= rank(d) /\ rank(c) # rank(d)
    <3> HIDE DEF before
    <3> QED BY <1>2, <2>1, <2>2, FS_Subset
  <2> HIDE DEF before
  <2> QED BY <1>2, <2>3
<1>0. PageSize \in Nat /\ PageSize > 0
  BY InboxAssumption
<1>01. \A c \in all : rank(c) \in Nat
  BY <1>2
<1> HIDE DEF rank, all, page
<1>5. page # {}
  <2>1. PICK e \in all : e \notin page
    BY <1>1 DEF all, page
  <2> DEFINE ranks == {rank(c) : c \in all}
  <2>2. ranks \in SUBSET Nat /\ ranks # {}
    BY <1>2, <2>1
  <2>3. PICK m \in ranks : \A k \in ranks : m <= k
    BY <2>2, LeastElement
  <2>4. PICK c \in all : m = rank(c)
    OBVIOUS
  <2>5. \A d \in all : ~Before(d, c)
    <3> SUFFICES ASSUME NEW d \in all, Before(d, c) PROVE FALSE
      OBVIOUS
    <3>1. rank(d) < rank(c) /\ rank(c) <= rank(d)
      BY <1>4, <2>3, <2>4
    <3>2. rank(d) \in Nat /\ rank(c) \in Nat
      BY <1>01
    <3> QED BY <3>1, <3>2
  <2>6. before(c) = {}
    BY <2>5
  <2>7. rank(c) = 0
    BY <2>6, FS_EmptySet DEF rank
  <2> QED BY <1>0, <1>3, <2>7
<1>6. \E c \in page : \A d \in page : ~Before(c, d)
  <2> DEFINE ranks == {rank(c) : c \in page}
  <2>1. ranks # {} /\ \A k \in ranks : k \in Nat /\ k <= PageSize
    <3>1. \A c \in page : rank(c) \in Nat /\ rank(c) < PageSize
      BY <1>01, <1>1, <1>3
    <3>2. \A c \in page : rank(c) <= PageSize
      BY <3>1, <1>0
    <3> QED BY <3>1, <3>2, <1>5
  <2>2. PICK m \in ranks : \A k \in ranks : k <= m
    BY <2>1, <1>0, GreatestElement
  <2>3. PICK c \in page : m = rank(c)
    OBVIOUS
  <2>4. ASSUME NEW d \in page, Before(c, d) PROVE FALSE
    <3>1. rank(c) < rank(d) /\ rank(d) <= rank(c)
      BY <1>1, <1>4, <2>2, <2>3, <2>4
    <3>2. rank(d) \in Nat /\ rank(c) \in Nat
      BY <1>01, <1>1, <2>4
    <3> QED BY <3>1, <3>2
  <2> QED BY <2>4
<1>7. final \in page /\ \A d \in page : ~Before(final, d)
  BY <1>6
<1> HIDE DEF final
<1>8. ASSUME NEW c \in all, c \notin page PROVE Before(final, c)
  <2>1. ~(rank(c) < PageSize) /\ rank(final) < PageSize
    BY <1>1, <1>3, <1>7, <1>8
  <2>2. ~Before(c, final) /\ c # final
    <3>0. rank(c) \in Nat /\ rank(final) \in Nat
      BY <1>01, <1>1, <1>7
    <3>1. ~(rank(c) < rank(final))
      BY <1>0, <2>1, <3>0
    <3> QED BY <1>1, <1>4, <1>7, <1>8, <3>1
  <2> QED BY <1>1, <1>7, <2>2, BeforeIsTotalOrder
<1>9. final \in page /\ \A c \in all : c \in page <=> ~Before(final, c)
  BY <1>1, <1>7, <1>8
<1> QED BY <1>9 DEF all, page, final

\* What a page of a walk does: the rows of the page are shown, and those beyond it are left.
LEMMA PageStep ==
    ASSUME Types, NextPage
    PROVE  LET page == Page(list.user, list.cursor) IN
           /\ list \in Walk /\ list' \in Walk
           /\ list'.kind = list.kind /\ list'.user = list.user /\ list'.moved = list.moved
           /\ \A c \in Convs : list'.times[c] = IF c \in page THEN list.times[c] + 1 ELSE list.times[c]
           /\ list'.pc = "paging" =>
                \A c \in Matching(list.user, list.cursor) : c \in page <=> ~Beyond(c, list'.cursor)
           /\ list'.pc = "paging" =>
                \A c \in Items(list.user) : Beyond(c, list'.cursor) => Beyond(c, list.cursor)
           /\ list'.pc # "paging" => list'.pc = "done" /\ page = Matching(list.user, list.cursor)
<1> DEFINE page == Page(list.user, list.cursor)
           all == Matching(list.user, list.cursor)
           final == CHOOSE c \in page : \A d \in page : ~Before(c, d)
           cursor == IF page # all THEN [t |-> Time(final), i |-> final] ELSE NoCursor
           times == [c \in Convs |-> IF c \in page THEN list.times[c] + 1 ELSE list.times[c]]
<1>1. list \in Walk /\ list.pc = "paging"
  BY DEF NextPage, Types
<1>2. page \subseteq all /\ all \subseteq Convs
  BY MatchingIsFinite
<1>3. list' = [list EXCEPT !.pc = IF page # all THEN "paging" ELSE "done", !.cursor = cursor,
                           !.times = [c \in Convs |-> IF c \in page THEN @[c] + 1 ELSE @[c]]]
  BY DEF NextPage
<1>4. list' = [list EXCEPT !.pc = IF page # all THEN "paging" ELSE "done", !.cursor = cursor,
                           !.times = times]
  BY <1>1, <1>3 DEF Walk
<1>5. page # all => final \in page /\ \A c \in all : c \in page <=> ~Before(final, c)
  BY PageIsCut
<1>6. cursor \in Cursor
  <2>1. CASE page # all
    <3>1. final \in Convs
      BY <1>2, <1>5, <2>1
    <3>2. Time(final) \in Nat /\ final \in Nat
      BY <3>1, TimeType
    <3> HIDE DEF final
    <3> QED BY <2>1, <3>2 DEF Cursor
  <2>2. CASE page = all
    BY <2>2, InboxAssumption DEF NoCursor, Cursor
  <2> QED BY <2>1, <2>2
<1>7. times \in [Convs -> Nat]
  BY <1>1 DEF Walk
<1> HIDE DEF cursor, times, page, all
<1>8. list' \in Walk
  BY <1>1, <1>4, <1>6, <1>7 DEF Walk
<1>9. /\ list'.kind = list.kind /\ list'.user = list.user /\ list'.moved = list.moved
      /\ list'.pc = (IF page # all THEN "paging" ELSE "done")
      /\ list'.cursor = cursor /\ list'.times = times
  BY <1>1, <1>4 DEF Walk
<1>10. ASSUME page # all
       PROVE  /\ \A c \in all : c \in page <=> ~Beyond(c, cursor)
              /\ \A c \in Items(list.user) : Beyond(c, cursor) => Beyond(c, list.cursor)
  <2>1. final \in page /\ final \in all /\ final \in Convs /\ \A c \in all : c \in page <=> ~Before(final, c)
    BY <1>2, <1>5, <1>10
  <2>2. \A c \in Convs : Beyond(c, cursor) <=> Before(final, c)
    BY <1>10, <2>1, BeyondIsAfter DEF cursor
  <2>3. Items(list.user) \subseteq Convs
    BY DEF Items, ContactsOf, OpenOf
  <2>4. ASSUME NEW c \in Items(list.user), Beyond(c, cursor) PROVE Beyond(c, list.cursor)
    <3>1. Before(final, c) /\ Beyond(final, list.cursor) /\ c \in Convs
      BY <2>1, <2>2, <2>3, <2>4 DEF all, Matching
    <3>2. Time(final) \in Nat /\ final \in Nat /\ Time(c) \in Nat /\ c \in Nat
      BY <2>1, <3>1, TimeType
    <3>3. list.cursor.t \in Nat /\ list.cursor.i \in Nat
      BY <1>1 DEF Walk, Cursor
    <3> HIDE DEF final
    <3> QED BY <3>1, <3>2, <3>3 DEF Before, Beyond
  <2> QED BY <1>2, <2>1, <2>2, <2>4
<1>11. \A c \in Convs : list'.times[c] = IF c \in page THEN list.times[c] + 1 ELSE list.times[c]
  BY <1>9 DEF times
<1> QED BY <1>1, <1>8, <1>9, <1>10, <1>11 DEF page, all

------------------------------------------------------------------------------
(* Steps keep the types *)

\* The answers of a read, and what each of them has made sure of.
LEMMA ReadAnswers ==
    ASSUME Types, NEW r \in Requests, Read(r)
    PROVE  LET op == req[r].call.op  c == conv[req[r].call.conv]
               seen == IF op = "send" THEN NotRead ELSE c
           IN  \E a \in {"404", "409", "403", "400", "prior", "target", "answer", "write"} :
                 /\ req' = [req EXCEPT ![r] = At([req[r] EXCEPT !.seen = seen, !.steady = TRUE], a)]
                 /\ a = "prior" => op = "send" /\ c.mode = "human"
                 /\ a = "target" => op = "assign"
                 /\ a = "answer" => op \in Summarised /\ InForce(req[r].call, c)
                 /\ a = "write" /\ op = "tags" => Len(Value(req[r].call)) <= MaxTags
                 /\ a = "write" /\ op = "assign" => /\ req[r].call.arg = Nobody
                                                   /\ MayAssign(req[r].call.user, Nobody, c.assigned)
<1> DEFINE q == req[r]
           op == q.call.op
           c == conv[q.call.conv]
           seen == IF op = "send" THEN NotRead ELSE c
           answer == CASE ~Owned(r) -> "404"
                    [] op = "send" -> IF MaySend(c) THEN "prior" ELSE "409"
                    [] op = "assign" /\ ~MayAssign(q.call.user, q.call.arg, c.assigned) -> "403"
                    [] op = "assign" /\ q.call.arg # Nobody -> "target"
                    [] op = "tags" /\ Len(Value(q.call)) > MaxTags -> "400"
                    [] op \in Summarised /\ InForce(q.call, c) -> "answer"
                    [] OTHER -> "write"
<1>1. req' = [req EXCEPT ![r] = At([req[r] EXCEPT !.seen = seen, !.steady = TRUE], answer)]
  BY DEF Read
<1>2. \/ answer \in {"404", "409", "403", "400"}
      \/ answer = "prior" /\ op = "send" /\ MaySend(c)
      \/ answer = "target" /\ op = "assign"
      \/ answer = "answer" /\ op \in Summarised /\ InForce(q.call, c)
      \/ /\ answer = "write"
         /\ op = "tags" => ~(Len(Value(q.call)) > MaxTags)
         /\ op = "assign" => q.call.arg = Nobody /\ MayAssign(q.call.user, q.call.arg, c.assigned)
  OBVIOUS
<1>3. op = "tags" /\ ~(Len(Value(q.call)) > MaxTags) => Len(Value(q.call)) <= MaxTags
  <2> SUFFICES ASSUME op = "tags" PROVE Len(Value(q.call)) \in Int /\ MaxTags \in Int
    OBVIOUS
  <2>1. q.call \in Calls
    <3>1. req[r] \in AnyReq /\ req[r].pc = "read"
      BY DEF Types, AnyReq, Read
    <3> QED BY <3>1, Pcs
  <2>2. q.call.arg \in Seq(DOMAIN Canon)
    BY <2>1, InboxAssumption
  <2> QED BY <2>2, NormaliseIsNormal, InboxAssumption DEF Value
<1> HIDE DEF answer
<1> QED BY <1>1, <1>2, <1>3 DEF MaySend

LEMMA NextTypes == Types /\ RequestsStand /\ OneRow /\ [Next]_vars => Types'
<1> SUFFICES ASSUME Types, RequestsStand, OneRow, [Next]_vars PROVE Types'
  OBVIOUS
<1> USE DEF AnyReq
<1>0. /\ req \in [Requests -> AnyReq]
      /\ {"read", "target", "write", "answer", "prior", "insert", "dispatch", "accepted", "refused", "touch"} \subseteq RunningPcs
      /\ Answers \cup {"died"} \subseteq Ended
  BY DEF Types, RunningPcs, Ended
<1>1. ASSUME NEW r \in Requests, NEW call \in Calls, Call(r, call) PROVE Types'
  <2>1. [pc |-> "read", call |-> call, seen |-> NotRead, steady |-> TRUE,
         bot |-> conv[call.conv].mode = "bot", held |-> InForce(call, conv[call.conv])] \in RunningReq
    <3>1. InForce(call, conv[call.conv]) \in BOOLEAN
      BY DEF InForce
    <3> QED BY <3>1, <1>0 DEF RunningReq
  <2> QED BY <1>0, <1>1, <2>1 DEF Call, Types
<1>2. ASSUME NEW r \in Requests, Read(r) PROVE Types'
  <2> DEFINE seen == IF req[r].call.op = "send" THEN NotRead ELSE conv[req[r].call.conv]
  <2>1. PICK a \in {"404", "409", "403", "400", "prior", "target", "answer", "write"} :
          req' = [req EXCEPT ![r] = At([req[r] EXCEPT !.seen = seen, !.steady = TRUE], a)]
    BY <1>2, ReadAnswers
  <2>2. req[r] \in RunningReq /\ req[r].call.conv \in Convs
    <3>1. req[r] \in RunningReq
      BY <1>0, <1>2, Pcs DEF Read
    <3> QED BY <3>1, InboxAssumption DEF RunningReq
  <2>3. [req[r] EXCEPT !.seen = seen, !.steady = TRUE] \in RunningReq
    <3>1. seen \in Conversation \cup {NotRead}
      BY <2>2 DEF Types
    <3> HIDE DEF seen
    <3> QED BY <2>2, <3>1 DEF RunningReq
  <2>4. a \in RunningPcs \cup Ended
    BY <1>0 DEF Answers
  <2>5. At([req[r] EXCEPT !.seen = seen, !.steady = TRUE], a) \in AnyReq
    BY <2>3, <2>4, AtType
  <2>6. req' \in [Requests -> AnyReq]
    BY <1>0, <2>1, <2>5
  <2> QED BY <1>2, <2>6 DEF Read, Types
<1>3. ASSUME NEW r \in Requests, Change(r) PROVE Types'
  <2>1. CASE UNCHANGED <<conv, list>> /\ Goto(r, "500")
    <3>1. req' \in [Requests -> AnyReq]
      BY <1>0, <1>3, <2>1, GotoType DEF Change, Answers
    <3> QED BY <1>3, <2>1, <3>1 DEF Change, Types
  <2>2. CASE WriteAndGoto(r, [conv[req[r].call.conv] EXCEPT ![Field[req[r].call.op]] = Value(req[r].call)],
                          Written(req[r].call))
    <3> DEFINE c == req[r].call.conv
               new == [conv[c] EXCEPT ![Field[req[r].call.op]] = Value(req[r].call)]
    <3>1. req[r] \in RunningReq /\ req[r].pc = "write" /\ req[r].call.op \in DOMAIN Field /\ c \in Convs
      <4>1. req[r] \in RunningReq
        BY <1>0, <1>3, Pcs DEF Change
      <4> QED BY <4>1, <1>3, InboxAssumption DEF RunningReq, Change
    <3>2. conv[c] \in Conversation /\ Standing(req[r], conv[c])
      BY <1>0, <3>1 DEF Types, RequestsStand, Stands
    <3>3. new \in Conversation
      BY <3>1, <3>2, ChangedConversation
    <3>4. Written(req[r].call) \in RunningPcs \cup Ended
      BY <1>0 DEF Written, Answers
    <3> HIDE DEF new
    <3>5. req' \in [Requests -> AnyReq] /\ conv' \in [Convs -> Conversation]
      BY <1>0, <2>2, <3>1, <3>3, <3>4, WriteType DEF new
    <3>6. list' \in {[pc |-> "idle"]} \cup Walk
      BY <2>2, <3>1, WriteList DEF WriteAndGoto
    <3> QED BY <1>3, <3>5, <3>6 DEF Change, Types
  <2> QED BY <1>3, <2>1, <2>2 DEF Change
<1>4. ASSUME NEW r \in Requests, MarkRead(r) \/ MarkUnread(r) PROVE Types'
  <2>1. req[r] \in RunningReq
    BY <1>0, <1>4, Pcs DEF MarkRead, MarkUnread
  <2>2. req[r].call.user \in Users /\ req[r].call.conv \in Convs
    BY <2>1, InboxAssumption DEF RunningReq
  <2>3. req' = [req EXCEPT ![r] = At([req[r] EXCEPT !.held = TRUE], "ok")]
    BY <1>4 DEF MarkRead, MarkUnread, Mark
  <2>4. [req[r] EXCEPT !.held = TRUE] \in RunningReq
    BY <2>1 DEF RunningReq
  <2>5. "ok" \in Ended
    BY <1>0 DEF Answers
  <2>6. req' \in [Requests -> AnyReq]
    BY <1>0, <2>3, <2>4, <2>5, AtType
  <2>7. reads' \subseteq Users \X Convs
    BY <1>4, <2>2 DEF MarkRead, MarkUnread, Mark, Types
  <2> QED BY <1>4, <2>6, <2>7 DEF MarkRead, MarkUnread, Mark, Types
<1>5. ASSUME NEW r \in Requests, Target(r) \/ ReadSummary(r) \/ Prior(r) \/ Insert(r) PROVE Types'
  <2>1. req[r].pc \in RunningPcs
    BY <1>0, <1>5 DEF Target, ReadSummary, Prior, Insert
  <2>2. \E pc \in RunningPcs \cup Ended : Goto(r, pc)
    BY <1>0, <1>5 DEF Target, ReadSummary, Prior, Insert, Answers
  <2>3. req' \in [Requests -> AnyReq]
    BY <2>1, <2>2, GotoType
  <2> QED BY <1>5, <2>3 DEF Target, ReadSummary, Prior, Insert, Types
<1>6. ASSUME NEW r \in Requests, Dispatch(r) \/ Report(r) PROVE Types'
  <2>1. req[r].pc \in RunningPcs
    BY <1>0, <1>6 DEF Dispatch, Report
  <2>2. \E pc \in RunningPcs \cup Ended : Goto(r, pc)
    BY <1>0, <1>6 DEF Dispatch, Report
  <2>3. req' \in [Requests -> AnyReq]
    BY <2>1, <2>2, GotoType
  <2> QED BY <1>6, <2>3 DEF Dispatch, Report, Types
<1>7. ASSUME NEW r \in Requests, SendTouch(r) PROVE Types'
  <2> DEFINE c == req[r].call.conv
  <2>1. PICK t \in 0 .. MaxTime :
          WriteAndGoto(r, [conv[c] EXCEPT !.last = t], IF row[r] = "sent" THEN "ok" ELSE "502")
    BY <1>7 DEF SendTouch
  <2>2. req[r].pc \in RunningPcs /\ req[r] \in RunningReq /\ c \in Convs
    <3>1. req[r] \in RunningReq
      BY <1>0, <1>7, Pcs DEF SendTouch
    <3> QED BY <1>0, <1>7, <3>1, InboxAssumption DEF RunningReq, SendTouch
  <2>3. [conv[c] EXCEPT !.last = t] \in Conversation
    BY <2>2 DEF Types, Conversation
  <2>4. (IF row[r] = "sent" THEN "ok" ELSE "502") \in RunningPcs \cup Ended
    BY <1>0 DEF Answers
  <2>5. req' \in [Requests -> AnyReq] /\ conv' \in [Convs -> Conversation]
    BY <2>1, <2>2, <2>3, <2>4, WriteType
  <2>6. list' \in {[pc |-> "idle"]} \cup Walk
    BY <2>1, <2>2, WriteList DEF WriteAndGoto
  <2> QED BY <1>7, <2>5, <2>6 DEF SendTouch, Types
<1>8. ASSUME NEW r \in Requests, Die(r) PROVE Types'
  <2>1. req[r].pc \in RunningPcs
    BY <1>0, <1>8, Pcs DEF Die, Running
  <2>2. req' \in [Requests -> AnyReq]
    BY <1>0, <1>8, <2>1, GotoType DEF Die
  <2> QED BY <1>8, <2>2, InboxAssumption DEF Die, Types
<1>9. ASSUME NEW u \in Readers, StartList(u) \/ StartContacts(u) PROVE Types'
  <2>1. NoCursor \in Cursor
    BY InboxAssumption DEF NoCursor, Cursor
  <2>2. list' \in Walk
    BY <1>9, <2>1 DEF StartList, StartContacts, Start, Walk
  <2> QED BY <1>9, <2>2 DEF StartList, StartContacts, Start, Types
<1>10. ASSUME NextPage PROVE Types'
  BY <1>10, PageStep DEF NextPage, Types
<1>11. ASSUME NEW c \in Convs, NEW t \in 0 .. MaxTime, ContactSeen(c, t) \/ InboundTouch(c, t)
       PROVE  Types'
  <2>1. \E new \in Conversation : Write(c, new)
    BY <1>11 DEF ContactSeen, InboundTouch, Types, Conversation
  <2>2. list' \in {[pc |-> "idle"]} \cup Walk
    BY <2>1, WriteList
  <2>3. conv' \in [Convs -> Conversation]
    BY <2>1 DEF Write, Types
  <2> QED BY <1>11, <2>2, <2>3 DEF ContactSeen, InboundTouch, Types
<1>12. CASE UNCHANGED vars
  BY <1>12 DEF vars, Types
<1> QED
  BY <1>1, <1>2, <1>3, <1>4, <1>5, <1>6, <1>7, <1>8, <1>9, <1>10, <1>11, <1>12 DEF Next, Step

------------------------------------------------------------------------------
(* Steps keep what the requests stand on *)

LEMMA StandingObserved ==
    ASSUME Types, NEW q \in RunningReq, NEW new \in Conversation, Standing(q, conv[q.call.conv])
    PROVE  Standing(Observed(q, q.call.conv, new), new)
<1> DEFINE c == q.call.conv
           p == Observed(q, c, new)
<1>0. c \in Convs
  BY InboxAssumption DEF RunningReq
<1>1. /\ p.pc = q.pc /\ p.call = q.call /\ p.seen = q.seen
      /\ p.steady = (q.steady /\ new.assigned = conv[c].assigned)
      /\ p.bot = (q.bot /\ new.mode = "bot")
      /\ p.held = (q.held \/ InForce(q.call, new))
  <2>1. q \in AnyReq /\ q.pc # "new"
    BY Pcs DEF AnyReq
  <2> QED BY <1>0, <2>1, ObservedType
<1>2. q.steady \in BOOLEAN /\ q.bot \in BOOLEAN /\ q.held \in BOOLEAN
  BY DEF RunningReq
<1> HIDE DEF p, c
<1>3. Standing(q, conv[c])
  BY DEF c
<1> QED BY <1>1, <1>2, <1>3 DEF Standing, p, c

LEMMA StandingTouched ==
    ASSUME NEW q, NEW c, NEW new, Standing(q, c),
           new.mode = c.mode, new.status = c.status, new.assigned = c.assigned, new.tags = c.tags
    PROVE  Standing(q, new)
<1>1. InForce(q.call, new) <=> InForce(q.call, c)
  <2>1. \A op \in DOMAIN Field : new[Field[op]] = c[Field[op]]
    BY DEF Field
  <2> QED BY <2>1 DEF InForce
<1> QED BY <1>1 DEF Standing

\* A request that another's step leaves alone, or only observes, stands.
LEMMA OthersStand ==
    ASSUME Types, NEW p \in Requests, Stands(p), NEW r \in Requests \ {p},
           \/ req'[p] = req[p] /\ conv' = conv
           \/ \E new \in Conversation, pc \in RunningPcs \cup Ended :
                req[r].pc \in RunningPcs /\ WriteAndGoto(r, new, pc)
    PROVE  Stands(p)'
<1>1. CASE req'[p] = req[p] /\ conv' = conv
  BY <1>1 DEF Stands
<1>2. ASSUME NEW new \in Conversation, NEW pc \in RunningPcs \cup Ended,
             req[r].pc \in RunningPcs, WriteAndGoto(r, new, pc)
      PROVE  Stands(p)'
  <2> DEFINE c == req[r].call.conv
  <2>1. /\ c \in Convs /\ conv' = [conv EXCEPT ![c] = new]
        /\ req'[p] = Observed(req[p], c, new)
    BY <1>2, WriteType
  <2>2. req[p] \in AnyReq /\ conv \in [Convs -> Conversation]
    BY DEF Types, AnyReq
  <2>3. CASE req[p].pc \notin RunningPcs
    <3>1. req'[p] = req[p]
      BY <2>1, <2>2, <2>3, ObservedType
    <3> QED BY <2>3, <3>1 DEF Stands
  <2>4. CASE req[p] \in RunningReq /\ req[p].call.conv # c
    <3>1. req'[p] = req[p] /\ conv'[req[p].call.conv] = conv[req[p].call.conv]
      <4>1. req[p].call.conv \in Convs
        BY <2>4, InboxAssumption DEF RunningReq
      <4> QED BY <2>1, <2>2, <2>4, <4>1, ObservedType
    <3> QED BY <3>1 DEF Stands
  <2>5. CASE req[p] \in RunningReq /\ req[p].call.conv = c
    <3>1. Standing(req[p], conv[c])
      BY <2>2, <2>5, Pcs DEF Stands
    <3>2. Standing(Observed(req[p], c, new), new)
      BY <2>5, <3>1, StandingObserved
    <3>3. req'[p].pc \in RunningPcs /\ req'[p].call.conv = c /\ conv'[c] = new
      <4>1. req[p].pc \in RunningPcs /\ req[p].pc # "new" /\ conv'[c] = new
        BY <2>1, <2>2, <2>5, Pcs
      <4>2. /\ Observed(req[p], c, new).pc = req[p].pc
            /\ Observed(req[p], c, new).call = req[p].call
        <5> HIDE DEF c
        <5> QED BY <2>1, <2>2, <4>1, ObservedType
      <4> QED BY <2>1, <2>5, <4>1, <4>2
    <3> QED BY <2>1, <2>5, <3>2, <3>3 DEF Stands
  <2> QED BY <2>2, <2>3, <2>4, <2>5, Pcs
<1> QED BY <1>1, <1>2

LEMMA InitStands == Init => RequestsStand
  BY Pcs DEF Init, RequestsStand, Stands

\* The step of request r itself.
LEMMA OwnStands ==
    ASSUME Types, RequestsStand, NEW r \in Requests, Step(r) PROVE Stands(r)'
<1> DEFINE q == req[r]
           c == conv[q.call.conv]
<1>0. /\ req \in [Requests -> AnyReq]
      /\ {"read", "target", "write", "answer", "prior", "insert", "dispatch", "accepted", "refused", "touch"} \subseteq RunningPcs
      /\ Answers \cup {"died"} \subseteq Ended
      /\ {"ok", "replay", "400", "403", "404", "409", "422", "500", "502"} \subseteq Answers
  BY DEF Types, AnyReq, RunningPcs, Ended, Answers
<1>1. q.pc \in RunningPcs
  BY <1>0 DEF Step, Read, Target, Change, ReadSummary, MarkRead, MarkUnread, Prior, Insert,
              Dispatch, Report, SendTouch
<1>2. q \in RunningReq /\ q.call.conv \in Convs /\ c \in Conversation /\ Standing(q, c)
  <2>1. q \in RunningReq
    BY <1>0, <1>1, Pcs
  <2>2. q.call.conv \in Convs
    BY <2>1, InboxAssumption DEF RunningReq
  <2> QED BY <1>1, <2>1, <2>2 DEF Types, RequestsStand, Stands
<1>3. ASSUME Read(r) PROVE Stands(r)'
  <2> DEFINE seen == IF q.call.op = "send" THEN NotRead ELSE c
             p == [q EXCEPT !.seen = seen, !.steady = TRUE]
  <2>1. PICK a \in {"404", "409", "403", "400", "prior", "target", "answer", "write"} :
          /\ req' = [req EXCEPT ![r] = At(p, a)]
          /\ a = "prior" => q.call.op = "send" /\ c.mode = "human"
          /\ a = "target" => q.call.op = "assign"
          /\ a = "answer" => q.call.op \in Summarised /\ InForce(q.call, c)
          /\ a = "write" /\ q.call.op = "tags" => Len(Value(q.call)) <= MaxTags
          /\ a = "write" /\ q.call.op = "assign" => /\ q.call.arg = Nobody
                                                    /\ MayAssign(q.call.user, Nobody, c.assigned)
    BY <1>3, ReadAnswers
  <2>2. /\ p \in RunningReq /\ p.call = q.call /\ p.bot = q.bot /\ p.held = q.held
        /\ p.seen = seen
    <3>1. seen \in Conversation \cup {NotRead}
      BY <1>2
    <3> HIDE DEF seen
    <3> QED BY <1>2, <3>1 DEF RunningReq
  <2>3. conv' = conv /\ req'[r] = At(p, a)
    BY <1>0, <1>3, <2>1 DEF Read
  <2> HIDE DEF p
  <2>4. CASE a \in {"404", "409", "403", "400"}
    <3>1. a \in Ended /\ a # "ok" /\ a \notin RunningPcs
      BY <1>0, <2>4, Pcs
    <3>2. At(p, a).pc = a
      BY <2>2, <3>1, AtType
    <3> QED BY <2>3, <3>1, <3>2 DEF Stands, Answered
  <2>5. CASE a \in {"prior", "target", "answer", "write"}
    <3> DEFINE n == At(p, a)
    <3>1. /\ a \in RunningPcs /\ n \in RunningReq /\ n.pc = a /\ n.call = q.call /\ n.held = q.held
          /\ n.bot = q.bot /\ n.seen = seen
      <4>1. a \in RunningPcs
        BY <1>0, <2>5
      <4> QED BY <2>2, <4>1, AtType
    <3> HIDE DEF n
    <3>2. InForce(q.call, c) => q.held
      BY <1>2 DEF Standing
    <3>3. q.bot => c.mode = "bot"
      BY <1>2 DEF Standing
    <3>4. a = "target" /\ n.seen.assigned = n.call.arg => n.held
      <4> SUFFICES ASSUME a = "target", n.seen.assigned = n.call.arg PROVE n.held
        OBVIOUS
      <4>1. seen = c /\ q.call.op = "assign"
        BY <2>1
      <4>2. InForce(q.call, c)
        BY <3>1, <4>1 DEF InForce, Field, Value
      <4> QED BY <3>1, <3>2, <4>2
    <3>5. Standing(n, c)
      BY <2>1, <2>5, <3>1, <3>2, <3>3, <3>4 DEF Standing
    <3> QED BY <2>3, <3>1, <3>5 DEF Stands, n
  <2> QED BY <2>4, <2>5
<1>4. ASSUME Change(r) PROVE Stands(r)'
  <2> DEFINE new == [c EXCEPT ![Field[q.call.op]] = Value(q.call)]
             n == Observed(q, q.call.conv, new)
             pc == Written(q.call)
  <2>1. CASE conv' = conv /\ Goto(r, "500")
    <3>1. req'[r].pc = "500" /\ "500" \in Ended /\ "500" \notin RunningPcs
      BY <1>0, <1>1, <2>1, GotoType, Pcs
    <3> QED BY <3>1 DEF Stands, Answered
  <2>2. CASE WriteAndGoto(r, new, pc)
    <3>1. new \in Conversation /\ InForce(q.call, new)
      BY <1>2, <1>4, ChangedConversation DEF Change
    <3>2. pc \in RunningPcs \cup Ended /\ pc \in {"answer", "ok"}
      BY <1>0 DEF Written
    <3> HIDE DEF new
    <3>3. req'[r] = At(n, pc) /\ conv'[q.call.conv] = new
      BY <1>1, <1>2, <2>2, <3>1, <3>2, WriteType DEF Types
    <3>4. n \in RunningReq /\ n.held /\ n.call = q.call /\ n.pc = "write" /\ Standing(n, new)
      <4>1. q \in AnyReq /\ q.pc = "write"
        BY <1>2, <1>4 DEF AnyReq, Change
      <4>2. /\ n \in RunningReq /\ n.call = q.call /\ n.pc = q.pc
            /\ n.held = (q.held \/ InForce(q.call, new))
        BY <1>2, <3>1, <4>1, ObservedType
      <4>3. Standing(n, new)
        BY <1>2, <3>1, StandingObserved
      <4> QED BY <3>1, <4>1, <4>2, <4>3
    <3> HIDE DEF n
    <3>5. CASE pc = "ok"
      <4>1. At(n, pc).held /\ At(n, pc).pc = "ok" /\ "ok" \notin RunningPcs
        BY <1>0, <3>2, <3>4, <3>5, AtType, Pcs
      <4> QED BY <3>3, <4>1 DEF Stands, Answered
    <3>6. CASE pc = "answer"
      <4>1. /\ At(n, pc).pc = "answer" /\ At(n, pc).held /\ At(n, pc).call = q.call
            /\ At(n, pc).bot = n.bot
        BY <1>0, <3>2, <3>4, <3>6, AtType
      <4>2. Standing(At(n, pc), new)
        BY <3>4, <4>1 DEF Standing
      <4> QED BY <1>0, <3>3, <4>1, <4>2 DEF Stands
    <3> QED BY <3>2, <3>5, <3>6
  <2> QED BY <1>4, <2>1, <2>2 DEF Change
<1>5. ASSUME MarkRead(r) \/ MarkUnread(r) PROVE Stands(r)'
  <2> DEFINE p == [q EXCEPT !.held = TRUE]
  <2>1. req'[r] = At(p, "ok")
    BY <1>0, <1>5 DEF MarkRead, MarkUnread, Mark
  <2>2. p \in RunningReq /\ p.held
    BY <1>2 DEF RunningReq
  <2>3. "ok" \in Ended /\ "ok" \notin RunningPcs
    BY <1>0, Pcs
  <2> HIDE DEF p
  <2>4. req'[r].pc = "ok" /\ req'[r].held
    BY <2>1, <2>2, <2>3, AtType
  <2> QED BY <2>3, <2>4 DEF Stands, Answered
<1>6. ASSUME NEW pc, Goto(r, pc), conv' = conv,
             \/ pc \in Ended \ {"ok"}
             \/ pc = "ok" /\ q.held
             \/ pc \in {"answer", "write", "insert", "dispatch", "accepted", "refused", "touch"},
             pc = "answer" => q.held,
             pc = "write" => q.pc = "target" /\ q.call.arg \in Users,
             pc \in {"insert", "dispatch"} => q.pc \in {"prior", "insert"},
             pc \in {"accepted", "refused", "touch"} => q.call.op = "send"
      PROVE  Stands(r)'
  <2>1. pc \in RunningPcs \cup Ended
    BY <1>0, <1>6
  <2>2. /\ req'[r] = At(q, pc) /\ req'[r].pc = pc /\ req'[r].call = q.call /\ req'[r].held = q.held
        /\ pc \in RunningPcs => req'[r].seen = q.seen /\ req'[r].bot = q.bot
    BY <1>1, <1>2, <1>6, <2>1, GotoType, AtType
  <2>3. CASE pc \in Ended
    BY <1>6, <2>2, <2>3, Pcs, <1>0 DEF Stands, Answered
  <2>4. CASE pc \in RunningPcs
    <3>1. Standing(req'[r], c)
      BY <1>2, <1>6, <2>2, <2>4, InboxAssumption, Pcs, <1>0 DEF Standing
    <3> QED BY <1>6, <2>2, <2>4, <3>1 DEF Stands
  <2> QED BY <2>1, <2>3, <2>4
<1>7. ASSUME Target(r) PROVE Stands(r)'
  <2>1. CASE Goto(r, "422")
    BY <1>0, <1>6, <1>7, <2>1 DEF Target
  <2>2. CASE q.seen.assigned = q.call.arg /\ Goto(r, "answer")
    BY <1>2, <1>6, <1>7, <2>2, <1>0, Pcs DEF Target, Standing
  <2>3. CASE q.call.arg \in Active /\ Goto(r, "write")
    BY <1>6, <1>7, <2>3, <1>0, Pcs, InboxAssumption DEF Target
  <2> QED BY <1>7, <2>1, <2>2, <2>3 DEF Target
<1>8. ASSUME ReadSummary(r) PROVE Stands(r)'
  BY <1>2, <1>6, <1>8, <1>0, Pcs DEF ReadSummary, Standing
<1>9. ASSUME Prior(r) \/ Insert(r) PROVE Stands(r)'
  <2>1. \E pc \in {"replay", "400", "insert", "dispatch"} : Goto(r, pc)
    BY <1>9 DEF Prior, Insert
  <2>2. conv' = conv /\ q.pc \in {"prior", "insert"}
    BY <1>9 DEF Prior, Insert
  <2> QED BY <1>6, <1>0, <2>1, <2>2, Pcs
<1>10. ASSUME Dispatch(r) \/ Report(r) PROVE Stands(r)'
  <2>1. \E pc \in {"accepted", "refused", "touch"} : Goto(r, pc)
    BY <1>10 DEF Dispatch, Report
  <2>2. conv' = conv /\ q.call.op = "send"
    BY <1>2, <1>10 DEF Dispatch, Report, Standing
  <2> QED BY <1>6, <1>0, <2>1, <2>2, Pcs
<1>11. ASSUME SendTouch(r) PROVE Stands(r)'
  <2>1. PICK t \in 0 .. MaxTime, pc \in {"ok", "502"} : WriteAndGoto(r, [c EXCEPT !.last = t], pc)
    BY <1>11 DEF SendTouch
  <2>2. [c EXCEPT !.last = t] \in Conversation
    BY <1>2 DEF Conversation
  <2>3. pc \in Ended /\ pc \notin RunningPcs
    BY <1>0, Pcs
  <2>4. req'[r].pc = pc /\ req'[r].call = q.call
    BY <1>1, <1>2, <2>1, <2>2, <2>3, Pcs, WriteType
  <2>5. q.call.op = "send"
    BY <1>2, <1>11 DEF SendTouch, Standing
  <2> QED BY <2>3, <2>4, <2>5 DEF Stands, Answered
<1> QED BY <1>3, <1>4, <1>5, <1>7, <1>8, <1>9, <1>10, <1>11 DEF Step

LEMMA NextStands == Types /\ RequestsStand /\ [Next]_vars => RequestsStand'
<1> SUFFICES ASSUME Types, RequestsStand, [Next]_vars, NEW p \in Requests PROVE Stands(p)'
  BY DEF RequestsStand
<1>0. Stands(p) /\ req \in [Requests -> AnyReq]
  BY DEF RequestsStand, Types, AnyReq
<1>1. ASSUME NEW r \in Requests, Step(r) PROVE Stands(p)'
  <2>1. CASE r = p
    BY <1>1, <2>1, OwnStands
  <2>2. CASE r # p
    <3>1. req[r].pc \in RunningPcs /\ req[r] \in RunningReq
      <4>1. req[r].pc \in RunningPcs
        BY <1>1 DEF Step, Read, Target, Change, ReadSummary, MarkRead, MarkUnread, Prior, Insert,
                    Dispatch, Report, SendTouch, RunningPcs
      <4> QED BY <1>0, <4>1, Pcs
    <3>2. CASE Change(r) /\ ~(conv' = conv /\ req'[p] = req[p])
      <4> DEFINE new == [conv[req[r].call.conv] EXCEPT ![Field[req[r].call.op]] = Value(req[r].call)]
      <4>1. WriteAndGoto(r, new, Written(req[r].call))
        BY <1>0, <2>2, <3>2 DEF Change, Goto
      <4>2. req[r].call.conv \in Convs
        BY <3>1, InboxAssumption DEF RunningReq
      <4>3. new \in Conversation
        BY <3>1, <3>2, <4>2, ChangedConversation DEF Change, Types, RequestsStand, Stands
      <4>4. Written(req[r].call) \in RunningPcs \cup Ended
        BY DEF Written, RunningPcs, Ended, Answers
      <4> HIDE DEF new
      <4> QED BY <1>0, <2>2, <3>1, <4>1, <4>3, <4>4, OthersStand
    <3>3. CASE SendTouch(r)
      <4>1. PICK t \in 0 .. MaxTime, pc \in {"ok", "502"} :
              WriteAndGoto(r, [conv[req[r].call.conv] EXCEPT !.last = t], pc)
        BY <3>3 DEF SendTouch
      <4>2. [conv[req[r].call.conv] EXCEPT !.last = t] \in Conversation
        <5>1. req[r].call.conv \in Convs
          BY <3>1, InboxAssumption DEF RunningReq
        <5>2. conv[req[r].call.conv] \in Conversation
          BY <5>1 DEF Types
        <5> QED BY <5>2 DEF Conversation
      <4>3. pc \in RunningPcs \cup Ended
        BY DEF Ended, Answers
      <4> QED BY <1>0, <2>2, <3>1, <4>1, <4>2, <4>3, OthersStand
    <3>4. CASE req'[p] = req[p] /\ conv' = conv
      BY <1>0, <2>2, <3>4, OthersStand
    <3> QED BY <1>0, <1>1, <2>2, <3>2, <3>3, <3>4 DEF Step, Read, Target, ReadSummary, MarkRead,
               MarkUnread, Mark, Prior, Insert, Dispatch, Report, Goto
  <2> QED BY <2>1, <2>2
<1>2. ASSUME NEW r \in Requests, NEW call \in Calls, Call(r, call) PROVE Stands(p)'
  <2>1. CASE r = p
    <3> DEFINE q == [pc |-> "read", call |-> call, seen |-> NotRead, steady |-> TRUE,
                     bot |-> conv[call.conv].mode = "bot", held |-> InForce(call, conv[call.conv])]
    <3>1. req'[p] = q /\ conv' = conv /\ q.pc \in RunningPcs
      BY <1>0, <1>2, <2>1 DEF Call, RunningPcs
    <3>2. Standing(q, conv[call.conv])
      BY DEF Standing
    <3> QED BY <3>1, <3>2 DEF Stands
  <2>2. CASE r # p
    <3>1. req'[p] = req[p] /\ conv' = conv
      BY <1>0, <1>2, <2>2 DEF Call
    <3> QED BY <1>0, <2>2, <3>1, OthersStand
  <2> QED BY <2>1, <2>2
<1>3. ASSUME NEW r \in Requests, Die(r) PROVE Stands(p)'
  <2>1. req[r].pc \in RunningPcs /\ Goto(r, "died") /\ conv' = conv
    BY <1>0, <1>3, Pcs DEF Die, Running
  <2>2. CASE r = p
    <3>1. req'[p].pc = "died" /\ "died" \in Ended /\ "died" \notin RunningPcs
      BY <2>1, <2>2, GotoType, Pcs DEF Ended
    <3> QED BY <3>1 DEF Stands, Answered
  <2>3. CASE r # p
    BY <1>0, <2>1, <2>3, OthersStand DEF Goto
  <2> QED BY <2>2, <2>3
<1>4. ASSUME NEW c \in Convs, NEW t \in 0 .. MaxTime, ContactSeen(c, t) \/ InboundTouch(c, t)
      PROVE  Stands(p)'
  <2>1. req' = req /\ \E new \in {[conv[c] EXCEPT !.seen = t], [conv[c] EXCEPT !.last = t]} :
                        conv' = [conv EXCEPT ![c] = new]
    BY <1>4 DEF ContactSeen, InboundTouch, Write
  <2>2. conv[c] \in Conversation /\ conv \in [Convs -> Conversation]
    BY DEF Types
  <2>3. \A d \in Convs : /\ conv'[d].mode = conv[d].mode /\ conv'[d].status = conv[d].status
                         /\ conv'[d].assigned = conv[d].assigned /\ conv'[d].tags = conv[d].tags
    BY <2>1, <2>2 DEF Conversation
  <2>4. CASE req[p].pc \in RunningPcs
    <3>1. req[p].call.conv \in Convs
      BY <1>0, <2>4, Pcs, InboxAssumption DEF RunningReq
    <3>2. Standing(req[p], conv'[req[p].call.conv])
      BY <1>0, <2>3, <2>4, <3>1, StandingTouched DEF Stands
    <3> QED BY <2>1, <2>4, <3>2 DEF Stands
  <2>5. CASE req[p].pc \notin RunningPcs
    BY <1>0, <2>1, <2>5 DEF Stands
  <2> QED BY <2>4, <2>5
<1>5. CASE req' = req /\ conv' = conv
  BY <1>0, <1>5 DEF Stands
<1> QED BY <1>1, <1>2, <1>3, <1>4, <1>5 DEF Next, vars, NextPage, StartList, StartContacts, Start

------------------------------------------------------------------------------
(* Steps keep a submission to one row *)

LEMMA InitOneRow == Init => OneRow
<1> SUFFICES ASSUME Init PROVE OneRow
  OBVIOUS
<1>1. \A r \in Requests : req[r].pc = "new" /\ row[r] = "none"
  BY DEF Init
<1>2. \A s \in Submissions : deliveries[s] = 0
  BY DEF Init
<1> QED BY <1>1, <1>2 DEF OneRow, Recorded

\* The request of a message goes on: its call stays.
Same(r) == req[r].pc # "new" => req'[r].call = req[r].call /\ req'[r].pc # "new"

\* A submission whose rows stay has the same status.
LEMMA KeptStatus ==
    ASSUME NEW s,
           \A q \in Requests : /\ row'[q] # "none" /\ Sub(q)' = s <=> row[q] # "none" /\ Sub(q) = s
                               /\ row[q] # "none" /\ Sub(q) = s => row'[q] = row[q]
    PROVE  StatusOf(s)' = StatusOf(s)
<1> DEFINE mine == {r \in Requests : row[r] # "none" /\ Sub(r) = s}
           next == {r \in Requests : row'[r] # "none" /\ Sub(r)' = s}
<1>1. next = mine
  OBVIOUS
<1>2. mine # {} => (CHOOSE r \in mine : TRUE) \in mine
  OBVIOUS
<1>3. StatusOf(s) = IF mine = {} THEN "none" ELSE row[CHOOSE r \in mine : TRUE]
  BY DEF StatusOf
<1>4. StatusOf(s)' = IF next = {} THEN "none" ELSE row'[CHOOSE r \in next : TRUE]
  BY DEF StatusOf
<1>5. \A q \in mine : row'[q] = row[q]
  OBVIOUS
<1> HIDE DEF mine, next
<1> QED BY <1>1, <1>2, <1>3, <1>4, <1>5

\* The status of a submission is that of its one row.
LEMMA StatusIsRow ==
    OneRow => /\ \A r \in Requests : row[r] # "none" => StatusOf(Sub(r)) = row[r]
              /\ \A s : (\A r \in Requests : row[r] # "none" => Sub(r) # s) => StatusOf(s) = "none"
<1> SUFFICES ASSUME OneRow
             PROVE  /\ \A r \in Requests : row[r] # "none" => StatusOf(Sub(r)) = row[r]
                    /\ \A s : (\A r \in Requests : row[r] # "none" => Sub(r) # s) => StatusOf(s) = "none"
  OBVIOUS
<1>1. ASSUME NEW r \in Requests, row[r] # "none" PROVE StatusOf(Sub(r)) = row[r]
  <2>1. {q \in Requests : row[q] # "none" /\ Sub(q) = Sub(r)} = {r}
    BY <1>1 DEF OneRow
  <2> QED BY <2>1 DEF StatusOf
<1>2. ASSUME NEW s, \A r \in Requests : row[r] # "none" => Sub(r) # s PROVE StatusOf(s) = "none"
  BY <1>2 DEF StatusOf
<1> QED BY <1>1, <1>2

LEMMA NextStatusIsRow ==
    OneRow' => (/\ \A r \in Requests : row[r] # "none" => StatusOf(Sub(r)) = row[r]
                /\ \A s : (\A r \in Requests : row[r] # "none" => Sub(r) # s) => StatusOf(s) = "none")'
  BY StatusIsRow, PTL

AbstractVars == <<[s \in Submissions |-> StatusOf(s)], deliveries>>

\* Steps that neither store nor dispatch a message.
Quiet(r) ==
    /\ Same(r)
    /\ \/ req'[r].pc = req[r].pc
       \/ req'[r].pc \in Ended
       \/ /\ req[r].pc \in {"new", "read", "target", "write", "prior"}
          /\ req'[r].pc \in {"read", "target", "write", "answer", "prior", "insert"}

LEMMA QuietStep ==
    ASSUME OneRow, UNCHANGED <<row, deliveries>>, \A r \in Requests : Quiet(r)
    PROVE  OneRow' /\ UNCHANGED AbstractVars
<1> USE DEF Quiet, Same
<1>1. \A r \in Requests : row[r] # "none" => Sub(r)' = Sub(r) /\ req[r].pc # "new"
  BY DEF Sub, OneRow, Recorded
<1>2. ASSUME NEW r \in Requests PROVE Recorded(r)'
  <2>1. Recorded(r)
    BY DEF OneRow
  <2>2. row[r] # "none" => req'[r].pc # "new" /\ req'[r].call.op = "send"
    BY <2>1 DEF Recorded
  <2>3. CASE req'[r].pc = req[r].pc
    <3>1. req[r].pc # "new" => Sub(r)' = Sub(r)
      BY DEF Sub
    <3> QED BY <2>1, <2>2, <2>3, <3>1 DEF Recorded
  <2>4. CASE req'[r].pc \in Ended
    BY <2>2, <2>4 DEF Recorded, Ended, Answers
  <2>5. CASE /\ req[r].pc \in {"new", "read", "target", "write", "prior"}
             /\ req'[r].pc \in {"read", "target", "write", "answer", "prior", "insert"}
    <3>1. row[r] = "none"
      BY <2>1, <2>5 DEF Recorded
    <3> QED BY <2>2, <2>5, <3>1 DEF Recorded
  <2> QED BY <2>3, <2>4, <2>5
<1>3. \A q, r \in Requests : row'[q] # "none" /\ row'[r] # "none" /\ Sub(q)' = Sub(r)' => q = r
  BY <1>1 DEF OneRow
<1>4. \A s \in Submissions : deliveries'[s] # 0 => \E r \in Requests : row'[r] # "none" /\ Sub(r)' = s
  BY <1>1 DEF OneRow
<1>5. \A s : StatusOf(s)' = StatusOf(s)
  BY <1>1, KeptStatus
<1> QED BY <1>2, <1>3, <1>4, <1>5 DEF OneRow, AbstractVars

\* A step of r that stores, dispatches or reports its message.
LEMMA MessageStep ==
    ASSUME Types, RequestsStand, NEW r \in Requests, Insert(r) \/ Dispatch(r) \/ Report(r)
    PROVE  /\ req[r].call.op = "send" /\ Sub(r) \in Submissions /\ Sub(r)' = Sub(r)
           /\ req'[r].call = req[r].call /\ req'[r].pc # "new"
           /\ \A q \in Requests \ {r} : req'[q] = req[q] /\ Sub(q)' = Sub(q)
<1>1. req[r].pc \in RunningPcs /\ req \in [Requests -> AnyReq]
  BY DEF Insert, Dispatch, Report, RunningPcs, Types, AnyReq
<1>2. req[r] \in RunningReq /\ Standing(req[r], conv[req[r].call.conv])
  BY <1>1, Pcs DEF RequestsStand, Stands
<1>3. req[r].call.op = "send" /\ req[r].call \in Calls
  BY <1>2 DEF Standing, Insert, Dispatch, Report, RunningReq
<1>4. Sub(r) \in Submissions
  BY <1>3 DEF Sub, Submissions
<1>5. \E pc \in RunningPcs \cup Ended : Goto(r, pc)
  BY DEF Insert, Dispatch, Report, RunningPcs, Ended, Answers
<1>6. /\ req'[r].call = req[r].call /\ req'[r].pc # "new"
      /\ \A q \in Requests \ {r} : req'[q] = req[q]
  BY <1>1, <1>5, GotoType, Pcs
<1> QED BY <1>3, <1>4, <1>6 DEF Sub

\* A message is stored: the submission had no row.
LEMMA InsertStep ==
    ASSUME Types, RequestsStand, OneRow, NEW r \in Requests, Insert(r)
    PROVE  OneRow' /\ [Abstract!Next]_AbstractVars
<1>1. /\ Sub(r) \in Submissions /\ req[r].call.op = "send" /\ req'[r].call = req[r].call
      /\ \A q \in Requests : Sub(q)' = Sub(q)
      /\ \A q \in Requests \ {r} : req'[q] = req[q]
  BY MessageStep
<1>2. CASE Stored(r)
  <2>1. UNCHANGED <<row, deliveries>> /\ Goto(r, "replay") /\ req[r].pc = "insert"
    BY <1>2 DEF Insert
  <2>2. req'[r].pc = "replay" /\ "replay" \in Ended
    BY <2>1, GotoType DEF RunningPcs, Ended, Answers
  <2>3. \A q \in Requests : Quiet(q)
    BY <1>1, <2>2 DEF Quiet, Same, Ended, Answers
  <2> QED BY <2>1, <2>3, QuietStep
<1>3. CASE ~Stored(r)
  <2>1. /\ req[r].pc = "insert" /\ Goto(r, "dispatch") /\ UNCHANGED deliveries
        /\ row \in [Requests -> {"none", "pending", "sent", "failed"}]
        /\ row' = [row EXCEPT ![r] = "pending"]
    BY <1>3 DEF Insert, Types
  <2>2. row'[r] = "pending" /\ \A q \in Requests \ {r} : row'[q] = row[q]
    BY <2>1
  <2>3. \A q \in Requests : row[q] # "none" => Sub(q) # Sub(r)
    BY <1>3 DEF Stored
  <2>4. deliveries[Sub(r)] = 0
    BY <1>1, <2>3 DEF OneRow
  <2>5. req'[r].pc = "dispatch"
    BY <2>1, GotoType DEF RunningPcs
  <2>6. ASSUME NEW q \in Requests PROVE Recorded(q)'
    <3>1. CASE q = r
      BY <1>1, <2>1, <2>2, <2>4, <2>5, <3>1 DEF Recorded
    <3>2. CASE q # r
      <4>1. Recorded(q) /\ req'[q] = req[q] /\ row'[q] = row[q]
        BY <1>1, <2>2, <3>2 DEF OneRow
      <4> QED BY <1>1, <2>1, <4>1 DEF Recorded
    <3> QED BY <3>1, <3>2
  <2>7. \A p, q \in Requests : row'[p] # "none" /\ row'[q] # "none" /\ Sub(p)' = Sub(q)' => p = q
    BY <1>1, <2>2, <2>3 DEF OneRow
  <2>8. \A s \in Submissions : deliveries'[s] # 0 => \E q \in Requests : row'[q] # "none" /\ Sub(q)' = s
    <3> SUFFICES ASSUME NEW s \in Submissions, deliveries[s] # 0
                 PROVE  \E q \in Requests : row'[q] # "none" /\ Sub(q)' = s
      BY <2>1
    <3>1. PICK q \in Requests : row[q] # "none" /\ Sub(q) = s
      BY DEF OneRow
    <3> QED BY <1>1, <2>2, <2>3, <3>1
  <2>9. OneRow'
    BY <2>6, <2>7, <2>8 DEF OneRow
  <2>10. StatusOf(Sub(r)) = "none" /\ StatusOf(Sub(r))' = "pending"
    <3>1. StatusOf(Sub(r)) = "none"
      BY <2>3, StatusIsRow
    <3>2. StatusOf(Sub(r))' = row'[r]
      BY <2>2, <2>9, NextStatusIsRow
    <3> QED BY <2>2, <3>1, <3>2
  <2>11. \A s : s # Sub(r) => StatusOf(s)' = StatusOf(s)
    BY <1>1, <2>2, <2>3, KeptStatus
  <2>12. Abstract!Record(Sub(r))
    BY <1>1, <2>1, <2>10, <2>11 DEF Abstract!Record
  <2> QED BY <1>1, <2>9, <2>12 DEF Abstract!Next
<1> QED BY <1>2, <1>3

\* The message of a row is given to the channel, which it was not before.
LEMMA DispatchStep ==
    ASSUME Types, RequestsStand, OneRow, NEW r \in Requests, Dispatch(r)
    PROVE  OneRow' /\ [Abstract!Next]_AbstractVars
<1>1. /\ Sub(r) \in Submissions /\ req[r].call.op = "send" /\ req'[r].call = req[r].call
      /\ \A q \in Requests : Sub(q)' = Sub(q)
      /\ \A q \in Requests \ {r} : req'[q] = req[q]
  BY MessageStep
<1>2. /\ req[r].pc = "dispatch" /\ row[r] = "pending" /\ deliveries[Sub(r)] = 0 /\ row' = row
      /\ deliveries \in [Submissions -> Nat]
  BY DEF Dispatch, OneRow, Recorded, Types
<1>3. \/ deliveries' = [deliveries EXCEPT ![Sub(r)] = 1] /\ req'[r].pc \in {"accepted", "refused"}
      \/ deliveries' = deliveries /\ req'[r].pc = "refused"
  <2>1. \/ deliveries' = [deliveries EXCEPT ![Sub(r)] = @ + 1] /\ Goto(r, "accepted")
        \/ deliveries' = [deliveries EXCEPT ![Sub(r)] = @ + 1] /\ Goto(r, "refused")
        \/ deliveries' = deliveries /\ Goto(r, "refused")
    BY DEF Dispatch
  <2>2. [deliveries EXCEPT ![Sub(r)] = @ + 1] = [deliveries EXCEPT ![Sub(r)] = 1]
    BY <1>1, <1>2
  <2>3. \A pc \in {"accepted", "refused"} : Goto(r, pc) => req'[r].pc = pc
    BY <1>2, GotoType DEF RunningPcs
  <2> QED BY <2>1, <2>2, <2>3
<1>4. ASSUME NEW q \in Requests PROVE Recorded(q)'
  <2>1. CASE q = r
    BY <1>1, <1>2, <1>3, <2>1 DEF Recorded
  <2>2. CASE q # r
    <3>1. Recorded(q) /\ req'[q] = req[q] /\ row'[q] = row[q] /\ Sub(q)' = Sub(q)
      BY <1>1, <1>2, <2>2 DEF OneRow
    <3>2. row[q] # "none" => Sub(q) # Sub(r)
      BY <1>2, <2>2 DEF OneRow
    <3>3. row[q] # "none" => deliveries'[Sub(q)] = deliveries[Sub(q)]
      <4> SUFFICES ASSUME row[q] # "none" PROVE deliveries'[Sub(q)] = deliveries[Sub(q)]
        OBVIOUS
      <4>1. req[q].call.op = "send" /\ req[q].pc # "new" /\ req[q] \in AnyReq
        BY <3>1 DEF Recorded, Types, AnyReq
      <4>2. Sub(q) \in Submissions
        BY <4>1, Pcs DEF Sub, Submissions
      <4> QED BY <1>2, <1>3, <3>2, <4>2
    <3> QED BY <3>1, <3>3 DEF Recorded
  <2> QED BY <2>1, <2>2
<1>5. OneRow'
  <2>1. \A s \in Submissions : deliveries'[s] # 0 => \E q \in Requests : row'[q] # "none" /\ Sub(q)' = s
    BY <1>1, <1>2, <1>3 DEF OneRow
  <2> QED BY <1>1, <1>2, <1>4, <2>1 DEF OneRow
<1>6. \A s : StatusOf(s)' = StatusOf(s)
  BY <1>1, <1>2, KeptStatus
<1>7. CASE deliveries' = deliveries
  BY <1>5, <1>6, <1>7 DEF AbstractVars
<1>8. CASE deliveries' = [deliveries EXCEPT ![Sub(r)] = 1]
  <2>1. StatusOf(Sub(r)) = "pending"
    BY <1>2, StatusIsRow
  <2>2. Abstract!Deliver(Sub(r))
    BY <1>1, <1>2, <1>6, <1>8, <2>1 DEF Abstract!Deliver
  <2> QED BY <1>1, <1>5, <2>2 DEF Abstract!Next
<1> QED BY <1>3, <1>7, <1>8

\* The row is marked as sent or failed; sent, only if the channel took the message.
LEMMA ReportStep ==
    ASSUME Types, RequestsStand, OneRow, NEW r \in Requests, Report(r)
    PROVE  OneRow' /\ [Abstract!Next]_AbstractVars
<1> DEFINE outcome == IF req[r].pc = "accepted" THEN "sent" ELSE "failed"
<1>1. /\ Sub(r) \in Submissions /\ req[r].call.op = "send" /\ req'[r].call = req[r].call
      /\ \A q \in Requests : Sub(q)' = Sub(q)
      /\ \A q \in Requests \ {r} : req'[q] = req[q]
  BY MessageStep
<1>2. /\ row[r] = "pending" /\ deliveries' = deliveries
      /\ row \in [Requests -> {"none", "pending", "sent", "failed"}]
      /\ row' = [row EXCEPT ![r] = outcome]
      /\ outcome = "sent" => deliveries[Sub(r)] = 1
  BY DEF Report, OneRow, Recorded, Types
<1>3. outcome \in {"sent", "failed"} /\ row'[r] = outcome /\ \A q \in Requests \ {r} : row'[q] = row[q]
  BY <1>2
<1>4. req'[r].pc = "touch"
  BY GotoType DEF Report, RunningPcs
<1> HIDE DEF outcome
<1>5. ASSUME NEW q \in Requests PROVE Recorded(q)'
  <2>1. CASE q = r
    BY <1>1, <1>3, <1>4, <2>1 DEF Recorded
  <2>2. CASE q # r
    <3>1. Recorded(q) /\ req'[q] = req[q] /\ row'[q] = row[q] /\ Sub(q)' = Sub(q)
      BY <1>1, <1>3, <2>2 DEF OneRow
    <3> QED BY <1>2, <3>1 DEF Recorded
  <2> QED BY <2>1, <2>2
<1>6. \A q \in Requests : row'[q] # "none" <=> row[q] # "none"
  BY <1>2, <1>3
<1>7. OneRow'
  BY <1>1, <1>2, <1>5, <1>6 DEF OneRow
<1>8. StatusOf(Sub(r)) = "pending" /\ StatusOf(Sub(r))' = outcome
  <2>1. StatusOf(Sub(r)) = row[r]
    BY <1>2, StatusIsRow
  <2>2. StatusOf(Sub(r))' = row'[r]
    BY <1>2, <1>6, <1>7, NextStatusIsRow
  <2> QED BY <1>2, <1>3, <2>1, <2>2
<1>9. \A s : s # Sub(r) => StatusOf(s)' = StatusOf(s)
  <2> SUFFICES ASSUME NEW s, s # Sub(r) PROVE StatusOf(s)' = StatusOf(s)
    OBVIOUS
  <2>1. \A q \in Requests : /\ row'[q] # "none" /\ Sub(q)' = s <=> row[q] # "none" /\ Sub(q) = s
                            /\ row[q] # "none" /\ Sub(q) = s => row'[q] = row[q]
    BY <1>1, <1>3, <1>6
  <2> QED BY <2>1, KeptStatus
<1>10. Abstract!Report(Sub(r), outcome)
  BY <1>1, <1>2, <1>8, <1>9 DEF Abstract!Report
<1> QED BY <1>1, <1>3, <1>7, <1>10 DEF Abstract!Next

\* The steps that write their conversation.
LEMMA Writes ==
    ASSUME Types, RequestsStand, NEW r \in Requests, Change(r) \/ SendTouch(r)
    PROVE  /\ req[r].pc \in {"write", "touch"} /\ UNCHANGED <<row, deliveries>>
           /\ \/ Goto(r, "500") /\ UNCHANGED <<conv, list>>
              \/ \E new \in Conversation, pc \in {"answer", "ok", "502"} :
                   /\ pc = "answer" => req[r].pc = "write"
                   /\ WriteAndGoto(r, new, pc)
<1>0. req[r].pc \in {"write", "touch"} /\ UNCHANGED <<row, deliveries>>
  BY DEF Change, SendTouch
<1>1. req[r] \in RunningReq /\ req[r].call.conv \in Convs
  <2>1. req[r] \in AnyReq /\ req[r].pc \in RunningPcs
    BY <1>0 DEF Types, AnyReq, RunningPcs
  <2>2. req[r] \in RunningReq
    BY <2>1, Pcs
  <2> QED BY <2>2, InboxAssumption DEF RunningReq
<1>2. conv[req[r].call.conv] \in Conversation
  BY <1>1 DEF Types
<1>3. CASE Change(r)
  <2> DEFINE new == [conv[req[r].call.conv] EXCEPT ![Field[req[r].call.op]] = Value(req[r].call)]
  <2>1. Standing(req[r], conv[req[r].call.conv])
    BY <1>0, <1>1 DEF RequestsStand, Stands, RunningPcs
  <2>2. new \in Conversation
    BY <1>1, <1>2, <1>3, <2>1, ChangedConversation DEF Change
  <2>3. Written(req[r].call) \in {"answer", "ok"}
    BY DEF Written
  <2> HIDE DEF new
  <2> QED BY <1>0, <1>3, <2>2, <2>3 DEF Change, new
<1>4. CASE SendTouch(r)
  <2>1. PICK t \in 0 .. MaxTime, pc \in {"ok", "502"} :
          WriteAndGoto(r, [conv[req[r].call.conv] EXCEPT !.last = t], pc)
    BY <1>4 DEF SendTouch
  <2>2. [conv[req[r].call.conv] EXCEPT !.last = t] \in Conversation
    BY <1>2 DEF Conversation
  <2> QED BY <1>0, <2>1, <2>2
<1> QED BY <1>3, <1>4

LEMMA QuietGoto ==
    ASSUME Types, NEW r \in Requests, req[r].pc \in RunningPcs, NEW pc, Goto(r, pc),
           \/ pc \in Ended
           \/ /\ req[r].pc \in {"read", "target", "write", "prior"}
              /\ pc \in {"read", "target", "write", "answer", "prior", "insert"}
    PROVE  \A q \in Requests : Quiet(q)
<1>1. pc \in RunningPcs \cup Ended /\ pc # "new"
  BY Pcs DEF RunningPcs
<1>2. /\ req'[r].pc = pc /\ req'[r].call = req[r].call
      /\ \A q \in Requests \ {r} : req'[q] = req[q]
  BY <1>1, GotoType
<1> QED BY <1>1, <1>2 DEF Quiet, Same

\* One step of the inbox is one of the outbox, or none.
LEMMA NextOneRow ==
    Types /\ RequestsStand /\ OneRow /\ [Next]_vars => OneRow' /\ [Abstract!Next]_AbstractVars
<1> SUFFICES ASSUME Types, RequestsStand, OneRow, [Next]_vars
             PROVE  OneRow' /\ [Abstract!Next]_AbstractVars
  OBVIOUS
<1>0. req \in [Requests -> AnyReq]
  BY DEF Types, AnyReq
<1>1. ASSUME NEW r \in Requests, NEW call \in Calls, Call(r, call)
      PROVE  OneRow' /\ [Abstract!Next]_AbstractVars
  <2>1. UNCHANGED <<row, deliveries>> /\ \A q \in Requests : Quiet(q)
    BY <1>0, <1>1 DEF Call, Quiet, Same
  <2> QED BY <2>1, QuietStep
<1>2. ASSUME NEW r \in Requests, Read(r) PROVE OneRow' /\ [Abstract!Next]_AbstractVars
  <2> DEFINE seen == IF req[r].call.op = "send" THEN NotRead ELSE conv[req[r].call.conv]
             p == [req[r] EXCEPT !.seen = seen, !.steady = TRUE]
  <2>1. PICK a \in {"404", "409", "403", "400", "prior", "target", "answer", "write"} :
          req' = [req EXCEPT ![r] = At(p, a)]
    BY <1>2, ReadAnswers
  <2>2. p \in RunningReq /\ p.call = req[r].call
    <3>1. req[r] \in RunningReq
      BY <1>0, <1>2, Pcs DEF Read, RunningPcs
    <3>2. req[r].call.conv \in Convs
      BY <3>1, InboxAssumption DEF RunningReq
    <3>3. seen \in Conversation \cup {NotRead}
      BY <3>2 DEF Types
    <3> HIDE DEF seen
    <3> QED BY <3>1, <3>3 DEF RunningReq
  <2> HIDE DEF p
  <2>3. At(p, a).pc = a /\ At(p, a).call = p.call
    <3>1. a \in RunningPcs \cup Ended
      BY DEF RunningPcs, Ended, Answers
    <3> QED BY <2>2, <3>1, AtType
  <2>4. /\ req'[r].pc = a /\ req'[r].call = req[r].call
        /\ \A q \in Requests \ {r} : req'[q] = req[q]
    BY <1>0, <2>1, <2>2, <2>3
  <2>5. \A q \in Requests : Quiet(q)
    BY <1>2, <2>4 DEF Read, Quiet, Same, Ended, Answers
  <2> QED BY <1>2, <2>5, QuietStep DEF Read
<1>3. ASSUME NEW r \in Requests, Change(r) \/ SendTouch(r)
      PROVE  OneRow' /\ [Abstract!Next]_AbstractVars
  <2>1. req[r].pc \in {"write", "touch"} /\ req[r].pc \in RunningPcs /\ UNCHANGED <<row, deliveries>>
    BY <1>3, Writes DEF RunningPcs
  <2>2. CASE Goto(r, "500")
    <3>1. "500" \in Ended
      BY DEF Ended, Answers
    <3> QED BY <2>1, <2>2, <3>1, QuietGoto, QuietStep
  <2>3. ASSUME NEW new \in Conversation, NEW pc \in {"answer", "ok", "502"},
               pc = "answer" => req[r].pc = "write", WriteAndGoto(r, new, pc)
        PROVE  OneRow' /\ [Abstract!Next]_AbstractVars
    <3>1. pc \in RunningPcs \cup Ended /\ pc # "new" /\ pc \in Ended \cup {"answer"}
      BY DEF RunningPcs, Ended, Answers
    <3>2. \A q \in Requests : /\ req[q].pc # "new" => req'[q].call = req[q].call
                              /\ req'[q].pc = IF q = r THEN pc ELSE req[q].pc
      BY <2>1, <2>3, <3>1, WriteType
    <3>3. \A q \in Requests : Quiet(q)
      BY <2>3, <3>1, <3>2 DEF Quiet, Same
    <3> QED BY <2>1, <3>3, QuietStep
  <2> QED BY <1>3, <2>2, <2>3, Writes
<1>4. ASSUME NEW r \in Requests, Target(r) \/ ReadSummary(r) \/ Prior(r) \/ Die(r)
      PROVE  OneRow' /\ [Abstract!Next]_AbstractVars
  <2>1. req[r].pc \in RunningPcs /\ UNCHANGED <<row, deliveries>>
    BY <1>0, <1>4, Pcs DEF Target, ReadSummary, Prior, Die, Running, RunningPcs
  <2>2. \E pc : /\ Goto(r, pc)
                /\ \/ pc \in Ended
                   \/ /\ req[r].pc \in {"read", "target", "write", "prior"}
                      /\ pc \in {"read", "target", "write", "answer", "prior", "insert"}
    BY <1>4 DEF Target, ReadSummary, Prior, Die, Ended, Answers
  <2>3. \A q \in Requests : Quiet(q)
    BY <2>1, <2>2, QuietGoto
  <2> QED BY <2>1, <2>3, QuietStep
<1>5. ASSUME NEW r \in Requests, MarkRead(r) \/ MarkUnread(r)
      PROVE  OneRow' /\ [Abstract!Next]_AbstractVars
  <2>1. UNCHANGED <<row, deliveries>> /\ req[r] \in RunningReq
        /\ req' = [req EXCEPT ![r] = At([req[r] EXCEPT !.held = TRUE], "ok")]
    BY <1>0, <1>5, Pcs DEF MarkRead, MarkUnread, Mark, RunningPcs
  <2>2. [req[r] EXCEPT !.held = TRUE].call = req[r].call
    BY <2>1 DEF RunningReq
  <2>3. req'[r].pc = "ok" /\ req'[r].call = req[r].call /\ \A q \in Requests \ {r} : req'[q] = req[q]
    BY <1>0, <2>1, <2>2 DEF At, Ended, Answers
  <2>4. \A q \in Requests : Quiet(q)
    BY <2>3 DEF Quiet, Same, Ended, Answers
  <2> QED BY <2>1, <2>4, QuietStep
<1>6. ASSUME NEW r \in Requests, Insert(r) \/ Dispatch(r) \/ Report(r)
      PROVE  OneRow' /\ [Abstract!Next]_AbstractVars
  BY <1>6, InsertStep, DispatchStep, ReportStep
<1>7. CASE UNCHANGED <<row, deliveries, req>>
  <2>1. \A q \in Requests : Quiet(q)
    BY <1>7 DEF Quiet, Same
  <2> QED BY <1>7, <2>1, QuietStep
<1> QED
  BY <1>1, <1>2, <1>3, <1>4, <1>5, <1>6, <1>7
  DEF Next, Step, vars, NextPage, StartList, StartContacts, Start, ContactSeen, InboundTouch

------------------------------------------------------------------------------
(* Steps keep what a walk has shown *)

\* A write that the walk is not told of leaves what the list shows of the conversation.
LEMMA WriteShown ==
    ASSUME Types, ShownBeforeCursor, NEW d \in Convs, NEW new \in Conversation, Write(d, new)
    PROVE  ShownBeforeCursor'
<1> SUFFICES ASSUME list'.pc = "paging", NEW c \in Convs \ list'.moved
             PROVE  list'.times[c] = IF c \in Items(list.user)' /\ ~Beyond(c, list.cursor)' THEN 1 ELSE 0
  BY DEF ShownBeforeCursor
<1>1. list \in Walk /\ list.pc = "paging"
  BY DEF Types, Write
<1>2. /\ list'.kind = list.kind /\ list'.user = list.user /\ list'.cursor = list.cursor
      /\ list'.times = list.times /\ list.moved \subseteq list'.moved
      /\ list' # list => d \in list'.moved
  BY <1>1 DEF Write, Walk
<1>3. conv' = [conv EXCEPT ![d] = new] /\ conv \in [Convs -> Conversation]
  BY DEF Write, Types
<1>4. list.times[c] = IF c \in Items(list.user) /\ ~Beyond(c, list.cursor) THEN 1 ELSE 0
  BY <1>1, <1>2 DEF ShownBeforeCursor
<1>5. /\ list.kind = "contacts" => conv'[c].seen = conv[c].seen
      /\ list.kind # "contacts" => conv'[c].last = conv[c].last /\ conv'[c].status = conv[c].status
  <2>1. CASE c # d
    BY <1>3, <2>1
  <2>2. CASE c = d
    <3>1. list' = list
      BY <1>2, <2>2
    <3>2. /\ list.kind = "contacts" => new.seen = conv[c].seen
          /\ list.kind # "contacts" => [new EXCEPT !.seen = 0] = [conv[c] EXCEPT !.seen = 0]
      <4>1. CASE c \in list.moved
        BY <2>2, <3>1, <4>1
      <4>2. CASE c \notin list.moved
        <5>1. [list EXCEPT !.moved = list.moved \cup {c}] # list
          BY <1>1, <4>2 DEF Walk
        <5> QED BY <1>1, <2>2, <3>1, <5>1 DEF Write
      <4> QED BY <4>1, <4>2
    <3>3. list.kind # "contacts" => new.last = conv[c].last /\ new.status = conv[c].status
      <4>1. new.last = [new EXCEPT !.seen = 0].last /\ new.status = [new EXCEPT !.seen = 0].status
        BY DEF Conversation
      <4>2. /\ conv[c].last = [conv[c] EXCEPT !.seen = 0].last
            /\ conv[c].status = [conv[c] EXCEPT !.seen = 0].status
        BY <1>3 DEF Conversation
      <4> QED BY <3>2, <4>1, <4>2
    <3> QED BY <1>3, <2>2, <3>2, <3>3
  <2> QED BY <2>1, <2>2
<1>6. Time(c)' = Time(c) /\ (c \in Items(list.user)' <=> c \in Items(list.user))
  BY <1>2, <1>5 DEF Time, Items, OpenOf, ContactsOf
<1> QED BY <1>2, <1>4, <1>6 DEF Beyond

LEMMA PageShown ==
    ASSUME Types, ShownBeforeCursor, NextPage
    PROVE  /\ ShownBeforeCursor'
           /\ list'.pc = "done" => \A c \in Convs \ list'.moved :
                                     list'.times[c] = IF c \in Items(list.user) THEN 1 ELSE 0
<1> DEFINE page == Page(list.user, list.cursor)
           all == Matching(list.user, list.cursor)
<1>1. /\ list \in Walk /\ list.pc = "paging" /\ conv' = conv
      /\ list'.kind = list.kind /\ list'.user = list.user /\ list'.moved = list.moved
  BY PageStep DEF NextPage
<1>2. \A c \in Convs : list'.times[c] = IF c \in page THEN list.times[c] + 1 ELSE list.times[c]
  BY PageStep
<1>3. /\ \A c \in Convs : c \in all <=> c \in Items(list.user) /\ Beyond(c, list.cursor)
      /\ page \subseteq all
  BY MatchingIsFinite DEF Matching
<1>4. \A c \in Convs \ list.moved :
        list.times[c] = IF c \in Items(list.user) /\ ~Beyond(c, list.cursor) THEN 1 ELSE 0
  BY <1>1 DEF ShownBeforeCursor
<1>5. \A c \in Convs \ list.moved :
        list'.times[c] = IF c \in page \/ (c \in Items(list.user) /\ c \notin all) THEN 1 ELSE 0
  <2> SUFFICES ASSUME NEW c \in Convs \ list.moved
               PROVE  list'.times[c] = IF c \in page \/ (c \in Items(list.user) /\ c \notin all)
                                       THEN 1 ELSE 0
    OBVIOUS
  <2> HIDE DEF page, all
  <2> QED BY <1>2, <1>3, <1>4
<1>6. ASSUME list'.pc = "paging" PROVE ShownBeforeCursor'
  <2>1. /\ \A c \in all : c \in page <=> ~Beyond(c, list'.cursor)
        /\ \A c \in Items(list.user) : Beyond(c, list'.cursor) => Beyond(c, list.cursor)
    BY <1>6, PageStep
  <2>2. \A c \in Convs : /\ c \in Items(list.user)' <=> c \in Items(list.user)
                         /\ Beyond(c, list.cursor)' <=> Beyond(c, list'.cursor)
    BY <1>1 DEF Items, OpenOf, ContactsOf, Beyond, Time
  <2> HIDE DEF page, all
  <2>3. ASSUME NEW c \in Convs \ list.moved
        PROVE  list'.times[c] = IF c \in Items(list.user)' /\ ~Beyond(c, list.cursor)' THEN 1 ELSE 0
    BY <1>3, <1>5, <2>1, <2>2
  <2> QED BY <1>1, <2>3 DEF ShownBeforeCursor
<1>7. ASSUME list'.pc = "done", NEW c \in Convs \ list'.moved
      PROVE  list'.times[c] = IF c \in Items(list.user) THEN 1 ELSE 0
  <2>1. page = all
    BY <1>7, PageStep
  <2> HIDE DEF page, all
  <2> QED BY <1>1, <1>3, <1>5, <1>7, <2>1
<1> QED BY <1>6, <1>7 DEF ShownBeforeCursor

LEMMA StartShown ==
    ASSUME Types, NEW u, NEW kind, Start(u, kind) PROVE ShownBeforeCursor'
<1> SUFFICES ASSUME NEW c \in Convs
             PROVE  list'.times[c] = 0 /\ Beyond(c, list.cursor)'
  BY DEF ShownBeforeCursor
<1>1. list'.times[c] = 0 /\ list'.cursor.t = MaxTime + 1 /\ conv' = conv
  BY DEF Start, NoCursor
<1>2. Time(c)' \in Nat /\ Time(c)' <= MaxTime
  BY <1>1, InboxAssumption DEF Time, Types, Conversation
<1> QED BY <1>1, <1>2, InboxAssumption DEF Beyond

LEMMA NextShown ==
    Types /\ RequestsStand /\ ShownBeforeCursor /\ [Next]_vars => ShownBeforeCursor'
<1> SUFFICES ASSUME Types, RequestsStand, ShownBeforeCursor, [Next]_vars PROVE ShownBeforeCursor'
  OBVIOUS
<1>1. CASE UNCHANGED <<conv, list>>
  BY <1>1 DEF ShownBeforeCursor, Items, OpenOf, ContactsOf, Beyond, Time
<1>2. ASSUME NEW r \in Requests, Change(r) \/ SendTouch(r) PROVE ShownBeforeCursor'
  <2>1. ASSUME NEW new \in Conversation, NEW pc, WriteAndGoto(r, new, pc) PROVE ShownBeforeCursor'
    <3>1. req[r].call.conv \in Convs
      <4>1. req[r] \in AnyReq /\ req[r].pc # "new"
        BY <1>2, Writes DEF Types, AnyReq
      <4> QED BY <4>1, Pcs, InboxAssumption
    <3> QED BY <2>1, <3>1, WriteShown DEF WriteAndGoto
  <2> QED BY <1>1, <1>2, <2>1, Writes
<1>3. ASSUME NEW u, StartList(u) \/ StartContacts(u) PROVE ShownBeforeCursor'
  BY <1>3, StartShown DEF StartList, StartContacts
<1>4. CASE NextPage
  BY <1>4, PageShown
<1>5. ASSUME NEW c \in Convs, NEW t \in 0 .. MaxTime, ContactSeen(c, t) \/ InboundTouch(c, t)
      PROVE  ShownBeforeCursor'
  <2>1. \E new \in Conversation : Write(c, new)
    BY <1>5 DEF ContactSeen, InboundTouch, Types, Conversation
  <2> QED BY <2>1, WriteShown
<1> QED
  BY <1>1, <1>2, <1>3, <1>4, <1>5 DEF Next, vars, Step, Call, Read, Target, ReadSummary, MarkRead,
     MarkUnread, Mark, Prior, Insert, Dispatch, Report, Die

LEMMA InitShown == Init => ShownBeforeCursor
  BY DEF Init, ShownBeforeCursor

------------------------------------------------------------------------------
(* Theorems *)

LEMMA Inductive == Spec => []IInv
<1>1. Init => IInv
  BY InitTypes, InitStands, InitOneRow, InitShown DEF IInv
<1>2. IInv /\ [Next]_vars => IInv'
  BY NextTypes, NextStands, NextOneRow, NextShown DEF IInv
<1> QED BY <1>1, <1>2, PTL DEF Spec

\* Whatever requests race, fail or die, the fields keep their types and the tags stay normal:
\* trimmed, without blanks or repetitions, no more than the limit.
THEOREM TypeCorrect == Spec => []TypeOK
<1>1. Types => TypeOK
  <2> SUFFICES ASSUME Types PROVE TypeOK
    OBVIOUS
  <2>1. ASSUME NEW c \in Convs
        PROVE  /\ conv[c].mode \in Modes /\ conv[c].status \in Statuses
               /\ conv[c].assigned \in Users \cup {Nobody}
               /\ {conv[c].last, conv[c].seen} \subseteq 0 .. MaxTime
               /\ LET tags == conv[c].tags IN
                    /\ Len(tags) <= MaxTags /\ Blank \notin ToSet(tags)
                    /\ \A i, j \in DOMAIN tags : tags[i] = tags[j] => i = j
    <3>1. conv[c] \in Conversation
      BY DEF Types
    <3>2. conv[c].tags \in Tags
      BY <3>1 DEF Conversation
    <3> QED BY <3>1, <3>2 DEF Conversation, Tags, Normal, ToSet
  <2> QED BY <2>1 DEF Types, TypeOK
<1> QED BY <1>1, Inductive, PTL DEF IInv

\* A change answered with success was in force at some moment since its request came.
THEOREM SuccessWasInForce == Spec => []ChangeWasInForce
<1>1. IInv => ChangeWasInForce
  <2> SUFFICES ASSUME IInv, NEW r \in Requests, req[r].pc = "ok", req[r].call.op # "send"
               PROVE  req[r].held
    BY DEF ChangeWasInForce
  <2>1. req[r].pc \in Ended /\ req[r].pc \notin RunningPcs
    BY DEF Ended, Answers, RunningPcs
  <2> QED BY <2>1 DEF IInv, RequestsStand, Stands, Answered
<1> QED BY <1>1, Inductive, PTL

\* The inbox implements Outbox: a submission, however often it is retried and whoever fails or
\* dies, has one record, is given to the channel once at most, and is sent only if accepted.
THEOREM Refinement == Spec => ImplementsOutbox
<1>1. Init => Abstract!Init
  <2> SUFFICES ASSUME Init, NEW s \in Submissions PROVE StatusOf(s) = "none"
    BY DEF Init, Abstract!Init
  <2>1. \A r \in Requests : row[r] = "none"
    BY DEF Init
  <2> QED BY <2>1 DEF StatusOf
<1>2. IInv /\ [Next]_vars => [Abstract!Next]_<<[s \in Submissions |-> StatusOf(s)], deliveries>>
  BY NextOneRow DEF IInv, AbstractVars
<1> QED BY <1>1, <1>2, Inductive, PTL DEF Spec, ImplementsOutbox, Abstract!Spec

\* No message is stored or given to the channel in a conversation that has been in bot mode
\* ever since the request of its operator came.
THEOREM BotModeSendsNothing == Spec => NothingSentInBotMode
<1>1. IInv => \A r \in Requests : req[r].pc \in {"insert", "dispatch"} => ~req[r].bot
  <2> SUFFICES ASSUME IInv, NEW r \in Requests, req[r].pc \in {"insert", "dispatch"}
               PROVE  ~req[r].bot
    OBVIOUS
  <2>1. req[r].pc \in RunningPcs
    BY DEF RunningPcs
  <2> QED BY <2>1 DEF IInv, RequestsStand, Stands, Standing
<1>2. IInv /\ [Next]_vars =>
        [\A r \in Requests :
           (req[r].pc \in {"insert", "dispatch"} /\ req'[r].pc \in {"dispatch", "accepted", "refused"}
              /\ req'[r].pc # req[r].pc) => ~req[r].bot]_vars
  BY <1>1
<1> QED BY <1>2, Inductive, PTL DEF Spec, NothingSentInBotMode

\* An operator clears an assignment of nobody's or its own only, unless the assignment changed
\* between the read that decided and the write.
THEOREM OperatorsClearOnlyOwn == Spec => ClearsOnlyOwn
<1>1. IInv => \A r \in Requests : Clears(r) /\ req[r].steady =>
                conv[req[r].call.conv].assigned \in {Nobody, req[r].call.user}
  <2> SUFFICES ASSUME IInv, NEW r \in Requests, Clears(r), req[r].steady
               PROVE  conv[req[r].call.conv].assigned \in {Nobody, req[r].call.user}
    OBVIOUS
  <2>1. req[r] \in AnyReq /\ req[r].pc \in RunningPcs
    BY DEF Clears, RunningPcs, IInv, Types, AnyReq
  <2>2. req[r].call.user \in Users
    BY <2>1, Pcs, InboxAssumption DEF RunningReq
  <2>3. MayAssign(req[r].call.user, Nobody, conv[req[r].call.conv].assigned)
    BY <2>1 DEF Clears, IInv, RequestsStand, Stands, Standing
  <2> QED BY <2>2, <2>3, InboxAssumption DEF MayAssign, Clears
<1>2. IInv /\ [Next]_vars =>
        [\A r \in Requests : Clears(r) /\ req[r].steady =>
           conv[req[r].call.conv].assigned \in {Nobody, req[r].call.user}]_vars
  BY <1>1
<1> QED BY <1>2, Inductive, PTL DEF Spec, ClearsOnlyOwn

\* The pc of a request changes by its own steps only.
LEMMA OwnPc ==
    ASSUME Types, RequestsStand, NEW r \in Requests, NEW p \in Requests \ {r}, Step(p)
    PROVE  req'[r].pc = req[r].pc
<1>1. req \in [Requests -> AnyReq]
  BY DEF Types, AnyReq
<1>2. CASE Change(p) \/ SendTouch(p)
  <2>1. req[p].pc \in RunningPcs
    BY <1>2, Writes DEF RunningPcs
  <2>2. ASSUME NEW new \in Conversation, NEW pc \in {"answer", "ok", "502"}, WriteAndGoto(p, new, pc)
        PROVE  req'[r].pc = req[r].pc
    <3>1. pc \in RunningPcs \cup Ended
      BY DEF RunningPcs, Ended, Answers
    <3> QED BY <2>1, <2>2, <3>1, WriteType
  <2> QED BY <1>1, <1>2, <2>2, Writes DEF Goto
<1>3. CASE ~(Change(p) \/ SendTouch(p))
  BY <1>1, <1>3 DEF Step, Read, Target, ReadSummary, MarkRead, MarkUnread, Mark, Prior, Insert,
                    Dispatch, Report, Goto
<1> QED BY <1>2, <1>3

\* A change writes its own field and brings back nothing that others have changed.
THEOREM ChangesKeepOthers == Spec => NoLostUpdate
<1> DEFINE Done(r) == req[r].pc = "write" /\ req'[r].pc = Written(req[r].call)
                        /\ req[r].call.op \in DOMAIN Field
           Keeps(r) == \A f \in {"mode", "status", "assigned", "tags", "last", "seen"} \ {Field[req[r].call.op]} :
                         conv'[req[r].call.conv][f] = conv[req[r].call.conv][f]
<1>1. ASSUME IInv, Next, NEW r \in Requests, Done(r) PROVE Keeps(r)
  <2>0. Types /\ RequestsStand /\ req \in [Requests -> AnyReq]
    BY <1>1 DEF IInv, Types, AnyReq
  <2>1. req[r] \in RunningReq /\ req[r].call \in Calls /\ req[r].call.conv \in Convs
        /\ Standing(req[r], conv[req[r].call.conv])
    <3>1. req[r].pc \in RunningPcs /\ req[r] \in AnyReq
      BY <1>1, <2>0 DEF RunningPcs
    <3> QED BY <2>0, <3>1, Pcs, InboxAssumption DEF RequestsStand, Stands
  <2>2. req'[r].pc \in {"answer", "ok"} /\ req'[r].pc # req[r].pc
    BY <1>1 DEF Written
  <2>3. CASE Change(r)
    <3> DEFINE c == conv[req[r].call.conv]
               new == [c EXCEPT ![Field[req[r].call.op]] = Value(req[r].call)]
    <3>1. Goto(r, "500") => req'[r].pc = "500"
      BY <2>0, <2>1, GotoType, Pcs DEF Ended, Answers
    <3>2. conv' = [conv EXCEPT ![req[r].call.conv] = new]
      BY <2>2, <2>3, <3>1 DEF Change, WriteAndGoto, Write
    <3>3. c \in Conversation
      BY <2>0, <2>1 DEF Types
    <3>4. \A f \in {"mode", "status", "assigned", "tags", "last", "seen"} \ {Field[req[r].call.op]} :
            new[f] = c[f]
      BY <1>1, <2>1, <3>3, ChangedConversation
    <3>5. conv'[req[r].call.conv] = new
      BY <2>0, <2>1, <3>2 DEF Types
    <3> HIDE DEF new
    <3> QED BY <3>4, <3>5
  <2>4. CASE ~Change(r)
    <3>1. ~Step(r)
      <4>1. ~MarkRead(r) /\ ~MarkUnread(r)
        BY <1>1 DEF MarkRead, MarkUnread, Field
      <4> QED BY <1>1, <2>4, <4>1 DEF Step, Read, Target, ReadSummary, Prior, Insert, Dispatch,
                                      Report, SendTouch
    <3>2. ~Die(r)
      <4>1. Goto(r, "died") => req'[r].pc = "died"
        BY <2>0, <2>1, GotoType, Pcs DEF Ended
      <4> QED BY <2>2, <4>1 DEF Die
    <3>3. \A p \in Requests \ {r} : Step(p) => req'[r].pc = req[r].pc
      BY <2>0, OwnPc
    <3>4. \A p \in Requests \ {r} : Die(p) => req'[r].pc = req[r].pc
      BY <2>0 DEF Die, Goto
    <3>5. \A p \in Requests, call \in Calls : Call(p, call) => req'[r].pc = req[r].pc
      BY <1>1, <2>0 DEF Call
    <3> QED BY <1>1, <2>2, <3>1, <3>2, <3>3, <3>4, <3>5
            DEF Next, StartList, StartContacts, Start, NextPage, ContactSeen, InboundTouch
  <2> QED BY <2>3, <2>4
<1>2. IInv /\ [Next]_vars => [\A r \in Requests : Done(r) => Keeps(r)]_vars
  BY <1>1
<1> QED BY <1>2, Inductive, PTL DEF Spec, NoLostUpdate

\* A walk through the list that is finished has shown what it had to show exactly once, and
\* nothing of another client, whatever moved around it.
THEOREM WalksListOnce == Spec => ListedOnce
<1> DEFINE Finish == list.pc = "paging" /\ list'.pc = "done"
           Once == \A c \in Convs \ list'.moved : list'.times[c] = IF c \in Items(list.user) THEN 1 ELSE 0
<1>1. ASSUME IInv, Next, Finish PROVE Once
  <2>1. CASE NextPage
    BY <1>1, <2>1, PageShown DEF IInv
  <2>2. ASSUME NEW c, NEW new, Write(c, new) PROVE FALSE
    <3>1. list \in Walk
      BY <1>1 DEF IInv, Types
    <3> QED BY <1>1, <2>2, <3>1 DEF Write, Walk
  <2>3. ASSUME NEW u, NEW kind, Start(u, kind) PROVE FALSE
    BY <1>1, <2>3 DEF Start
  <2>4. list' # list
    BY <1>1
  <2> QED BY <1>1, <2>1, <2>2, <2>3, <2>4
          DEF Next, Step, Call, Read, Target, Change, WriteAndGoto, ReadSummary, MarkRead, MarkUnread,
              Mark, Prior, Insert, Dispatch, Report, SendTouch, Die, StartList, StartContacts,
              ContactSeen, InboundTouch
<1>2. IInv /\ [Next]_vars => [Finish => Once]_vars
  BY <1>1
<1> QED BY <1>2, Inductive, PTL DEF Spec, ListedOnce

================================================================================
