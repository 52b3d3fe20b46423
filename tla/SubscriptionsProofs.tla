-------------------------- MODULE SubscriptionsProofs --------------------------
(***************************************************************************)
(* Safety of clients, users, phones and hires for any number of them, any  *)
(* requests and any order of their steps.                                  *)
(***************************************************************************)
EXTENDS Subscriptions, TLAPS

------------------------------------------------------------------------------
(* The inductive invariant *)

\* The steps of a request that is served.
Stages(op) ==
    CASE op = "hire" -> {"client", "catalogue", "existing", "phone", "newphone", "commit"}
      [] op = "onboard" -> {"catalogue", "email", "open", "price", "phone", "newphone", "commit",
                            "publish"}
      [] op = "user" -> {"email", "newuser"}
      [] op = "update" -> {"read", "personality", "write"}
      [] OTHER -> {"read", "write"}

Pcs == {"client", "catalogue", "existing", "phone", "newphone", "commit", "email", "open", "price",
        "publish", "newuser", "read", "personality", "write"} \cup Ended
Request == [pc : Pcs, call : Calls, currency : Currencies, seen : SUBSET PhoneRow, steady : BOOLEAN]
AnyRequest == {[pc |-> "new"]} \cup Request

Types == TypeOK /\ req \in [Requests -> AnyRequest]

\* What a request has decided and still holds, whatever the others have done since.
Stands(r) ==
    LET q == req[r]  call == q.call IN
    q.pc # "new" =>
    /\ q.pc \in Stages(call.op) \cup Ended
    /\ call.op = "hire" /\ q.pc \in Stages("hire") \ {"client"} =>
         /\ status[call.client] # "none"
         /\ q.currency = currency[call.client] \/ call.client \in converted
    /\ q.pc \in {"phone", "newphone"} => call.phone # Nothing
    /\ call.op = "hire" /\ q.pc = "commit" /\ call.phone # Nothing =>
         OwnersOf(call.phone) = {call.client}
    /\ call.op = "onboard" /\ q.pc = "commit" /\ call.phone # Nothing => OwnersOf(call.phone) = {}
    /\ InTransaction(r) => ~EmailTaken(call.email)
    /\ call.op \in {"status", "currency"} /\ q.pc = "write" => status[call.id] # "none"
    /\ call.op = "status" /\ q.pc = "write" /\ q.steady => status[call.id] # "archived"
    /\ call.op \in {"update", "hireStatus"} /\ q.pc \in {"personality", "write"} =>
         /\ hire[call.id] # Nothing
         /\ q.steady => hire[call.id].status # "archived"

RequestsStand == \A r \in Requests : Stands(r)

\* A client or a hire with the id of a request has been inserted by it.
Committed(r) == Op(r, "onboard") /\ req[r].pc \in {"publish", "ok", "died"}
Inserted(r) == Committed(r) \/ (Op(r, "hire") /\ req[r].pc = "ok")
Born == \A r \in Requests : /\ status[r] # "none" => Committed(r)
                            /\ hire[r] # Nothing => Inserted(r)

\* Transactions under way hold different emails and phones.
Commits(r) == Op(r, "onboard") /\ req[r].pc = "commit" /\ req[r].call.phone # Nothing
Exclusive ==
    \A q, r \in Requests :
      /\ InTransaction(q) /\ InTransaction(r) /\ req[q].call.email = req[r].call.email => q = r
      /\ Commits(q) /\ Commits(r) /\ req[q].call.phone = req[r].call.phone => q = r

HiresFit ==
    \A i \in Hires : /\ status[hire[i].client] # "none"
                     /\ hire[i].currency = currency[hire[i].client] \/ hire[i].client \in converted
                     /\ hire[i].phone # Nothing => OwnersOf(hire[i].phone) = {hire[i].client}

PhonesUsed ==
    \A p \in phones \ InitialPhones :
      /\ status[p.client] # "none"
      /\ \/ \E i \in Hires : hire[i].client = p.client /\ hire[i].phone = p.number
         \/ \E r \in Requests : /\ Op(r, "hire") /\ req[r].pc # "ok"
                                /\ req[r].call.client = p.client /\ req[r].call.phone = p.number

IInv == /\ Types /\ RequestsStand /\ Born /\ Exclusive
        /\ Unique /\ HiresFit /\ PhonesUsed

------------------------------------------------------------------------------
(* Types *)

LEMMA CallTypes ==
    ASSUME NEW call \in Calls
    PROVE  /\ call.op \in {"hire", "onboard", "user", "status", "currency", "update", "hireStatus"}
           /\ call.op \in {"hire", "onboard"} =>
                call.agent \in Agents /\ call.personality \in Catalogue /\ call.phone \in Phones \cup {Nothing}
           /\ call.op \in {"hire", "user"} => call.client \in ClientIds
           /\ call.op \in {"onboard", "user"} => call.email \in Emails
           /\ call.op = "onboard" => call.currency \in Currencies
           /\ call.op = "status" => call.id \in Things
           /\ call.op = "currency" => call.id \in ClientIds /\ call.to \in Currencies
           /\ call.op \in {"update", "hireStatus"} => call.id \in HireIds
           /\ call.op = "update" => call.personality \in Catalogue
           /\ call.op \in {"status", "hireStatus"} => call.to \in Statuses
  BY CallsAssumption

LEMMA StagesArePcs ==
    /\ \A op : Stages(op) \subseteq Pcs \ Ended
    /\ \A op : FirstStep(op) \in Pcs \ Ended
    /\ "new" \notin Pcs
  BY DEF Stages, FirstStep, Pcs, Ended, Answers

LEMMA RunningRequest ==
    ASSUME Types, NEW r \in Requests, req[r].pc # "new"
    PROVE  req[r] \in Request /\ req[r].call \in Calls
  BY DEF Types, AnyRequest, Request

\* A step of r that is only one to its next pc.
LEMMA GotoType ==
    ASSUME Types, NEW r \in Requests, req[r].pc # "new", NEW pc \in Pcs, Goto(r, pc)
    PROVE  /\ req' \in [Requests -> AnyRequest]
           /\ req'[r].pc = pc /\ req'[r].call = req[r].call /\ req'[r].currency = req[r].currency
           /\ req'[r].seen = req[r].seen /\ req'[r].steady = req[r].steady
           /\ \A q \in Requests \ {r} : req'[q] = req[q]
<1>1. req[r] \in Request
  BY RunningRequest
<1>2. req' = [req EXCEPT ![r] = [req[r] EXCEPT !.pc = pc]]
  BY <1>1 DEF Goto, Types
<1>3. [req[r] EXCEPT !.pc = pc] \in Request
  BY <1>1 DEF Request
<1> QED BY <1>1, <1>2, <1>3 DEF Types, AnyRequest, Request

------------------------------------------------------------------------------
(* What the steps of one request leave of the others *)

\* Request q is left alone, but for its history.
Kept(q) ==
    /\ req'[q].pc = req[q].pc
    /\ req[q].pc # "new" => /\ req'[q].call = req[q].call /\ req'[q].currency = req[q].currency
                            /\ req'[q].steady => req[q].steady

\* No row goes away, and a currency changes by conversion only.
RowsKept ==
    /\ \A x \in Things : status[x] # "none" => status'[x] # "none"
    /\ converted \subseteq converted'
    /\ \A c \in ClientIds : status[c] # "none" /\ c \notin converted' => currency'[c] = currency[c]
    /\ \A i \in HireIds : hire[i] # Nothing =>
         /\ hire'[i] # Nothing
         /\ hire'[i].client = hire[i].client /\ hire'[i].agent = hire[i].agent
         /\ hire'[i].phone = hire[i].phone /\ hire'[i].currency = hire[i].currency

LEMMA OtherStands ==
    ASSUME Types, NEW q \in Requests, Stands(q), Kept(q), RowsKept,
           req[q].pc = "commit" /\ req[q].call.phone # Nothing =>
             OwnersOf(req[q].call.phone)' = OwnersOf(req[q].call.phone),
           InTransaction(q) => (EmailTaken(req[q].call.email)' <=> EmailTaken(req[q].call.email)),
           req[q].call.op = "status" /\ req[q].pc = "write" /\ req'[q].steady =>
             status'[req[q].call.id] # "archived" \/ status'[req[q].call.id] = status[req[q].call.id],
           req[q].call.op \in {"update", "hireStatus"} /\ req[q].pc \in {"personality", "write"}
             /\ req'[q].steady =>
             hire'[req[q].call.id].status \in {"active", "inactive", hire[req[q].call.id].status}
    PROVE  Stands(q)'
<1> SUFFICES ASSUME req[q].pc # "new" PROVE Stands(q)'
  BY DEF Stands, Kept
<1> DEFINE call == req[q].call
<1>1. /\ req'[q].pc = req[q].pc /\ req'[q].call = call /\ req'[q].currency = req[q].currency
      /\ req'[q].steady => req[q].steady
  BY DEF Kept
<1>2. call \in Calls
  BY RunningRequest
<1>3. InTransaction(q)' <=> InTransaction(q)
  BY <1>1 DEF InTransaction, Op
<1>4. call.op = "hire" => call.client \in ClientIds /\ call.client \in Things
  BY <1>2, CallTypes DEF Things
<1>5. call.op \in {"status", "currency"} => call.id \in Things
  BY <1>2, CallTypes DEF Things
<1>6. call.op \in {"update", "hireStatus"} => call.id \in HireIds
  BY <1>2, CallTypes
<1>7. call.op = "hire" /\ req[q].pc \in Stages("hire") \ {"client"} =>
        /\ status'[call.client] # "none"
        /\ req[q].currency = currency'[call.client] \/ call.client \in converted'
  BY <1>4 DEF Stands, RowsKept
<1>8. /\ call.op = "hire" /\ req[q].pc = "commit" /\ call.phone # Nothing =>
           OwnersOf(call.phone)' = {call.client}
      /\ call.op = "onboard" /\ req[q].pc = "commit" /\ call.phone # Nothing =>
           OwnersOf(call.phone)' = {}
      /\ InTransaction(q) => ~EmailTaken(call.email)'
  BY DEF Stands
<1>9. /\ call.op \in {"status", "currency"} /\ req[q].pc = "write" => status'[call.id] # "none"
      /\ call.op = "status" /\ req[q].pc = "write" /\ req'[q].steady => status'[call.id] # "archived"
  BY <1>1, <1>5 DEF Stands, RowsKept
<1>10. call.op \in {"update", "hireStatus"} /\ req[q].pc \in {"personality", "write"} =>
         /\ hire'[call.id] # Nothing
         /\ req'[q].steady => hire'[call.id].status # "archived"
  BY <1>1, <1>6 DEF Stands, RowsKept
<1>11. OwnersOf(req[q].call.phone)' = OwnersOf(call.phone)' /\ EmailTaken(req[q].call.email)' = EmailTaken(call.email)'
  BY <1>1 DEF OwnersOf, EmailTaken
<1>12. req[q].pc \in Stages(call.op) \cup Ended /\ (req[q].pc \in {"phone", "newphone"} => call.phone # Nothing)
  BY DEF Stands
<1> QED BY <1>1, <1>3, <1>7, <1>8, <1>9, <1>10, <1>11, <1>12 DEF Stands

LEMMA ExclusiveKept ==
    ASSUME Exclusive, NEW r \in Requests, \A q \in Requests \ {r} : Kept(q),
           InTransaction(r)' => /\ InTransaction(r) \/ ~EmailLocked(req[r].call.email)
                                /\ req'[r].call = req[r].call,
           Commits(r)' => /\ Commits(r) \/ ~PhoneLocked(req[r].call.phone)
                          /\ req'[r].call = req[r].call
    PROVE  Exclusive'
<1>1. \A q \in Requests \ {r} : /\ InTransaction(q)' => InTransaction(q) /\ req'[q].call = req[q].call
                                /\ Commits(q)' => Commits(q) /\ req'[q].call = req[q].call
  BY DEF Kept, InTransaction, Commits, Op
<1>2. ASSUME NEW q \in Requests, NEW p \in Requests, InTransaction(q)', InTransaction(p)',
             req'[q].call.email = req'[p].call.email
      PROVE  q = p
  BY <1>1, <1>2 DEF Exclusive, EmailLocked
<1>3. ASSUME NEW q \in Requests, NEW p \in Requests, Commits(q)', Commits(p)',
             req'[q].call.phone = req'[p].call.phone
      PROVE  q = p
  BY <1>1, <1>3 DEF Exclusive, PhoneLocked, Commits
<1> QED BY <1>2, <1>3 DEF Exclusive

LEMMA BornKept ==
    ASSUME Born, NEW r \in Requests, \A q \in Requests \ {r} : Kept(q),
           \A q \in Requests \ {r} : /\ status'[q] # "none" => status[q] # "none"
                                     /\ hire'[q] # Nothing => hire[q] # Nothing,
           status'[r] # "none" => Committed(r)', hire'[r] # Nothing => Inserted(r)'
    PROVE  Born'
<1>1. \A q \in Requests \ {r} : /\ Committed(q) => Committed(q)'
                                /\ Inserted(q) => Inserted(q)'
  BY DEF Kept, Committed, Inserted, Op
<1> QED BY <1>1 DEF Born

\* Hires and phones when no hire or phone is inserted.
LEMMA RowsStay ==
    ASSUME Types, HiresFit, PhonesUsed, Unique, RowsKept, phones' = phones,
           NEW r \in Requests, \A q \in Requests \ {r} : Kept(q),
           Op(r, "hire") /\ req[r].pc # "ok" => /\ Op(r, "hire")' /\ req'[r].pc # "ok"
                                                /\ req'[r].call = req[r].call,
           \A i \in HireIds : hire'[i] # Nothing => hire[i] # Nothing
    PROVE  /\ HiresFit' /\ PhonesUsed'
           /\ \A p, q \in phones' : p.number = q.number => p = q
           /\ \A i, j \in Hires' :
                hire'[i].client = hire'[j].client /\ hire'[i].agent = hire'[j].agent => i = j
<1>1. Hires' = Hires
  BY DEF Hires, RowsKept
<1>2. \A i \in Hires : /\ i \in HireIds /\ hire[i] \in Hire /\ hire[i] # Nothing
                       /\ hire[i].client \in ClientIds /\ hire[i].client \in Things
  BY DEF Hires, Types, TypeOK, Hire, Things
<1>3. \A n : OwnersOf(n)' = OwnersOf(n)
  BY DEF OwnersOf
<1>4. \A i \in Hires : /\ hire'[i].client = hire[i].client /\ hire'[i].agent = hire[i].agent
                       /\ hire'[i].phone = hire[i].phone /\ hire'[i].currency = hire[i].currency
  BY <1>2 DEF RowsKept
<1>5. HiresFit'
  <2> SUFFICES ASSUME NEW i \in Hires
               PROVE  /\ status'[hire'[i].client] # "none"
                      /\ hire'[i].currency = currency'[hire'[i].client] \/ hire'[i].client \in converted'
                      /\ hire'[i].phone # Nothing => OwnersOf(hire[i].phone)' = {hire'[i].client}
    BY <1>1 DEF HiresFit
  <2>1. OwnersOf(hire[i].phone)' = OwnersOf(hire'[i].phone)
    BY <1>3, <1>4 DEF OwnersOf
  <2> QED BY <1>2, <1>4, <2>1 DEF HiresFit, RowsKept
<1>6. ASSUME NEW p \in phones \ InitialPhones
      PROVE  /\ status'[p.client] # "none"
             /\ \/ \E i \in Hires' : hire'[i].client = p.client /\ hire'[i].phone = p.number
                \/ \E q \in Requests : /\ Op(q, "hire")' /\ req'[q].pc # "ok"
                                       /\ req'[q].call.client = p.client /\ req'[q].call.phone = p.number
  <2>1. p.client \in Things
    BY DEF Types, TypeOK, PhoneRow, Things
  <2>2. status'[p.client] # "none"
    BY <2>1 DEF PhonesUsed, RowsKept
  <2>3. CASE \E i \in Hires : hire[i].client = p.client /\ hire[i].phone = p.number
    BY <1>1, <1>4, <2>2, <2>3
  <2>4. ASSUME NEW q \in Requests, Op(q, "hire"), req[q].pc # "ok",
               req[q].call.client = p.client, req[q].call.phone = p.number
        PROVE  /\ Op(q, "hire")' /\ req'[q].pc # "ok"
               /\ req'[q].call.client = p.client /\ req'[q].call.phone = p.number
    BY <2>4 DEF Kept, Op
  <2> QED BY <2>2, <2>3, <2>4 DEF PhonesUsed
<1>7. PhonesUsed'
  BY <1>6 DEF PhonesUsed
<1>8. \A i, j \in Hires' :
        hire'[i].client = hire'[j].client /\ hire'[i].agent = hire'[j].agent => i = j
  BY <1>1, <1>4 DEF Unique
<1> QED BY <1>5, <1>7, <1>8 DEF Unique

------------------------------------------------------------------------------
(* Steps of a request that write no row *)

LEMMA Quiet ==
    ASSUME IInv, NEW r \in Requests, req[r].pc \in Pcs \ Ended, UNCHANGED rows,
           faults' \in 0 .. MaxFaults, req' \in [Requests -> AnyRequest],
           \A q \in Requests \ {r} : Kept(q), req'[r].call = req[r].call, req'[r].pc \in Pcs,
           Stands(r)',
           req'[r].pc = "ok" => req[r].call.op # "hire",
           req[r].pc = "publish" => req'[r].pc \in {"ok", "died"},
           InTransaction(r)' => InTransaction(r) \/ ~EmailLocked(req[r].call.email),
           Commits(r)' => Commits(r) \/ ~PhoneLocked(req[r].call.phone)
    PROVE  IInv'
<1> USE DEF IInv
<1>1. Types'
  BY DEF Types, TypeOK, rows
<1>2. RowsKept
  BY DEF RowsKept, rows
<1>3. RequestsStand'
  <2>1. ASSUME NEW q \in Requests \ {r} PROVE Stands(q)'
    <3>1. Stands(q) /\ Kept(q)
      BY DEF RequestsStand
    <3>2. /\ OwnersOf(req[q].call.phone)' = {p.client : p \in {x \in phones : x.number = req'[q].call.phone}}
          /\ EmailTaken(req[q].call.email)' <=> \E u \in users : u.email = req'[q].call.email
      BY DEF OwnersOf, EmailTaken, rows
    <3>3. /\ req[q].pc = "commit" => OwnersOf(req[q].call.phone)' = OwnersOf(req[q].call.phone)
          /\ InTransaction(q) => (EmailTaken(req[q].call.email)' <=> EmailTaken(req[q].call.email))
      BY <3>1, <3>2 DEF OwnersOf, EmailTaken, Kept, InTransaction, Op, rows
    <3>4. status' = status /\ hire' = hire
      BY DEF rows
    <3>5. /\ status'[req[q].call.id] = status[req[q].call.id]
          /\ hire'[req[q].call.id].status \in {"active", "inactive", hire[req[q].call.id].status}
      BY <3>4
    <3> QED BY <1>2, <3>1, <3>3, <3>5, OtherStands
  <2> QED BY <2>1 DEF RequestsStand
<1>4. Born'
  <2>1. status[r] # "none" => req[r].pc = "publish" /\ Op(r, "onboard")
    BY DEF Born, Committed, Ended, Answers
  <2>2. hire[r] # Nothing => req[r].pc = "publish" /\ Op(r, "onboard")
    BY DEF Born, Inserted, Committed, Ended, Answers
  <2>3. req[r].pc = "publish" /\ Op(r, "onboard") => Committed(r)'
    BY DEF Op, Committed, Pcs
  <2> QED BY <2>1, <2>2, <2>3, BornKept DEF rows, Inserted
<1>5. Exclusive'
  BY ExclusiveKept
<1>6. HiresFit' /\ PhonesUsed'
  <2>1. Op(r, "hire") => Op(r, "hire")' /\ req'[r].pc # "ok"
    BY StagesArePcs DEF Op
  <2> QED BY <1>2, <2>1, RowsStay DEF rows
<1>7. Unique'
  BY DEF Unique, rows, Hires
<1> QED BY <1>1, <1>3, <1>4, <1>5, <1>6, <1>7

\* A step that goes on to pc, by what has been checked in it.
LEMMA QuietGoto ==
    ASSUME IInv, NEW r \in Requests, req[r].pc \in Pcs \ Ended, UNCHANGED rows,
           faults' \in 0 .. MaxFaults, NEW pc, Goto(r, pc),
           \/ pc \in Ended \ {"ok"} /\ (req[r].pc = "publish" => pc = "died")
           \/ pc = "ok" /\ req[r].pc = "publish"
           \/ /\ pc \in Stages(req[r].call.op) /\ pc # "publish" /\ req[r].pc # "publish"
              /\ req[r].call.op = "hire" => req[r].pc # "client"
              /\ pc \in {"phone", "newphone"} => req[r].call.phone # Nothing
              /\ pc = "commit" /\ req[r].call.phone # Nothing =>
                   \/ req[r].call.op = "hire" /\ OwnersOf(req[r].call.phone) = {req[r].call.client}
                   \/ /\ req[r].call.op = "onboard" /\ OwnersOf(req[r].call.phone) = {}
                      /\ ~PhoneLocked(req[r].call.phone)
              /\ req[r].call.op = "onboard" /\ pc \in {"price", "phone", "newphone", "commit"} =>
                   req[r].pc \in {"price", "phone", "newphone", "commit"}
              /\ pc = "write" => req[r].pc = "personality"
              /\ pc # "personality"
    PROVE  IInv'
<1>1. Types /\ req[r].pc # "new" /\ Stands(r) /\ req[r].call \in Calls
  BY StagesArePcs, RunningRequest DEF IInv, RequestsStand
<1>2. pc \in Pcs /\ pc # "new"
  BY StagesArePcs DEF Pcs, Ended, Answers
<1>3. /\ req' \in [Requests -> AnyRequest]
      /\ req'[r].pc = pc /\ req'[r].call = req[r].call /\ req'[r].currency = req[r].currency
      /\ req'[r].seen = req[r].seen /\ req'[r].steady = req[r].steady
      /\ \A q \in Requests \ {r} : req'[q] = req[q]
  BY <1>1, <1>2, GotoType
<1>4. \A q \in Requests \ {r} : Kept(q)
  BY <1>3 DEF Kept
<1>5. /\ OwnersOf(req[r].call.phone)' = OwnersOf(req[r].call.phone)
      /\ EmailTaken(req[r].call.email)' = EmailTaken(req[r].call.email)
  BY <1>3 DEF OwnersOf, EmailTaken, rows
<1>6. InTransaction(r)' => InTransaction(r)
  BY <1>1, <1>3, StagesArePcs DEF InTransaction, Op, Ended, Answers
<1>7. Commits(r)' => Commits(r) \/ ~PhoneLocked(req[r].call.phone)
  BY <1>3 DEF Commits, Op, Ended, Answers
<1>8. Stands(r)'
  <2> DEFINE call == req[r].call
  <2>1. pc \in Stages(call.op) \cup Ended
    BY <1>1, CallTypes DEF Ended, Answers
  <2>2. CASE pc \in Ended
    <3>1. pc \notin {"phone", "newphone", "commit", "write", "personality"} /\ ~InTransaction(r)'
      BY <1>3, <2>2 DEF Ended, Answers, InTransaction, Op
    <3>2. pc \notin Stages("hire")
      BY <2>2, StagesArePcs
    <3> QED BY <1>3, <2>1, <2>2, <3>1, <3>2 DEF Stands
  <2>3. CASE pc \notin Ended
    <3>1. /\ pc \in Stages(req[r].call.op) /\ pc # "publish" /\ req[r].pc # "publish"
          /\ req[r].call.op = "hire" => req[r].pc # "client"
          /\ pc \in {"phone", "newphone"} => req[r].call.phone # Nothing
          /\ pc = "commit" /\ req[r].call.phone # Nothing =>
               \/ req[r].call.op = "hire" /\ OwnersOf(req[r].call.phone) = {req[r].call.client}
               \/ req[r].call.op = "onboard" /\ OwnersOf(req[r].call.phone) = {}
          /\ pc = "write" => req[r].pc = "personality"
          /\ pc # "personality"
      BY <2>3 DEF Ended, Answers
    <3>2. req[r].pc \in Stages(call.op)
      BY <1>1 DEF Stands
    <3>3. call.op = "hire" =>
            /\ status[call.client] # "none"
            /\ req[r].currency = currency[call.client] \/ call.client \in converted
      BY <1>1, <3>1, <3>2 DEF Stands
    <3>4. InTransaction(r)' => ~EmailTaken(call.email)
      BY <1>1, <1>6 DEF Stands
    <3>5. pc = "write" => call.op = "update" /\ hire[call.id] # Nothing
                           /\ (req[r].steady => hire[call.id].status # "archived")
      BY <1>1, <3>1, <3>2, CallTypes DEF Stands, Stages
    <3>6. pc = "commit" => call.op \in {"hire", "onboard"}
      BY <1>1, <3>1, CallTypes DEF Stages
    <3> QED BY <1>3, <1>5, <3>1, <3>3, <3>4, <3>5, <3>6 DEF Stands, rows
  <2> QED BY <2>2, <2>3
<1>9. req[r].pc = "publish" => pc \in {"ok", "died"} /\ req[r].call.op = "onboard"
  <2>1. req[r].pc \in Stages(req[r].call.op)
    BY <1>1 DEF Stands
  <2> QED BY <1>1, <2>1, CallTypes DEF Stages
<1>10. pc = "ok" => req[r].pc = "publish"
  BY StagesArePcs DEF Ended, Answers
<1> QED BY <1>2, <1>3, <1>4, <1>6, <1>7, <1>8, <1>9, <1>10, Quiet


LEMMA QuietSteps ==
    ASSUME IInv, NEW r \in Requests,
           \/ ReadCatalogue(r) \/ CheckExisting(r) \/ FindPhone(r) \/ FindEmail(r) \/ FindPrice(r)
           \/ FindPhoneInTransaction(r) \/ InsertPhoneInTransaction(r) \/ Abort(r) \/ Publish(r)
           \/ ReadPersonality(r) \/ Die(r)
    PROVE  IInv'
<1>0. Types /\ Stands(r)
  BY DEF IInv, RequestsStand
<1>1. req[r].pc \in Pcs \ Ended
  <2>1. CASE Die(r)
    <3>1. req[r] \in Request /\ req[r].pc \notin Ended
      BY <1>0, <2>1, RunningRequest DEF Die, Running
    <3> QED BY <3>1 DEF Request
  <2> QED BY <2>1 DEF ReadCatalogue, CheckExisting, FindPhone, FindEmail, FindPrice,
             FindPhoneInTransaction, InsertPhoneInTransaction, Abort, Publish, ReadPersonality,
             Pcs, Ended, Answers
<1>2. UNCHANGED rows /\ faults' \in 0 .. MaxFaults
  <2>1. faults \in 0 .. MaxFaults /\ MaxFaults \in Nat
    BY <1>0, SubscriptionsAssumption DEF Types, TypeOK
  <2> QED BY <2>1 DEF ReadCatalogue, CheckExisting, FindPhone, FindEmail, FindPrice,
             FindPhoneInTransaction, InsertPhoneInTransaction, Abort, Publish, ReadPersonality, Die
<1>3. /\ req[r].pc # "new" /\ req[r].call \in Calls /\ req[r].pc \in Stages(req[r].call.op)
      /\ req[r].pc \in {"phone", "newphone"} => req[r].call.phone # Nothing
  BY <1>0, <1>1, StagesArePcs, RunningRequest DEF Stands
<1>4. \A pc \in {"400", "404", "409", "500"} : pc \in Ended \ {"ok"}
  BY DEF Ended, Answers
<1>5. CASE ReadCatalogue(r)
  <2>1. PICK pc : /\ Goto(r, pc) /\ req[r].pc = "catalogue"
                  /\ \/ pc = "400"
                     \/ pc = "existing" /\ req[r].call.op = "hire"
                     \/ pc = "email" /\ req[r].call.op # "hire"
    BY <1>5 DEF ReadCatalogue
  <2>2. req[r].call.op \in {"hire", "onboard"}
    BY <1>3, <2>1, CallTypes DEF Stages
  <2> QED BY <1>1, <1>2, <1>4, <2>1, <2>2, QuietGoto DEF Stages
<1>6. CASE CheckExisting(r)
  <2>1. PICK pc : /\ Goto(r, pc) /\ req[r].pc = "existing"
                  /\ \/ pc = "409"
                     \/ pc = "commit" /\ req[r].call.phone = Nothing
                     \/ pc = "phone" /\ req[r].call.phone # Nothing
    BY <1>6 DEF CheckExisting
  <2>2. req[r].call.op = "hire"
    BY <1>3, <2>1, CallTypes DEF Stages
  <2> QED BY <1>1, <1>2, <1>4, <2>1, <2>2, QuietGoto DEF Stages
<1>7. CASE FindPhone(r)
  <2>1. PICK pc : /\ Goto(r, pc) /\ req[r].pc = "phone" /\ req[r].call.op = "hire"
                  /\ \/ pc = "409"
                     \/ pc = "commit" /\ OwnersOf(req[r].call.phone) = {req[r].call.client}
                     \/ pc = "newphone"
    BY <1>7 DEF FindPhone, Op
  <2> QED BY <1>1, <1>2, <1>3, <1>4, <2>1, QuietGoto DEF Stages
<1>8. CASE FindEmail(r)
  <2>1. PICK pc : /\ Goto(r, pc) /\ req[r].pc = "email"
                  /\ \/ pc = "409"
                     \/ pc = "open" /\ req[r].call.op = "onboard"
                     \/ pc = "newuser" /\ req[r].call.op # "onboard"
    BY <1>3, <1>8 DEF FindEmail, Op
  <2>2. req[r].call.op \in {"user", "onboard"}
    BY <1>3, <2>1, CallTypes DEF Stages
  <2> QED BY <1>1, <1>2, <1>4, <2>1, <2>2, QuietGoto DEF Stages
<1>9. CASE FindPrice(r)
  <2>1. PICK pc : /\ Goto(r, pc) /\ req[r].pc = "price"
                  /\ \/ pc = "400"
                     \/ pc = "commit" /\ req[r].call.phone = Nothing
                     \/ pc = "phone" /\ req[r].call.phone # Nothing
    BY <1>9 DEF FindPrice
  <2>2. req[r].call.op = "onboard"
    BY <1>3, <2>1, CallTypes DEF Stages
  <2> QED BY <1>1, <1>2, <1>4, <2>1, <2>2, QuietGoto DEF Stages
<1>10. CASE FindPhoneInTransaction(r)
  <2>1. PICK pc \in {"409", "newphone"} :
          Goto(r, pc) /\ req[r].pc = "phone" /\ req[r].call.op = "onboard"
    BY <1>10 DEF FindPhoneInTransaction, Op
  <2> QED BY <1>1, <1>2, <1>3, <1>4, <2>1, QuietGoto DEF Stages
<1>11. CASE InsertPhoneInTransaction(r)
  <2>1. PICK pc : /\ Goto(r, pc) /\ req[r].pc = "newphone" /\ req[r].call.op = "onboard"
                  /\ \/ pc \in {"409", "500"}
                     \/ /\ pc = "commit" /\ OwnersOf(req[r].call.phone) = {}
                        /\ ~PhoneLocked(req[r].call.phone)
    BY <1>11 DEF InsertPhoneInTransaction, Op
  <2> QED BY <1>1, <1>2, <1>3, <1>4, <2>1, QuietGoto DEF Stages
<1>12. CASE Abort(r)
  BY <1>1, <1>2, <1>4, <1>12, QuietGoto DEF Abort
<1>13. CASE Publish(r)
  BY <1>1, <1>2, <1>13, QuietGoto DEF Publish
<1>14. CASE ReadPersonality(r)
  <2>1. PICK pc \in {"write", "400"} : Goto(r, pc) /\ req[r].pc = "personality"
    BY <1>14 DEF ReadPersonality
  <2>2. req[r].call.op = "update"
    BY <1>3, <2>1, CallTypes DEF Stages
  <2> QED BY <1>1, <1>2, <1>4, <2>1, <2>2, QuietGoto DEF Stages
<1>15. CASE Die(r)
  <2>1. "died" \in Ended \ {"ok"}
    BY DEF Ended
  <2> QED BY <1>1, <1>2, <1>15, <2>1, QuietGoto DEF Die
<1> QED BY <1>5, <1>6, <1>7, <1>8, <1>9, <1>10, <1>11, <1>12, <1>13, <1>14, <1>15


\* The client is read: it is there, and its currency is the one of the hire.
LEMMA ReadClientStep == ASSUME IInv, NEW r \in Requests, ReadClient(r) PROVE IInv'
<1> DEFINE c == req[r].call.client
<1>0. /\ Types /\ Stands(r) /\ UNCHANGED rows /\ faults' = faults /\ faults \in 0 .. MaxFaults
      /\ req[r].pc = "client" /\ req[r].pc \in Pcs \ Ended /\ req[r].pc # "new" /\ req[r].call.op = "hire"
  BY DEF IInv, RequestsStand, ReadClient, Op, Types, TypeOK, Pcs, Ended, Answers
<1>1. CASE Goto(r, "404") \/ Goto(r, "400")
  BY <1>0, <1>1, QuietGoto DEF Ended, Answers
<1>2. CASE status[c] # "none" /\ req' = [req EXCEPT ![r].pc = "catalogue", ![r].currency = currency[c]]
  <2>1. req[r] \in Request /\ c \in ClientIds /\ c \in Things
    BY <1>0, RunningRequest, CallTypes DEF Things
  <2>2. currency[c] \in Currencies
    BY <1>0, <2>1 DEF Types, TypeOK
  <2> DEFINE n == [req[r] EXCEPT !.pc = "catalogue", !.currency = currency[c]]
  <2>3. n \in Request /\ n.pc = "catalogue" /\ n.call = req[r].call /\ n.currency = currency[c]
    BY <2>1, <2>2 DEF Request, Pcs
  <2>4. req' = [req EXCEPT ![r] = n]
    BY <1>0, <1>2 DEF Types
  <2> HIDE DEF n
  <2>5. /\ req' \in [Requests -> AnyRequest] /\ req'[r] = n /\ \A q \in Requests \ {r} : Kept(q)
    BY <1>0, <2>3, <2>4 DEF Types, AnyRequest, Kept
  <2>6. ~InTransaction(r)' /\ ~Commits(r)'
    BY <1>0, <2>3, <2>5 DEF InTransaction, Commits, Op
  <2>7. Stands(r)'
    BY <1>0, <1>2, <2>3, <2>5, <2>6 DEF Stands, Stages, rows
  <2> QED BY <1>0, <2>3, <2>5, <2>6, <2>7, Quiet DEF Request
<1> QED BY <1>1, <1>2 DEF ReadClient

\* Client and owner are inserted, unless the email is another's already.
LEMMA OpenTransactionStep == ASSUME IInv, NEW r \in Requests, OpenTransaction(r) PROVE IInv'
<1> DEFINE email == req[r].call.email
<1>0. /\ Types /\ Stands(r) /\ UNCHANGED rows /\ faults' = faults /\ faults \in 0 .. MaxFaults
      /\ req[r].pc = "open" /\ req[r].pc \in Pcs \ Ended /\ req[r].pc # "new"
  BY DEF IInv, RequestsStand, OpenTransaction, Types, TypeOK, Pcs, Ended, Answers
<1>1. CASE Goto(r, "409") \/ Goto(r, "500")
  BY <1>0, <1>1, QuietGoto DEF Ended, Answers
<1>2. CASE /\ ~EmailTaken(email) /\ ~EmailLocked(email)
           /\ req' = [req EXCEPT ![r].pc = "price", ![r].seen = phones]
  <2>1. req[r] \in Request /\ req[r].call \in Calls /\ req[r].call.op = "onboard"
    <3>1. req[r] \in Request /\ req[r].call \in Calls
      BY <1>0, RunningRequest
    <3> QED BY <1>0, <3>1, CallTypes, StagesArePcs DEF Stands, Stages
  <2> DEFINE n == [req[r] EXCEPT !.pc = "price", !.seen = phones]
  <2>2. n \in Request /\ n.pc = "price" /\ n.call = req[r].call
    BY <1>0, <2>1 DEF Request, Pcs, Types, TypeOK
  <2>3. req' = [req EXCEPT ![r] = n]
    BY <1>0, <1>2 DEF Types
  <2> HIDE DEF n
  <2>4. /\ req' \in [Requests -> AnyRequest] /\ req'[r] = n /\ \A q \in Requests \ {r} : Kept(q)
    BY <1>0, <2>2, <2>3 DEF Types, AnyRequest, Kept
  <2>5. ~Commits(r)' /\ ~EmailTaken(req[r].call.email)'
    BY <1>0, <1>2, <2>2, <2>4 DEF Commits, Op, EmailTaken, rows
  <2>6. Stands(r)'
    BY <2>1, <2>2, <2>4, <2>5 DEF Stands, Stages
  <2> QED BY <1>0, <1>2, <2>2, <2>4, <2>5, <2>6, Quiet DEF Request
<1> QED BY <1>1, <1>2 DEF OpenTransaction

\* Something is read, and is not archived.
LEMMA ReadUnlessArchivedStep ==
    ASSUME IInv, NEW r \in Requests, NEW current, NEW next, ReadUnlessArchived(r, current, next),
           \/ /\ req[r].call.op \in {"status", "currency"} /\ next = "write"
              /\ current = status[req[r].call.id]
           \/ /\ req[r].call.op = "hireStatus" /\ next = "write"
              /\ current = HireStatus(req[r].call.id)
           \/ /\ req[r].call.op = "update" /\ next = "personality"
              /\ current = HireStatus(req[r].call.id)
    PROVE  IInv'
<1> DEFINE pc == CASE current = "none" -> "404" [] current = "archived" -> "400" [] OTHER -> next
           n == [req[r] EXCEPT !.pc = pc, !.steady = TRUE]
<1>0. /\ Types /\ Stands(r) /\ UNCHANGED rows /\ faults' = faults /\ faults \in 0 .. MaxFaults
      /\ req[r].pc = "read" /\ req[r].pc \in Pcs \ Ended /\ req[r].pc # "new"
  BY DEF IInv, RequestsStand, ReadUnlessArchived, Types, TypeOK, Pcs, Ended, Answers
<1>1. req[r] \in Request
  BY <1>0, RunningRequest
<1>2. pc \in {"404", "400"} \/ (pc = next /\ current # "none" /\ current # "archived")
  OBVIOUS
<1>3. pc \in {"404", "400", "write", "personality"} /\ pc \in Pcs
  BY <1>2 DEF Pcs, Ended, Answers
<1>4. req' = [req EXCEPT ![r] = n]
  BY <1>0 DEF ReadUnlessArchived, Types
<1> HIDE DEF pc
<1>5. n \in Request /\ n.pc = pc /\ n.call = req[r].call
  BY <1>1, <1>3 DEF Request
<1> HIDE DEF n
<1>6. /\ req' \in [Requests -> AnyRequest] /\ req'[r] = n /\ \A q \in Requests \ {r} : Kept(q)
  BY <1>0, <1>4, <1>5 DEF Types, AnyRequest, Kept
<1>7. ~InTransaction(r)' /\ ~Commits(r)'
  BY <1>3, <1>5, <1>6 DEF InTransaction, Commits, Op
<1>8. Stands(r)'
  <2>1. pc \in Stages(req[r].call.op) \cup Ended
    BY <1>2 DEF Stages, Ended, Answers
  <2>2. pc \notin Stages("hire")
    BY <1>3 DEF Stages
  <2>3. req[r].call.op \in {"status", "currency"} /\ pc = "write" =>
          status'[req[r].call.id] \notin {"none", "archived"}
    BY <1>0, <1>2 DEF rows
  <2>4. req[r].call.op \in {"update", "hireStatus"} /\ pc \in {"personality", "write"} =>
          hire'[req[r].call.id] # Nothing /\ hire'[req[r].call.id].status # "archived"
    BY <1>0, <1>2 DEF rows, HireStatus
  <2> QED BY <1>3, <1>5, <1>6, <1>7, <2>1, <2>2, <2>3, <2>4 DEF Stands
<1> QED BY <1>0, <1>3, <1>5, <1>6, <1>7, <1>8, Quiet

\* A request comes.
LEMMA CallStep == ASSUME IInv, NEW r \in Requests, NEW call \in Calls, Call(r, call) PROVE IInv'
<1> DEFINE n == [pc |-> FirstStep(call.op), call |-> call, currency |-> CHOOSE x \in Currencies : TRUE,
                 seen |-> phones, steady |-> TRUE]
<1>0. /\ Types /\ UNCHANGED rows /\ faults' = faults /\ req[r].pc = "new"
      /\ req' = [req EXCEPT ![r] = n]
  BY DEF IInv, Call
<1>1. n \in Request /\ n.pc \in {"client", "catalogue", "email", "read"} /\ n.pc = FirstStep(n.call.op)
  <2>1. (CHOOSE x \in Currencies : TRUE) \in Currencies
    BY SubscriptionsAssumption
  <2>2. phones \in SUBSET PhoneRow
    BY <1>0 DEF Types, TypeOK
  <2> QED BY <2>1, <2>2, StagesArePcs DEF Request, FirstStep
<1>2. n.call = call
  OBVIOUS
<1> HIDE DEF n
<1>3. /\ req' \in [Requests -> AnyRequest] /\ req'[r] = n /\ \A q \in Requests \ {r} : Kept(q)
  BY <1>0, <1>1 DEF Types, AnyRequest, Kept
<1>4. Types' /\ RowsKept
  BY <1>0, <1>3 DEF Types, TypeOK, RowsKept, rows
<1>5. ~InTransaction(r)' /\ ~Commits(r)'
  BY <1>1, <1>3 DEF InTransaction, Commits, Op
<1>6. RequestsStand'
  <2>1. Stands(r)'
    <3>1. n.pc \in Stages(n.call.op)
      BY <1>1, <1>2, CallTypes DEF Stages, FirstStep
    <3>2. n.call.op = "hire" => n.pc = "client"
      BY <1>1 DEF FirstStep
    <3> QED BY <1>1, <1>3, <1>5, <3>1, <3>2 DEF Stands
  <2>2. ASSUME NEW q \in Requests \ {r} PROVE Stands(q)'
    <3>1. Stands(q) /\ Kept(q)
      BY <1>3 DEF RequestsStand, IInv
    <3>2. /\ req[q].pc = "commit" => OwnersOf(req[q].call.phone)' = OwnersOf(req[q].call.phone)
          /\ InTransaction(q) => (EmailTaken(req[q].call.email)' <=> EmailTaken(req[q].call.email))
      BY <1>0, <3>1 DEF OwnersOf, EmailTaken, Kept, InTransaction, Op, rows
    <3>3. /\ status'[req[q].call.id] = status[req[q].call.id]
          /\ hire'[req[q].call.id].status \in {"active", "inactive", hire[req[q].call.id].status}
      BY <1>0 DEF rows
    <3> QED BY <1>0, <1>4, <3>1, <3>2, <3>3, OtherStands
  <2> QED BY <2>1, <2>2 DEF RequestsStand
<1>7. Born'
  <2>1. ~Committed(r) /\ ~Inserted(r)
    BY <1>0 DEF Committed, Inserted, Op
  <2> QED BY <1>0, <1>3, <2>1, BornKept DEF rows, Born, IInv
<1>8. Exclusive'
  BY <1>3, <1>5, ExclusiveKept DEF IInv
<1>9. HiresFit' /\ PhonesUsed'
  <2>1. ~Op(r, "hire")
    BY <1>0 DEF Op
  <2> QED BY <1>0, <1>3, <1>4, <2>1, RowsStay DEF rows, IInv
<1>10. Unique'
  BY <1>0 DEF Unique, rows, Hires, IInv
<1> QED BY <1>4, <1>6, <1>7, <1>8, <1>9, <1>10 DEF IInv


------------------------------------------------------------------------------
(* Steps that insert or change a row *)

\* The requests after a step of r that has ended or committed.
LEMMA WriterStands ==
    ASSUME IInv, NEW r \in Requests, RowsKept, \A q \in Requests \ {r} : Kept(q),
           req'[r].call = req[r].call, ~InTransaction(r)', ~Commits(r)',
           (req[r].call.op = "onboard" /\ req'[r].pc = "publish") \/ req'[r].pc \in Ended,
           \A q \in Requests \ {r} :
             /\ req[q].pc = "commit" /\ req[q].call.phone # Nothing =>
                  OwnersOf(req[q].call.phone)' = OwnersOf(req[q].call.phone)
             /\ InTransaction(q) => (EmailTaken(req[q].call.email)' <=> EmailTaken(req[q].call.email))
             /\ req[q].call.op = "status" /\ req[q].pc = "write" /\ req'[q].steady =>
                  \/ status'[req[q].call.id] # "archived"
                  \/ status'[req[q].call.id] = status[req[q].call.id]
             /\ req[q].call.op \in {"update", "hireStatus"} /\ req[q].pc \in {"personality", "write"}
                  /\ req'[q].steady =>
                  hire'[req[q].call.id].status \in {"active", "inactive", hire[req[q].call.id].status}
    PROVE  RequestsStand' /\ Exclusive'
<1>1. Stands(r)'
  <2>1. CASE req'[r].pc \in Ended
    <3>1. req'[r].pc \notin {"phone", "newphone", "commit", "write", "personality"}
      BY <2>1 DEF Ended, Answers
    <3>2. req'[r].pc \notin Stages("hire")
      BY <2>1, StagesArePcs
    <3> QED BY <2>1, <3>1, <3>2 DEF Stands
  <2>2. CASE req[r].call.op = "onboard" /\ req'[r].pc = "publish"
    BY <2>2 DEF Stands, Stages
  <2> QED BY <2>1, <2>2
<1>2. ASSUME NEW q \in Requests \ {r} PROVE Stands(q)'
  <2>1. Types /\ Stands(q) /\ Kept(q)
    BY DEF IInv, RequestsStand
  <2> QED BY <2>1, OtherStands
<1>3. Exclusive'
  BY ExclusiveKept DEF IInv
<1> QED BY <1>1, <1>2, <1>3 DEF RequestsStand

\* A row of phones is inserted: its number is the client's only.
LEMMA PhoneInserted ==
    ASSUME NEW n, NEW c, OwnersOf(n) = {}, phones' = phones \cup {[number |-> n, client |-> c]}
    PROVE  /\ \A m : OwnersOf(m)' = IF m = n THEN {c} ELSE OwnersOf(m)
           /\ (\A p, q \in phones : p.number = q.number => p = q) =>
                \A p, q \in phones' : p.number = q.number => p = q
<1>1. \A p \in phones : p.number # n
  BY DEF OwnersOf
<1>2. ASSUME NEW m PROVE OwnersOf(m)' = IF m = n THEN {c} ELSE OwnersOf(m)
  <2>1. OwnersOf(m)' = {p.client : p \in {q \in phones' : q.number = m}}
    BY DEF OwnersOf
  <2>2. CASE m = n
    <3>1. {q \in phones' : q.number = m} = {[number |-> n, client |-> c]}
      BY <1>1, <2>2
    <3>2. {p.client : p \in {[number |-> n, client |-> c]}} = {c}
      OBVIOUS
    <3> QED BY <2>1, <2>2, <3>1, <3>2
  <2>3. CASE m # n
    <3>1. {q \in phones' : q.number = m} = {q \in phones : q.number = m}
      BY <2>3
    <3> QED BY <2>1, <2>3, <3>1 DEF OwnersOf
  <2> QED BY <2>2, <2>3
<1>3. (\A p, q \in phones : p.number = q.number => p = q) =>
        \A p, q \in phones' : p.number = q.number => p = q
  BY <1>1
<1> QED BY <1>2, <1>3

\* The other numbers keep their owners.
LEMMA OtherOwners ==
    ASSUME NEW q, req'[q].call = req[q].call, NEW n, NEW c, req[q].call.phone # n,
           phones' = phones \cup {[number |-> n, client |-> c]}
    PROVE  OwnersOf(req[q].call.phone)' = OwnersOf(req[q].call.phone)
<1>1. OwnersOf(req[q].call.phone)' = {p.client : p \in {x \in phones' : x.number = req[q].call.phone}}
  BY DEF OwnersOf
<1>2. {x \in phones' : x.number = req[q].call.phone} = {x \in phones : x.number = req[q].call.phone}
  OBVIOUS
<1> QED BY <1>1, <1>2 DEF OwnersOf

\* The facts of a running request that the steps below start from.
LEMMA Served ==
    ASSUME IInv, NEW r \in Requests, req[r].pc \in Pcs \ (Ended \cup {"publish"})
    PROVE  /\ Types /\ Stands(r) /\ req[r] \in Request /\ req[r].call \in Calls /\ req[r].pc # "new"
           /\ req[r].pc \in Stages(req[r].call.op)
           /\ status[r] = "none" /\ hire[r] = Nothing
<1>1. Types /\ Stands(r) /\ req[r].pc # "new"
  BY StagesArePcs DEF IInv, RequestsStand
<1>2. ~Committed(r) /\ ~Inserted(r)
  BY DEF Committed, Inserted, Ended, Answers
<1> QED BY <1>1, <1>2, RunningRequest DEF Stands, Born, IInv

LEMMA InsertPhoneStep == ASSUME IInv, NEW r \in Requests, InsertPhone(r) PROVE IInv'
<1> DEFINE n == req[r].call.phone
           c == req[r].call.client
<1>0. /\ req[r].pc = "newphone" /\ req[r].pc \in Pcs \ (Ended \cup {"publish"}) /\ req[r].call.op = "hire"
      /\ ~PhoneLocked(n) /\ UNCHANGED <<status, currency, hire, users, converted, faults>>
  BY DEF InsertPhone, Op, Pcs, Ended, Answers
<1>1. /\ Types /\ Stands(r) /\ req[r] \in Request /\ req[r].call \in Calls /\ req[r].pc # "new"
      /\ req[r].pc \in Stages(req[r].call.op)
      /\ status[r] = "none" /\ hire[r] = Nothing
  BY <1>0, Served
<1>2. CASE Goto(r, "500") /\ UNCHANGED phones
  <2>1. UNCHANGED rows /\ faults' \in 0 .. MaxFaults /\ "500" \in Ended \ {"ok"}
    BY <1>0, <1>1, <1>2 DEF rows, Types, TypeOK, Ended, Answers
  <2> QED BY <1>0, <1>2, <2>1, QuietGoto
<1>3. CASE /\ OwnersOf(n) = {} /\ Goto(r, "commit")
           /\ phones' = phones \cup {[number |-> n, client |-> c]}
  <2>1. /\ req' \in [Requests -> AnyRequest]
        /\ req'[r].pc = "commit" /\ req'[r].call = req[r].call /\ req'[r].currency = req[r].currency
        /\ \A q \in Requests \ {r} : req'[q] = req[q]
    <3>1. "commit" \in Pcs
      BY DEF Pcs
    <3> QED BY <1>1, <1>3, <3>1, GotoType
  <2>2. \A q \in Requests \ {r} : Kept(q)
    BY <2>1 DEF Kept
  <2>3. n \in Phones /\ c \in ClientIds /\ n # Nothing /\ status[c] # "none"
        /\ (req[r].currency = currency[c] \/ c \in converted)
    <3>1. n # Nothing /\ status[c] # "none" /\ (req[r].currency = currency[c] \/ c \in converted)
      BY <1>0, <1>1 DEF Stands
    <3> QED BY <1>0, <1>1, <3>1, CallTypes
  <2>4. Types' /\ RowsKept
    BY <1>0, <1>1, <1>3, <2>1, <2>3 DEF Types, TypeOK, PhoneRow, RowsKept
  <2>5. \A m : OwnersOf(m)' = IF m = n THEN {c} ELSE OwnersOf(m)
    BY <1>3, PhoneInserted
  <2>6. RequestsStand'
    <3>1. Stands(r)'
      <4>1. OwnersOf(n)' = {c} /\ OwnersOf(req[r].call.phone)' = OwnersOf(n)'
        BY <2>1, <2>5 DEF OwnersOf
      <4>2. ~InTransaction(r)'
        BY <1>0, <2>1 DEF InTransaction, Op
      <4> QED BY <1>0, <2>1, <2>3, <4>1, <4>2 DEF Stands, Stages
    <3>2. ASSUME NEW q \in Requests \ {r} PROVE Stands(q)'
      <4>1. Stands(q) /\ Kept(q)
        BY <2>2 DEF IInv, RequestsStand
      <4>2. req[q].pc = "commit" /\ req[q].call.phone # Nothing =>
              OwnersOf(req[q].call.phone)' = OwnersOf(req[q].call.phone)
        <5> SUFFICES ASSUME req[q].pc = "commit", req[q].call.phone # Nothing
                     PROVE  OwnersOf(req[q].call.phone)' = OwnersOf(req[q].call.phone)
          OBVIOUS
        <5>1. req[q].call \in Calls /\ req[q].pc # "new" /\ req[q].call.op \in {"hire", "onboard"}
          <6>1. req[q].call \in Calls /\ req[q].pc # "new"
            BY <1>1, RunningRequest
          <6> QED BY <4>1, <6>1, CallTypes, StagesArePcs DEF Stands, Stages, Ended, Answers
        <5>2. req[q].call.phone # n
          BY <1>0, <1>3, <4>1, <5>1 DEF Stands, PhoneLocked, Op
        <5> HIDE DEF n, c
        <5> QED BY <1>3, <2>1, <5>2, OtherOwners
      <4>3. InTransaction(q) => (EmailTaken(req[q].call.email)' <=> EmailTaken(req[q].call.email))
        BY <1>0, <2>1 DEF EmailTaken
      <4>4. /\ status'[req[q].call.id] = status[req[q].call.id]
            /\ hire'[req[q].call.id].status \in {"active", "inactive", hire[req[q].call.id].status}
        BY <1>0
      <4> QED BY <1>1, <2>4, <4>1, <4>2, <4>3, <4>4, OtherStands
    <3> QED BY <3>1, <3>2 DEF RequestsStand
  <2>7. Exclusive'
    <3>1. ~InTransaction(r)' /\ ~Commits(r)'
      BY <1>0, <2>1 DEF InTransaction, Commits, Op
    <3> QED BY <2>2, <3>1, ExclusiveKept DEF IInv
  <2>8. Born'
    BY <1>0, <1>1, <2>2, BornKept DEF IInv
  <2>9. Unique'
    <3>1. \A p, q \in phones' : p.number = q.number => p = q
      BY <1>3, PhoneInserted DEF IInv, Unique
    <3> QED BY <1>0, <3>1 DEF IInv, Unique, Hires
  <2>10. HiresFit'
    <3>1. \A i \in Hires : hire[i].phone # Nothing => OwnersOf(hire[i].phone)' = {hire[i].client}
      <4> SUFFICES ASSUME NEW i \in Hires, hire[i].phone # Nothing
                   PROVE  OwnersOf(hire[i].phone)' = {hire[i].client}
        OBVIOUS
      <4>1. OwnersOf(hire[i].phone) = {hire[i].client} /\ hire[i].phone # n
        BY <1>3 DEF IInv, HiresFit
      <4>2. {x \in phones' : x.number = hire[i].phone} = {x \in phones : x.number = hire[i].phone}
        <5> HIDE DEF n
        <5> QED BY <1>3, <4>1
      <4> QED BY <1>0, <4>1, <4>2 DEF OwnersOf
    <3> QED BY <1>0, <3>1 DEF IInv, HiresFit, Hires
  <2>11. PhonesUsed'
    <3>1. Op(r, "hire")' /\ req'[r].pc # "ok" /\ req'[r].call.client = c /\ req'[r].call.phone = n
      BY <1>0, <2>1 DEF Op
    <3>2. ASSUME NEW p \in phones \ InitialPhones
          PROVE  \/ \E i \in Hires' : hire'[i].client = p.client /\ hire'[i].phone = p.number
                 \/ \E q \in Requests : /\ Op(q, "hire")' /\ req'[q].pc # "ok"
                                        /\ req'[q].call.client = p.client /\ req'[q].call.phone = p.number
      <4>1. CASE \E i \in Hires : hire[i].client = p.client /\ hire[i].phone = p.number
        BY <1>0, <4>1 DEF Hires
      <4>2. ASSUME NEW q \in Requests, Op(q, "hire"), req[q].pc # "ok",
                   req[q].call.client = p.client, req[q].call.phone = p.number
            PROVE  /\ Op(q, "hire")' /\ req'[q].pc # "ok"
                   /\ req'[q].call.client = p.client /\ req'[q].call.phone = p.number
        BY <2>1, <3>1, <4>2 DEF Op
      <4> QED BY <4>1, <4>2 DEF IInv, PhonesUsed
    <3>3. \A p \in phones \ InitialPhones : status'[p.client] # "none"
      BY <1>0 DEF IInv, PhonesUsed
    <3> HIDE DEF n, c
    <3> QED BY <1>0, <1>3, <2>3, <3>1, <3>2, <3>3 DEF PhonesUsed
  <2> QED BY <2>4, <2>6, <2>7, <2>8, <2>9, <2>10, <2>11 DEF IInv
<1> QED BY <1>2, <1>3 DEF InsertPhone


LEMMA InsertHireStep == ASSUME IInv, NEW r \in Requests, InsertHire(r) PROVE IInv'
<1> DEFINE call == req[r].call
           new == NewHire(r, call.client, req[r].currency)
<1>0. /\ req[r].pc = "commit" /\ req[r].pc \in Pcs \ (Ended \cup {"publish"}) /\ req[r].call.op = "hire"
      /\ UNCHANGED <<status, currency, phones, users, converted, faults>>
  BY DEF InsertHire, Op, Pcs, Ended, Answers
<1>1. /\ Types /\ Stands(r) /\ req[r] \in Request /\ call \in Calls /\ req[r].pc # "new"
      /\ status[r] = "none" /\ hire[r] = Nothing
  BY <1>0, Served
<1>2. CASE (Goto(r, "400") \/ Goto(r, "409")) /\ UNCHANGED hire
  <2>1. UNCHANGED rows /\ faults' \in 0 .. MaxFaults /\ "400" \in Ended \ {"ok"} /\ "409" \in Ended \ {"ok"}
    BY <1>0, <1>1, <1>2 DEF rows, Types, TypeOK, Ended, Answers
  <2> QED BY <1>0, <1>2, <2>1, QuietGoto
<1>3. CASE ~HiredBefore(call.client, call.agent) /\ Goto(r, "ok") /\ hire' = [hire EXCEPT ![r] = new]
  <2>1. /\ req' \in [Requests -> AnyRequest] /\ req'[r].pc = "ok" /\ req'[r].call = req[r].call
        /\ \A q \in Requests \ {r} : req'[q] = req[q]
    <3>1. "ok" \in Pcs
      BY DEF Pcs, Ended, Answers
    <3> QED BY <1>1, <1>3, <3>1, GotoType
  <2>2. \A q \in Requests \ {r} : Kept(q)
    BY <2>1 DEF Kept
  <2>3. /\ status[call.client] # "none" /\ call.client \in ClientIds
        /\ req[r].currency = currency[call.client] \/ call.client \in converted
        /\ call.phone # Nothing => OwnersOf(call.phone) = {call.client}
    BY <1>0, <1>1, CallTypes DEF Stands, Stages
  <2>4. /\ new \in Hire /\ new # Nothing /\ new.client = call.client /\ new.agent = call.agent
        /\ new.phone = call.phone /\ new.currency = req[r].currency
    <3>1. new \in Hire
      BY <1>0, <1>1, CallTypes DEF NewHire, Hire, Statuses, Request
    <3> QED BY <3>1, SubscriptionsAssumption DEF NewHire
  <2> HIDE DEF new
  <2>5. /\ r \in HireIds /\ hire \in [HireIds -> Hire \cup {Nothing}]
        /\ hire' \in [HireIds -> Hire \cup {Nothing}]
        /\ hire'[r] = new /\ \A i \in HireIds \ {r} : hire'[i] = hire[i]
    BY <1>1, <1>3, <2>4 DEF HireIds, Types, TypeOK
  <2>6. Types' /\ RowsKept
    BY <1>0, <1>1, <2>1, <2>5 DEF Types, TypeOK, RowsKept
  <2>7. RequestsStand' /\ Exclusive'
    <3>1. ~InTransaction(r)' /\ ~Commits(r)' /\ req'[r].pc \in Ended
      BY <2>1 DEF InTransaction, Commits, Ended, Answers
    <3>2. ASSUME NEW q \in Requests \ {r}
          PROVE  /\ OwnersOf(req[q].call.phone)' = OwnersOf(req[q].call.phone)
                 /\ EmailTaken(req[q].call.email)' <=> EmailTaken(req[q].call.email)
                 /\ status'[req[q].call.id] = status[req[q].call.id]
                 /\ req[q].call.op \in {"update", "hireStatus"} /\ req[q].pc \in {"personality", "write"} =>
                      hire'[req[q].call.id] = hire[req[q].call.id]
      <4>1. req[q].call.op \in {"update", "hireStatus"} /\ req[q].pc \in {"personality", "write"} =>
              req[q].call.id \in HireIds /\ req[q].call.id # r
        <5> SUFFICES ASSUME req[q].call.op \in {"update", "hireStatus"}, req[q].pc \in {"personality", "write"}
                     PROVE  req[q].call.id \in HireIds /\ req[q].call.id # r
          OBVIOUS
        <5>1. req[q].call \in Calls /\ Stands(q) /\ req[q].pc # "new"
          BY <1>1, RunningRequest DEF IInv, RequestsStand
        <5>2. hire[req[q].call.id] # Nothing /\ req[q].call.id \in HireIds
          BY <5>1, CallTypes DEF Stands
        <5> QED BY <1>1, <5>2
      <4> QED BY <1>0, <2>1, <2>5, <4>1 DEF OwnersOf, EmailTaken
    <3> QED BY <2>1, <2>2, <2>6, <3>1, <3>2, WriterStands
  <2>8. Born'
    <3>1. Inserted(r)'
      BY <1>0, <1>1, <2>1 DEF Inserted, Op
    <3> QED BY <1>0, <1>1, <2>2, <2>5, <3>1, BornKept DEF IInv, HireIds
  <2>9. Hires' = Hires \cup {r} /\ r \notin Hires
    BY <1>1, <2>4, <2>5 DEF Hires
  <2>10. Unique'
    <3>1. \A i, j \in Hires' :
            hire'[i].client = hire'[j].client /\ hire'[i].agent = hire'[j].agent => i = j
      <4>1. \A i \in Hires : hire'[i] = hire[i]
        BY <2>5, <2>9 DEF Hires
      <4>2. \A i \in Hires : ~(hire[i].client = new.client /\ hire[i].agent = new.agent)
        BY <1>3, <2>4 DEF HiredBefore
      <4> QED BY <2>5, <2>9, <4>1, <4>2 DEF IInv, Unique
    <3> QED BY <1>0, <3>1 DEF IInv, Unique
  <2>11. HiresFit'
    <3> SUFFICES ASSUME NEW i \in Hires'
                 PROVE  /\ status[hire'[i].client] # "none"
                        /\ hire'[i].currency = currency[hire'[i].client] \/ hire'[i].client \in converted
                        /\ hire'[i].phone # Nothing => OwnersOf(hire[i].phone)' = {hire'[i].client}
      BY <1>0 DEF HiresFit
    <3>1. OwnersOf(hire[i].phone)' = {p.client : p \in {q \in phones : q.number = hire'[i].phone}}
      BY <1>0 DEF OwnersOf
    <3>2. CASE i = r
      BY <2>3, <2>4, <2>5, <3>1, <3>2 DEF OwnersOf
    <3>3. CASE i # r
      <4>1. i \in Hires /\ hire'[i] = hire[i]
        BY <2>5, <2>9, <3>3 DEF Hires
      <4> QED BY <3>1, <4>1 DEF IInv, HiresFit, OwnersOf
    <3> QED BY <3>2, <3>3
  <2>12. PhonesUsed'
    <3> SUFFICES ASSUME NEW p \in phones \ InitialPhones
                 PROVE  \/ \E i \in Hires' : hire'[i].client = p.client /\ hire'[i].phone = p.number
                        \/ \E q \in Requests : /\ Op(q, "hire")' /\ req'[q].pc # "ok"
                                               /\ req'[q].call.client = p.client /\ req'[q].call.phone = p.number
      BY <1>0 DEF PhonesUsed, IInv
    <3>1. CASE \E i \in Hires : hire[i].client = p.client /\ hire[i].phone = p.number
      <4>1. PICK i \in Hires : hire[i].client = p.client /\ hire[i].phone = p.number
        BY <3>1
      <4>2. i \in Hires' /\ hire'[i] = hire[i]
        BY <2>5, <2>9 DEF Hires
      <4> QED BY <4>1, <4>2
    <3>2. ASSUME NEW q \in Requests, Op(q, "hire"), req[q].pc # "ok",
                 req[q].call.client = p.client, req[q].call.phone = p.number
          PROVE  \/ \E i \in Hires' : hire'[i].client = p.client /\ hire'[i].phone = p.number
                 \/ /\ Op(q, "hire")' /\ req'[q].pc # "ok"
                    /\ req'[q].call.client = p.client /\ req'[q].call.phone = p.number
      <4>1. CASE q = r
        BY <2>4, <2>5, <2>9, <3>2, <4>1
      <4>2. CASE q # r
        BY <2>1, <3>2, <4>2 DEF Op
      <4> QED BY <4>1, <4>2
    <3> QED BY <3>1, <3>2 DEF IInv, PhonesUsed
  <2> QED BY <2>6, <2>7, <2>8, <2>10, <2>11, <2>12 DEF IInv
<1> QED BY <1>2, <1>3 DEF InsertHire


\* All of an onboarding is there at once.
LEMMA CommitStep == ASSUME IInv, NEW r \in Requests, Commit(r) PROVE IInv'
<1> DEFINE call == req[r].call
           new == NewHire(r, r, SnapshotCurrency(r))
           n == call.phone
           phone == [number |-> n, client |-> r]
           user == [email |-> call.email, client |-> r]
<1>0. /\ req[r].pc = "commit" /\ req[r].pc \in Pcs \ (Ended \cup {"publish"}) /\ call.op = "onboard"
      /\ status' = [status EXCEPT ![r] = "active"]
      /\ currency' = [currency EXCEPT ![r] = call.currency]
      /\ users' = users \cup {user}
      /\ phones' = IF n = Nothing THEN phones ELSE phones \cup {phone}
      /\ hire' = [hire EXCEPT ![r] = new]
      /\ Goto(r, "publish") /\ UNCHANGED <<converted, faults>>
  BY DEF Commit, Op, Pcs, Ended, Answers
<1>1. /\ Types /\ Stands(r) /\ req[r] \in Request /\ call \in Calls /\ req[r].pc # "new"
      /\ status[r] = "none" /\ hire[r] = Nothing
  BY <1>0, Served
<1>2. /\ req' \in [Requests -> AnyRequest] /\ req'[r].pc = "publish" /\ req'[r].call = req[r].call
      /\ \A q \in Requests \ {r} : req'[q] = req[q]
  <2>1. "publish" \in Pcs
    BY DEF Pcs
  <2> QED BY <1>0, <1>1, <2>1, GotoType
<1>3. \A q \in Requests \ {r} : Kept(q)
  BY <1>2 DEF Kept
<1>4. /\ r \in ClientIds /\ r \in Things /\ r \in HireIds
      /\ call.email \in Emails /\ call.currency \in Currencies /\ n \in Phones \cup {Nothing}
  BY <1>0, <1>1, CallTypes DEF ClientIds, Things, HireIds
<1>5. /\ new \in Hire /\ new # Nothing /\ new.client = r /\ new.agent = call.agent
      /\ new.phone = n /\ new.currency = call.currency
  <2>1. new \in Hire
    BY <1>0, <1>1, <1>4, CallTypes DEF NewHire, SnapshotCurrency, Hire, Statuses
  <2> QED BY <2>1, SubscriptionsAssumption DEF NewHire, SnapshotCurrency
<1> HIDE DEF new
<1>6. /\ \A x \in Things : status'[x] = IF x = r THEN "active" ELSE status[x]
      /\ \A c \in ClientIds : currency'[c] = IF c = r THEN call.currency ELSE currency[c]
      /\ \A i \in HireIds : hire'[i] = IF i = r THEN new ELSE hire[i]
  BY <1>0, <1>1 DEF Types, TypeOK
<1>7. Types'
  <2>1. /\ status' \in [Things -> Statuses \cup {"none"}] /\ currency' \in [ClientIds -> Currencies]
        /\ hire' \in [HireIds -> Hire \cup {Nothing}]
    BY <1>0, <1>1, <1>4, <1>5 DEF Types, TypeOK, Statuses
  <2>2. users' \subseteq UserRow /\ phones' \subseteq PhoneRow
    BY <1>0, <1>1, <1>4 DEF Types, TypeOK, UserRow, PhoneRow
  <2> QED BY <1>0, <1>1, <1>2, <2>1, <2>2 DEF Types, TypeOK
<1>8. RowsKept
  <2>1. Requests \subseteq HireIds /\ ClientIds \subseteq Things
    BY DEF HireIds, Things
  <2> QED BY <1>0, <1>1, <1>6, <2>1 DEF RowsKept
<1>9. /\ ~EmailTaken(call.email)
      /\ n # Nothing => OwnersOf(n) = {}
      /\ InTransaction(r) /\ (n # Nothing => Commits(r))
  BY <1>0, <1>1 DEF Stands, InTransaction, Op, Commits
<1>10. ASSUME NEW q \in Requests \ {r}
       PROVE  /\ req[q].pc = "commit" /\ req[q].call.phone # Nothing =>
                   OwnersOf(req[q].call.phone)' = OwnersOf(req[q].call.phone)
              /\ InTransaction(q) => (EmailTaken(req[q].call.email)' <=> EmailTaken(req[q].call.email))
              /\ req[q].call.op = "status" /\ req[q].pc = "write" =>
                   \/ status'[req[q].call.id] # "archived"
                   \/ status'[req[q].call.id] = status[req[q].call.id]
              /\ req[q].call.op \in {"update", "hireStatus"} /\ req[q].pc \in {"personality", "write"} =>
                   hire'[req[q].call.id] = hire[req[q].call.id]
  <2>0. Stands(q) /\ req'[q] = req[q]
    BY <1>2 DEF IInv, RequestsStand
  <2>1. ASSUME req[q].pc = "commit", req[q].call.phone # Nothing
        PROVE  OwnersOf(req[q].call.phone)' = OwnersOf(req[q].call.phone)
    <3>1. req[q].call \in Calls /\ req[q].pc # "new" /\ req[q].call.op \in {"hire", "onboard"}
      <4>1. req[q].call \in Calls /\ req[q].pc # "new"
        BY <1>1, <2>1, RunningRequest
      <4> QED BY <2>0, <2>1, <4>1, CallTypes, StagesArePcs DEF Stands, Stages, Ended, Answers
    <3>2. CASE n = Nothing
      BY <1>0, <2>0, <3>2 DEF OwnersOf
    <3>3. CASE n # Nothing
      <4>1. req[q].call.phone # n
        <5>1. CASE req[q].call.op = "hire"
          BY <1>9, <2>0, <2>1, <3>1, <3>3, <5>1 DEF Stands
        <5>2. CASE req[q].call.op = "onboard"
          BY <1>9, <2>1, <3>1, <3>3, <5>2 DEF Commits, Op, Exclusive, IInv
        <5> QED BY <3>1, <5>1, <5>2
      <4>2. phones' = phones \cup {phone}
        BY <1>0, <3>3
      <4> QED BY <2>0, <4>1, <4>2, OtherOwners
    <3> QED BY <3>2, <3>3
  <2>2. ASSUME InTransaction(q) PROVE EmailTaken(req[q].call.email)' <=> EmailTaken(req[q].call.email)
    <3>1. req[q].call.email # call.email
      BY <1>9, <2>2 DEF Exclusive, IInv
    <3> QED BY <1>0, <2>0, <3>1 DEF EmailTaken
  <2>3. ASSUME req[q].call.op = "status", req[q].pc = "write"
        PROVE  \/ status'[req[q].call.id] # "archived"
               \/ status'[req[q].call.id] = status[req[q].call.id]
    <3>1. req[q].call.id \in Things
      BY <1>1, <2>3, RunningRequest, CallTypes
    <3> QED BY <1>6, <3>1
  <2>4. ASSUME req[q].call.op \in {"update", "hireStatus"}, req[q].pc \in {"personality", "write"}
        PROVE  hire'[req[q].call.id] = hire[req[q].call.id]
    <3>1. req[q].call \in Calls /\ req[q].pc # "new"
      BY <1>1, <2>4, RunningRequest
    <3>2. req[q].call.id \in HireIds /\ hire[req[q].call.id] # Nothing
      BY <2>0, <2>4, <3>1, CallTypes DEF Stands
    <3> QED BY <1>1, <1>6, <3>2
  <2> QED BY <2>1, <2>2, <2>3, <2>4
<1>11. RequestsStand' /\ Exclusive'
  <2>1. ~InTransaction(r)' /\ ~Commits(r)'
    BY <1>2 DEF InTransaction, Commits
  <2> QED BY <1>0, <1>2, <1>3, <1>8, <1>10, <2>1, WriterStands
<1>12. Born'
  <2>1. Committed(r)' /\ Inserted(r)'
    BY <1>0, <1>2 DEF Committed, Inserted, Op
  <2>2. \A q \in Requests \ {r} : status'[q] = status[q] /\ hire'[q] = hire[q]
    BY <1>6 DEF Things, ClientIds, HireIds
  <2> QED BY <1>3, <2>1, <2>2, BornKept DEF IInv
<1>13. Hires' = Hires \cup {r} /\ r \notin Hires /\ hire'[r] = new /\ \A i \in Hires : hire'[i] = hire[i]
  BY <1>1, <1>4, <1>5, <1>6 DEF Hires
<1>14. \A i \in Hires : hire[i].client # r /\ hire[i].client \in ClientIds /\ hire[i].client \in Things
  BY <1>1 DEF IInv, HiresFit, Hires, Types, TypeOK, Hire, Things
<1>15. Unique'
  <2>1. \A u, v \in users' : u.email = v.email => u = v
    BY <1>0, <1>9 DEF EmailTaken, IInv, Unique
  <2>2. \A p, q \in phones' : p.number = q.number => p = q
    BY <1>0, <1>9, PhoneInserted DEF IInv, Unique
  <2>3. \A i, j \in Hires' :
          hire'[i].client = hire'[j].client /\ hire'[i].agent = hire'[j].agent => i = j
    BY <1>5, <1>13, <1>14 DEF IInv, Unique
  <2> QED BY <2>1, <2>2, <2>3 DEF Unique
<1>16. HiresFit'
  <2> SUFFICES ASSUME NEW i \in Hires'
               PROVE  /\ status'[hire'[i].client] # "none"
                      /\ hire'[i].currency = currency'[hire'[i].client] \/ hire'[i].client \in converted'
                      /\ hire'[i].phone # Nothing => OwnersOf(hire[i].phone)' = {hire'[i].client}
    BY DEF HiresFit
  <2>1. OwnersOf(hire[i].phone)' = {p.client : p \in {q \in phones' : q.number = hire'[i].phone}}
    BY DEF OwnersOf
  <2>2. CASE i = r
    <3>1. n # Nothing => OwnersOf(n)' = {r} /\ OwnersOf(n)' = {p.client : p \in {q \in phones' : q.number = n}}
      <4> SUFFICES ASSUME n # Nothing
                   PROVE  OwnersOf(n)' = {r} /\ OwnersOf(n)' = {p.client : p \in {q \in phones' : q.number = n}}
        OBVIOUS
      <4>1. {q \in phones' : q.number = n} = {phone}
        BY <1>0, <1>9 DEF OwnersOf
      <4>2. {p.client : p \in {phone}} = {r}
        OBVIOUS
      <4>3. OwnersOf(n)' = {p.client : p \in {q \in phones' : q.number = n}}
        BY <1>2 DEF OwnersOf
      <4> QED BY <4>1, <4>2, <4>3
    <3>2. status'[r] # "none" /\ currency'[r] = call.currency
      BY <1>4, <1>6
    <3> QED BY <1>5, <1>13, <2>1, <2>2, <3>1, <3>2
  <2>3. CASE i # r
    <3>1. i \in Hires /\ hire'[i] = hire[i] /\ hire[i].client # r
          /\ hire[i].client \in ClientIds /\ hire[i].client \in Things
      BY <1>13, <1>14, <2>3
    <3>2. status'[hire[i].client] = status[hire[i].client] /\ currency'[hire[i].client] = currency[hire[i].client]
      BY <1>6, <3>1
    <3>3. hire[i].phone # Nothing => OwnersOf(hire[i].phone)' = OwnersOf(hire[i].phone)
      <4> SUFFICES ASSUME hire[i].phone # Nothing
                   PROVE  {q \in phones' : q.number = hire[i].phone} = {q \in phones : q.number = hire[i].phone}
        BY <2>1, <3>1 DEF OwnersOf
      <4>1. n # Nothing => hire[i].phone # n
        BY <1>9, <3>1 DEF IInv, HiresFit
      <4> HIDE DEF n
      <4> QED BY <1>0, <4>1
    <3> QED BY <1>0, <3>1, <3>2, <3>3 DEF IInv, HiresFit
  <2> QED BY <2>2, <2>3
<1>17. PhonesUsed'
  <2> SUFFICES ASSUME NEW p \in phones' \ InitialPhones
               PROVE  /\ status'[p.client] # "none"
                      /\ \/ \E i \in Hires' : hire'[i].client = p.client /\ hire'[i].phone = p.number
                         \/ \E q \in Requests : /\ Op(q, "hire")' /\ req'[q].pc # "ok"
                                                /\ req'[q].call.client = p.client /\ req'[q].call.phone = p.number
    BY DEF PhonesUsed
  <2>1. CASE p \in phones
    <3>1. p.client \in Things /\ status[p.client] # "none"
      BY <1>1, <2>1 DEF IInv, PhonesUsed, Types, TypeOK, PhoneRow, Things
    <3>2. status'[p.client] # "none"
      BY <1>6, <3>1
    <3>3. CASE \E i \in Hires : hire[i].client = p.client /\ hire[i].phone = p.number
      BY <1>13, <3>2, <3>3
    <3>4. ASSUME NEW q \in Requests, Op(q, "hire"), req[q].pc # "ok",
                 req[q].call.client = p.client, req[q].call.phone = p.number
          PROVE  /\ Op(q, "hire")' /\ req'[q].pc # "ok"
                 /\ req'[q].call.client = p.client /\ req'[q].call.phone = p.number
      BY <1>0, <1>2, <3>4 DEF Op
    <3> QED BY <2>1, <3>2, <3>3, <3>4 DEF IInv, PhonesUsed
  <2>2. CASE p \notin phones
    <3>1. p = phone /\ n # Nothing
      BY <1>0, <2>2
    <3>2. p.client = r /\ p.number = n
      BY <3>1
    <3>3. r \in Hires' /\ hire'[r].client = p.client /\ hire'[r].phone = p.number
      BY <1>5, <1>13, <3>2
    <3> QED BY <1>4, <1>6, <3>2, <3>3
  <2> QED BY <2>1, <2>2
<1> QED BY <1>7, <1>11, <1>12, <1>15, <1>16, <1>17 DEF IInv


LEMMA InsertUserStep == ASSUME IInv, NEW r \in Requests, InsertUser(r) PROVE IInv'
<1> DEFINE call == req[r].call
           user == [email |-> call.email, client |-> call.client]
<1>0. /\ req[r].pc = "newuser" /\ req[r].pc \in Pcs \ (Ended \cup {"publish"})
      /\ ~EmailLocked(call.email)
      /\ UNCHANGED <<status, currency, hire, phones, converted, faults>>
  BY DEF InsertUser, Pcs, Ended, Answers
<1>1. /\ Types /\ Stands(r) /\ req[r] \in Request /\ call \in Calls /\ req[r].pc # "new"
      /\ req[r].pc \in Stages(call.op) /\ status[r] = "none" /\ hire[r] = Nothing
  BY <1>0, Served
<1>2. call.op = "user" /\ user \in UserRow
  BY <1>0, <1>1, CallTypes DEF Stages, UserRow
<1>3. CASE Goto(r, "500") /\ UNCHANGED users
  <2>1. UNCHANGED rows /\ faults' \in 0 .. MaxFaults /\ "500" \in Ended \ {"ok"}
    BY <1>0, <1>1, <1>3 DEF rows, Types, TypeOK, Ended, Answers
  <2> QED BY <1>0, <1>3, <2>1, QuietGoto
<1>4. CASE ~EmailTaken(call.email) /\ Goto(r, "ok") /\ users' = users \cup {user}
  <2>1. /\ req' \in [Requests -> AnyRequest] /\ req'[r].pc = "ok" /\ req'[r].call = call
        /\ \A q \in Requests \ {r} : req'[q] = req[q]
    <3>1. "ok" \in Pcs
      BY DEF Pcs, Ended, Answers
    <3> QED BY <1>1, <1>4, <3>1, GotoType
  <2>2. \A q \in Requests \ {r} : Kept(q)
    BY <2>1 DEF Kept
  <2>3. Types' /\ RowsKept
    BY <1>0, <1>1, <1>2, <1>4, <2>1 DEF Types, TypeOK, RowsKept
  <2>4. RequestsStand' /\ Exclusive'
    <3>1. ~InTransaction(r)' /\ ~Commits(r)' /\ req'[r].pc \in Ended
      BY <2>1 DEF InTransaction, Commits, Ended, Answers
    <3>2. ASSUME NEW q \in Requests \ {r}
          PROVE  /\ OwnersOf(req[q].call.phone)' = OwnersOf(req[q].call.phone)
                 /\ InTransaction(q) => (EmailTaken(req[q].call.email)' <=> EmailTaken(req[q].call.email))
                 /\ status'[req[q].call.id] = status[req[q].call.id]
                 /\ hire'[req[q].call.id] = hire[req[q].call.id]
      <4>1. InTransaction(q) => req[q].call.email # call.email
        BY <1>0 DEF EmailLocked
      <4> QED BY <1>0, <1>4, <2>1, <4>1 DEF OwnersOf, EmailTaken
    <3> QED BY <2>1, <2>2, <2>3, <3>1, <3>2, WriterStands
  <2>5. Born'
    BY <1>0, <1>1, <2>2, BornKept DEF IInv
  <2>6. HiresFit' /\ PhonesUsed'
    <3>1. ~Op(r, "hire")
      BY <1>2 DEF Op
    <3> QED BY <1>0, <1>1, <2>2, <2>3, <3>1, RowsStay DEF IInv
  <2>7. Unique'
    <3>1. \A u, v \in users' : u.email = v.email => u = v
      BY <1>4 DEF EmailTaken, IInv, Unique
    <3> QED BY <1>0, <3>1 DEF IInv, Unique, Hires
  <2> QED BY <2>3, <2>4, <2>5, <2>6, <2>7 DEF IInv
<1> QED BY <1>3, <1>4 DEF InsertUser

\* A request that changes a thing or a hire, and ends: the others only note it.
LEMMA WriteAndEndType ==
    ASSUME Types, NEW r \in Requests, req[r] \in Request, NEW x, WriteAndEnd(r, x)
    PROVE  /\ req' \in [Requests -> AnyRequest] /\ req'[r].pc = "ok" /\ req'[r].call = req[r].call
           /\ \A q \in Requests \ {r} :
                /\ Kept(q) /\ (req[q].pc # "new" => req'[q].call = req[q].call)
                /\ req[q].pc \in {"personality", "write"} /\ req'[q].steady => req[q].call.id # x
<1>1. [req[r] EXCEPT !.pc = "ok"] \in Request /\ [req[r] EXCEPT !.pc = "ok"].call = req[r].call
  BY DEF Request, Pcs, Ended, Answers
<1>2. ASSUME NEW q \in Requests
      PROVE  /\ Unsteady(req[q], x) \in AnyRequest /\ Unsteady(req[q], x).pc = req[q].pc
             /\ req[q].pc # "new" => /\ Unsteady(req[q], x).call = req[q].call
                                     /\ Unsteady(req[q], x).currency = req[q].currency
                                     /\ Unsteady(req[q], x).steady => req[q].steady
             /\ req[q].pc \in {"personality", "write"} /\ Unsteady(req[q], x).steady =>
                  req[q].call.id # x
  <2>1. req[q] \in AnyRequest
    BY DEF Types
  <2>2. CASE req[q].pc \in {"personality", "write"} /\ req[q].call.id = x
    <3>1. req[q] \in Request
      BY <2>1, <2>2 DEF AnyRequest
    <3>2. Unsteady(req[q], x) = [req[q] EXCEPT !.steady = FALSE]
      BY <2>2 DEF Unsteady
    <3>3. /\ [req[q] EXCEPT !.steady = FALSE] \in Request
          /\ [req[q] EXCEPT !.steady = FALSE].pc = req[q].pc
          /\ [req[q] EXCEPT !.steady = FALSE].call = req[q].call
          /\ [req[q] EXCEPT !.steady = FALSE].currency = req[q].currency
          /\ [req[q] EXCEPT !.steady = FALSE].steady = FALSE
      BY <3>1 DEF Request
    <3> QED BY <3>2, <3>3 DEF AnyRequest
  <2>3. CASE ~(req[q].pc \in {"personality", "write"} /\ req[q].call.id = x)
    BY <2>1, <2>3 DEF Unsteady
  <2> QED BY <2>2, <2>3
<1>3. req' = [q \in Requests |-> IF q = r THEN [req[r] EXCEPT !.pc = "ok"] ELSE Unsteady(req[q], x)]
  BY DEF WriteAndEnd
<1>4. req' \in [Requests -> AnyRequest]
  BY <1>1, <1>2, <1>3 DEF AnyRequest
<1>5. [req[r] EXCEPT !.pc = "ok"].pc = "ok"
  BY DEF Request
<1>6. \A q \in Requests \ {r} : req'[q] = Unsteady(req[q], x)
  BY <1>3
<1> QED BY <1>1, <1>2, <1>3, <1>4, <1>5, <1>6 DEF Kept

\* A step that changes the state of something and ends, by what it does to the rows.
LEMMA ChangeStep ==
    ASSUME IInv, NEW r \in Requests, req[r].pc = "write",
           req[r].call.op \in {"status", "currency", "update", "hireStatus"},
           UNCHANGED <<phones, users, faults>>, Types', RowsKept,
           req'[r].pc = "ok", req'[r].call = req[r].call,
           \A q \in Requests \ {r} : /\ Kept(q) /\ (req[q].pc # "new" => req'[q].call = req[q].call)
                                     /\ status'[q] # "none" => status[q] # "none",
           status'[r] = status[r],
           \A i \in HireIds : hire'[i] # Nothing => hire[i] # Nothing,
           \A q \in Requests \ {r} :
             /\ req[q].call.op = "status" /\ req[q].pc = "write" /\ req'[q].steady =>
                  status'[req[q].call.id] = status[req[q].call.id]
             /\ req[q].call.op \in {"update", "hireStatus"} /\ req[q].pc \in {"personality", "write"}
                  /\ req'[q].steady =>
                  hire'[req[q].call.id].status = hire[req[q].call.id].status
    PROVE  IInv'
<1>0. req[r].pc \in Pcs \ (Ended \cup {"publish"})
  BY DEF Pcs, Ended, Answers
<1>1. /\ Types /\ Stands(r) /\ req[r] \in Request /\ req[r].call \in Calls /\ req[r].pc # "new"
      /\ status[r] = "none" /\ hire[r] = Nothing
  BY <1>0, Served
<1>2. RequestsStand' /\ Exclusive'
  <2>1. ~InTransaction(r)' /\ ~Commits(r)' /\ req'[r].pc \in Ended
    BY DEF InTransaction, Commits, Ended, Answers
  <2>2. ASSUME NEW q \in Requests \ {r}
        PROVE  /\ req[q].pc = "commit" /\ req[q].call.phone # Nothing =>
                    OwnersOf(req[q].call.phone)' = OwnersOf(req[q].call.phone)
               /\ InTransaction(q) => (EmailTaken(req[q].call.email)' <=> EmailTaken(req[q].call.email))
    BY DEF OwnersOf, EmailTaken, InTransaction, Op
  <2>3. \A q \in Requests \ {r} : Kept(q)
    OBVIOUS
  <2> QED BY <2>1, <2>2, <2>3, WriterStands
<1>3. Born'
  BY <1>1, BornKept DEF IInv, HireIds
<1>4. /\ HiresFit' /\ PhonesUsed'
      /\ \A i, j \in Hires' :
           hire'[i].client = hire'[j].client /\ hire'[i].agent = hire'[j].agent => i = j
  <2>1. ~Op(r, "hire")
    BY DEF Op
  <2> QED BY <1>1, <2>1, RowsStay DEF IInv
<1>5. Unique'
  BY <1>4 DEF IInv, Unique
<1> QED BY <1>2, <1>3, <1>4, <1>5 DEF IInv

LEMMA WriteThingStep == ASSUME IInv, NEW r \in Requests, WriteThing(r) PROVE IInv'
<1> DEFINE call == req[r].call
<1>0. /\ req[r].pc = "write" /\ req[r].pc \in Pcs \ (Ended \cup {"publish"}) /\ call.op = "status"
      /\ status' = [status EXCEPT ![call.id] = call.to] /\ WriteAndEnd(r, call.id)
      /\ UNCHANGED <<currency, hire, phones, users, converted, faults>>
  BY DEF WriteThing, Op, Pcs, Ended, Answers
<1>1. /\ Types /\ Stands(r) /\ req[r] \in Request /\ call \in Calls /\ req[r].pc # "new"
      /\ status[r] = "none"
  BY <1>0, Served
<1>2. call.id \in Things /\ call.to \in Statuses /\ status[call.id] # "none"
  BY <1>0, <1>1, CallTypes DEF Stands
<1>3. /\ req' \in [Requests -> AnyRequest] /\ req'[r].pc = "ok" /\ req'[r].call = call
      /\ \A q \in Requests \ {r} :
           /\ Kept(q) /\ (req[q].pc # "new" => req'[q].call = req[q].call)
           /\ req[q].pc \in {"personality", "write"} /\ req'[q].steady => req[q].call.id # call.id
  BY <1>0, <1>1, WriteAndEndType
<1>4. \A x : x # call.id => status'[x] = status[x]
  BY <1>0
<1>5. status' \in [Things -> Statuses \cup {"none"}] /\ status'[call.id] = call.to /\ call.to # "none"
  BY <1>0, <1>1, <1>2 DEF Types, TypeOK, Statuses
<1>6. Types' /\ RowsKept
  BY <1>0, <1>1, <1>3, <1>4, <1>5 DEF Types, TypeOK, RowsKept
<1>7. status'[r] = status[r] /\ \A q \in Requests : status'[q] # "none" => status[q] # "none"
  BY <1>1, <1>2, <1>4
<1> HIDE DEF call
<1> QED BY <1>0, <1>3, <1>4, <1>6, <1>7, ChangeStep DEF call

LEMMA WriteCurrencyStep == ASSUME IInv, NEW r \in Requests, WriteCurrency(r) PROVE IInv'
<1> DEFINE call == req[r].call
<1>0. /\ req[r].pc = "write" /\ req[r].pc \in Pcs \ (Ended \cup {"publish"}) /\ call.op = "currency"
      /\ currency' = [currency EXCEPT ![call.id] = call.to] /\ converted' = converted \cup {call.id}
      /\ Goto(r, "ok") /\ UNCHANGED <<status, hire, phones, users, faults>>
  BY DEF WriteCurrency, Op, Pcs, Ended, Answers
<1>1. Types /\ Stands(r) /\ req[r] \in Request /\ call \in Calls /\ req[r].pc # "new"
  BY <1>0, Served
<1>2. call.id \in ClientIds /\ call.to \in Currencies
  BY <1>0, <1>1, CallTypes
<1>3. /\ req' \in [Requests -> AnyRequest] /\ req'[r].pc = "ok" /\ req'[r].call = call
      /\ \A q \in Requests \ {r} : req'[q] = req[q] /\ Kept(q)
  <2>1. "ok" \in Pcs
    BY DEF Pcs, Ended, Answers
  <2> QED BY <1>0, <1>1, <2>1, GotoType DEF Kept
<1>4. Types' /\ RowsKept
  BY <1>0, <1>1, <1>2, <1>3 DEF Types, TypeOK, RowsKept
<1> QED BY <1>0, <1>3, <1>4, ChangeStep

LEMMA WriteHireStep ==
    ASSUME IInv, NEW r \in Requests, WriteHire(r) \/ WriteTerms(r) PROVE IInv'
<1> DEFINE call == req[r].call
           changed == IF call.op = "hireStatus" THEN [hire[call.id] EXCEPT !.status = call.to]
                      ELSE [hire[call.id] EXCEPT !.personality = call.personality]
<1>0. /\ req[r].pc = "write" /\ req[r].pc \in Pcs \ (Ended \cup {"publish"})
      /\ call.op \in {"hireStatus", "update"}
      /\ UNCHANGED <<status, currency, phones, users, converted, faults>>
  BY DEF WriteHire, WriteTerms, Op, Pcs, Ended, Answers
<1>1. Types /\ Stands(r) /\ req[r] \in Request /\ call \in Calls /\ req[r].pc # "new"
  BY <1>0, Served
<1>2. call.id \in HireIds /\ hire[call.id] # Nothing /\ hire[call.id] \in Hire
  BY <1>0, <1>1, CallTypes DEF Stands, Types, TypeOK
<1>3. /\ changed \in Hire /\ changed.client = hire[call.id].client /\ changed.agent = hire[call.id].agent
      /\ changed.phone = hire[call.id].phone /\ changed.currency = hire[call.id].currency
      /\ call.op = "update" => changed.status = hire[call.id].status
  <2>1. CASE call.op = "hireStatus"
    BY <1>1, <1>2, <2>1, CallTypes DEF Hire
  <2>2. CASE call.op = "update"
    BY <1>1, <1>2, <2>2, CallTypes DEF Hire
  <2> QED BY <1>0, <2>1, <2>2
<1>4. hire' = [hire EXCEPT ![call.id] = changed]
  <2>1. CASE WriteHire(r)
    BY <1>1, <1>2, <2>1 DEF WriteHire, Op, Types, TypeOK
  <2>2. CASE WriteTerms(r)
    BY <1>1, <1>2, <2>2 DEF WriteTerms, Op, Types, TypeOK
  <2> QED BY <2>1, <2>2
<1> HIDE DEF changed
<1>5. /\ req' \in [Requests -> AnyRequest] /\ req'[r].pc = "ok" /\ req'[r].call = call
      /\ \A q \in Requests \ {r} : Kept(q) /\ (req[q].pc # "new" => req'[q].call = req[q].call)
      /\ call.op = "hireStatus" => \A q \in Requests \ {r} :
           req[q].pc \in {"personality", "write"} /\ req'[q].steady => req[q].call.id # call.id
  <2>1. CASE WriteHire(r)
    <3>1. WriteAndEnd(r, call.id)
      BY <2>1 DEF WriteHire
    <3> QED BY <1>1, <3>1, WriteAndEndType
  <2>2. CASE WriteTerms(r)
    <3>1. "ok" \in Pcs
      BY DEF Pcs, Ended, Answers
    <3> QED BY <1>1, <2>2, <3>1, GotoType DEF Kept, WriteTerms, Op
  <2> QED BY <2>1, <2>2
<1>6. /\ hire' \in [HireIds -> Hire \cup {Nothing}] /\ hire'[call.id] = changed
      /\ \A i : i # call.id => hire'[i] = hire[i]
  BY <1>1, <1>2, <1>3, <1>4 DEF Types, TypeOK
<1>7. changed # Nothing
  BY <1>3, SubscriptionsAssumption
<1>8. Types' /\ RowsKept
  BY <1>0, <1>1, <1>2, <1>3, <1>5, <1>6, <1>7 DEF Types, TypeOK, RowsKept
<1>9. \A i \in HireIds : hire'[i] # Nothing => hire[i] # Nothing
  BY <1>2, <1>6
<1>10. ASSUME NEW q \in Requests \ {r}, req[q].pc \in {"personality", "write"}, req'[q].steady
       PROVE  hire'[req[q].call.id].status = hire[req[q].call.id].status
  BY <1>0, <1>3, <1>5, <1>6, <1>10
<1> HIDE DEF call
<1> QED BY <1>0, <1>5, <1>8, <1>9, <1>10, ChangeStep DEF call

------------------------------------------------------------------------------
(* The invariant *)

LEMMA InitInv == Init => IInv
<1> SUFFICES ASSUME Init PROVE IInv
  OBVIOUS
<1>1. /\ \A r \in Requests : req[r] = [pc |-> "new"]
      /\ \A r \in Requests : r \in Things /\ r \in HireIds /\ r \notin Hired /\ status[r] = "none"
                             /\ hire[r] = Nothing
      /\ \A c \in Clients : c \in ClientIds /\ status[c] = "active" /\ currency[c] = InitialCurrency[c]
      /\ Hires = {i \in Hired : InitialHires[i] # Nothing}
      /\ \A i \in Hires : hire[i] = InitialHires[i] /\ i \in Hired
      /\ phones = InitialPhones /\ users = InitialUsers
  BY SubscriptionsAssumption DEF Init, Things, ClientIds, HireIds, Hires
<1>2. Types
  <2>1. status \in [Things -> Statuses \cup {"none"}]
    BY DEF Init, Statuses
  <2>2. hire \in [HireIds -> Hire \cup {Nothing}]
    BY SubscriptionsAssumption DEF Init, HireIds
  <2> QED BY <2>1, <2>2, SubscriptionsAssumption DEF Init, Types, TypeOK, AnyRequest
<1>3. RequestsStand /\ Born /\ Exclusive
  BY <1>1 DEF RequestsStand, Stands, Born, Exclusive, InTransaction, Commits, Op
<1>4. Unique
  <2>1. /\ \A u, v \in users : u.email = v.email => u = v
        /\ \A p, q \in phones : p.number = q.number => p = q
    BY <1>1, InitialAssumption
  <2>2. ASSUME NEW i \in Hires, NEW j \in Hires,
               hire[i].client = hire[j].client, hire[i].agent = hire[j].agent
        PROVE  i = j
    <3>1. /\ InitialHires[i].client = InitialHires[j].client /\ InitialHires[i].agent = InitialHires[j].agent
          /\ i \in Hired /\ InitialHires[i] # Nothing /\ j \in Hired /\ InitialHires[j] # Nothing
      BY <1>1, <2>2
    <3> QED BY <3>1, InitialAssumption
  <2> QED BY <2>1, <2>2 DEF Unique
<1>5. HiresFit
  <2> SUFFICES ASSUME NEW i \in Hires
               PROVE  /\ status[hire[i].client] # "none" /\ hire[i].currency = currency[hire[i].client]
                      /\ hire[i].phone # Nothing => OwnersOf(hire[i].phone) = {hire[i].client}
    BY DEF HiresFit
  <2>1. /\ hire[i].client \in Clients /\ hire[i].currency = InitialCurrency[hire[i].client]
        /\ hire[i].phone # Nothing => [number |-> hire[i].phone, client |-> hire[i].client] \in phones
    BY <1>1, InitialAssumption
  <2>2. \A p, q \in phones : p.number = q.number => p = q
    BY <1>1, InitialAssumption
  <2>3. hire[i].phone # Nothing => OwnersOf(hire[i].phone) = {hire[i].client}
    <3> DEFINE p == [number |-> hire[i].phone, client |-> hire[i].client]
    <3> SUFFICES ASSUME hire[i].phone # Nothing
                 PROVE  OwnersOf(hire[i].phone) = {p.client}
      OBVIOUS
    <3>1. p \in phones /\ p.number = hire[i].phone
      BY <2>1
    <3> HIDE DEF p
    <3>2. {q \in phones : q.number = hire[i].phone} = {p}
      BY <2>2, <3>1
    <3> QED BY <3>2 DEF OwnersOf
  <2> QED BY <1>1, <2>1, <2>3
<1>6. PhonesUsed
  BY <1>1 DEF PhonesUsed
<1> QED BY <1>2, <1>3, <1>4, <1>5, <1>6 DEF IInv

LEMMA Stutter == ASSUME IInv, UNCHANGED vars PROVE IInv'
<1> USE DEF vars, IInv
<1>1. Types' /\ Unique'
  BY DEF Types, TypeOK, Unique, Hires
<1>2. \A r \in Requests : Stands(r)'
  BY DEF RequestsStand, Stands, InTransaction, Op, EmailTaken, OwnersOf
<1>3. Born' /\ Exclusive'
  BY DEF Born, Exclusive, Inserted, Committed, Commits, InTransaction, Op
<1>4. HiresFit' /\ PhonesUsed'
  BY DEF HiresFit, PhonesUsed, Hires, OwnersOf, Op
<1> QED BY <1>1, <1>2, <1>3, <1>4 DEF RequestsStand

LEMMA NextInv == ASSUME IInv, [Next]_vars PROVE IInv'
<1>1. ASSUME NEW r \in Requests, NEW call \in Calls, Call(r, call) PROVE IInv'
  BY <1>1, CallStep
<1>2. ASSUME NEW r \in Requests, Step(r) PROVE IInv'
  <2>1. CASE \/ ReadCatalogue(r) \/ CheckExisting(r) \/ FindPhone(r) \/ FindEmail(r) \/ FindPrice(r)
             \/ FindPhoneInTransaction(r) \/ InsertPhoneInTransaction(r) \/ Abort(r) \/ Publish(r)
             \/ ReadPersonality(r)
    BY <2>1, QuietSteps
  <2>2. CASE ReadThing(r)
    BY <2>2, ReadUnlessArchivedStep DEF ReadThing, Op
  <2>3. CASE ReadHire(r)
    BY <2>3, ReadUnlessArchivedStep DEF ReadHire, Op
  <2>4. CASE ReadHireToUpdate(r)
    BY <2>4, ReadUnlessArchivedStep DEF ReadHireToUpdate, Op
  <2>5. CASE ReadClient(r) \/ OpenTransaction(r)
    BY <2>5, ReadClientStep, OpenTransactionStep
  <2>6. CASE InsertPhone(r) \/ InsertHire(r) \/ Commit(r) \/ InsertUser(r)
    BY <2>6, InsertPhoneStep, InsertHireStep, CommitStep, InsertUserStep
  <2>7. CASE WriteThing(r) \/ WriteCurrency(r) \/ WriteHire(r) \/ WriteTerms(r)
    BY <2>7, WriteThingStep, WriteCurrencyStep, WriteHireStep
  <2> QED BY <1>2, <2>1, <2>2, <2>3, <2>4, <2>5, <2>6, <2>7 DEF Step
<1>3. ASSUME NEW r \in Requests, Die(r) PROVE IInv'
  BY <1>3, QuietSteps
<1>4. CASE UNCHANGED vars
  BY <1>4, Stutter
<1> QED BY <1>1, <1>2, <1>3, <1>4 DEF Next

LEMMA Inductive == Spec => []IInv
  BY InitInv, NextInv, PTL DEF Spec

------------------------------------------------------------------------------
(* What it shows *)

\* The collections keep the types of their schemas.
THEOREM TypeCorrect == Spec => []TypeOK
<1>1. IInv => TypeOK
  BY DEF IInv, Types
<1> QED BY <1>1, Inductive, PTL

\* However requests and transactions overlap: no email is two users', no phone number two
\* clients', and no agent is hired twice by a client.
THEOREM NothingTwice == Spec => []Unique
<1>1. IInv => Unique
  BY DEF IInv
<1> QED BY <1>1, Inductive, PTL

\* A hire's phone is its client's alone, and a phone that was added and no hire uses is that
\* of a hire request which has not succeeded: no onboarding leaves one.
THEOREM PhonesAreAccountedFor == Spec => []PhonesAccountedFor
<1>1. IInv => PhonesAccountedFor
  BY DEF IInv, HiresFit, PhonesUsed, PhonesAccountedFor
<1> QED BY <1>1, Inductive, PTL

\* A client's total can only fail for a client whose billing currency was changed: a hire that
\* is priced before and inserted after is no exception.
THEOREM MixedByConversion == Spec => []MixedOnlyByConversion
<1>1. IInv => MixedOnlyByConversion
  BY DEF IInv, HiresFit, TotalFails, MixedOnlyByConversion
<1> QED BY <1>1, Inductive, PTL

\* What is archived changes only by a request that had read it before it was archived.
THEOREM ArchivedStays == Spec => ArchivedUnlessRaced
<1> DEFINE Late == \E r \in Requests : req[r].pc = "write" /\ ~req[r].steady /\ req'[r].pc = "ok"
           Stays == /\ \A x \in Things : status[x] = "archived" => status'[x] = "archived"
                    /\ \A i \in Hires : hire[i].status = "archived" => hire'[i] = hire[i]
<1>1. ASSUME IInv, Next PROVE Late \/ Stays
  <2>1. CASE UNCHANGED <<status, hire>>
    BY <2>1
  <2>2. ASSUME NEW r \in Requests, Commit(r) \/ InsertHire(r) PROVE Late \/ Stays
    <3>1. status[r] = "none" /\ hire[r] = Nothing
      <4>1. req[r].pc \in Pcs \ (Ended \cup {"publish"})
        BY <2>2 DEF Commit, InsertHire, Pcs, Ended, Answers
      <4> QED BY <1>1, <4>1, Served
    <3>2. \A x \in Things : x # r => status'[x] = status[x]
      BY <1>1, <2>2 DEF IInv, Types, TypeOK, Commit, InsertHire
    <3>3. \A i \in Hires : i # r => hire'[i] = hire[i]
      BY <1>1, <2>2 DEF IInv, Types, TypeOK, Commit, InsertHire, Hires
    <3> QED BY <3>1, <3>2, <3>3 DEF Hires
  <2>3. ASSUME NEW r \in Requests, WriteThing(r) \/ WriteHire(r) \/ WriteTerms(r)
        PROVE  Late \/ Stays
    <3>1. /\ req[r].pc = "write" /\ Stands(r) /\ Types /\ req[r] \in Request
          /\ req[r].call.op \in {"status", "hireStatus", "update"}
      <4>1. req[r].pc \in Pcs \ (Ended \cup {"publish"}) /\ req[r].pc = "write"
        BY <2>3 DEF WriteThing, WriteHire, WriteTerms, Pcs, Ended, Answers
      <4> QED BY <1>1, <2>3, <4>1, Served DEF WriteThing, WriteHire, WriteTerms, Op
    <3>2. req'[r].pc = "ok"
      <4>1. CASE WriteThing(r) \/ WriteHire(r)
        BY <3>1, <4>1, WriteAndEndType DEF WriteThing, WriteHire
      <4>2. CASE WriteTerms(r)
        <5>1. req[r].pc # "new" /\ "ok" \in Pcs
          BY <3>1 DEF Pcs, Ended, Answers
        <5> QED BY <3>1, <4>2, <5>1, GotoType DEF WriteTerms
      <4> QED BY <2>3, <4>1, <4>2
    <3>3. CASE ~req[r].steady
      BY <3>1, <3>2, <3>3
    <3>4. CASE req[r].steady /\ WriteThing(r)
      <4>1. status[req[r].call.id] # "archived" /\ hire' = hire
            /\ \A x \in Things : x # req[r].call.id => status'[x] = status[x]
        BY <3>1, <3>4 DEF Stands, WriteThing, Op, Types, TypeOK
      <4> QED BY <4>1
    <3>5. CASE req[r].steady /\ (WriteHire(r) \/ WriteTerms(r))
      <4>1. req[r].call.op \in {"hireStatus", "update"} /\ status' = status
        BY <3>5 DEF WriteHire, WriteTerms, Op
      <4>2. hire[req[r].call.id].status # "archived"
        BY <3>1, <3>5, <4>1 DEF Stands
      <4>3. \A i \in Hires : i # req[r].call.id => hire'[i] = hire[i]
        BY <3>1, <3>5 DEF WriteHire, WriteTerms, Types, TypeOK, Hires
      <4> QED BY <4>1, <4>2, <4>3
    <3> QED BY <2>3, <3>3, <3>4, <3>5 DEF Request
  <2> HIDE DEF Late, Stays
  <2> QED BY <1>1, <2>1, <2>2, <2>3
          DEF Next, Step, Call, Die, ReadClient, ReadCatalogue, CheckExisting, FindPhone, InsertPhone,
              FindEmail, OpenTransaction, FindPrice, FindPhoneInTransaction, InsertPhoneInTransaction,
              Abort, Publish, InsertUser, ReadThing, WriteCurrency, ReadHire, ReadHireToUpdate,
              ReadUnlessArchived, ReadPersonality, rows
<1>2. IInv /\ [Next]_vars => [Late \/ Stays]_vars
  BY <1>1
<1> QED BY <1>2, Inductive, PTL DEF Spec, ArchivedUnlessRaced

================================================================================
