----------------------------- MODULE Subscriptions -----------------------------
(***************************************************************************)
(* Clients, their users, phones and hires: the requests of administrators  *)
(* and of onboarding.                                                      *)
(*                                                                         *)
(* A request is one call of an endpoint; each of its steps is one database *)
(* call.  Onboarding runs in a MongoDB transaction: what it has inserted   *)
(* is locked, not seen by others until the commit and gone if it ends      *)
(* otherwise.  The hire service has no transaction.  What a hire does      *)
(* next, to register its webhook, is in WebhookRegistration.               *)
(***************************************************************************)
EXTENDS Integers, FiniteSets

CONSTANTS
    Clients,       \* the clients there are at first
    Catalogue,     \* agents, personalities and users, of which only the status matters
    Agents,        \* the agents among them
    Currencies,
    Priced,        \* pairs of an agent and a currency with an active price
    Phones, Emails,
    Nothing,       \* no phone, no hire
    Hired,         \* ids of the hires there may be at first
    Requests,      \* concurrent requests; also the ids of what they insert
    Calls,         \* what they may ask for
    InitialHires, InitialPhones, InitialUsers,   \* the collections at first
    InitialCurrency,
    MaxRequests,   \* bound: requests in a behaviour
    MaxFaults      \* bound: failed calls and crashes in a behaviour

HireIds == Hired \cup Requests
ClientIds == Clients \cup Requests
Things == ClientIds \cup Catalogue
Statuses == {"active", "inactive", "archived"}
Hire == [client : ClientIds, agent : Agents, status : Statuses, currency : Currencies,
         phone : Phones \cup {Nothing}, personality : Catalogue]
PhoneRow == [number : Phones, client : ClientIds]
UserRow == [email : Emails, client : ClientIds]

ASSUME SubscriptionsAssumption ==
    /\ Agents \subseteq Catalogue /\ Priced \subseteq Agents \X Currencies
    /\ Hired \cap Requests = {} /\ Clients \cap Requests = {} /\ Catalogue \cap ClientIds = {}
    /\ Nothing \notin Phones \cup Hire
    /\ InitialHires \in [Hired -> Hire \cup {Nothing}] /\ InitialPhones \subseteq PhoneRow
    /\ InitialUsers \subseteq UserRow /\ InitialCurrency \in [Clients -> Currencies]
    /\ Currencies # {} /\ MaxRequests \in Nat /\ MaxFaults \in Nat

\* What the DTOs let through.
ASSUME CallsAssumption ==
    Calls \subseteq
      [op : {"hire"}, client : ClientIds, agent : Agents, personality : Catalogue,
       phone : Phones \cup {Nothing}, valid : BOOLEAN]
      \cup [op : {"onboard"}, email : Emails, agent : Agents, personality : Catalogue,
            phone : Phones \cup {Nothing}, currency : Currencies, valid : BOOLEAN]
      \cup [op : {"user"}, email : Emails, client : ClientIds]
      \cup [op : {"status"}, id : Things, to : Statuses]
      \cup [op : {"currency"}, id : ClientIds, to : Currencies]
      \cup [op : {"update"}, id : HireIds, personality : Catalogue]
      \cup [op : {"hireStatus"}, id : HireIds, to : Statuses]

\* The collections at first: the unique indexes hold, a hire is of a client there is, in its
\* currency and with its phone.
ASSUME InitialAssumption ==
    LET hired == {i \in Hired : InitialHires[i] # Nothing} IN
    /\ \A p, q \in InitialPhones : p.number = q.number => p = q
    /\ \A u, v \in InitialUsers : u.email = v.email => u = v
    /\ \A i \in hired : LET h == InitialHires[i] IN
         /\ h.client \in Clients /\ h.currency = InitialCurrency[h.client]
         /\ h.phone # Nothing => [number |-> h.phone, client |-> h.client] \in InitialPhones
         /\ \A j \in hired : h.client = InitialHires[j].client /\ h.agent = InitialHires[j].agent => i = j

VARIABLES
    status,     \* of clients, agents, personalities and users; "none" if there is none
    currency,   \* billingCurrency of the clients
    hire,       \* client_agents, by id: a Hire, or Nothing
    phones,     \* client_phones
    users,      \* users: their emails and clients
    req,        \* per request: pc, call, what it read, and (history) steady: the status
                \* it decides on has not changed since it was read
    converted,  \* (history) clients whose currency was changed
    faults

vars == <<status, currency, hire, phones, users, req, converted, faults>>
rows == <<status, currency, hire, phones, users, converted>>

Init ==
    /\ status = [x \in Things |-> IF x \in Requests THEN "none" ELSE "active"]
    /\ currency \in [ClientIds -> Currencies]
    /\ \A c \in Clients : currency[c] = InitialCurrency[c]
    /\ \A r \in Requests : currency[r] = CHOOSE x \in Currencies : TRUE
    /\ hire = [i \in HireIds |-> IF i \in Hired THEN InitialHires[i] ELSE Nothing]
    /\ phones = InitialPhones
    /\ users = InitialUsers
    /\ req = [r \in Requests |-> [pc |-> "new"]]
    /\ converted = {}
    /\ faults = 0

------------------------------------------------------------------------------
(* Helpers *)

Answers == {"ok", "400", "404", "409", "500"}
Ended == Answers \cup {"died"}
Op(r, op) == req[r].pc # "new" /\ req[r].call.op = op
Goto(r, pc) == req' = [req EXCEPT ![r].pc = pc]
Hires == {i \in HireIds : hire[i] # Nothing}

\* The unique index on (clientId, agentId), archived hires included.
HiredBefore(c, a) == \E i \in Hires : hire[i].client = c /\ hire[i].agent = a

OwnersOf(number) == {p.client : p \in {q \in phones : q.number = number}}

\* Variant: the email is compared by find only, there is no index.
MutantEmailTaken_Never(email) == FALSE

\* The unique index on the email.
EmailTaken(email) == \E u \in users : u.email = email

\* Variant: a refused transaction is not aborted.
MutantInTransaction_NoAbort(r) ==
    Op(r, "onboard") /\ req[r].pc \in {"price", "phone", "newphone", "commit", "400"}

\* What a transaction has inserted and not yet committed.
InTransaction(r) == Op(r, "onboard") /\ req[r].pc \in {"price", "phone", "newphone", "commit"}
EmailLocked(email) == \E q \in Requests : InTransaction(q) /\ req[q].call.email = email
PhoneLocked(number) ==
    \E q \in Requests : Op(q, "onboard") /\ req[q].pc = "commit" /\ req[q].call.phone = number

\* The requests that decide on x, whose status changes, are not steady any more.
Unsteady(q, x) ==
    IF q.pc \in {"personality", "write"} /\ q.call.id = x THEN [q EXCEPT !.steady = FALSE] ELSE q
WriteAndEnd(r, x) ==
    req' = [q \in Requests |-> IF q = r THEN [req[r] EXCEPT !.pc = "ok"] ELSE Unsteady(req[q], x)]

FirstStep(op) ==
    CASE op = "hire" -> "client" [] op = "onboard" -> "catalogue"
      [] op = "user" -> "email" [] OTHER -> "read"

\* A request arrives.
Call(r, call) ==
    /\ req[r].pc = "new"
    /\ Cardinality({q \in Requests : req[q].pc # "new"}) < MaxRequests
    /\ req' = [req EXCEPT ![r] =
         [pc |-> FirstStep(call.op), call |-> call, currency |-> CHOOSE x \in Currencies : TRUE,
          seen |-> phones, steady |-> TRUE]]
    /\ UNCHANGED <<rows, faults>>

------------------------------------------------------------------------------
(* Hires *)

\* The client must be active; its currency is the currency of the prices.
ReadClient(r) ==
    /\ Op(r, "hire") /\ req[r].pc = "client"
    /\ LET c == req[r].call.client IN
       IF status[c] = "none" THEN Goto(r, "404")
       ELSE IF status[c] # "active" THEN Goto(r, "400")
       ELSE req' = [req EXCEPT ![r].pc = "catalogue", ![r].currency = currency[c]]
    /\ UNCHANGED <<rows, faults>>

\* Agent and personality must be active; a hire also needs the price, in the currency
\* read with the client (onboarding looks it up later).
ReadCatalogue(r) ==
    /\ req[r].pc = "catalogue"
    /\ LET call == req[r].call  hiring == call.op = "hire" IN
       Goto(r, IF status[call.agent] # "active" \/ status[call.personality] # "active"
                 \/ (hiring /\ <<call.agent, req[r].currency>> \notin Priced) THEN "400"
               ELSE IF hiring THEN "existing" ELSE "email")
    /\ UNCHANGED <<rows, faults>>

\* "Fail fast: check if agent is already hired by this client", unless archived.
CheckExisting(r) ==
    /\ req[r].pc = "existing"
    /\ LET call == req[r].call IN
       Goto(r, IF \E i \in Hires : /\ hire[i].client = call.client /\ hire[i].agent = call.agent
                                   /\ hire[i].status # "archived" THEN "409"
               ELSE IF call.phone = Nothing THEN "commit" ELSE "phone")
    /\ UNCHANGED <<rows, faults>>

\* resolveOrCreate, the pre-check: the client's own phone will do, another's will not.
FindPhone(r) ==
    /\ Op(r, "hire") /\ req[r].pc = "phone"
    /\ LET owners == OwnersOf(req[r].call.phone) IN
       Goto(r, CASE owners = {} -> "newphone"
                 [] owners = {req[r].call.client} -> "commit"
                 [] OTHER -> "409")
    /\ UNCHANGED <<rows, faults>>

\* resolveOrCreate, the insert: outside of a transaction, it stays whatever becomes of the
\* hire.  It waits for a transaction that has inserted the number; a duplicate key is
\* not caught.
InsertPhone(r) ==
    /\ Op(r, "hire") /\ req[r].pc = "newphone"
    /\ LET number == req[r].call.phone IN
       /\ ~PhoneLocked(number)
       /\ IF OwnersOf(number) # {}
          THEN Goto(r, "500") /\ UNCHANGED phones
          ELSE /\ Goto(r, "commit")
               /\ phones' = phones \cup {[number |-> number, client |-> req[r].call.client]}
    /\ UNCHANGED <<status, currency, hire, users, converted, faults>>

\* Variant: a hire starts in a status the schema does not have.
MutantNewHire_Draft(r, client, snapshot) ==
    [client |-> client, agent |-> req[r].call.agent, status |-> "draft",
     currency |-> snapshot, phone |-> req[r].call.phone, personality |-> req[r].call.personality]

NewHire(r, client, snapshot) ==
    [client |-> client, agent |-> req[r].call.agent, status |-> "active",
     currency |-> snapshot, phone |-> req[r].call.phone, personality |-> req[r].call.personality]

\* The insert of the hire, priced in the currency read at first; a duplicate key is 409.
\* A channel after the phone's may still be refused, for its provider, price or token.
InsertHire(r) ==
    /\ Op(r, "hire") /\ req[r].pc = "commit"
    /\ LET call == req[r].call IN
       IF ~call.valid
       THEN Goto(r, "400") /\ UNCHANGED hire
       ELSE IF HiredBefore(call.client, call.agent)
       THEN Goto(r, "409") /\ UNCHANGED hire
       ELSE /\ Goto(r, "ok")
            /\ hire' = [hire EXCEPT ![r] = NewHire(r, call.client, req[r].currency)]
    /\ UNCHANGED <<status, currency, phones, users, converted, faults>>

------------------------------------------------------------------------------
(* Onboarding *)

\* findByEmail, outside of the transaction's session; also the check of users.create.
FindEmail(r) ==
    /\ req[r].pc = "email"
    /\ Goto(r, IF EmailTaken(req[r].call.email) THEN "409"
               ELSE IF Op(r, "onboard") THEN "open" ELSE "newuser")
    /\ UNCHANGED <<rows, faults>>

\* Client and owner are inserted: from here on the transaction reads the phones as they
\* are now.  A second insert of an email ends the transaction.
OpenTransaction(r) ==
    /\ req[r].pc = "open"
    /\ LET email == req[r].call.email IN
       IF EmailTaken(email) \/ EmailLocked(email)
       THEN Goto(r, "409") \/ Goto(r, "500")
       ELSE req' = [req EXCEPT ![r].pc = "price", ![r].seen = phones]
    /\ UNCHANGED <<rows, faults>>

\* The price in the new client's currency.
FindPrice(r) ==
    /\ req[r].pc = "price"
    /\ LET call == req[r].call IN
       Goto(r, IF <<call.agent, call.currency>> \notin Priced THEN "400"
               ELSE IF call.phone = Nothing THEN "commit" ELSE "phone")
    /\ UNCHANGED <<rows, faults>>

\* resolveOrCreate for a client that is new and has no phone.
FindPhoneInTransaction(r) ==
    /\ Op(r, "onboard") /\ req[r].pc = "phone"
    /\ Goto(r, IF \E p \in req[r].seen : p.number = req[r].call.phone THEN "409" ELSE "newphone")
    /\ UNCHANGED <<rows, faults>>

\* Variant: the phone is inserted without the session.
MutantInsertPhoneInTransaction_NoSession(r) ==
    /\ Op(r, "onboard") /\ req[r].pc = "newphone"
    /\ LET number == req[r].call.phone IN
       IF OwnersOf(number) # {} \/ PhoneLocked(number)
       THEN (Goto(r, "409") \/ Goto(r, "500")) /\ UNCHANGED phones
       ELSE Goto(r, "commit") /\ phones' = phones \cup {[number |-> number, client |-> r]}
    /\ UNCHANGED <<status, currency, hire, users, converted, faults>>

\* A number that someone has inserted, or is inserting, ends the transaction.
InsertPhoneInTransaction(r) ==
    /\ Op(r, "onboard") /\ req[r].pc = "newphone"
    /\ LET number == req[r].call.phone IN
       IF OwnersOf(number) # {} \/ PhoneLocked(number)
       THEN Goto(r, "409") \/ Goto(r, "500")
       ELSE Goto(r, "commit")
    /\ UNCHANGED <<rows, faults>>

\* Variant: the snapshot is in the platform's currency, not in the client's.
MutantSnapshotCurrency_First(r) == CHOOSE x \in Currencies : TRUE

\* "Pricing currency must match client billing currency".
SnapshotCurrency(r) == req[r].call.currency

\* A later channel is refused: the transaction is aborted.
Abort(r) ==
    /\ Op(r, "onboard") /\ req[r].pc = "commit" /\ ~req[r].call.valid
    /\ Goto(r, "400")
    /\ UNCHANGED <<rows, faults>>

\* The hire is inserted and the transaction committed: all of it is there at once.
Commit(r) ==
    /\ Op(r, "onboard") /\ req[r].pc = "commit" /\ req[r].call.valid
    /\ LET call == req[r].call IN
       /\ status' = [status EXCEPT ![r] = "active"]
       /\ currency' = [currency EXCEPT ![r] = call.currency]
       /\ users' = users \cup {[email |-> call.email, client |-> r]}
       /\ phones' = IF call.phone = Nothing THEN phones
                    ELSE phones \cup {[number |-> call.phone, client |-> r]}
       /\ hire' = [hire EXCEPT ![r] = NewHire(r, r, SnapshotCurrency(r))]
    /\ Goto(r, "publish")
    /\ UNCHANGED <<converted, faults>>

\* stampPendingAndPublish: what fails is logged only, and the client is answered all the same.
Publish(r) ==
    /\ req[r].pc = "publish"
    /\ Goto(r, "ok")
    /\ UNCHANGED <<rows, faults>>

\* users.create; a duplicate key is not caught.
InsertUser(r) ==
    /\ req[r].pc = "newuser"
    /\ LET call == req[r].call IN
       /\ ~EmailLocked(call.email)
       /\ IF EmailTaken(call.email)
          THEN Goto(r, "500") /\ UNCHANGED users
          ELSE Goto(r, "ok") /\ users' = users \cup {[email |-> call.email, client |-> call.client]}
    /\ UNCHANGED <<status, currency, hire, phones, converted, faults>>

------------------------------------------------------------------------------
(* Changes of status and currency: all services read, refuse what is archived, and then *)
(* write whatever has happened since.                                                   *)

\* Variant: the guard is missing.
MutantReadUnlessArchived_Any(r, current, next) ==
    /\ req[r].pc = "read"
    /\ req' = [req EXCEPT ![r].pc = IF current = "none" THEN "404" ELSE next,
                          ![r].steady = TRUE]
    /\ UNCHANGED <<rows, faults>>

ReadUnlessArchived(r, current, next) ==
    /\ req[r].pc = "read"
    /\ req' = [req EXCEPT ![r].pc = CASE current = "none" -> "404"
                                      [] current = "archived" -> "400"
                                      [] OTHER -> next,
                          ![r].steady = TRUE]
    /\ UNCHANGED <<rows, faults>>

ReadThing(r) ==
    /\ Op(r, "status") \/ Op(r, "currency")
    /\ ReadUnlessArchived(r, status[req[r].call.id], "write")

WriteThing(r) ==
    /\ Op(r, "status") /\ req[r].pc = "write"
    /\ LET call == req[r].call IN
       status' = [status EXCEPT ![call.id] = call.to] /\ WriteAndEnd(r, call.id)
    /\ UNCHANGED <<currency, hire, phones, users, converted, faults>>

WriteCurrency(r) ==
    /\ Op(r, "currency") /\ req[r].pc = "write"
    /\ LET call == req[r].call IN
       /\ currency' = [currency EXCEPT ![call.id] = call.to]
       /\ converted' = converted \cup {call.id}
    /\ Goto(r, "ok")
    /\ UNCHANGED <<status, hire, phones, users, faults>>

HireStatus(i) == IF hire[i] = Nothing THEN "none" ELSE hire[i].status

ReadHire(r) ==
    /\ Op(r, "hireStatus")
    /\ ReadUnlessArchived(r, HireStatus(req[r].call.id), "write")

WriteHire(r) ==
    /\ Op(r, "hireStatus") /\ req[r].pc = "write"
    /\ LET call == req[r].call IN
       hire' = [hire EXCEPT ![call.id].status = call.to] /\ WriteAndEnd(r, call.id)
    /\ UNCHANGED <<status, currency, phones, users, converted, faults>>

\* update: another personality, which must be active.
ReadHireToUpdate(r) ==
    /\ Op(r, "update")
    /\ ReadUnlessArchived(r, HireStatus(req[r].call.id), "personality")

ReadPersonality(r) ==
    /\ req[r].pc = "personality"
    /\ Goto(r, IF status[req[r].call.personality] = "active" THEN "write" ELSE "400")
    /\ UNCHANGED <<rows, faults>>

WriteTerms(r) ==
    /\ Op(r, "update") /\ req[r].pc = "write"
    /\ hire' = [hire EXCEPT ![req[r].call.id].personality = req[r].call.personality]
    /\ Goto(r, "ok")
    /\ UNCHANGED <<status, currency, phones, users, converted, faults>>

\* calculateClientTotal: "Mixed currency subscriptions detected".
TotalFails(c) ==
    \E i \in Hires : hire[i].client = c /\ hire[i].status = "active" /\ hire[i].currency # currency[c]

------------------------------------------------------------------------------
Running(r) == req[r].pc \notin Ended \cup {"new"}

\* A database call fails, or the host dies: a transaction is aborted.
Die(r) ==
    /\ Running(r) /\ faults < MaxFaults /\ faults' = faults + 1
    /\ Goto(r, "died")
    /\ UNCHANGED rows

Step(r) ==
    \/ ReadClient(r) \/ ReadCatalogue(r) \/ CheckExisting(r) \/ FindPhone(r) \/ InsertPhone(r)
    \/ InsertHire(r) \/ FindEmail(r) \/ OpenTransaction(r) \/ FindPrice(r)
    \/ FindPhoneInTransaction(r) \/ InsertPhoneInTransaction(r) \/ Abort(r) \/ Commit(r)
    \/ Publish(r) \/ InsertUser(r)
    \/ ReadThing(r) \/ WriteThing(r) \/ WriteCurrency(r) \/ ReadHire(r) \/ WriteHire(r)
    \/ ReadHireToUpdate(r) \/ ReadPersonality(r) \/ WriteTerms(r)

Next == \E r \in Requests : (\E call \in Calls : Call(r, call)) \/ Step(r) \/ Die(r)

\* A request that is served goes on until it is answered.
Spec == Init /\ [][Next]_vars /\ \A r \in Requests : WF_vars(Step(r))

------------------------------------------------------------------------------
(* Properties *)

\* The state has the types of the schemas.
TypeOK ==
    /\ status \in [Things -> Statuses \cup {"none"}]
    /\ currency \in [ClientIds -> Currencies]
    /\ hire \in [HireIds -> Hire \cup {Nothing}]
    /\ phones \subseteq PhoneRow /\ users \subseteq UserRow
    /\ converted \subseteq ClientIds /\ faults \in 0..MaxFaults

\* However requests overlap, no email is two users', no phone number two clients' and no
\* agent hired twice by a client: the checks before the inserts do not see what another
\* transaction is inserting.  A client has one hire of an agent, ever: once it is archived,
\* hiring the agent again passes the service's check and fails in the index.
Unique ==
    /\ \A u, v \in users : u.email = v.email => u = v
    /\ \A p, q \in phones : p.number = q.number => p = q
    /\ \A i, j \in Hires :
         hire[i].client = hire[j].client /\ hire[i].agent = hire[j].agent => i = j

\* A hire's phone is its client's.  No phone is left over by an aborted onboarding: one that
\* no hire of its client uses is that of a hire request which has failed or is under way, as
\* a hire has no transaction.
PhonesAccountedFor ==
    /\ \A i \in Hires : hire[i].phone # Nothing => OwnersOf(hire[i].phone) = {hire[i].client}
    /\ \A p \in phones \ InitialPhones :
         /\ status[p.client] # "none"
         /\ \/ \E i \in Hires : hire[i].client = p.client /\ hire[i].phone = p.number
            \/ \E r \in Requests : /\ Op(r, "hire") /\ req[r].pc # "ok"
                                   /\ req[r].call.client = p.client /\ req[r].call.phone = p.number

\* What is archived stays as it is, but for a request that had read it before it was
\* archived and writes afterwards.
ArchivedUnlessRaced ==
    [][\/ \E r \in Requests : req[r].pc = "write" /\ ~req[r].steady /\ req'[r].pc = "ok"
       \/ /\ \A x \in Things : status[x] = "archived" => status'[x] = "archived"
          /\ \A i \in Hires : hire[i].status = "archived" => hire'[i] = hire[i]]_vars

\* "Mixed-currency subscriptions are forbidden" (docs/rules/data-modeling.md:83):
\* the total of a client fails, for an active hire in another currency than the client's, only
\* if the client's currency was changed: then it fails for good.
MixedOnlyByConversion == \A c \in ClientIds : TotalFails(c) => c \in converted

\* Every request is answered, one that waits for another's transaction included.
RequestsEnd == \A r \in Requests : Running(r) ~> req[r].pc \in Ended
================================================================================
