------------------------- MODULE WebhookRegistration -------------------------
(***************************************************************************)
(* Registration of Telegram webhooks for hired agents.                     *)
(*                                                                         *)
(* Four kinds of actor share one row per bot (the channel's                *)
(* `webhookRegistration` sub-document in MongoDB) and one BullMQ job per   *)
(* bot (jobId `tg-webhook-<bot>`):                                         *)
(*   Requests  HTTP requests that create a hire or change its status       *)
(*             (client-agents.service.ts);                                 *)
(*   Ticks     runs of the reconciler on the host instances, guarded by a  *)
(*             Redis lock whose TTL may pass while a tick is running       *)
(*             (webhook-registration.reconciler.ts);                       *)
(*   Workers   slots of the registrar in the worker processes              *)
(*             (telegram-webhook.registrar.ts);                            *)
(*   Redis / BullMQ / Telegram / the clock: the environment.               *)
(*                                                                         *)
(* A fingerprint is a hash of the public URL and the bot's token.  No code *)
(* changes the token of a hire, so a fingerprint is the URL it was         *)
(* computed from, and a redeployment may change that URL.                  *)
(***************************************************************************)
EXTENDS Integers, FiniteSets

CONSTANTS
    Bots, Requests, Ticks, Workers, Urls,
    Nobody,          \* nobody holds the lock
    NoUrl,           \* no fingerprint stored
    HappyAttempts,   \* attempts of a job enqueued by a request: 6
    ProbeAttempts,   \* attempts of a job enqueued by the reconciler: 2
    Threshold,       \* WEBHOOK_RECONCILER_QUARANTINE_AFTER_PROBES
    PageSize,        \* WEBHOOK_RECONCILER_PAGE_SIZE
    MaxStalls,       \* BullMQ's maxStalledCount: 1
    MaxFaults,       \* bound: crashes and failed calls in a behaviour
    MaxEvictions     \* bound: finished jobs BullMQ forgets in a behaviour

ASSUME ConstantsAssumption ==
    /\ Bots # {} /\ Urls # {} /\ IsFiniteSet(Workers)
    /\ HappyAttempts \in Nat \ {0} /\ ProbeAttempts \in Nat \ {0}
    /\ Threshold \in Nat \ {0} /\ PageSize \in Nat \ {0}
    /\ MaxStalls \in Nat /\ MaxFaults \in Nat /\ MaxEvictions \in Nat
    /\ Nobody \notin Ticks /\ NoUrl \notin Urls

VARIABLES
    hire,        \* status of the hire that owns the bot
    row,         \* webhookRegistration: status, fingerprint, attemptCount
    old,         \* bots whose lastAttemptAt is 30 minutes old or more
    behind,      \* <<t, b>>: b's lastAttemptAt precedes the cutoff tick t computed
    lock,        \* holder of the reconciler's lock
    tick,        \* per reconciler run: pc, the page it read, the bot it claimed
    job,         \* the BullMQ job of each bot
    worker,      \* per registrar slot: pc, bot, fingerprint, does it own the job
    request,     \* per HTTP request: pc, bot, statuses read and asked for
    url,         \* PUBLIC_BASE_URL of the running deployment
    accepted,    \* history: URLs Telegram accepted for each bot
    failures,    \* history: jobs of each bot that failed for good
    faults, evictions   \* counters for the bounds

dbVars    == <<hire, row, old, behind>>
history   == <<accepted, failures>>
bounds    == <<faults, evictions>>
vars == <<hire, row, old, behind, lock, tick, job, worker, request, url,
          accepted, failures, faults, evictions>>

------------------------------------------------------------------------------
(* Types *)

Statuses  == {"absent", "pending", "registering", "registered", "failed", "quarantined"}
HireStatuses == {"none", "active", "inactive", "archived"}

Row == [status : Statuses, fp : Urls \cup {NoUrl}, count : Nat]
\* what findReconcilableTelegramHires projects of a row
PageRow == [bot : Bots, status : Statuses, count : Nat]

Tick == [pc : {"idle", "scan", "rows", "probe"}, page : SUBSET PageRow, bot : Bots]
Job == [state : {"none", "waiting", "active", "completed", "failed"},
        left : Nat, stalls : Nat]
Worker == [pc : {"idle", "start", "call", "accepted", "transient", "rejected",
                 "completed", "retry", "permanent", "report"},
           bot : Bots, fp : Urls, owns : BOOLEAN]
Request == [pc : {"idle", "write", "stamp", "enqueue"}, bot : Bots,
            prev : HireStatuses, to : HireStatuses]

NoJob     == [state |-> "none", left |-> 0, stalls |-> 0]
AbsentRow == [status |-> "absent", fp |-> NoUrl, count |-> 0]
AnyBot == CHOOSE b \in Bots : TRUE
IdleTick    == [pc |-> "idle", page |-> {}, bot |-> AnyBot]
IdleWorker  == [pc |-> "idle", bot |-> AnyBot, fp |-> CHOOSE u \in Urls : TRUE, owns |-> FALSE]
IdleRequest == [pc |-> "idle", bot |-> AnyBot, prev |-> "none", to |-> "none"]

\* Rows the seeder or an older release left are active hires with no sub-document.
Init ==
    /\ hire \in [Bots -> {"none", "active"}]
    /\ row = [b \in Bots |-> AbsentRow]
    /\ old = {} /\ behind = {}
    /\ lock = Nobody
    /\ tick = [t \in Ticks |-> IdleTick]
    /\ job = [b \in Bots |-> NoJob]
    /\ worker = [w \in Workers |-> IdleWorker]
    /\ request = [r \in Requests |-> IdleRequest]
    /\ url \in Urls
    /\ accepted = [b \in Bots |-> {}] /\ failures = [b \in Bots |-> 0]
    /\ faults = 0 /\ evictions = 0

------------------------------------------------------------------------------
(* The repository's conditional update and the queue *)

\* updateWebhookRegistrationByTelegramBotId: only an active hire's channel is
\* updated, and only when the array filter (`filter`) selects it; lastAttemptAt
\* is always set, so the update modifies the document exactly when it matches.
Matches(b, filter) == hire[b] = "active" /\ filter

Update(b, matched, new) ==
    /\ row' = IF matched THEN [row EXCEPT ![b] = new] ELSE row
    /\ old' = IF matched THEN old \ {b} ELSE old
    /\ behind' = IF matched THEN {p \in behind : p[2] # b} ELSE behind
    /\ UNCHANGED hire

\* Queue.add with a jobId: ignored while a job with that id exists, a completed
\* or failed one that is still retained included.
AddJob(b, attempts) ==
    job' = IF job[b].state = "none"
           THEN [job EXCEPT ![b] = [state |-> "waiting", left |-> attempts, stalls |-> 0]]
           ELSE job

Fault == faults < MaxFaults /\ faults' = faults + 1 /\ UNCHANGED evictions

------------------------------------------------------------------------------
(* HTTP requests: client-agents.service.ts *)

\* create: the document is inserted with status active and no webhookRegistration.
Create(r, b) ==
    /\ request[r].pc = "idle" /\ hire[b] = "none"
    /\ hire' = [hire EXCEPT ![b] = "active"]
    /\ request' = [request EXCEPT ![r] = [IdleRequest EXCEPT !.pc = "stamp", !.bot = b]]
    /\ UNCHANGED <<row, old, behind, lock, tick, job, worker, url, history, bounds>>

\* updateStatus, first await: archived hires are refused on what was read.
ReadHire(r, b, to) ==
    /\ request[r].pc = "idle" /\ hire[b] \in {"active", "inactive"}
    /\ request' = [request EXCEPT ![r] =
                     [pc |-> "write", bot |-> b, prev |-> hire[b], to |-> to]]
    /\ UNCHANGED <<dbVars, lock, tick, job, worker, url, history, bounds>>

\* updateStatus, second await: the status is written whatever it is by now; the
\* webhook is triggered when the hire becomes active.
WriteStatus(r) ==
    LET q == request[r] IN
    /\ q.pc = "write"
    /\ hire' = [hire EXCEPT ![q.bot] = q.to]
    /\ request' = [request EXCEPT ![r] =
                     IF q.prev # "active" /\ q.to = "active"
                     THEN [IdleRequest EXCEPT !.pc = "stamp", !.bot = q.bot] ELSE IdleRequest]
    /\ UNCHANGED <<row, old, behind, lock, tick, job, worker, url, history, bounds>>

StampableStatuses == {"absent", "pending", "failed", "registering"}

\* triggerTelegramWebhookRegistration: stamp `pending`; an error is swallowed.
Stamp(r) ==
    LET b == request[r].bot IN
    /\ request[r].pc = "stamp"
    /\ \/ /\ Update(b, Matches(b, row[b].status \in StampableStatuses),
                    [row[b] EXCEPT !.status = "pending"])
          /\ UNCHANGED bounds
       \/ Fault /\ UNCHANGED dbVars
    /\ request' = [request EXCEPT ![r].pc = "enqueue"]
    /\ UNCHANGED <<lock, tick, job, worker, url, history>>

\* publishHappyPath: an error is swallowed.
Enqueue(r) ==
    LET b == request[r].bot IN
    /\ request[r].pc = "enqueue"
    /\ \/ AddJob(b, HappyAttempts) /\ UNCHANGED bounds
       \/ Fault /\ UNCHANGED job
    /\ request' = [request EXCEPT ![r] = IdleRequest]
    /\ UNCHANGED <<dbVars, lock, tick, worker, url, history>>

\* The host dies while it serves the request.
CrashRequest(r) ==
    /\ request[r].pc # "idle" /\ Fault
    /\ request' = [request EXCEPT ![r] = IdleRequest]
    /\ UNCHANGED <<dbVars, lock, tick, job, worker, url, history>>

------------------------------------------------------------------------------
(* The reconciler: webhook-registration.reconciler.ts *)

\* DistributedLockService.acquire (SET NX PX); a tick that gets no token returns.
Acquire(t) ==
    /\ tick[t].pc = "idle" /\ lock = Nobody
    /\ lock' = t
    /\ tick' = [tick EXCEPT ![t] = [IdleTick EXCEPT !.pc = "scan"]]
    /\ UNCHANGED <<dbVars, job, worker, request, url, history, bounds>>

\* Variant: SET NX without PX.
MutantExpireLock_NoTtl == FALSE

\* The lock's 55 s TTL passes, whether or not its holder has finished.
ExpireLock ==
    /\ lock # Nobody /\ lock' = Nobody
    /\ UNCHANGED <<dbVars, tick, job, worker, request, url, history, bounds>>

\* Variant for the mutation checks: rows stuck in `registering` are forgotten.
MutantReconcilable_NoStuckBranch(b) ==
    /\ hire[b] = "active"
    /\ \/ row[b].status = "absent"
       \/ row[b].status \in {"pending", "failed"} /\ row[b].count < Threshold

\* Variant: the threshold itself is let through.
MutantReconcilable_OffByOne(b) ==
    /\ hire[b] = "active"
    /\ \/ row[b].status = "absent"
       \/ row[b].status \in {"pending", "failed"} /\ row[b].count <= Threshold
       \/ row[b].status = "registering" /\ b \in old /\ row[b].count <= Threshold

\* the $match of findReconcilableTelegramHires
Reconcilable(b) ==
    /\ hire[b] = "active"
    /\ \/ row[b].status = "absent"
       \/ row[b].status \in {"pending", "failed"} /\ row[b].count < Threshold
       \/ row[b].status = "registering" /\ b \in old /\ row[b].count < Threshold

PageOf(S) == {[bot |-> b, status |-> row[b].status, count |-> row[b].count] : b \in S}

\* Compute the cutoff and read a page of at most PageSize rows, in no given order.
Scan(t) ==
    /\ tick[t].pc = "scan"
    /\ \E S \in SUBSET {b \in Bots : Reconcilable(b)} :
         /\ \/ Cardinality(S) = PageSize
            \/ S = {b \in Bots : Reconcilable(b)} /\ Cardinality(S) < PageSize
         /\ tick' = [tick EXCEPT ![t].pc = "rows", ![t].page = PageOf(S)]
    /\ behind' = {p \in behind : p[1] # t} \cup ({t} \X old)
    /\ UNCHANGED <<hire, row, old, lock, job, worker, request, url, history, bounds>>

\* Variants of the loop body: each drops one predicate of its updates.
MutantWriteFor_ClaimsAny(p) ==
    IF p.status = "registering"
    THEN [status |-> "failed", expect |-> {"registering"}, stuckOnly |-> TRUE]
    ELSE [status |-> "registering", expect |-> Statuses, stuckOnly |-> FALSE]

MutantWriteFor_ResetsFresh(p) ==
    IF p.status = "registering"
    THEN [status |-> "failed", expect |-> {"registering"}, stuckOnly |-> FALSE]
    ELSE [status |-> "registering", expect |-> {"pending", "failed", "absent"},
          stuckOnly |-> FALSE]

\* The loop body: a stuck row is reset, a row past the threshold quarantined,
\* any other row claimed.  `expect` and `stuckOnly` are the update's predicates.
WriteFor(p) ==
    IF p.status = "registering"
    THEN [status |-> "failed", expect |-> {"registering"}, stuckOnly |-> TRUE]
    ELSE IF p.count >= Threshold
    THEN [status |-> "quarantined", expect |-> Statuses, stuckOnly |-> FALSE]
    ELSE [status |-> "registering", expect |-> {"pending", "failed", "absent"},
          stuckOnly |-> FALSE]

HandleRow(t) ==
    \E p \in tick[t].page :
      LET b == p.bot
          u == WriteFor(p)
          matched == Matches(b, /\ row[b].status \in u.expect
                                /\ u.stuckOnly => <<t, b>> \in behind)
      IN /\ tick[t].pc = "rows"
         /\ Update(b, matched, [row[b] EXCEPT !.status = u.status])
         /\ tick' = [tick EXCEPT ![t] =
                      [pc |-> IF matched /\ u.status = "registering" THEN "probe" ELSE "rows",
                       page |-> @.page \ {p}, bot |-> b]]
         /\ UNCHANGED <<lock, job, worker, request, url, history, bounds>>

\* publishProbe for the claimed row: an error is swallowed.
Probe(t) ==
    LET b == tick[t].bot IN
    /\ tick[t].pc = "probe"
    /\ \/ AddJob(b, ProbeAttempts) /\ UNCHANGED bounds
       \/ Fault /\ UNCHANGED job
    /\ tick' = [tick EXCEPT ![t].pc = "rows"]
    /\ UNCHANGED <<dbVars, lock, worker, request, url, history>>

\* `finally`: DistributedLockService.release deletes the key only if it still
\* holds this tick's token.
Release(t) ==
    /\ tick[t].pc = "rows" /\ tick[t].page = {}
    /\ lock' = IF lock = t THEN Nobody ELSE lock
    /\ tick' = [tick EXCEPT ![t] = IdleTick]
    /\ behind' = {p \in behind : p[1] # t}
    /\ UNCHANGED <<hire, row, old, job, worker, request, url, history, bounds>>

\* A database call throws: the rest of the page is abandoned.
FailTick(t) ==
    /\ tick[t].pc \in {"scan", "rows"} /\ Fault
    /\ tick' = [tick EXCEPT ![t].pc = "rows", ![t].page = {}]
    /\ UNCHANGED <<dbVars, lock, job, worker, request, url, history>>

\* The host dies in the middle of a tick and keeps the lock until its TTL.
CrashTick(t) ==
    /\ tick[t].pc # "idle" /\ Fault
    /\ tick' = [tick EXCEPT ![t] = IdleTick]
    /\ behind' = {p \in behind : p[1] # t}
    /\ UNCHANGED <<hire, row, old, lock, job, worker, request, url, history>>

------------------------------------------------------------------------------
(* The registrar: telegram-webhook.registrar.ts *)

\* BullMQ hands the job to a slot, and process() loads the channel.
Take(w, b) ==
    /\ worker[w].pc = "idle" /\ job[b].state = "waiting"
    /\ job' = [job EXCEPT ![b].state = "active"]
    /\ worker' = [worker EXCEPT ![w] =
         [pc |-> IF hire[b] # "active" THEN "permanent"
                 ELSE IF row[b].status = "registered" /\ row[b].fp = url THEN "completed"
                 ELSE "start",
          bot |-> b, fp |-> url, owns |-> TRUE]]
    /\ UNCHANGED <<dbVars, lock, tick, request, url, history, bounds>>

\* recordOutcome(registering, fingerprint): its array filter also asks for another
\* fingerprint; without a match the job returns {registered: true} at once.
Start(w) ==
    LET b == worker[w].bot
        matched == Matches(b, row[b].fp # worker[w].fp)
    IN /\ worker[w].pc = "start"
       /\ Update(b, matched, [row[b] EXCEPT !.status = "registering", !.fp = worker[w].fp])
       /\ worker' = [worker EXCEPT ![w].pc = IF matched THEN "call" ELSE "completed"]
       /\ UNCHANGED <<lock, tick, job, request, url, history, bounds>>

\* TelegramService.registerWebhookOnce: accepted, a transient failure, or rejected.
\* Telegram may have applied the URL in the last two cases: the answer, or the body
\* of a 2xx answer, is lost.
CallTelegram(w) ==
    /\ worker[w].pc = "call"
    /\ \E answer \in {"accepted", "transient", "rejected"}, applied \in BOOLEAN :
         /\ answer = "accepted" => applied
         /\ worker' = [worker EXCEPT ![w].pc = answer]
         /\ accepted' = IF applied
                        THEN [accepted EXCEPT ![worker[w].bot] = @ \cup {worker[w].fp}]
                        ELSE accepted
    /\ UNCHANGED <<dbVars, lock, tick, job, request, url, failures, bounds>>

\* Variants of the write after the call: a failure also increments attemptCount; a
\* lost answer counts as success; a status outside the schema's enum, which a raw
\* collection update does not check.
MutantSettled_Increments(w, r) ==
    IF worker[w].pc = "accepted"
    THEN [r EXCEPT !.status = "registered", !.fp = worker[w].fp]
    ELSE [r EXCEPT !.status = "failed", !.count = @ + 1]

MutantSettled_Optimistic(w, r) ==
    IF worker[w].pc \in {"accepted", "transient"}
    THEN [r EXCEPT !.status = "registered", !.fp = worker[w].fp]
    ELSE [r EXCEPT !.status = "failed"]

MutantSettled_UnknownStatus(w, r) ==
    IF worker[w].pc = "accepted"
    THEN [r EXCEPT !.status = "registered", !.fp = worker[w].fp]
    ELSE [r EXCEPT !.status = worker[w].pc]

\* What process() writes after the call.
Settled(w, r) ==
    IF worker[w].pc = "accepted"
    THEN [r EXCEPT !.status = "registered", !.fp = worker[w].fp]
    ELSE [r EXCEPT !.status = "failed"]

Settle(w) ==
    LET b == worker[w].bot
        end == [accepted |-> "completed", transient |-> "retry", rejected |-> "permanent"]
    IN /\ worker[w].pc \in DOMAIN end
       /\ Update(b, Matches(b, TRUE), Settled(w, row[b]))
       /\ worker' = [worker EXCEPT ![w].pc = end[@]]
       /\ UNCHANGED <<lock, tick, job, request, url, history, bounds>>

\* A database call of process() throws: an ordinary error, which BullMQ retries.
FailWrite(w) ==
    /\ worker[w].pc \in {"start", "accepted", "transient", "rejected"} /\ Fault
    /\ worker' = [worker EXCEPT ![w].pc = "retry"]
    /\ UNCHANGED <<dbVars, lock, tick, job, request, url, history>>

\* isFinal: a PermanentJobError, or the last attempt.
Final(w) == \/ worker[w].pc = "permanent"
            \/ worker[w].pc = "retry" /\ job[worker[w].bot].left <= 1

FinishedJob(w, j) ==
    IF worker[w].pc = "completed" THEN [j EXCEPT !.state = "completed"]
    ELSE IF Final(w) THEN [j EXCEPT !.state = "failed"]
    ELSE [j EXCEPT !.state = "waiting", !.left = j.left - 1]

\* BullMQ moves the job on, if this slot still owns it; a final failure raises the
\* `failed` event.
Finish(w) ==
    LET b == worker[w].bot
        ended == worker[w].owns /\ Final(w)
    IN /\ worker[w].pc \in {"completed", "retry", "permanent"}
       /\ job' = IF worker[w].owns THEN [job EXCEPT ![b] = FinishedJob(w, job[b])] ELSE job
       /\ failures' = IF ended THEN [failures EXCEPT ![b] = @ + 1] ELSE failures
       /\ worker' = [worker EXCEPT ![w] =
             IF ended THEN [worker[w] EXCEPT !.pc = "report", !.owns = FALSE] ELSE IdleWorker]
       /\ UNCHANGED <<dbVars, lock, tick, request, url, accepted, bounds>>

\* onFailed, final: one unconditional write that also increments attemptCount,
\* issued after the job has moved on.
Report(w) ==
    LET b == worker[w].bot IN
    /\ worker[w].pc = "report"
    /\ Update(b, Matches(b, TRUE), [row[b] EXCEPT !.status = "failed", !.count = @ + 1])
    /\ worker' = [worker EXCEPT ![w] = IdleWorker]
    /\ UNCHANGED <<lock, tick, job, request, url, history, bounds>>

\* The worker process dies: its job stays active until BullMQ finds it stalled.
CrashWorker(w) ==
    /\ worker[w].pc # "idle" /\ Fault
    /\ worker' = [worker EXCEPT ![w] = IdleWorker]
    /\ UNCHANGED <<dbVars, lock, tick, job, request, url, history>>

------------------------------------------------------------------------------
(* The environment *)

Disown(b) == worker' = [w \in Workers |->
    IF worker[w].bot = b THEN [worker[w] EXCEPT !.owns = FALSE] ELSE worker[w]]

\* BullMQ finds an active job whose lock was not renewed, because its worker died
\* or paused: the job waits again, or fails once it has stalled too often.  That
\* failure is no PermanentJobError and attempts are left: onFailed writes nothing.
Stall(b) ==
    /\ job[b].state = "active"
    /\ IF job[b].stalls < MaxStalls
       THEN /\ job' = [job EXCEPT ![b].state = "waiting", ![b].stalls = @ + 1]
            /\ UNCHANGED failures
       ELSE /\ job' = [job EXCEPT ![b].state = "failed"]
            /\ failures' = [failures EXCEPT ![b] = @ + 1]
    /\ Disown(b)
    /\ UNCHANGED <<dbVars, lock, tick, request, url, accepted, bounds>>

\* BullMQ forgets a finished job once 1000 younger ones are retained.
Evict(b) ==
    /\ job[b].state \in {"completed", "failed"}
    /\ evictions < MaxEvictions /\ evictions' = evictions + 1
    /\ job' = [job EXCEPT ![b] = NoJob]
    /\ UNCHANGED <<dbVars, lock, tick, worker, request, url, history, faults>>

\* 30 minutes pass since the row was last written.
Age(b) ==
    /\ row[b].status = "registering" /\ b \notin old
    /\ old' = old \cup {b}
    /\ UNCHANGED <<hire, row, behind, lock, tick, job, worker, request, url, history, bounds>>

\* A deployment with another PUBLIC_BASE_URL; jobs in flight keep the one they read.
Redeploy(u) ==
    /\ u # url /\ url' = u
    /\ UNCHANGED <<dbVars, lock, tick, job, worker, request, history, bounds>>

------------------------------------------------------------------------------
RequestStep(r) == \/ WriteStatus(r) \/ Stamp(r) \/ Enqueue(r)
TickStep(t) == \/ Scan(t) \/ HandleRow(t) \/ Probe(t) \/ Release(t)
WorkerStep(w) == \/ \E b \in Bots : Take(w, b)
                 \/ Start(w) \/ CallTelegram(w) \/ Settle(w) \/ Finish(w) \/ Report(w)

Next ==
    \/ \E r \in Requests : \/ RequestStep(r) \/ CrashRequest(r)
                           \/ \E b \in Bots : Create(r, b)
                           \/ \E b \in Bots, to \in HireStatuses \ {"none"} : ReadHire(r, b, to)
    \/ \E t \in Ticks : Acquire(t) \/ TickStep(t) \/ FailTick(t) \/ CrashTick(t)
    \/ \E w \in Workers : WorkerStep(w) \/ FailWrite(w) \/ CrashWorker(w)
    \/ \E b \in Bots : Stall(b) \/ Evict(b) \/ Age(b)
    \/ \E u \in Urls : Redeploy(u)
    \/ ExpireLock

Spec == Init /\ [][Next]_vars

\* Processes keep running, the cron keeps firing, Redis expires keys, BullMQ looks
\* for stalled jobs and time passes; nothing obliges users, faults or evictions.
Fairness ==
    /\ \A r \in Requests : WF_vars(RequestStep(r))
    /\ \A t \in Ticks : WF_vars(TickStep(t))
    /\ WF_vars(\E t \in Ticks : Acquire(t))
    /\ \A w \in Workers : WF_vars(WorkerStep(w))
    /\ \A b \in Bots : WF_vars(Age(b))
    /\ \A b \in Bots : WF_vars(Stall(b) /\ \A w \in Workers : worker[w].bot = b => ~worker[w].owns)
    /\ WF_vars(ExpireLock)

FairSpec == Spec /\ Fairness
------------------------------------------------------------------------------
(* Properties *)

\* Type invariant.
TypeOK ==
    /\ hire \in [Bots -> HireStatuses]
    /\ row \in [Bots -> Row]
    /\ old \in SUBSET Bots
    /\ behind \in SUBSET (Ticks \X Bots)
    /\ lock \in Ticks \cup {Nobody}
    /\ tick \in [Ticks -> Tick]
    /\ job \in [Bots -> Job]
    /\ worker \in [Workers -> Worker]
    /\ request \in [Requests -> Request]
    /\ url \in Urls
    /\ accepted \in [Bots -> SUBSET Urls]
    /\ failures \in [Bots -> Nat]
    /\ faults \in Nat /\ evictions \in Nat

\* A row says `registered` with a fingerprint only if Telegram accepted that very URL
\* for the bot, whatever jobs were stalled, retried or run twice (process(), 191-218).
RegisteredMeansAccepted ==
    \A b \in Bots : row[b].status = "registered" => row[b].fp \in accepted[b]

Reporters(b) == {w \in Workers : worker[w].pc = "report" /\ worker[w].bot = b}

\* "exactly one attemptCount increment per BullMQ job lifetime" (registrar, 103-104):
\* the counter, with the increments still to be written, never exceeds the number of
\* jobs that failed for good; a crash may lose an increment, a retry never adds one.
AtMostOneIncrementPerJob ==
    \A b \in Bots : row[b].count + Cardinality(Reporters(b)) <= failures[b]

\* No row is ever quarantined: the scan leaves out the rows that the loop would
\* quarantine (repository, 575-587 and 599-611, against reconciler, 131), whatever
\* "the channel transitions to quarantined" (telegram-webhook-failures.md:20) says.
QuarantineUnreachable == \A b \in Bots : row[b].status # "quarantined"

\* A hire request or a reconciler, however stale the page it works from, never takes
\* a row out of `registered`: only a registrar of that bot does.
OnlyRegistrarLeavesRegistered ==
    [][\A b \in Bots :
         row[b].status = "registered" /\ row'[b].status # "registered" =>
           \E w \in Workers : worker[w].bot = b /\ worker'[w] # worker[w]]_vars

\* A registration written less than 30 minutes ago is not disturbed by a reconciler
\* that read the row before (the expectLastAttemptAtBefore predicate, 107-118).
FreshRegistrationUndisturbed ==
    [][\A b \in Bots :
         row[b].status = "registering" /\ b \notin old /\ row'[b] # row[b] =>
           tick' = tick]_vars

\* An active hire below the threshold does not stay without a registration attempt:
\* the reconciler picks up what the request's stamp or enqueue lost, whatever ticks
\* crashed while holding the lock.
Waiting(b) == /\ hire[b] = "active" /\ row[b].count < Threshold
              /\ row[b].status \in {"absent", "pending"}
EveryHireIsPickedUp == \A b \in Bots : Waiting(b) ~> ~Waiting(b)

\* A registration that nobody finishes is reset.
Stuck(b) == /\ hire[b] = "active" /\ row[b].count < Threshold
            /\ row[b].status = "registering"
StuckIsReset == \A b \in Bots : Stuck(b) ~> ~Stuck(b)

\* Refuted.  "the existing 6-attempt curve ... for resilience" (docs/operations/
\* telegram-webhook-failures.md:38-39) and the result {registered: true}: a job that
\* completes has had its URL accepted by Telegram.
CompletedMeansAccepted ==
    \A b \in Bots : job[b].state = "completed" => accepted[b] # {}

\* Refuted.  "re-enqueues them through publishProbe" (telegram-webhook-failures.md:17):
\* a probe that meets no fault leaves a job of the bot to be run.
ProbeEnqueues ==
    [][\A t \in Ticks :
         tick[t].pc = "probe" /\ tick'[t].pc = "rows" /\ faults' = faults =>
           job'[tick[t].bot].state \in {"waiting", "active"}]_vars
==============================================================================
