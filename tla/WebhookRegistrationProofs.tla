----------------------- MODULE WebhookRegistrationProofs -----------------------
(***************************************************************************)
(* Safety of webhook registration for every set of bots, requests, ticks,  *)
(* workers and URLs, and every value of the numeric constants.             *)
(***************************************************************************)
EXTENDS WebhookRegistration, FiniteSetTheorems, TLAPS

\* The idle records are records of their types.
LEMMA IdleTypes ==
    /\ AnyBot \in Bots
    /\ IdleTick \in Tick /\ IdleWorker \in Worker /\ IdleRequest \in Request
    /\ AbsentRow \in Row /\ NoJob \in Job
<1>1. AnyBot \in Bots /\ (CHOOSE u \in Urls : TRUE) \in Urls
  BY ConstantsAssumption DEF AnyBot
<1> QED
  BY <1>1 DEF IdleTick, IdleWorker, IdleRequest, AbsentRow, NoJob, Tick, Worker, Request,
              Row, Job, Statuses, HireStatuses

LEMMA InitType == Init => TypeOK
<1> SUFFICES ASSUME Init PROVE TypeOK
  OBVIOUS
<1> QED
  BY IdleTypes DEF Init, TypeOK, HireStatuses

\* The repository's update keeps the types of what it writes.
LEMMA UpdateType ==
    ASSUME TypeOK, NEW b \in Bots, NEW m, NEW new \in Row, Update(b, m, new)
    PROVE  /\ hire' = hire /\ row' \in [Bots -> Row]
           /\ old' \in SUBSET Bots /\ behind' \in SUBSET (Ticks \X Bots)
  BY DEF TypeOK, Update

LEMMA AddJobType ==
    ASSUME TypeOK, NEW b \in Bots, NEW n \in Nat, AddJob(b, n)
    PROVE  job' \in [Bots -> Job]
  BY DEF TypeOK, AddJob, Job

LEMMA RequestType ==
    ASSUME TypeOK, NEW r \in Requests,
           \/ RequestStep(r) \/ CrashRequest(r)
           \/ \E b \in Bots : Create(r, b)
           \/ \E b \in Bots, to \in HireStatuses \ {"none"} : ReadHire(r, b, to)
    PROVE  TypeOK'
<1> USE DEF dbVars, history, bounds
<1>0. request[r] \in Request /\ request[r].bot \in Bots /\ row[request[r].bot] \in Row
  BY DEF TypeOK, Request
<1>1. ASSUME NEW b \in Bots, Create(r, b) PROVE TypeOK'
  BY <1>1, IdleTypes DEF Create, TypeOK, Request, HireStatuses
<1>2. ASSUME NEW b \in Bots, NEW to \in HireStatuses \ {"none"}, ReadHire(r, b, to)
      PROVE  TypeOK'
  BY <1>2 DEF ReadHire, TypeOK, Request
<1>3. CASE WriteStatus(r)
  <2>1. request[r].to \in HireStatuses
    BY <1>0 DEF Request
  <2>2. [IdleRequest EXCEPT !.pc = "stamp", !.bot = request[r].bot] \in Request
    BY <1>0, IdleTypes DEF Request
  <2> QED
    BY <1>3, <1>0, <2>1, <2>2, IdleTypes DEF WriteStatus, TypeOK
<1>4. CASE Stamp(r)
  <2>1. [row[request[r].bot] EXCEPT !.status = "pending"] \in Row
    BY <1>0 DEF Row, Statuses
  <2>2. [request EXCEPT ![r].pc = "enqueue"] \in [Requests -> Request]
    BY <1>0 DEF TypeOK, Request
  <2>3. /\ hire' = hire /\ row' \in [Bots -> Row]
        /\ old' \in SUBSET Bots /\ behind' \in SUBSET (Ticks \X Bots)
    <3>1. CASE Update(request[r].bot,
                      Matches(request[r].bot, row[request[r].bot].status \in StampableStatuses),
                      [row[request[r].bot] EXCEPT !.status = "pending"])
      BY <3>1, <2>1, <1>0, UpdateType
    <3>2. CASE UNCHANGED dbVars
      BY <3>2 DEF TypeOK
    <3> QED BY <1>4, <3>1, <3>2 DEF Stamp
  <2>4. faults' \in Nat /\ evictions' \in Nat
    BY <1>4 DEF Stamp, Fault, TypeOK
  <2> QED
    BY <1>4, <2>2, <2>3, <2>4 DEF Stamp, TypeOK
<1>5. CASE Enqueue(r)
  <2>1. job' \in [Bots -> Job]
    <3>1. CASE AddJob(request[r].bot, HappyAttempts)
      BY <3>1, <1>0, AddJobType, ConstantsAssumption
    <3>2. CASE UNCHANGED job
      BY <3>2 DEF TypeOK
    <3> QED BY <1>5, <3>1, <3>2 DEF Enqueue
  <2>2. faults' \in Nat /\ evictions' \in Nat
    BY <1>5 DEF Enqueue, Fault, TypeOK
  <2> QED
    BY <1>5, <2>1, <2>2, IdleTypes DEF Enqueue, TypeOK
<1>6. CASE CrashRequest(r)
  BY <1>6, IdleTypes DEF CrashRequest, Fault, TypeOK
<1> QED
  BY <1>1, <1>2, <1>3, <1>4, <1>5, <1>6 DEF RequestStep

LEMMA TickType ==
    ASSUME TypeOK, NEW t \in Ticks,
           Acquire(t) \/ TickStep(t) \/ FailTick(t) \/ CrashTick(t)
    PROVE  TypeOK'
<1> USE DEF dbVars, history, bounds
<1>0. tick[t] \in Tick
  BY DEF TypeOK
<1>1. CASE Acquire(t)
  <2>1. [IdleTick EXCEPT !.pc = "scan"] \in Tick
    BY IdleTypes DEF Tick
  <2> QED BY <1>1, <2>1 DEF Acquire, TypeOK
<1>2. CASE Scan(t)
  <2>1. PICK S \in SUBSET Bots :
          tick' = [tick EXCEPT ![t].pc = "rows", ![t].page = PageOf(S)]
    BY <1>2 DEF Scan
  <2>2. PageOf(S) \in SUBSET PageRow
    BY DEF PageOf, PageRow, TypeOK, Row
  <2>3. tick' \in [Ticks -> Tick]
    BY <2>1, <2>2, <1>0 DEF TypeOK, Tick
  <2>4. behind' \in SUBSET (Ticks \X Bots)
    BY <1>2 DEF Scan, TypeOK
  <2> QED BY <1>2, <2>3, <2>4 DEF Scan, TypeOK
<1>3. CASE HandleRow(t)
  <2>1. PICK p \in tick[t].page :
          LET u == WriteFor(p)
              matched == Matches(p.bot, /\ row[p.bot].status \in u.expect
                                        /\ u.stuckOnly => <<t, p.bot>> \in behind)
          IN /\ Update(p.bot, matched, [row[p.bot] EXCEPT !.status = u.status])
             /\ tick' = [tick EXCEPT ![t] =
                  [pc |-> IF matched /\ u.status = "registering" THEN "probe" ELSE "rows",
                   page |-> @.page \ {p}, bot |-> p.bot]]
    BY <1>3 DEF HandleRow
  <2>2. p.bot \in Bots /\ row[p.bot] \in Row
    BY <1>0 DEF Tick, PageRow, TypeOK
  <2>3. WriteFor(p).status \in Statuses
    BY DEF WriteFor, Statuses
  <2>4. [row[p.bot] EXCEPT !.status = WriteFor(p).status] \in Row
    BY <2>2, <2>3 DEF Row
  <2>5. /\ hire' = hire /\ row' \in [Bots -> Row]
        /\ old' \in SUBSET Bots /\ behind' \in SUBSET (Ticks \X Bots)
    BY <2>1, <2>2, <2>4, UpdateType
  <2>6. tick' \in [Ticks -> Tick]
    BY <2>1, <2>2, <1>0 DEF TypeOK, Tick
  <2> QED BY <1>3, <2>5, <2>6 DEF HandleRow, TypeOK
<1>4. CASE Probe(t)
  <2>0. tick[t].bot \in Bots
    BY <1>0 DEF Tick
  <2>1. job' \in [Bots -> Job]
    <3>1. CASE AddJob(tick[t].bot, ProbeAttempts)
      BY <3>1, <2>0, AddJobType, ConstantsAssumption
    <3>2. CASE UNCHANGED job
      BY <3>2 DEF TypeOK
    <3> QED BY <1>4, <3>1, <3>2 DEF Probe
  <2>2. faults' \in Nat /\ evictions' \in Nat
    BY <1>4 DEF Probe, Fault, TypeOK
  <2>3. [tick EXCEPT ![t].pc = "rows"] \in [Ticks -> Tick]
    BY <1>0 DEF TypeOK, Tick
  <2> QED BY <1>4, <2>1, <2>2, <2>3 DEF Probe, TypeOK
<1>5. CASE Release(t)
  BY <1>5, IdleTypes DEF Release, TypeOK
<1>6. CASE FailTick(t)
  <2>1. [tick EXCEPT ![t].pc = "rows", ![t].page = {}] \in [Ticks -> Tick]
    BY <1>0 DEF TypeOK, Tick
  <2> QED BY <1>6, <2>1 DEF FailTick, Fault, TypeOK
<1>7. CASE CrashTick(t)
  BY <1>7, IdleTypes DEF CrashTick, Fault, TypeOK
<1> QED
  BY <1>1, <1>2, <1>3, <1>4, <1>5, <1>6, <1>7 DEF TickStep

LEMMA WorkerType ==
    ASSUME TypeOK, NEW w \in Workers, WorkerStep(w) \/ FailWrite(w) \/ CrashWorker(w)
    PROVE  TypeOK'
<1> USE DEF dbVars, history, bounds
<1> DEFINE b == worker[w].bot
<1>0. worker[w] \in Worker /\ b \in Bots /\ row[b] \in Row /\ worker[w].fp \in Urls
  BY DEF TypeOK, Worker
<1>1. ASSUME NEW c \in Bots, Take(w, c) PROVE TypeOK'
  <2>1. job' \in [Bots -> Job]
    BY <1>1 DEF Take, TypeOK, Job
  <2>2. worker' \in [Workers -> Worker]
    BY <1>1 DEF Take, TypeOK, Worker
  <2> QED BY <1>1, <2>1, <2>2 DEF Take, TypeOK
<1>2. CASE Start(w)
  <2>1. [row[b] EXCEPT !.status = "registering", !.fp = worker[w].fp] \in Row
    BY <1>0 DEF Row, Statuses
  <2>2. /\ hire' = hire /\ row' \in [Bots -> Row]
        /\ old' \in SUBSET Bots /\ behind' \in SUBSET (Ticks \X Bots)
    BY <1>2, <1>0, <2>1, UpdateType DEF Start
  <2>3. worker' \in [Workers -> Worker]
    BY <1>2, <1>0 DEF Start, TypeOK, Worker
  <2> QED BY <1>2, <2>2, <2>3 DEF Start, TypeOK
<1>3. CASE CallTelegram(w)
  <2>1. worker' \in [Workers -> Worker]
    BY <1>3, <1>0 DEF CallTelegram, TypeOK, Worker
  <2>2. accepted' \in [Bots -> SUBSET Urls]
    BY <1>3, <1>0 DEF CallTelegram, TypeOK
  <2> QED BY <1>3, <2>1, <2>2 DEF CallTelegram, TypeOK
<1>4. CASE Settle(w)
  <2>1. Settled(w, row[b]) \in Row
    BY <1>0 DEF Settled, Row, Statuses
  <2>2. /\ hire' = hire /\ row' \in [Bots -> Row]
        /\ old' \in SUBSET Bots /\ behind' \in SUBSET (Ticks \X Bots)
    BY <1>4, <1>0, <2>1, UpdateType DEF Settle
  <2>3. worker' \in [Workers -> Worker]
    BY <1>4, <1>0 DEF Settle, TypeOK, Worker
  <2> QED BY <1>4, <2>2, <2>3 DEF Settle, TypeOK
<1>5. CASE Finish(w)
  <2>0. job[b] \in Job
    BY <1>0 DEF TypeOK
  <2>1. FinishedJob(w, job[b]) \in Job
    <3>1. Final(w) \/ worker[w].pc = "completed" => FinishedJob(w, job[b]) \in Job
      BY <2>0 DEF FinishedJob, Job
    <3>2. ASSUME worker[w].pc = "retry", ~Final(w) PROVE FinishedJob(w, job[b]) \in Job
      <4>1. job[b].left - 1 \in Nat
        BY <2>0, <3>2 DEF Job, Final
      <4> QED BY <2>0, <3>2, <4>1 DEF FinishedJob, Job
    <3> QED BY <1>5, <3>1, <3>2 DEF Finish, Final
  <2>2. job' \in [Bots -> Job]
    BY <1>5, <2>1 DEF Finish, TypeOK
  <2>c. [worker[w] EXCEPT !.pc = "report", !.owns = FALSE] \in Worker
    BY <1>0 DEF Worker
  <2>3. worker' \in [Workers -> Worker]
    BY <1>5, <1>0, <2>c, IdleTypes DEF Finish, TypeOK
  <2>4. failures' \in [Bots -> Nat]
    BY <1>5, <1>0 DEF Finish, TypeOK
  <2> QED BY <1>5, <2>2, <2>3, <2>4 DEF Finish, TypeOK
<1>6. CASE Report(w)
  <2>0. row[b].count + 1 \in Nat
    BY <1>0 DEF Row
  <2>1. [row[b] EXCEPT !.status = "failed", !.count = @ + 1] \in Row
    BY <1>0, <2>0 DEF Row, Statuses
  <2>2. /\ hire' = hire /\ row' \in [Bots -> Row]
        /\ old' \in SUBSET Bots /\ behind' \in SUBSET (Ticks \X Bots)
    BY <1>6, <1>0, <2>1, UpdateType DEF Report
  <2> QED BY <1>6, <2>2, IdleTypes DEF Report, TypeOK
<1>7. CASE FailWrite(w)
  <2>1. worker' \in [Workers -> Worker]
    BY <1>7, <1>0 DEF FailWrite, TypeOK, Worker
  <2> QED BY <1>7, <2>1 DEF FailWrite, Fault, TypeOK
<1>8. CASE CrashWorker(w)
  BY <1>8, IdleTypes DEF CrashWorker, Fault, TypeOK
<1> QED
  BY <1>1, <1>2, <1>3, <1>4, <1>5, <1>6, <1>7, <1>8 DEF WorkerStep

LEMMA EnvironmentType ==
    ASSUME TypeOK,
           \/ \E b \in Bots : Stall(b) \/ Evict(b) \/ Age(b)
           \/ \E u \in Urls : Redeploy(u)
           \/ ExpireLock
           \/ UNCHANGED vars
    PROVE  TypeOK'
<1> USE DEF dbVars, history, bounds
<1>1. ASSUME NEW b \in Bots, Stall(b) PROVE TypeOK'
  <2>0. job[b] \in Job /\ job[b].stalls + 1 \in Nat
    BY DEF TypeOK, Job
  <2>a. /\ [job[b] EXCEPT !.state = "waiting", !.stalls = @ + 1] \in Job
        /\ [job[b] EXCEPT !.state = "failed"] \in Job
    BY <2>0 DEF Job
  <2>1. job' \in [Bots -> Job]
    BY <1>1, <2>a DEF Stall, TypeOK
  <2>b. \A w \in Workers : [worker[w] EXCEPT !.owns = FALSE] \in Worker
    BY DEF TypeOK, Worker
  <2>2. worker' \in [Workers -> Worker]
    BY <1>1, <2>b DEF Stall, Disown, TypeOK
  <2>3. failures' \in [Bots -> Nat]
    BY <1>1 DEF Stall, TypeOK
  <2> QED BY <1>1, <2>1, <2>2, <2>3 DEF Stall, TypeOK
<1>2. ASSUME NEW b \in Bots, Evict(b) PROVE TypeOK'
  BY <1>2, IdleTypes DEF Evict, TypeOK
<1>3. ASSUME NEW b \in Bots, Age(b) PROVE TypeOK'
  BY <1>3 DEF Age, TypeOK
<1>4. ASSUME NEW u \in Urls, Redeploy(u) PROVE TypeOK'
  BY <1>4 DEF Redeploy, TypeOK
<1>5. CASE ExpireLock
  BY <1>5 DEF ExpireLock, TypeOK
<1>6. CASE UNCHANGED vars
  BY <1>6 DEF vars, TypeOK
<1> QED
  BY <1>1, <1>2, <1>3, <1>4, <1>5, <1>6

LEMMA NextType == TypeOK /\ [Next]_vars => TypeOK'
<1> SUFFICES ASSUME TypeOK, [Next]_vars PROVE TypeOK'
  OBVIOUS
<1> QED
  BY RequestType, TickType, WorkerType, EnvironmentType DEF Next

\* Every reachable state is well typed: the statuses and counters the code writes stay
\* within the schema, although its updates bypass the schema's validation.
THEOREM TypeCorrect == Spec => []TypeOK
  BY InitType, NextType, PTL DEF Spec

------------------------------------------------------------------------------
(* A row says `registered` only if Telegram accepted its fingerprint.          *)

\* The strengthening: a registrar about to write `registered` holds a fingerprint that
\* Telegram accepted.  The row alone is not inductive: the call and the write are two
\* steps, and the row may have been rewritten in between.
WorkersAccepted ==
    \A w \in Workers :
      worker[w].pc = "accepted" => worker[w].fp \in accepted[worker[w].bot]
AcceptedInv == RegisteredMeansAccepted /\ WorkersAccepted

\* An update that does not write `registered` preserves the row part.
LEMMA UpdateAccepted ==
    ASSUME TypeOK, RegisteredMeansAccepted, accepted' = accepted,
           NEW b \in Bots, NEW m, NEW new \in Row, Update(b, m, new),
           new.status # "registered"
    PROVE  RegisteredMeansAccepted'
  BY DEF Update, RegisteredMeansAccepted, TypeOK

\* So does a step that leaves the rows alone.
LEMMA SameRowsAccepted ==
    ASSUME RegisteredMeansAccepted, accepted' = accepted, row' = row
    PROVE  RegisteredMeansAccepted'
  BY DEF RegisteredMeansAccepted

LEMMA RequestAccepted ==
    ASSUME TypeOK, AcceptedInv, NEW r \in Requests,
           \/ RequestStep(r) \/ CrashRequest(r)
           \/ \E b \in Bots : Create(r, b)
           \/ \E b \in Bots, to \in HireStatuses \ {"none"} : ReadHire(r, b, to)
    PROVE  AcceptedInv'
<1> USE DEF dbVars, history, bounds
<1>1. accepted' = accepted /\ worker' = worker
  BY DEF RequestStep, WriteStatus, Stamp, Enqueue, CrashRequest, Create, ReadHire
<1>2. WorkersAccepted'
  BY <1>1 DEF AcceptedInv, WorkersAccepted
<1>3. RegisteredMeansAccepted'
  <2>1. CASE Stamp(r) /\ row' # row
    <3>0. request[r].bot \in Bots /\ row[request[r].bot] \in Row
      BY DEF TypeOK, Request
    <3>1. [row[request[r].bot] EXCEPT !.status = "pending"] \in Row
      BY <3>0 DEF Row, Statuses
    <3>2. [row[request[r].bot] EXCEPT !.status = "pending"].status # "registered"
      BY <3>0 DEF Row
    <3>3. Update(request[r].bot,
                 Matches(request[r].bot, row[request[r].bot].status \in StampableStatuses),
                 [row[request[r].bot] EXCEPT !.status = "pending"])
      BY <2>1 DEF Stamp
    <3> QED BY <1>1, <3>0, <3>1, <3>2, <3>3, UpdateAccepted DEF AcceptedInv
  <2>2. CASE row' = row
    BY <2>2, <1>1, SameRowsAccepted DEF AcceptedInv
  <2> QED
    BY <2>1, <2>2 DEF RequestStep, WriteStatus, Enqueue, CrashRequest, Create, ReadHire
<1> QED BY <1>2, <1>3 DEF AcceptedInv

LEMMA TickAccepted ==
    ASSUME TypeOK, AcceptedInv, NEW t \in Ticks,
           Acquire(t) \/ TickStep(t) \/ FailTick(t) \/ CrashTick(t)
    PROVE  AcceptedInv'
<1> USE DEF dbVars, history, bounds
<1>1. accepted' = accepted /\ worker' = worker
  BY DEF TickStep, Acquire, Scan, HandleRow, Probe, Release, FailTick, CrashTick
<1>2. WorkersAccepted'
  BY <1>1 DEF AcceptedInv, WorkersAccepted
<1>3. RegisteredMeansAccepted'
  <2>1. CASE HandleRow(t)
    <3>1. PICK p \in tick[t].page, m \in BOOLEAN :
            Update(p.bot, m, [row[p.bot] EXCEPT !.status = WriteFor(p).status])
      BY <2>1 DEF HandleRow, Matches
    <3>2. p.bot \in Bots /\ row[p.bot] \in Row
      BY DEF TypeOK, Tick, PageRow
    <3>3. WriteFor(p).status \in Statuses \ {"registered"}
      BY DEF WriteFor, Statuses
    <3>4. /\ [row[p.bot] EXCEPT !.status = WriteFor(p).status] \in Row
          /\ [row[p.bot] EXCEPT !.status = WriteFor(p).status].status # "registered"
      BY <3>2, <3>3 DEF Row
    <3> QED BY <1>1, <3>1, <3>2, <3>4, UpdateAccepted DEF AcceptedInv
  <2>2. CASE row' = row
    BY <2>2, <1>1, SameRowsAccepted DEF AcceptedInv
  <2> QED
    BY <2>1, <2>2 DEF TickStep, Acquire, Scan, Probe, Release, FailTick, CrashTick
<1> QED BY <1>2, <1>3 DEF AcceptedInv

LEMMA WorkerStepAccepted ==
    ASSUME TypeOK, AcceptedInv, NEW w \in Workers,
           WorkerStep(w) \/ FailWrite(w) \/ CrashWorker(w)
    PROVE  AcceptedInv'
<1> USE DEF dbVars, history, bounds
<1> DEFINE b == worker[w].bot
<1>0. worker[w] \in Worker /\ b \in Bots /\ row[b] \in Row /\ worker[w].fp \in Urls
  BY DEF TypeOK, Worker
<1>1. CASE row' = row /\ accepted' = accepted /\ worker'[w].pc # "accepted"
          /\ \A v \in Workers \ {w} : worker'[v] = worker[v]
  <2>1. WorkersAccepted'
    BY <1>1 DEF AcceptedInv, WorkersAccepted
  <2> QED BY <1>1, <2>1, SameRowsAccepted DEF AcceptedInv
<1>2. CASE Start(w)
  <2>1. /\ [row[b] EXCEPT !.status = "registering", !.fp = worker[w].fp] \in Row
        /\ [row[b] EXCEPT !.status = "registering", !.fp = worker[w].fp].status # "registered"
    BY <1>0 DEF Row, Statuses
  <2>2. accepted' = accepted
    BY <1>2 DEF Start
  <2>3. RegisteredMeansAccepted'
    BY <1>2, <1>0, <2>1, <2>2, UpdateAccepted DEF Start, AcceptedInv
  <2>4. WorkersAccepted'
    BY <1>2, <2>2 DEF Start, AcceptedInv, WorkersAccepted, TypeOK, Worker
  <2> QED BY <2>3, <2>4 DEF AcceptedInv
<1>3. CASE CallTelegram(w)
  <2>1. row' = row
    BY <1>3 DEF CallTelegram
  <2>2. \A c \in Bots : accepted[c] \subseteq accepted'[c]
    BY <1>3, <1>0 DEF CallTelegram, TypeOK
  <2>3. RegisteredMeansAccepted'
    BY <2>1, <2>2 DEF AcceptedInv, RegisteredMeansAccepted
  <2>4. worker'[w].pc = "accepted" => worker'[w].fp \in accepted'[worker'[w].bot]
    BY <1>3, <1>0 DEF CallTelegram, TypeOK, Worker
  <2>5. \A v \in Workers \ {w} : worker'[v] = worker[v] /\ worker[v].bot \in Bots
    BY <1>3 DEF CallTelegram, TypeOK, Worker
  <2>6. WorkersAccepted'
    BY <2>2, <2>4, <2>5 DEF AcceptedInv, WorkersAccepted
  <2> QED BY <2>3, <2>6 DEF AcceptedInv
<1>4. CASE Settle(w)
  <2>1. accepted' = accepted
    BY <1>4 DEF Settle
  <2>2. RegisteredMeansAccepted'
    <3>1. CASE worker[w].pc = "accepted"
      <4>1. Settled(w, row[b]).fp = worker[w].fp
        BY <3>1, <1>0 DEF Settled, Row
      <4>2. worker[w].fp \in accepted[b]
        BY <3>1 DEF AcceptedInv, WorkersAccepted
      <4>3. Update(b, Matches(b, TRUE), Settled(w, row[b]))
        BY <1>4 DEF Settle
      <4> QED BY <4>1, <4>2, <4>3, <2>1, <1>0 DEF Update, AcceptedInv, RegisteredMeansAccepted, TypeOK
    <3>2. CASE worker[w].pc # "accepted"
      <4>1. Settled(w, row[b]) \in Row /\ Settled(w, row[b]).status # "registered"
        BY <3>2, <1>0 DEF Settled, Row, Statuses
      <4> QED BY <1>4, <1>0, <2>1, <4>1, UpdateAccepted DEF Settle, AcceptedInv
    <3> QED BY <3>1, <3>2
  <2>3. WorkersAccepted'
    BY <1>4, <1>0, <2>1 DEF Settle, AcceptedInv, WorkersAccepted, TypeOK, Worker
  <2> QED BY <2>2, <2>3 DEF AcceptedInv
<1>5. CASE Report(w)
  <2>0. row[b].count + 1 \in Nat
    BY <1>0 DEF Row
  <2>1. /\ [row[b] EXCEPT !.status = "failed", !.count = @ + 1] \in Row
        /\ [row[b] EXCEPT !.status = "failed", !.count = @ + 1].status # "registered"
    BY <1>0, <2>0 DEF Row, Statuses
  <2>2. accepted' = accepted
    BY <1>5 DEF Report
  <2>3. RegisteredMeansAccepted'
    BY <1>5, <1>0, <2>1, <2>2, UpdateAccepted DEF Report, AcceptedInv
  <2>4. WorkersAccepted'
    BY <1>5, <2>2 DEF Report, AcceptedInv, WorkersAccepted, TypeOK, Worker, IdleWorker
  <2> QED BY <2>3, <2>4 DEF AcceptedInv
<1>6. ASSUME (\E c \in Bots : Take(w, c)) \/ Finish(w) \/ FailWrite(w) \/ CrashWorker(w)
      PROVE  /\ row' = row /\ accepted' = accepted /\ worker'[w].pc # "accepted"
             /\ \A v \in Workers \ {w} : worker'[v] = worker[v]
  <2>1. ASSUME NEW c \in Bots, Take(w, c) 
        PROVE  /\ row' = row /\ accepted' = accepted /\ worker'[w].pc # "accepted"
               /\ \A v \in Workers \ {w} : worker'[v] = worker[v]
    BY <2>1 DEF Take, TypeOK
  <2>2. CASE Finish(w)
    BY <2>2, <1>0 DEF Finish, TypeOK, Worker, IdleWorker
  <2>3. CASE FailWrite(w)
    BY <2>3, <1>0 DEF FailWrite, TypeOK, Worker
  <2>4. CASE CrashWorker(w)
    BY <2>4 DEF CrashWorker, TypeOK, IdleWorker
  <2> QED BY <1>6, <2>1, <2>2, <2>3, <2>4
<1> QED
  BY <1>1, <1>2, <1>3, <1>4, <1>5, <1>6 DEF WorkerStep

LEMMA EnvironmentAccepted ==
    ASSUME TypeOK, AcceptedInv,
           \/ \E b \in Bots : Stall(b) \/ Evict(b) \/ Age(b)
           \/ \E u \in Urls : Redeploy(u)
           \/ ExpireLock
           \/ UNCHANGED vars
    PROVE  AcceptedInv'
<1> USE DEF dbVars, history, bounds
<1>1. accepted' = accepted /\ row' = row
  BY DEF Stall, Evict, Age, Redeploy, ExpireLock, vars
<1>2. \A w \in Workers : /\ worker'[w].pc = worker[w].pc
                         /\ worker'[w].bot = worker[w].bot /\ worker'[w].fp = worker[w].fp
  <2>1. ASSUME NEW c \in Bots, Stall(c) 
        PROVE  \A w \in Workers : /\ worker'[w].pc = worker[w].pc
                 /\ worker'[w].bot = worker[w].bot /\ worker'[w].fp = worker[w].fp
    BY <2>1 DEF Stall, Disown, TypeOK, Worker
  <2>2. CASE worker' = worker
    BY <2>2
  <2> QED BY <2>1, <2>2 DEF Evict, Age, Redeploy, ExpireLock, vars
<1>3. WorkersAccepted'
  BY <1>1, <1>2 DEF AcceptedInv, WorkersAccepted
<1> QED BY <1>1, <1>3, SameRowsAccepted DEF AcceptedInv

LEMMA NextAccepted == TypeOK /\ AcceptedInv /\ [Next]_vars => AcceptedInv'
  BY RequestAccepted, TickAccepted, WorkerStepAccepted, EnvironmentAccepted DEF Next

LEMMA InitAccepted == Init => AcceptedInv
  BY DEF Init, AcceptedInv, RegisteredMeansAccepted, WorkersAccepted, AbsentRow, IdleWorker

\* However often jobs are retried, stalled and run twice, and whatever requests and
\* reconcilers do meanwhile, `registered` means Telegram accepted the stored URL.
THEOREM RegisteredIsAccepted == Spec => []RegisteredMeansAccepted
<1>1. Spec => []AcceptedInv
  BY TypeCorrect, InitAccepted, NextAccepted, PTL DEF Spec
<1>2. AcceptedInv => RegisteredMeansAccepted
  BY DEF AcceptedInv
<1> QED BY <1>1, <1>2, PTL

------------------------------------------------------------------------------
(* No row is ever quarantined.                                                 *)

\* The strengthening: every page a reconciler works from holds only counters below the
\* threshold, because the scan asked for them and an absent row counts as 0.
PagesBelowThreshold == \A t \in Ticks : \A p \in tick[t].page : p.count < Threshold
AbsentRowsAreNew == \A b \in Bots : row[b].status = "absent" => row[b].count = 0
QuarantineInv == QuarantineUnreachable /\ PagesBelowThreshold /\ AbsentRowsAreNew

\* An update that writes neither `quarantined` nor `absent` preserves the row parts.
LEMMA UpdateQuarantine ==
    ASSUME TypeOK, QuarantineInv, NEW b \in Bots, NEW m, NEW new \in Row,
           Update(b, m, new), new.status \notin {"quarantined", "absent"}
    PROVE  QuarantineUnreachable' /\ AbsentRowsAreNew'
  BY DEF Update, QuarantineInv, QuarantineUnreachable, AbsentRowsAreNew, TypeOK

LEMMA SameQuarantine ==
    ASSUME QuarantineInv, row' = row
    PROVE  QuarantineUnreachable' /\ AbsentRowsAreNew'
  BY DEF QuarantineInv, QuarantineUnreachable, AbsentRowsAreNew

LEMMA NextQuarantine == TypeOK /\ QuarantineInv /\ [Next]_vars => QuarantineInv'
<1> SUFFICES ASSUME TypeOK, QuarantineInv, [Next]_vars PROVE QuarantineInv'
  OBVIOUS
<1> USE DEF dbVars, history, bounds
<1>1. ASSUME NEW r \in Requests, Stamp(r) PROVE QuarantineInv'
  <2>0. request[r].bot \in Bots /\ row[request[r].bot] \in Row
    BY DEF TypeOK, Request
  <2>1. /\ [row[request[r].bot] EXCEPT !.status = "pending"] \in Row
        /\ [row[request[r].bot] EXCEPT !.status = "pending"].status = "pending"
    BY <2>0 DEF Row, Statuses
  <2>2. QuarantineUnreachable' /\ AbsentRowsAreNew'
    <3>1. CASE row' = row
      BY <3>1, SameQuarantine
    <3>2. CASE Update(request[r].bot,
                      Matches(request[r].bot, row[request[r].bot].status \in StampableStatuses),
                      [row[request[r].bot] EXCEPT !.status = "pending"])
      BY <3>2, <2>0, <2>1, UpdateQuarantine
    <3> QED BY <1>1, <3>1, <3>2 DEF Stamp
  <2> QED BY <1>1, <2>2 DEF Stamp, QuarantineInv, PagesBelowThreshold
<1>2. ASSUME NEW t \in Ticks, Scan(t) PROVE QuarantineInv'
  <2>1. PICK S \in SUBSET {b \in Bots : Reconcilable(b)} :
          tick' = [tick EXCEPT ![t].pc = "rows", ![t].page = PageOf(S)]
    BY <1>2 DEF Scan
  <2>2. \A b \in S : row[b].count < Threshold
    BY ConstantsAssumption DEF Reconcilable, QuarantineInv, AbsentRowsAreNew
  <2>3. \A p \in PageOf(S) : p.count < Threshold
    BY <2>2 DEF PageOf
  <2>4. PagesBelowThreshold'
    BY <2>1, <2>3 DEF PagesBelowThreshold, QuarantineInv, TypeOK, Tick
  <2> QED BY <1>2, <2>4, SameQuarantine DEF Scan, QuarantineInv
<1>3. ASSUME NEW t \in Ticks, HandleRow(t) PROVE QuarantineInv'
  <2>1. PICK p \in tick[t].page, m \in BOOLEAN :
          Update(p.bot, m, [row[p.bot] EXCEPT !.status = WriteFor(p).status])
    BY <1>3 DEF HandleRow, Matches
  <2>2. p \in PageRow /\ p.bot \in Bots /\ row[p.bot] \in Row
    BY DEF TypeOK, Tick, PageRow
  <2>3. p.count < Threshold /\ p.count \in Nat
    BY <2>2 DEF QuarantineInv, PagesBelowThreshold, PageRow
  <2>4. WriteFor(p).status \in {"failed", "registering"}
    BY <2>3, ConstantsAssumption DEF WriteFor
  <2>5. /\ [row[p.bot] EXCEPT !.status = WriteFor(p).status] \in Row
        /\ [row[p.bot] EXCEPT !.status = WriteFor(p).status].status \notin {"quarantined", "absent"}
    BY <2>2, <2>4 DEF Row, Statuses
  <2>6. \A s \in Ticks : tick'[s].page \subseteq tick[s].page
    BY <1>3 DEF HandleRow, TypeOK, Tick
  <2>7. PagesBelowThreshold'
    BY <2>6 DEF QuarantineInv, PagesBelowThreshold
  <2> QED BY <2>1, <2>2, <2>5, <2>7, UpdateQuarantine DEF QuarantineInv
<1>4. ASSUME NEW t \in Ticks,
             Acquire(t) \/ Probe(t) \/ Release(t) \/ FailTick(t) \/ CrashTick(t)
      PROVE  QuarantineInv'
  <2>1. row' = row
    BY <1>4 DEF Acquire, Probe, Release, FailTick, CrashTick
  <2>2. \A s \in Ticks : tick'[s].page \subseteq tick[s].page
    BY <1>4 DEF Acquire, Probe, Release, FailTick, CrashTick, IdleTick, TypeOK, Tick
  <2>3. PagesBelowThreshold'
    BY <2>2 DEF QuarantineInv, PagesBelowThreshold
  <2> QED BY <2>1, <2>3, SameQuarantine DEF QuarantineInv
<1>5. ASSUME NEW w \in Workers, Start(w) \/ Settle(w) \/ Report(w) PROVE QuarantineInv'
  <2> DEFINE b == worker[w].bot
  <2>0. worker[w] \in Worker /\ b \in Bots /\ row[b] \in Row /\ worker[w].fp \in Urls
        /\ row[b].count + 1 \in Nat
    BY DEF TypeOK, Worker, Row
  <2>1. tick' = tick
    BY <1>5 DEF Start, Settle, Report
  <2>2. \E m \in BOOLEAN, new \in Row : /\ Update(b, m, new)
                                        /\ new.status \notin {"quarantined", "absent"}
    <3>1. CASE Start(w)
      <4>1. /\ [row[b] EXCEPT !.status = "registering", !.fp = worker[w].fp] \in Row
            /\ [row[b] EXCEPT !.status = "registering", !.fp = worker[w].fp].status = "registering"
        BY <2>0 DEF Row, Statuses
      <4> QED BY <3>1, <4>1 DEF Start, Matches
    <3>2. CASE Settle(w)
      <4>1. /\ Settled(w, row[b]) \in Row
            /\ Settled(w, row[b]).status \in {"registered", "failed"}
        BY <2>0 DEF Settled, Row, Statuses
      <4> QED BY <3>2, <4>1 DEF Settle, Matches
    <3>3. CASE Report(w)
      <4>1. /\ [row[b] EXCEPT !.status = "failed", !.count = @ + 1] \in Row
            /\ [row[b] EXCEPT !.status = "failed", !.count = @ + 1].status = "failed"
        BY <2>0 DEF Row, Statuses
      <4> QED BY <3>3, <4>1 DEF Report, Matches
    <3> QED BY <1>5, <3>1, <3>2, <3>3
  <2>3. QuarantineUnreachable' /\ AbsentRowsAreNew'
    BY <2>0, <2>2, UpdateQuarantine
  <2> QED BY <2>1, <2>3 DEF QuarantineInv, PagesBelowThreshold
<1>6. CASE row' = row /\ tick' = tick
  BY <1>6, SameQuarantine DEF QuarantineInv, PagesBelowThreshold
<1>7. ASSUME NEW r \in Requests,
             \/ WriteStatus(r) \/ Enqueue(r) \/ CrashRequest(r)
             \/ \E b \in Bots : Create(r, b)
             \/ \E b \in Bots, to \in HireStatuses \ {"none"} : ReadHire(r, b, to)
      PROVE  row' = row /\ tick' = tick
  BY <1>7 DEF WriteStatus, Enqueue, CrashRequest, Create, ReadHire
<1>8. ASSUME NEW w \in Workers,
             \/ \E b \in Bots : Take(w, b)
             \/ CallTelegram(w) \/ Finish(w) \/ FailWrite(w) \/ CrashWorker(w)
      PROVE  row' = row /\ tick' = tick
  BY <1>8 DEF Take, CallTelegram, Finish, FailWrite, CrashWorker
<1>9. ASSUME \/ \E b \in Bots : Stall(b) \/ Evict(b) \/ Age(b)
             \/ \E u \in Urls : Redeploy(u)
             \/ ExpireLock \/ UNCHANGED vars
      PROVE  row' = row /\ tick' = tick
  BY <1>9 DEF Stall, Evict, Age, Redeploy, ExpireLock, vars
<1> QED
  BY <1>1, <1>2, <1>3, <1>4, <1>5, <1>6, <1>7, <1>8, <1>9
     DEF Next, RequestStep, TickStep, WorkerStep

LEMMA InitQuarantine == Init => QuarantineInv
  BY DEF Init, QuarantineInv, QuarantineUnreachable, PagesBelowThreshold, AbsentRowsAreNew,
         AbsentRow, IdleTick

\* The reconciler's quarantine branch is dead for every threshold and page size: what
\* the scan lets through is below the threshold the loop compares with.
THEOREM NothingIsQuarantined == Spec => []QuarantineUnreachable
<1>1. Spec => []QuarantineInv
  BY TypeCorrect, InitQuarantine, NextQuarantine, PTL DEF Spec
<1>2. QuarantineInv => QuarantineUnreachable
  BY DEF QuarantineInv
<1> QED BY <1>1, <1>2, PTL

------------------------------------------------------------------------------
(* attemptCount never exceeds the number of jobs that failed for good.         *)

LEMMA ReportersFinite ==
    ASSUME NEW b \in Bots
    PROVE  IsFiniteSet(Reporters(b)) /\ Cardinality(Reporters(b)) \in Nat
<1>1. Reporters(b) \subseteq Workers
  BY DEF Reporters
<1> QED BY <1>1, ConstantsAssumption, FS_Subset, FS_CardinalityType

\* A step that changes no counter, makes no reporter and forgets no failure.
LEMMA QuietStep ==
    ASSUME TypeOK, TypeOK', AtMostOneIncrementPerJob,
           \A b \in Bots : /\ row'[b].count = row[b].count
                          /\ Reporters(b)' \subseteq Reporters(b)
                          /\ failures'[b] >= failures[b]
    PROVE  AtMostOneIncrementPerJob'
<1> SUFFICES ASSUME NEW b \in Bots
             PROVE  row'[b].count + Cardinality(Reporters(b)') <= failures'[b]
  BY DEF AtMostOneIncrementPerJob
<1>1. Cardinality(Reporters(b)') <= Cardinality(Reporters(b)) /\ Cardinality(Reporters(b)') \in Nat
  BY ReportersFinite, FS_Subset, FS_CardinalityType
<1>2. row[b].count \in Nat /\ failures[b] \in Nat /\ failures'[b] \in Nat
  BY DEF TypeOK, Row
<1>3. row[b].count + Cardinality(Reporters(b)) <= failures[b]
  BY DEF AtMostOneIncrementPerJob
<1> QED BY <1>1, <1>2, <1>3, ReportersFinite

\* An update that does not touch attemptCount.
LEMMA UpdateKeepsCount ==
    ASSUME TypeOK, NEW b \in Bots, NEW m, NEW new \in Row, Update(b, m, new),
           new.count = row[b].count
    PROVE  \A c \in Bots : row'[c].count = row[c].count
  BY DEF Update, TypeOK

LEMMA ReportIncrement ==
    ASSUME TypeOK, TypeOK', AtMostOneIncrementPerJob, NEW w \in Workers, Report(w)
    PROVE  AtMostOneIncrementPerJob'
<1> SUFFICES ASSUME NEW c \in Bots
             PROVE  row'[c].count + Cardinality(Reporters(c)') <= failures'[c]
  BY DEF AtMostOneIncrementPerJob
<1> USE DEF history
<1>0. /\ row[c].count \in Nat /\ failures[c] \in Nat /\ failures' = failures
      /\ row'[c].count \in Nat /\ worker[w].bot \in Bots
  BY DEF TypeOK, Row, Worker, Report
<1>1. row[c].count + Cardinality(Reporters(c)) <= failures[c]
  BY DEF AtMostOneIncrementPerJob
<1>2. Reporters(c)' = Reporters(c) \ {w}
  BY DEF Reporters, Report, IdleWorker, TypeOK
<1>3. CASE c = worker[w].bot
  <2>1. w \in Reporters(c)
    BY <1>3 DEF Reporters, Report
  <2>2. Cardinality(Reporters(c)') = Cardinality(Reporters(c)) - 1
    BY <1>2, <2>1, ReportersFinite, FS_RemoveElement
  <2> DEFINE new == [row[c] EXCEPT !.status = "failed", !.count = row[c].count + 1]
  <2>3. new.count = row[c].count + 1
    BY DEF TypeOK, Row
  <2>4. row' = row \/ row' = [row EXCEPT ![c] = new]
    BY <1>3 DEF Report, Update
  <2>5. row'[c].count = row[c].count \/ row'[c].count = row[c].count + 1
    <3> HIDE DEF new
    <3> QED BY <2>3, <2>4 DEF TypeOK
  <2> QED BY <1>0, <1>1, <2>2, <2>5, ReportersFinite
<1>4. CASE c # worker[w].bot
  <2>1. Reporters(c)' = Reporters(c)
    BY <1>2, <1>4 DEF Reporters
  <2>2. row'[c] = row[c]
    BY <1>4, <1>0 DEF Report, Update, TypeOK
  <2> QED BY <1>0, <1>1, <2>1, <2>2
<1> QED BY <1>3, <1>4

LEMMA FinishIncrement ==
    ASSUME TypeOK, TypeOK', AtMostOneIncrementPerJob, NEW w \in Workers, Finish(w)
    PROVE  AtMostOneIncrementPerJob'
<1> USE DEF dbVars
<1>0. row' = row /\ worker[w].bot \in Bots /\ worker[w].pc # "report"
  BY DEF Finish, TypeOK, Worker
<1>1. CASE ~(worker[w].owns /\ Final(w))
  <2>1. failures' = failures /\ \A b \in Bots : Reporters(b)' \subseteq Reporters(b)
    BY <1>1 DEF Finish, Reporters, IdleWorker, TypeOK
  <2> QED BY <1>0, <2>1, QuietStep DEF TypeOK
<1>2. CASE worker[w].owns /\ Final(w)
  <2> SUFFICES ASSUME NEW c \in Bots
               PROVE  row'[c].count + Cardinality(Reporters(c)') <= failures'[c]
    BY DEF AtMostOneIncrementPerJob
  <2>0. /\ row[c].count \in Nat /\ failures[c] \in Nat
        /\ row[c].count + Cardinality(Reporters(c)) <= failures[c]
    BY DEF TypeOK, Row, AtMostOneIncrementPerJob
  <2>1. worker' = [worker EXCEPT ![w] = [worker[w] EXCEPT !.pc = "report", !.owns = FALSE]]
    BY <1>2 DEF Finish
  <2>2. failures' = [failures EXCEPT ![worker[w].bot] = failures[worker[w].bot] + 1]
    BY <1>2 DEF Finish
  <2>3. worker'[w].pc = "report" /\ worker'[w].bot = worker[w].bot
    BY <2>1 DEF TypeOK, Worker
  <2>4. CASE c = worker[w].bot
    <3>1. Reporters(c)' = Reporters(c) \cup {w}
      BY <2>1, <2>3, <2>4 DEF Reporters, TypeOK
    <3>2. w \notin Reporters(c)
      BY <1>0 DEF Reporters
    <3>3. Cardinality(Reporters(c)') = Cardinality(Reporters(c)) + 1
      BY <3>1, <3>2, ReportersFinite, FS_AddElement
    <3>4. failures'[c] = failures[c] + 1
      BY <2>2, <2>4 DEF TypeOK
    <3> QED BY <1>0, <2>0, <3>3, <3>4, ReportersFinite
  <2>5. CASE c # worker[w].bot
    <3>1. Reporters(c)' = Reporters(c)
      BY <2>1, <2>3, <2>5 DEF Reporters, TypeOK
    <3>2. failures'[c] = failures[c]
      BY <2>2, <2>5 DEF TypeOK
    <3> QED BY <1>0, <2>0, <3>1, <3>2
  <2> QED BY <2>4, <2>5
<1> QED BY <1>1, <1>2

\* Every other step is quiet.
LEMMA OtherSteps ==
    ASSUME TypeOK, [Next]_vars, \A w \in Workers : ~Report(w) /\ ~Finish(w)
    PROVE  \A b \in Bots : /\ row'[b].count = row[b].count
                          /\ Reporters(b)' \subseteq Reporters(b)
                          /\ failures'[b] >= failures[b]
<1> USE DEF dbVars, history, bounds
<1> DEFINE Quiet == \A b \in Bots : /\ row'[b].count = row[b].count
                                     /\ Reporters(b)' \subseteq Reporters(b)
                                     /\ failures'[b] >= failures[b]
<1>0. \A b \in Bots : failures[b] >= failures[b] /\ failures[b] + 1 >= failures[b]
  BY DEF TypeOK
<1>1. CASE row' = row /\ worker' = worker /\ failures' = failures
  BY <1>1, <1>0 DEF Reporters
<1>2. ASSUME NEW r \in Requests, Stamp(r) PROVE Quiet
  <2>0. request[r].bot \in Bots /\ row[request[r].bot] \in Row
    BY DEF TypeOK, Request
  <2>1. /\ [row[request[r].bot] EXCEPT !.status = "pending"] \in Row
        /\ [row[request[r].bot] EXCEPT !.status = "pending"].count = row[request[r].bot].count
    BY <2>0 DEF Row, Statuses
  <2>2. CASE row' = row
    BY <1>2, <2>2, <1>1 DEF Stamp
  <2>3. CASE Update(request[r].bot,
                    Matches(request[r].bot, row[request[r].bot].status \in StampableStatuses),
                    [row[request[r].bot] EXCEPT !.status = "pending"])
    <3>1. \A c \in Bots : row'[c].count = row[c].count
      BY <2>0, <2>1, <2>3, UpdateKeepsCount
    <3> QED BY <1>0, <1>2, <3>1 DEF Stamp, Reporters
  <2> QED BY <1>2, <2>2, <2>3 DEF Stamp
<1>3. ASSUME NEW t \in Ticks, HandleRow(t) PROVE Quiet
  <2>1. PICK p \in tick[t].page, m \in BOOLEAN :
          Update(p.bot, m, [row[p.bot] EXCEPT !.status = WriteFor(p).status])
    BY <1>3 DEF HandleRow, Matches
  <2>2. p.bot \in Bots /\ row[p.bot] \in Row
    BY DEF TypeOK, Tick, PageRow
  <2>3. WriteFor(p).status \in Statuses
    BY DEF WriteFor, Statuses
  <2>4. /\ [row[p.bot] EXCEPT !.status = WriteFor(p).status] \in Row
        /\ [row[p.bot] EXCEPT !.status = WriteFor(p).status].count = row[p.bot].count
    BY <2>2, <2>3 DEF Row
  <2>5. \A c \in Bots : row'[c].count = row[c].count
    BY <2>1, <2>2, <2>4, UpdateKeepsCount
  <2> QED BY <1>0, <1>3, <2>5 DEF HandleRow, Reporters
<1>4. ASSUME NEW w \in Workers, Start(w) \/ Settle(w) PROVE Quiet
  <2> DEFINE b == worker[w].bot
  <2>0. worker[w] \in Worker /\ b \in Bots /\ row[b] \in Row /\ worker[w].fp \in Urls
    BY DEF TypeOK, Worker
  <2>1. \E m \in BOOLEAN, new \in Row : Update(b, m, new) /\ new.count = row[b].count
    <3>1. CASE Start(w)
      <4>1. /\ [row[b] EXCEPT !.status = "registering", !.fp = worker[w].fp] \in Row
            /\ [row[b] EXCEPT !.status = "registering", !.fp = worker[w].fp].count = row[b].count
        BY <2>0 DEF Row, Statuses
      <4> QED BY <3>1, <4>1 DEF Start, Matches
    <3>2. CASE Settle(w)
      <4>1. Settled(w, row[b]) \in Row /\ Settled(w, row[b]).count = row[b].count
        BY <2>0 DEF Settled, Row, Statuses
      <4> QED BY <3>2, <4>1 DEF Settle, Matches
    <3> QED BY <1>4, <3>1, <3>2
  <2>2. \A c \in Bots : row'[c].count = row[c].count
    BY <2>0, <2>1, UpdateKeepsCount
  <2>3. worker'[w].pc # "report" /\ \A v \in Workers \ {w} : worker'[v] = worker[v]
    <3>1. \E pc \in {"call", "completed", "retry", "permanent"} :
            worker' = [worker EXCEPT ![w] = [worker[w] EXCEPT !.pc = pc]]
      <4>1. CASE Start(w)
        BY <4>1 DEF Start
      <4>2. CASE Settle(w)
        <5> DEFINE end == [accepted |-> "completed", transient |-> "retry",
                           rejected |-> "permanent"]
        <5>1. worker' = [worker EXCEPT ![w] = [worker[w] EXCEPT !.pc = end[worker[w].pc]]]
          BY <4>2 DEF Settle
        <5>2. worker[w].pc \in {"accepted", "transient", "rejected"}
          BY <4>2 DEF Settle
        <5>3. end[worker[w].pc] \in {"completed", "retry", "permanent"}
          BY <5>2
        <5> HIDE DEF end
        <5> QED BY <5>1, <5>3
      <4> QED BY <1>4, <4>1, <4>2
    <3>2. PICK pc \in {"call", "completed", "retry", "permanent"} :
            worker' = [worker EXCEPT ![w] = [worker[w] EXCEPT !.pc = pc]]
      BY <3>1
    <3>3. [worker[w] EXCEPT !.pc = pc].pc = pc
      BY <2>0 DEF Worker
    <3> QED BY <3>2, <3>3 DEF TypeOK
  <2>4. failures' = failures
    BY <1>4 DEF Start, Settle
  <2> QED BY <1>0, <2>2, <2>3, <2>4 DEF Reporters
<1>5. ASSUME NEW w \in Workers,
             \/ \E b \in Bots : Take(w, b)
             \/ CallTelegram(w) \/ FailWrite(w) \/ CrashWorker(w)
      PROVE  Quiet
  <2>1. row' = row /\ failures' = failures
    BY <1>5 DEF Take, CallTelegram, FailWrite, CrashWorker
  <2>2. worker'[w].pc # "report" /\ \A v \in Workers \ {w} : worker'[v] = worker[v]
    BY <1>5 DEF Take, CallTelegram, FailWrite, CrashWorker, TypeOK, Worker, IdleWorker
  <2> QED BY <1>0, <2>1, <2>2 DEF Reporters
<1>6. ASSUME NEW b \in Bots, Stall(b) PROVE Quiet
  <2>1. row' = row
    BY <1>6 DEF Stall
  <2>2. \A c \in Bots : failures'[c] >= failures[c]
    BY <1>0, <1>6 DEF Stall, TypeOK
  <2>3. \A w \in Workers : worker'[w].pc = worker[w].pc /\ worker'[w].bot = worker[w].bot
    BY <1>6 DEF Stall, Disown, TypeOK, Worker
  <2> QED BY <2>1, <2>2, <2>3 DEF Reporters
<1>7. ASSUME NEW r \in Requests,
             \/ WriteStatus(r) \/ Enqueue(r) \/ CrashRequest(r)
             \/ \E b \in Bots : Create(r, b)
             \/ \E b \in Bots, to \in HireStatuses \ {"none"} : ReadHire(r, b, to)
      PROVE  row' = row /\ worker' = worker /\ failures' = failures
  BY <1>7 DEF WriteStatus, Enqueue, CrashRequest, Create, ReadHire
<1>8. ASSUME NEW t \in Ticks,
             \/ Acquire(t) \/ Scan(t) \/ Probe(t) \/ Release(t)
             \/ FailTick(t) \/ CrashTick(t)
      PROVE  row' = row /\ worker' = worker /\ failures' = failures
  BY <1>8 DEF Acquire, Scan, Probe, Release, FailTick, CrashTick
<1>9. ASSUME \/ \E b \in Bots : Evict(b) \/ Age(b)
             \/ \E u \in Urls : Redeploy(u)
             \/ ExpireLock \/ UNCHANGED vars
      PROVE  row' = row /\ worker' = worker /\ failures' = failures
  BY <1>9 DEF Evict, Age, Redeploy, ExpireLock, vars
<1> QED
  BY <1>1, <1>2, <1>3, <1>4, <1>5, <1>6, <1>7, <1>8, <1>9
     DEF Next, RequestStep, TickStep, WorkerStep

LEMMA NextIncrement ==
    TypeOK /\ TypeOK' /\ AtMostOneIncrementPerJob /\ [Next]_vars => AtMostOneIncrementPerJob'
  BY ReportIncrement, FinishIncrement, OtherSteps, QuietStep

LEMMA InitIncrement == Init => AtMostOneIncrementPerJob
<1> SUFFICES ASSUME Init, NEW b \in Bots
             PROVE  row[b].count + Cardinality(Reporters(b)) <= failures[b]
  BY DEF AtMostOneIncrementPerJob
<1>1. Reporters(b) = {}
  BY DEF Init, Reporters, IdleWorker
<1> QED BY <1>1, FS_EmptySet DEF Init, AbsentRow

\* The counter that decides about quarantine counts failed jobs and nothing else: no
\* retry, stall, stale page or repeated event increments it twice for one job.
THEOREM OneIncrementPerJob == Spec => []AtMostOneIncrementPerJob
  BY TypeCorrect, InitIncrement, NextIncrement, PTL DEF Spec

------------------------------------------------------------------------------
(* Whose steps change a row.                                                   *)

\* A request writes what may be stamped; a tick what it may claim, or what was stuck when it
\* read the cutoff; and the rest is written by registrars of the bot.
LEMMA RowChange ==
    ASSUME TypeOK, QuarantineInv, [Next]_vars, NEW b \in Bots, row'[b] # row[b]
    PROVE  \/ row[b].status \in StampableStatuses /\ tick' = tick
           \/ row[b].status \in {"pending", "failed", "absent"}
           \/ row[b].status = "registering" /\ \E t \in Ticks : <<t, b>> \in behind
           \/ tick' = tick /\ \E w \in Workers : worker[w].bot = b /\ worker'[w] # worker[w]
<1> USE DEF dbVars, history, bounds
<1>0. row \in [Bots -> Row]
  BY DEF TypeOK
<1>1. ASSUME NEW r \in Requests, Stamp(r) PROVE row[b].status \in StampableStatuses /\ tick' = tick
  <2>1. tick' = tick /\ Update(request[r].bot,
          Matches(request[r].bot, row[request[r].bot].status \in StampableStatuses),
          [row[request[r].bot] EXCEPT !.status = "pending"])
    BY <1>1 DEF Stamp
  <2>2. b = request[r].bot /\ Matches(b, row[b].status \in StampableStatuses)
    BY <1>0, <2>1 DEF Update
  <2> QED BY <2>1, <2>2 DEF Matches
<1>2. ASSUME NEW t \in Ticks, HandleRow(t)
      PROVE  \/ row[b].status \in {"pending", "failed", "absent"}
             \/ row[b].status = "registering" /\ <<t, b>> \in behind
  <2>1. PICK p \in tick[t].page :
          Update(p.bot, Matches(p.bot, /\ row[p.bot].status \in WriteFor(p).expect
                                       /\ WriteFor(p).stuckOnly => <<t, p.bot>> \in behind),
                 [row[p.bot] EXCEPT !.status = WriteFor(p).status])
    BY <1>2 DEF HandleRow
  <2>2. b = p.bot /\ Matches(b, /\ row[b].status \in WriteFor(p).expect
                                /\ WriteFor(p).stuckOnly => <<t, b>> \in behind)
    BY <1>0, <2>1 DEF Update
  <2>3. row[b].status \in WriteFor(p).expect /\ (WriteFor(p).stuckOnly => <<t, b>> \in behind)
    BY <2>2 DEF Matches
  <2>4. ~(p.count >= Threshold)
    <3>1. p.count \in Nat /\ p.count < Threshold
      BY DEF TypeOK, Tick, PageRow, QuarantineInv, PagesBelowThreshold
    <3> QED BY <3>1, ConstantsAssumption
  <2> QED BY <2>3, <2>4 DEF WriteFor
<1>3. ASSUME NEW w \in Workers, Start(w) \/ Settle(w) \/ Report(w)
      PROVE  tick' = tick /\ worker[w].bot = b /\ worker'[w] # worker[w]
  <2>1. tick' = tick /\ \E m, new : Update(worker[w].bot, m, new)
    BY <1>3 DEF Start, Settle, Report
  <2>2. worker[w].bot = b
    BY <1>0, <2>1 DEF Update
  <2>3. worker[w] \in Worker /\ worker \in [Workers -> Worker]
    BY DEF TypeOK
  <2>4. CASE Start(w)
    <3>1. PICK pc \in {"call", "completed"} : worker'[w] = [worker[w] EXCEPT !.pc = pc]
      BY <2>3, <2>4 DEF Start
    <3>2. worker'[w].pc = pc /\ worker[w].pc = "start"
      BY <2>3, <2>4, <3>1 DEF Start, Worker
    <3> QED BY <2>1, <2>2, <3>2
  <2>5. CASE Settle(w)
    <3> DEFINE end == [accepted |-> "completed", transient |-> "retry", rejected |-> "permanent"]
    <3>1. worker[w].pc \in {"accepted", "transient", "rejected"}
      BY <2>5 DEF Settle
    <3>2. worker'[w] = [worker[w] EXCEPT !.pc = end[worker[w].pc]]
      BY <2>3, <2>5 DEF Settle
    <3>3. end[worker[w].pc] \notin {"accepted", "transient", "rejected"}
      BY <3>1
    <3> HIDE DEF end
    <3>4. worker'[w].pc = end[worker[w].pc]
      BY <2>3, <3>2 DEF Worker
    <3> QED BY <2>1, <2>2, <3>1, <3>3, <3>4
  <2>6. CASE Report(w)
    <3>1. worker[w].pc = "report" /\ worker'[w] = IdleWorker
      BY <2>3, <2>6 DEF Report
    <3> QED BY <2>1, <2>2, <3>1 DEF IdleWorker
  <2> QED BY <1>3, <2>4, <2>5, <2>6
<1>4. ASSUME NEW r \in Requests,
             \/ WriteStatus(r) \/ Enqueue(r) \/ CrashRequest(r)
             \/ \E c \in Bots : Create(r, c)
             \/ \E c \in Bots, to \in HireStatuses \ {"none"} : ReadHire(r, c, to)
      PROVE  row' = row
  BY <1>4 DEF WriteStatus, Enqueue, CrashRequest, Create, ReadHire
<1>5. ASSUME NEW t \in Ticks,
             \/ Acquire(t) \/ Scan(t) \/ Probe(t) \/ Release(t) \/ FailTick(t) \/ CrashTick(t)
      PROVE  row' = row
  BY <1>5 DEF Acquire, Scan, Probe, Release, FailTick, CrashTick
<1>6. ASSUME NEW w \in Workers,
             \/ \E c \in Bots : Take(w, c)
             \/ CallTelegram(w) \/ Finish(w) \/ FailWrite(w) \/ CrashWorker(w)
      PROVE  row' = row
  BY <1>6 DEF Take, CallTelegram, Finish, FailWrite, CrashWorker
<1>7. ASSUME \/ \E c \in Bots : Stall(c) \/ Evict(c) \/ Age(c)
             \/ \E u \in Urls : Redeploy(u)
             \/ ExpireLock \/ UNCHANGED vars
      PROVE  row' = row
  BY <1>7 DEF Stall, Evict, Age, Redeploy, ExpireLock, vars
<1> QED
  BY <1>1, <1>2, <1>3, <1>4, <1>5, <1>6, <1>7 DEF Next, RequestStep, TickStep, WorkerStep

\* A row is taken out of `registered` by registrars of its bot only.
THEOREM RegistrarLeavesRegistered == Spec => OnlyRegistrarLeavesRegistered
<1>1. TypeOK /\ QuarantineInv /\ [Next]_vars =>
        [\A b \in Bots :
           row[b].status = "registered" /\ row'[b].status # "registered" =>
             \E w \in Workers : worker[w].bot = b /\ worker'[w] # worker[w]]_vars
  BY RowChange DEF StampableStatuses
<1>2. Spec => []QuarantineInv
  BY TypeCorrect, InitQuarantine, NextQuarantine, PTL DEF Spec
<1> QED BY <1>1, <1>2, TypeCorrect, PTL DEF Spec, OnlyRegistrarLeavesRegistered

\* What was older than a cutoff some tick computed is old still, or was written since.
BehindIsOld == \A p \in behind : p[2] \in old

LEMMA NextBehind == TypeOK /\ BehindIsOld /\ [Next]_vars => BehindIsOld'
<1> SUFFICES ASSUME TypeOK, BehindIsOld, [Next]_vars PROVE BehindIsOld'
  OBVIOUS
<1> USE DEF dbVars, history, bounds
<1>1. ASSUME NEW b, NEW m, NEW new, Update(b, m, new) PROVE BehindIsOld'
  BY <1>1 DEF Update, BehindIsOld
<1>2. CASE UNCHANGED <<old, behind>>
  BY <1>2 DEF BehindIsOld
<1>3. ASSUME NEW r \in Requests, Stamp(r) PROVE BehindIsOld'
  BY <1>1, <1>2, <1>3 DEF Stamp
<1>4. ASSUME NEW t \in Ticks, HandleRow(t) PROVE BehindIsOld'
  BY <1>1, <1>4 DEF HandleRow
<1>5. ASSUME NEW w \in Workers, Start(w) \/ Settle(w) \/ Report(w) PROVE BehindIsOld'
  BY <1>1, <1>5 DEF Start, Settle, Report
<1>6. ASSUME NEW t \in Ticks, Scan(t) PROVE BehindIsOld'
  BY <1>6 DEF Scan, BehindIsOld
<1>7. ASSUME NEW t \in Ticks, Release(t) \/ CrashTick(t) PROVE BehindIsOld'
  BY <1>7 DEF Release, CrashTick, BehindIsOld
<1>8. ASSUME NEW b \in Bots, Age(b) PROVE BehindIsOld'
  BY <1>8 DEF Age, BehindIsOld
<1>9. ASSUME NEW r \in Requests,
             \/ WriteStatus(r) \/ Enqueue(r) \/ CrashRequest(r)
             \/ \E c \in Bots : Create(r, c)
             \/ \E c \in Bots, to \in HireStatuses \ {"none"} : ReadHire(r, c, to)
      PROVE  UNCHANGED <<old, behind>>
  BY <1>9 DEF WriteStatus, Enqueue, CrashRequest, Create, ReadHire
<1>10. ASSUME NEW t \in Ticks, Acquire(t) \/ Probe(t) \/ FailTick(t)
       PROVE  UNCHANGED <<old, behind>>
  BY <1>10 DEF Acquire, Probe, FailTick
<1>11. ASSUME NEW w \in Workers,
              \/ \E c \in Bots : Take(w, c)
              \/ CallTelegram(w) \/ Finish(w) \/ FailWrite(w) \/ CrashWorker(w)
       PROVE  UNCHANGED <<old, behind>>
  BY <1>11 DEF Take, CallTelegram, Finish, FailWrite, CrashWorker
<1>12. ASSUME \/ \E c \in Bots : Stall(c) \/ Evict(c)
              \/ \E u \in Urls : Redeploy(u)
              \/ ExpireLock \/ UNCHANGED vars
       PROVE  UNCHANGED <<old, behind>>
  BY <1>12 DEF Stall, Evict, Redeploy, ExpireLock, vars
<1> QED
  BY <1>2, <1>3, <1>4, <1>5, <1>6, <1>7, <1>8, <1>9, <1>10, <1>11, <1>12
     DEF Next, RequestStep, TickStep, WorkerStep

\* A registration that was written less than 30 minutes ago is disturbed by no tick, however
\* long ago the tick read the row it works from.
THEOREM FreshStaysUndisturbed == Spec => FreshRegistrationUndisturbed
<1>1. TypeOK /\ QuarantineInv /\ BehindIsOld /\ [Next]_vars =>
        [\A b \in Bots :
           row[b].status = "registering" /\ b \notin old /\ row'[b] # row[b] => tick' = tick]_vars
  <2> SUFFICES ASSUME TypeOK, QuarantineInv, BehindIsOld, [Next]_vars, NEW b \in Bots,
                      row[b].status = "registering", b \notin old, row'[b] # row[b]
               PROVE  tick' = tick
    OBVIOUS
  <2>1. \A t \in Ticks : <<t, b>> \notin behind
    BY DEF BehindIsOld
  <2> QED BY <2>1, RowChange DEF StampableStatuses
<1>2. Spec => []QuarantineInv
  BY TypeCorrect, InitQuarantine, NextQuarantine, PTL DEF Spec
<1>3. Init => BehindIsOld
  BY DEF Init, BehindIsOld
<1>4. Spec => []BehindIsOld
  BY <1>3, TypeCorrect, NextBehind, PTL DEF Spec
<1> QED BY <1>1, <1>2, <1>4, TypeCorrect, PTL DEF Spec, FreshRegistrationUndisturbed
================================================================================
