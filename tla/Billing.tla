------------------------------- MODULE Billing -------------------------------
(***************************************************************************)
(* Billing periods, and the monthly job that writes the bills.             *)
(*                                                                         *)
(* A date is a month, counted on over the years, and a day; the hours are  *)
(* left out: a period starts at midnight, and the job runs at midnight or  *)
(* later.  The job is added to its queue on the first of a month, taken by *)
(* a worker, tried again from its beginning when it fails, and taken by    *)
(* another worker when its worker stalls, which may still be going on.     *)
(***************************************************************************)
EXTENDS Integers, FiniteSets

CONSTANTS
    Length,      \* the months: their numbers of days
    Anchors,     \* days of the month
    Customers,
    AnchorOf,    \* the day of each customer's billingAnchor
    Workers,
    Attempts,    \* attempts of a job
    Firsts,      \* bound: the months in which the clock may start
    MaxDays,     \* bound: moves of the clock
    MaxHires,    \* bound: customers who hire or leave
    MaxMishaps   \* bound: failures and stalls

ASSUME BillingAssumption ==
    /\ Length \in [1..12 -> 28..31] /\ Anchors \subseteq 1..31
    /\ Firsts \subseteq Nat \ {0}
    /\ AnchorOf \in [Customers -> Anchors]
    /\ Workers \cap {"none", "waiting", "completed", "failed"} = {}
    /\ Attempts \in Nat \ {0} /\ MaxDays \in Nat /\ MaxHires \in Nat /\ MaxMishaps \in Nat

VARIABLES
    today, moves,
    hiring,     \* customers with an active hire
    bills,      \* customer, from and to
    job,        \* per month: state and attempt
    worker,     \* per worker: pc, month, the customers left, the one at hand and its period,
                \* and (history) began and steady: the customers hiring ever since
    hires, mishaps

billingVars == <<today, moves, hiring, bills, job, worker, hires, mishaps>>

------------------------------------------------------------------------------
(* Dates *)

Days(m) == Length[((m - 1) % 12) + 1]
Date(m, d) == [month |-> m, day |-> d]
Before(a, b) == a.month < b.month \/ (a.month = b.month /\ a.day < b.day)
Clamp(day, m) == IF day < Days(m) THEN day ELSE Days(m)

\* Variant: the day is clamped before the month is set.
MutantMonthBack_Clamped(anchor, date) == Date(date.month - 1, Clamp(anchor, date.month - 1))

\* setMonth(getMonth() - 1), which runs over into the month it came from if the month before
\* has no such day, and then setDate(clampDayToMonth(...)) of the month it is in.
MonthBack(anchor, date) ==
    LET m == IF date.day <= Days(date.month - 1) THEN date.month - 1 ELSE date.month
    IN  Date(m, Clamp(anchor, m))

\* computeCurrentBillingPeriod
Period(anchor, now) ==
    LET start == Date(now.month, Clamp(anchor, now.month))
        end == Date(now.month + 1, Clamp(anchor, now.month + 1))
    IN  IF Before(now, start)
        THEN [from |-> MonthBack(anchor, start), to |-> MonthBack(anchor, end)]
        ELSE [from |-> start, to |-> end]

------------------------------------------------------------------------------
(* The job *)

Idle == [pc |-> "idle"]
Onward(work) == [pc |-> "next", month |-> work.month, left |-> work.left, began |-> work.began,
                 steady |-> work.steady]

BillingInit ==
    /\ today \in {Date(m, d) : m \in Firsts, d \in {1, 28}} /\ moves = 0
    /\ hiring \in SUBSET Customers
    /\ bills = {}
    /\ job = [m \in today.month..(today.month + 1) |-> [state |-> "none", attempt |-> 0]]
    /\ worker = [w \in Workers |-> Idle]
    /\ hires = 0 /\ mishaps = 0

\* The cron of the first of the month, if it runs and gets the lock; the id of the job is
\* the month, so that it is added once.
Schedule ==
    /\ today.day = 1 /\ job[today.month].state = "none"
    /\ job' = [job EXCEPT ![today.month].state = "waiting"]
    /\ UNCHANGED <<today, moves, hiring, bills, worker, hires, mishaps>>

\* The job starts: all clients are read.
TakeJob(w, m) ==
    /\ worker[w].pc = "idle" /\ job[m].state = "waiting"
    /\ job' = [job EXCEPT ![m].state = w]
    /\ worker' = [worker EXCEPT ![w] = [pc |-> "next", month |-> m, left |-> Customers,
                                        began |-> today, steady |-> hiring]]
    /\ UNCHANGED <<today, moves, hiring, bills, hires, mishaps>>

\* The bill of a customer whose job gets to it on a date.
BillOn(c, date) ==
    LET period == Period(AnchorOf[c], date) IN [customer |-> c, from |-> period.from, to |-> period.to]

\* generateForClient: no active hire, or a bill for the current period, and it is skipped.
Examine(w, c) ==
    /\ worker[w].pc = "next" /\ c \in worker[w].left
    /\ worker' = [worker EXCEPT ![w] =
         IF c \notin hiring \/ BillOn(c, today) \in bills
         THEN [worker[w] EXCEPT !.left = @ \ {c}]
         ELSE [pc |-> "insert", month |-> @.month, left |-> @.left \ {c}, began |-> @.began,
               steady |-> @.steady, bill |-> BillOn(c, today)]]
    /\ UNCHANGED <<today, moves, hiring, bills, job, hires, mishaps>>

\* The insert: the unique index makes it a no-op if the bill is there.
Insert(w) ==
    /\ worker[w].pc = "insert"
    /\ bills' = bills \cup {worker[w].bill}
    /\ worker' = [worker EXCEPT ![w] = Onward(@)]
    /\ UNCHANGED <<today, moves, hiring, job, hires, mishaps>>

Owner(w) == job[worker[w].month].state = w
Return(w, state) ==
    /\ worker' = [worker EXCEPT ![w] = Idle]
    /\ job' = IF Owner(w) THEN [job EXCEPT ![worker[w].month] =
                                  [state |-> state, attempt |-> @.attempt + 1]]
              ELSE job

Complete(w) ==
    /\ worker[w].pc = "next" /\ worker[w].left = {}
    /\ Return(w, "completed")
    /\ UNCHANGED <<today, moves, hiring, bills, hires, mishaps>>

\* Variant: a client whose bill fails is passed over.
MutantFail_Continue(w) ==
    /\ worker[w].pc = "insert" /\ mishaps < MaxMishaps
    /\ mishaps' = mishaps + 1
    /\ worker' = [worker EXCEPT ![w] = Onward(@)]
    /\ UNCHANGED <<today, moves, hiring, bills, job, hires>>

\* A call fails, and with it the job: it is tried again, or failed for good.
Fail(w) ==
    /\ worker[w].pc # "idle" /\ mishaps < MaxMishaps
    /\ mishaps' = mishaps + 1
    /\ Return(w, IF job[worker[w].month].attempt + 1 < Attempts THEN "waiting" ELSE "failed")
    /\ UNCHANGED <<today, moves, hiring, bills, hires>>

\* The worker has lost its lock on the job, dead or alive: the job waits for another.
StallJob(w) ==
    /\ worker[w].pc # "idle" /\ Owner(w) /\ mishaps < MaxMishaps
    /\ mishaps' = mishaps + 1
    /\ job' = [job EXCEPT ![worker[w].month].state = "waiting"]
    /\ worker' = worker \/ worker' = [worker EXCEPT ![w] = Idle]
    /\ UNCHANGED <<today, moves, hiring, bills, hires>>

\* A customer hires for the first time, or has no active hire any more.
Hire(c) ==
    /\ hires < MaxHires /\ hires' = hires + 1
    /\ hiring' = IF c \in hiring THEN hiring \ {c} ELSE hiring \cup {c}
    /\ worker' = [w \in Workers |-> IF worker[w].pc = "idle" THEN Idle
                                    ELSE [worker[w] EXCEPT !.steady = @ \cap hiring']]
    /\ UNCHANGED <<today, moves, bills, job, mishaps>>

\* On to the next day on which something may change: an anchor of this month, or the first
\* of the next.
NextDay ==
    /\ moves < MaxDays /\ moves' = moves + 1
    /\ LET ahead == {d \in Anchors : today.day < d /\ d <= Days(today.month)}
       IN  \/ /\ ahead # {}
              /\ \E d \in ahead : (\A e \in ahead : d <= e) /\ today' = Date(today.month, d)
           \/ ahead = {} /\ today.month + 1 \in DOMAIN job /\ today' = Date(today.month + 1, 1)
    /\ UNCHANGED <<hiring, bills, job, worker, hires, mishaps>>

BillingNext ==
    \/ Schedule \/ NextDay
    \/ \E w \in Workers : \/ \E m \in DOMAIN job : TakeJob(w, m)
                          \/ \E c \in Customers : Examine(w, c)
                          \/ Insert(w) \/ Complete(w) \/ Fail(w) \/ StallJob(w)
    \/ \E c \in Customers : Hire(c)

BillingSpec == BillingInit /\ [][BillingNext]_billingVars

------------------------------------------------------------------------------
(* Properties *)

BillingTypeOK ==
    /\ today.month \in DOMAIN job /\ today.day \in 1..Days(today.month) /\ moves \in 0..MaxDays
    /\ hiring \subseteq Customers /\ {b.customer : b \in bills} \subseteq Customers
    /\ \A m \in DOMAIN job : job[m].state \in {"none", "waiting", "completed", "failed"} \cup Workers

\* What the comment promises: the period from the last anchor day to the next, where a month
\* that has no such day has it on its last.
Reference(anchor, now) ==
    LET day(m) == Date(m, Clamp(anchor, m))
        m == IF Before(now, day(now.month)) THEN now.month - 1 ELSE now.month
    IN  [from |-> day(m), to |-> day(m + 1)]

\* The current period is that one, but exactly for the days before the anchor day for which
\* the month before, or the month itself, lacks the day that is moved back into it.  So from
\* the 1st to the 30th of May an anchor of the 31st has the period from May 31 to May 31.
PeriodRight ==
    \A anchor \in Anchors :
        LET start == Clamp(anchor, today.month)
            overflows == \/ start > Days(today.month - 1)
                         \/ Clamp(anchor, today.month + 1) > Days(today.month)
        IN  Period(anchor, today) = Reference(anchor, today)
              <=> ~(today.day < start /\ overflows)

\* When the job of a month completes, every customer that was hiring all the while has a bill
\* for the period of a day of the job.
CompletedMeansBilled ==
    [][\A w \in Workers :
         worker[w].pc = "next" /\ Owner(w) /\ job'[worker[w].month].state = "completed" =>
         \A c \in worker[w].steady :
            \E b \in bills, m \in worker[w].began.month..today.month, d \in 1..31 :
               /\ ~Before(Date(m, d), worker[w].began) /\ ~Before(today, Date(m, d))
               /\ d <= Days(m) /\ b = BillOn(c, Date(m, d))]_billingVars
================================================================================
