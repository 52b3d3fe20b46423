---------------------------- MODULE BackgroundProofs ----------------------------
(***************************************************************************)
(* Billing, routing, the backfills, the catalogue and the seeding, for any *)
(* number of customers, runs, uploads and hosts; then the components side  *)
(* by side, which share no state: what is proved of one alone holds of all *)
(* of them together.                                                       *)
(***************************************************************************)
EXTENDS Background, SessionsProofs, ConversationMemoryProofs, ChannelAdaptersProofs,
        FiniteSetTheorems, WellFoundedInduction, TLAPS

------------------------------------------------------------------------------
(* Billing: periods *)

Dates == [month : Int, day : Nat]

LEMMA DaysOf == \A m \in Int : Days(m) \in 28 .. 31
<1> SUFFICES ASSUME NEW m \in Int PROVE Days(m) \in 28 .. 31
  OBVIOUS
<1>1. ((m - 1) % 12) + 1 \in 1 .. 12
  OBVIOUS
<1> QED BY <1>1, BillingAssumption DEF Days

LEMMA ClampOf ==
    ASSUME NEW anchor \in 1 .. 31, NEW m \in Int
    PROVE  /\ Clamp(anchor, m) \in 1 .. 31 /\ Clamp(anchor, m) <= Days(m) /\ Clamp(anchor, m) <= anchor
           /\ Clamp(anchor, m) < anchor => Clamp(anchor, m) = Days(m)
  BY DaysOf DEF Clamp

LEMMA DatesDiffer == \A a, b, c, d : Date(a, b) = Date(c, d) <=> a = c /\ b = d
  BY DEF Date

\* Before the day of a month, the period has moved back a month, unless a day was missing.
LEMMA PeriodOf ==
    ASSUME NEW anchor \in 1 .. 31, NEW now \in Dates
    PROVE  Period(anchor, now) = Reference(anchor, now)
             <=> ~(/\ now.day < Clamp(anchor, now.month)
                   /\ \/ Clamp(anchor, now.month) > Days(now.month - 1)
                      \/ Clamp(anchor, now.month + 1) > Days(now.month))
<1> PICK m, d : m = now.month /\ d = now.day
  OBVIOUS
<1>0. m \in Int /\ d \in Nat /\ m - 1 \in Int /\ m + 1 \in Int /\ (m + 1) - 1 = m /\ (m - 1) + 1 = m
  BY DEF Dates
<1>1. Before(now, Date(m, Clamp(anchor, m))) <=> d < Clamp(anchor, m)
  BY <1>0 DEF Before, Date
<1>2. \A x \in {m - 1, m, m + 1} : Clamp(anchor, x) \in 1 .. 31 /\ Days(x) \in 28 .. 31
  BY <1>0, ClampOf, DaysOf
<1>3. CASE ~(d < Clamp(anchor, m))
  <2>1. Period(anchor, now) = [from |-> Date(m, Clamp(anchor, m)), to |-> Date(m + 1, Clamp(anchor, m + 1))]
    BY <1>1, <1>3 DEF Period
  <2>2. Reference(anchor, now) = [from |-> Date(m, Clamp(anchor, m)), to |-> Date(m + 1, Clamp(anchor, m + 1))]
    BY <1>1, <1>3 DEF Reference
  <2> QED BY <1>3, <2>1, <2>2
<1>4. CASE d < Clamp(anchor, m)
  <2>1. Reference(anchor, now) = [from |-> Date(m - 1, Clamp(anchor, m - 1)), to |-> Date(m, Clamp(anchor, m))]
    BY <1>0, <1>1, <1>4 DEF Reference
  <2>2. Period(anchor, now) = [from |-> MonthBack(anchor, Date(m, Clamp(anchor, m))),
                               to |-> MonthBack(anchor, Date(m + 1, Clamp(anchor, m + 1)))]
    BY <1>1, <1>4 DEF Period
  <2>3. MonthBack(anchor, Date(m, Clamp(anchor, m))) = Date(m - 1, Clamp(anchor, m - 1))
          <=> Clamp(anchor, m) <= Days(m - 1)
    <3>1. Date(m, Clamp(anchor, m)).day = Clamp(anchor, m) /\ Date(m, Clamp(anchor, m)).month = m
      BY DEF Date
    <3>2. CASE Clamp(anchor, m) <= Days(m - 1)
      BY <3>1, <3>2 DEF MonthBack
    <3>3. CASE ~(Clamp(anchor, m) <= Days(m - 1))
      <4>1. MonthBack(anchor, Date(m, Clamp(anchor, m))) = Date(m, Clamp(anchor, m))
        BY <3>1, <3>3 DEF MonthBack
      <4> QED BY <1>0, <3>3, <4>1, DatesDiffer
    <3> QED BY <3>2, <3>3
  <2>4. MonthBack(anchor, Date(m + 1, Clamp(anchor, m + 1))) = Date(m, Clamp(anchor, m))
          <=> Clamp(anchor, m + 1) <= Days(m)
    <3>1. /\ Date(m + 1, Clamp(anchor, m + 1)).day = Clamp(anchor, m + 1)
          /\ Date(m + 1, Clamp(anchor, m + 1)).month = m + 1
      BY DEF Date
    <3>2. CASE Clamp(anchor, m + 1) <= Days(m)
      BY <1>0, <3>1, <3>2 DEF MonthBack
    <3>3. CASE ~(Clamp(anchor, m + 1) <= Days(m))
      <4>1. MonthBack(anchor, Date(m + 1, Clamp(anchor, m + 1))) = Date(m + 1, Clamp(anchor, m + 1))
        BY <1>0, <3>1, <3>3 DEF MonthBack
      <4> QED BY <1>0, <3>3, <4>1, DatesDiffer
    <3> QED BY <3>2, <3>3
  <2>5. Period(anchor, now) = Reference(anchor, now)
          <=> Clamp(anchor, m) <= Days(m - 1) /\ Clamp(anchor, m + 1) <= Days(m)
    BY <2>1, <2>2, <2>3, <2>4
  <2> QED BY <1>2, <1>4, <2>5
<1> QED BY <1>3, <1>4

------------------------------------------------------------------------------
(* Billing: the job *)

JobStates == {"none", "waiting", "completed", "failed"} \cup Workers
BillType == [customer : Customers, from : Dates, to : Dates]
NextWork == [pc : {"next"}, month : Nat, left : SUBSET Customers, began : Dates, steady : SUBSET Customers]
InsertWork == [pc : {"insert"}, month : Nat, left : SUBSET Customers, began : Dates,
               steady : SUBSET Customers, bill : [customer : Customers, from : Dates, to : Dates]]

BillingTypes ==
    /\ today \in Dates /\ today.day \in 1 .. Days(today.month) /\ moves \in 0 .. MaxDays
    /\ hiring \subseteq Customers /\ bills \subseteq BillType
    /\ DOMAIN job \subseteq Nat \ {0} /\ today.month \in DOMAIN job
    /\ job \in [DOMAIN job -> [state : JobStates, attempt : Nat]]
    /\ worker \in [Workers -> {Idle} \cup NextWork \cup InsertWork]
    /\ \A w \in Workers : worker[w].pc # "idle" => worker[w].month \in DOMAIN job

\* The bill of a day since a job began.
DueBill(c, began, b) ==
    \E m \in began.month .. today.month, d \in 1 .. 31 :
       /\ ~Before(Date(m, d), began) /\ ~Before(today, Date(m, d))
       /\ d <= Days(m) /\ b = BillOn(c, Date(m, d))

\* Who was hiring all the while and is done has a bill, or is about to have it.
WorkFits(w) ==
    worker[w].pc # "idle" =>
    /\ worker[w].steady \subseteq hiring /\ ~Before(today, worker[w].began)
    /\ \A c \in worker[w].steady \ worker[w].left :
         \/ \E b \in bills : DueBill(c, worker[w].began, b)
         \/ worker[w].pc = "insert" /\ DueBill(c, worker[w].began, worker[w].bill)

BillingInv == BillingTypes /\ \A w \in Workers : WorkFits(w)

LEMMA PeriodType ==
    ASSUME NEW anchor \in 1 .. 31, NEW now \in Dates
    PROVE  Period(anchor, now).from \in Dates /\ Period(anchor, now).to \in Dates
<1>1. \A m \in Int, x \in Nat : Date(m, x) \in Dates
  BY DEF Date, Dates
<1>2. now.month \in Int /\ now.month + 1 \in Int
  BY DEF Dates
<1>3. \A m \in Int : Clamp(anchor, m) \in Nat
  BY ClampOf
<1>4. ASSUME NEW date \in Dates PROVE MonthBack(anchor, date) \in Dates
  <2>1. date.month \in Int /\ date.month - 1 \in Int
    BY DEF Dates
  <2> QED BY <1>1, <1>3, <2>1 DEF MonthBack
<1> QED BY <1>1, <1>2, <1>3, <1>4 DEF Period

LEMMA BillOnType == ASSUME NEW c \in Customers, NEW date \in Dates PROVE BillOn(c, date) \in BillType
<1>1. AnchorOf[c] \in 1 .. 31
  BY BillingAssumption
<1>2. Period(AnchorOf[c], date).from \in Dates /\ Period(AnchorOf[c], date).to \in Dates
  BY <1>1, PeriodType
<1> QED BY <1>2 DEF BillOn, BillType

\* Time does not make a due bill another's.
LEMMA DueKept ==
    ASSUME BillingTypes, NEW date \in Dates, today' = date, ~Before(date, today),
           NEW c, NEW began \in Dates, NEW b, DueBill(c, began, b)
    PROVE  DueBill(c, began, b)'
<1>1. PICK m \in began.month .. today.month, d \in 1 .. 31 :
        /\ ~Before(Date(m, d), began) /\ ~Before(today, Date(m, d))
        /\ d <= Days(m) /\ b = BillOn(c, Date(m, d))
  BY DEF DueBill
<1>2. /\ today.month \in Int /\ today.day \in Nat /\ date.month \in Int /\ date.day \in Nat
      /\ began.month \in Int /\ Date(m, d).month = m /\ Date(m, d).day = d
  BY DEF BillingTypes, Dates, Date
<1>3. m \in began.month .. date.month /\ ~Before(date, Date(m, d))
  BY <1>1, <1>2 DEF Before
<1> QED BY <1>1, <1>3 DEF DueBill

LEMMA DueToday ==
    ASSUME BillingTypes, NEW began \in Dates, ~Before(today, began), NEW c
    PROVE  DueBill(c, began, BillOn(c, today))
<1>1. /\ today = Date(today.month, today.day) /\ today.month \in Int /\ today.day \in Nat
      /\ began.month \in Int /\ began.day \in Nat /\ Days(today.month) \in 28 .. 31
      /\ today.day \in 1 .. Days(today.month)
  BY DaysOf DEF BillingTypes, Dates, Date
<1>2. today.month \in began.month .. today.month /\ today.day \in 1 .. 31 /\ ~Before(today, today)
  BY <1>1 DEF Before
<1> QED BY <1>1, <1>2 DEF DueBill

\* What leaves the clock, and takes no bill away, leaves fitting work fitting.
LEMMA WorkKept ==
    ASSUME BillingTypes, NEW w \in Workers, WorkFits(w), UNCHANGED <<today, hiring>>, worker'[w] = worker[w],
           bills \subseteq bills'
    PROVE  WorkFits(w)'
  BY DEF WorkFits, DueBill

\* What a step of worker w leaves of the others.
LEMMA WorkerStep ==
    ASSUME BillingInv, NEW w \in Workers, NEW new \in {Idle} \cup NextWork \cup InsertWork,
           worker' = [worker EXCEPT ![w] = new], UNCHANGED <<today, moves, hiring>>,
           bills \subseteq bills', bills' \subseteq BillType,
           job' \in [DOMAIN job -> [state : JobStates, attempt : Nat]],
           new.pc # "idle" => new.month \in DOMAIN job,
           WorkFits(w)'
    PROVE  BillingInv'
<1>1. BillingTypes /\ worker'[w] = new /\ \A v \in Workers \ {w} : worker'[v] = worker[v]
  BY DEF BillingInv, BillingTypes
<1>2. BillingTypes'
  <2>1. DOMAIN job' = DOMAIN job
    OBVIOUS
  <2>2. \A v \in Workers : worker'[v].pc # "idle" => worker'[v].month \in DOMAIN job
    BY <1>1 DEF BillingTypes
  <2> QED BY <1>1, <2>1, <2>2 DEF BillingTypes
<1>3. \A v \in Workers \ {w} : WorkFits(v)'
  BY <1>1, WorkKept DEF BillingInv
<1> QED BY <1>2, <1>3 DEF BillingInv

LEMMA WorkType ==
    ASSUME BillingInv, NEW w \in Workers, worker[w].pc # "idle"
    PROVE  /\ BillingTypes /\ WorkFits(w) /\ worker[w].month \in DOMAIN job
           /\ worker[w] \in NextWork \cup InsertWork
           /\ worker[w].pc = "next" => worker[w] \in NextWork
           /\ worker[w].pc = "insert" => worker[w] \in InsertWork
  BY DEF BillingInv, BillingTypes, Idle, NextWork, InsertWork

LEMMA IdleType == Idle \in {Idle} \cup NextWork \cup InsertWork /\ Idle.pc = "idle"
  BY DEF Idle

LEMMA TakeJobStep ==
    ASSUME BillingInv, NEW w \in Workers, NEW m \in DOMAIN job, TakeJob(w, m) PROVE BillingInv'
<1> DEFINE new == [pc |-> "next", month |-> m, left |-> Customers, began |-> today, steady |-> hiring]
<1>1. /\ worker' = [worker EXCEPT ![w] = new] /\ job' = [job EXCEPT ![m].state = w]
      /\ UNCHANGED <<today, moves, hiring, bills>>
  BY DEF TakeJob
<1>2. BillingTypes /\ new \in NextWork /\ new.pc = "next" /\ new.month = m /\ new.left = Customers
      /\ new.began = today /\ new.steady = hiring
  BY DEF BillingInv, BillingTypes, NextWork
<1> HIDE DEF new
<1>3. job' \in [DOMAIN job -> [state : JobStates, attempt : Nat]]
  BY <1>1, <1>2 DEF BillingTypes, JobStates
<1>4. WorkFits(w)'
  <2>1. worker'[w] = new
    BY <1>1, <1>2 DEF BillingTypes
  <2>2. ~Before(today, today) /\ hiring \subseteq Customers
    BY <1>2 DEF BillingTypes, Dates, Before
  <2> QED BY <1>1, <1>2, <2>1, <2>2 DEF WorkFits
<1> QED BY <1>1, <1>2, <1>3, <1>4, WorkerStep DEF BillingTypes

LEMMA ExamineStep ==
    ASSUME BillingInv, NEW w \in Workers, NEW c \in Customers, Examine(w, c) PROVE BillingInv'
<1> PICK work, bill : work = worker[w] /\ bill = BillOn(c, today)
  OBVIOUS
<1>1. /\ work \in NextWork /\ WorkFits(w) /\ BillingTypes /\ c \in work.left /\ work.month \in DOMAIN job
      /\ work.pc = "next" /\ UNCHANGED <<today, moves, hiring, bills, job>>
      /\ bill \in BillType
  <2>1. worker[w].pc = "next"
    BY DEF Examine
  <2>2. BillingTypes /\ today \in Dates
    BY DEF BillingInv, BillingTypes
  <2>3. bill \in BillType
    BY <2>2, BillOnType
  <2> QED BY <2>1, <2>3, WorkType DEF Examine
<1>2. DueBill(c, work.began, bill)
  <2>1. work.began \in Dates /\ ~Before(today, work.began)
    BY <1>1 DEF NextWork, WorkFits
  <2> QED BY <1>1, <2>1, DueToday
<1>3. \A x, b : DueBill(x, work.began, b)' <=> DueBill(x, work.began, b)
  BY <1>1 DEF DueBill
<1>4. CASE c \notin hiring \/ bill \in bills
  <2> DEFINE new == [work EXCEPT !.left = @ \ {c}]
  <2>1. worker' = [worker EXCEPT ![w] = new]
    BY <1>4 DEF Examine
  <2>2. new \in NextWork /\ new.pc = "next" /\ new.month = work.month /\ new.left = work.left \ {c}
        /\ new.began = work.began /\ new.steady = work.steady
    BY <1>1 DEF NextWork
  <2> HIDE DEF new
  <2>3. worker'[w] = new
    BY <1>1, <2>1 DEF BillingTypes
  <2>4. \A x \in new.steady \ new.left : \E b \in bills : DueBill(x, work.began, b)
    BY <1>1, <1>2, <1>4, <2>2 DEF WorkFits
  <2>5. WorkFits(w)'
    BY <1>1, <1>3, <2>2, <2>3, <2>4 DEF WorkFits
  <2> QED BY <1>1, <2>1, <2>2, <2>5, WorkerStep DEF BillingTypes
<1>5. CASE ~(c \notin hiring \/ bill \in bills)
  <2> DEFINE new == [pc |-> "insert", month |-> work.month, left |-> work.left \ {c}, began |-> work.began,
                     steady |-> work.steady, bill |-> bill]
  <2>1. worker' = [worker EXCEPT ![w] = new]
    BY <1>5 DEF Examine
  <2>2. new \in InsertWork /\ new.pc = "insert" /\ new.month = work.month /\ new.left = work.left \ {c}
        /\ new.began = work.began /\ new.steady = work.steady /\ new.bill = bill
    BY <1>1 DEF NextWork, InsertWork, BillType
  <2> HIDE DEF new
  <2>3. worker'[w] = new
    BY <1>1, <2>1 DEF BillingTypes
  <2>4. \A x \in new.steady \ new.left : (\E b \in bills : DueBill(x, work.began, b)) \/ DueBill(x, work.began, bill)
    BY <1>1, <1>2, <2>2 DEF WorkFits
  <2>5. WorkFits(w)'
    BY <1>1, <1>3, <2>2, <2>3, <2>4 DEF WorkFits
  <2> QED BY <1>1, <2>1, <2>2, <2>5, WorkerStep DEF BillingTypes
<1> QED BY <1>4, <1>5

LEMMA InsertStep == ASSUME BillingInv, NEW w \in Workers, Insert(w) PROVE BillingInv'
<1> PICK work : work = worker[w]
  OBVIOUS
<1>1. /\ work \in InsertWork /\ WorkFits(w) /\ BillingTypes /\ work.month \in DOMAIN job /\ work.pc = "insert"
      /\ UNCHANGED <<today, moves, hiring, job>> /\ bills' = bills \cup {work.bill}
      /\ worker' = [worker EXCEPT ![w] = Onward(work)]
  <2>1. worker[w].pc = "insert"
    BY DEF Insert
  <2> QED BY <2>1, WorkType DEF Insert
<1> DEFINE new == Onward(work)
<1>2. new \in NextWork /\ new.pc = "next" /\ new.month = work.month /\ new.left = work.left
      /\ new.began = work.began /\ new.steady = work.steady /\ work.bill \in BillType
  BY <1>1 DEF NextWork, InsertWork, Onward, BillType
<1>3. worker' = [worker EXCEPT ![w] = new]
  BY <1>1
<1> HIDE DEF new
<1>4. worker'[w] = new
  BY <1>1, <1>3 DEF BillingTypes
<1>5. \A x, b : DueBill(x, work.began, b)' <=> DueBill(x, work.began, b)
  BY <1>1 DEF DueBill
<1>6. \A x \in new.steady \ new.left : \E b \in bills' : DueBill(x, work.began, b)
  BY <1>1, <1>2 DEF WorkFits
<1>7. WorkFits(w)'
  BY <1>1, <1>2, <1>4, <1>5, <1>6 DEF WorkFits
<1>8. bills \subseteq bills' /\ bills' \subseteq BillType
  BY <1>1, <1>2 DEF BillingTypes
<1> QED BY <1>1, <1>2, <1>3, <1>7, <1>8, WorkerStep DEF BillingTypes

LEMMA ReturnStep ==
    ASSUME BillingInv, NEW w \in Workers, worker[w].pc # "idle", NEW state \in JobStates, Return(w, state),
           UNCHANGED <<today, moves, hiring, bills>>
    PROVE  BillingInv'
<1>1. BillingTypes /\ worker' = [worker EXCEPT ![w] = Idle]
  BY DEF BillingInv, Return
<1>2. job' \in [DOMAIN job -> [state : JobStates, attempt : Nat]]
  BY <1>1 DEF Return, BillingTypes
<1>3. WorkFits(w)'
  BY <1>1, IdleType DEF WorkFits, BillingTypes
<1> QED BY <1>1, <1>2, <1>3, IdleType, WorkerStep DEF BillingTypes

LEMMA StallStep == ASSUME BillingInv, NEW w \in Workers, StallJob(w) PROVE BillingInv'
<1>1. /\ BillingTypes /\ worker[w].pc # "idle" /\ WorkFits(w) /\ worker[w].month \in DOMAIN job
      /\ job' = [job EXCEPT ![worker[w].month].state = "waiting"]
      /\ UNCHANGED <<today, moves, hiring, bills>>
  <2>1. worker[w].pc # "idle"
    BY DEF StallJob
  <2> QED BY <2>1, WorkType DEF StallJob
<1>2. job' \in [DOMAIN job -> [state : JobStates, attempt : Nat]]
  BY <1>1 DEF BillingTypes, JobStates
<1>3. CASE worker' = worker
  <2>1. worker' = [worker EXCEPT ![w] = worker[w]] /\ worker[w] \in {Idle} \cup NextWork \cup InsertWork
        /\ worker'[w] = worker[w]
    BY <1>1, <1>3 DEF BillingTypes
  <2>2. WorkFits(w)'
    BY <1>1, <2>1, WorkKept
  <2> QED BY <1>1, <1>2, <2>1, <2>2, WorkerStep DEF BillingTypes
<1>4. CASE worker' = [worker EXCEPT ![w] = Idle]
  <2>1. WorkFits(w)'
    BY <1>1, <1>4, IdleType DEF WorkFits, BillingTypes
  <2> QED BY <1>1, <1>2, <1>4, <2>1, IdleType, WorkerStep DEF BillingTypes
<1> QED BY <1>3, <1>4 DEF StallJob

\* Those who leave were not hiring all the while.
LEMMA HireStep == ASSUME BillingInv, NEW c \in Customers, Hire(c) PROVE BillingInv'
<1>1. /\ BillingTypes /\ hiring' \subseteq Customers /\ UNCHANGED <<today, moves, bills, job>>
      /\ worker' = [w \in Workers |-> IF worker[w].pc = "idle" THEN Idle
                                      ELSE [worker[w] EXCEPT !.steady = @ \cap hiring']]
  BY DEF BillingInv, BillingTypes, Hire
<1>2. ASSUME NEW w \in Workers
      PROVE  /\ worker'[w] \in {Idle} \cup NextWork \cup InsertWork /\ WorkFits(w)'
             /\ worker'[w].pc # "idle" => worker'[w].month \in DOMAIN job
  <2>1. CASE worker[w].pc = "idle"
    <3>1. worker'[w] = Idle
      BY <1>1, <2>1
    <3> QED BY <3>1, IdleType DEF WorkFits
  <2>2. CASE worker[w].pc # "idle"
    <3>1. worker'[w] = [worker[w] EXCEPT !.steady = @ \cap hiring']
      BY <1>1, <2>2
    <3>2. /\ WorkFits(w) /\ worker[w].month \in DOMAIN job /\ worker[w] \in NextWork \cup InsertWork
      BY <2>2, WorkType
    <3>3. /\ worker'[w] \in NextWork \cup InsertWork /\ worker'[w].pc = worker[w].pc
          /\ worker'[w].month = worker[w].month /\ worker'[w].left = worker[w].left
          /\ worker'[w].began = worker[w].began /\ worker'[w].steady = worker[w].steady \cap hiring'
          /\ worker[w].pc = "insert" => worker'[w].bill = worker[w].bill
      BY <3>1, <3>2 DEF NextWork, InsertWork
    <3>4. PICK began : began = worker[w].began
      OBVIOUS
    <3>5. \A x, b : DueBill(x, began, b)' <=> DueBill(x, began, b)
      BY <1>1 DEF DueBill
    <3>6. worker'[w].began = began /\ ~Before(today', began)
      BY <1>1, <2>2, <3>2, <3>3, <3>4 DEF WorkFits
    <3>7. WorkFits(w)'
      <4>1. \A x \in worker'[w].steady \ worker'[w].left :
              \/ \E b \in bills : DueBill(x, began, b)
              \/ worker'[w].pc = "insert" /\ DueBill(x, began, worker'[w].bill)
        BY <2>2, <3>2, <3>3, <3>4 DEF WorkFits
      <4>2. worker'[w].steady \subseteq hiring' /\ bills' = bills
        BY <1>1, <3>3
      <4> QED BY <3>5, <3>6, <4>1, <4>2 DEF WorkFits
    <3> QED BY <3>2, <3>3, <3>7
  <2> QED BY <2>1, <2>2
<1>3. BillingTypes'
  <2>1. worker' \in [Workers -> {Idle} \cup NextWork \cup InsertWork]
    BY <1>1, <1>2
  <2> QED BY <1>1, <1>2, <2>1 DEF BillingTypes
<1> QED BY <1>2, <1>3 DEF BillingInv

LEMMA NextDayStep == ASSUME BillingInv, NextDay PROVE BillingInv'
<1>1. BillingTypes /\ UNCHANGED <<hiring, bills, job, worker>> /\ moves < MaxDays /\ moves' = moves + 1
  BY DEF BillingInv, NextDay
<1>2. /\ today' \in Dates /\ today'.day \in 1 .. Days(today'.month) /\ today'.month \in DOMAIN job
      /\ ~Before(today', today)
  <2>1. today.month \in Nat \ {0} /\ today.day \in Nat
    BY <1>1 DEF BillingTypes, Dates
  <2>2. CASE \E d \in Anchors : today.day < d /\ d <= Days(today.month) /\ today' = Date(today.month, d)
    <3>1. PICK d \in Anchors : today.day < d /\ d <= Days(today.month) /\ today' = Date(today.month, d)
      BY <2>2
    <3>2. d \in 1 .. 31 /\ today'.month = today.month /\ today'.day = d
      BY <3>1, BillingAssumption DEF Date
    <3>3. today' \in Dates
      BY <2>1, <3>1, <3>2 DEF Date, Dates
    <3> QED BY <1>1, <2>1, <3>1, <3>2, <3>3 DEF BillingTypes, Before
  <2>3. CASE today.month + 1 \in DOMAIN job /\ today' = Date(today.month + 1, 1)
    <3>1. today'.month = today.month + 1 /\ today'.day = 1 /\ today' \in Dates
      BY <2>1, <2>3 DEF Date, Dates
    <3>2. Days(today.month + 1) \in 28 .. 31
      BY <2>1, DaysOf
    <3> QED BY <2>1, <2>3, <3>1, <3>2 DEF Before
  <2> QED BY <2>2, <2>3 DEF NextDay
<1>3. BillingTypes'
  BY <1>1, <1>2, BillingAssumption DEF BillingTypes
<1>4. ASSUME NEW w \in Workers, worker[w].pc # "idle" PROVE WorkFits(w)'
  <2>1. WorkFits(w) /\ worker[w].began \in Dates
    BY <1>4, WorkType DEF NextWork, InsertWork
  <2>2. \A x, b : DueBill(x, worker[w].began, b) => DueBill(x, worker[w].began, b)'
    <3> PICK began \in Dates : began = worker[w].began
      BY <2>1
    <3> SUFFICES ASSUME NEW x, NEW b, DueBill(x, began, b) PROVE DueBill(x, began, b)'
      BY <1>1
    <3> QED BY <1>1, <1>2, DueKept
  <2>3. ~Before(today', worker[w].began)
    <3>1. ~Before(today, worker[w].began) /\ today \in Dates
      BY <1>1, <1>4, <2>1 DEF WorkFits, BillingTypes
    <3> QED BY <1>2, <2>1, <3>1 DEF Before, Dates
  <2> QED BY <1>1, <1>4, <2>1, <2>2, <2>3 DEF WorkFits
<1> QED BY <1>1, <1>3, <1>4 DEF BillingInv, WorkFits

LEMMA BillingInitInv == BillingInit => BillingInv
<1> SUFFICES ASSUME BillingInit PROVE BillingInv
  OBVIOUS
<1>1. PICK m \in Firsts, d \in {1, 28} : today = Date(m, d)
  BY DEF BillingInit
<1>2. /\ m \in Nat \ {0} /\ today.month = m /\ today.day = d /\ today \in Dates /\ Days(m) \in 28 .. 31
  BY <1>1, BillingAssumption, DaysOf DEF Date, Dates
<1>3. DOMAIN job = m .. (m + 1) /\ job \in [DOMAIN job -> [state : JobStates, attempt : Nat]]
  BY <1>2 DEF BillingInit, JobStates
<1>4. \A w \in Workers : worker[w] = Idle /\ worker[w].pc = "idle"
  BY IdleType DEF BillingInit
<1>5. worker \in [Workers -> {Idle} \cup NextWork \cup InsertWork]
  BY DEF BillingInit
<1>6. DOMAIN job \subseteq Nat \ {0} /\ today.month \in DOMAIN job /\ today.day \in 1 .. Days(today.month)
  BY <1>2, <1>3
<1>7. moves \in 0 .. MaxDays /\ hiring \subseteq Customers /\ bills \subseteq BillType
  BY BillingAssumption DEF BillingInit
<1>8. BillingTypes
  BY <1>2, <1>3, <1>4, <1>5, <1>6, <1>7 DEF BillingTypes
<1> QED BY <1>4, <1>8 DEF BillingInv, WorkFits

LEMMA BillingNextInv == BillingInv /\ [BillingNext]_billingVars => BillingInv'
<1> SUFFICES ASSUME BillingInv, [BillingNext]_billingVars PROVE BillingInv'
  OBVIOUS
<1>1. CASE Schedule
  <2>1. /\ BillingTypes /\ UNCHANGED <<today, moves, hiring, bills, worker>>
        /\ job' = [job EXCEPT ![today.month].state = "waiting"]
    BY <1>1 DEF Schedule, BillingInv
  <2>2. BillingTypes'
    <3>1. job' \in [DOMAIN job -> [state : JobStates, attempt : Nat]]
      BY <2>1 DEF BillingTypes, JobStates
    <3> QED BY <2>1, <3>1 DEF BillingTypes
  <2>3. \A w \in Workers : WorkFits(w)'
    BY <2>1, WorkKept DEF BillingInv
  <2> QED BY <2>2, <2>3 DEF BillingInv
<1>2. ASSUME NEW w \in Workers, NEW m \in DOMAIN job, TakeJob(w, m) PROVE BillingInv'
  BY <1>2, TakeJobStep
<1>3. ASSUME NEW w \in Workers, NEW c \in Customers, Examine(w, c) PROVE BillingInv'
  BY <1>3, ExamineStep
<1>4. ASSUME NEW w \in Workers, Insert(w) PROVE BillingInv'
  BY <1>4, InsertStep
<1>5. ASSUME NEW w \in Workers, Complete(w) PROVE BillingInv'
  BY <1>5, ReturnStep DEF Complete, JobStates
<1>6. ASSUME NEW w \in Workers, Fail(w) PROVE BillingInv'
  BY <1>6, ReturnStep DEF Fail, JobStates
<1>7. ASSUME NEW w \in Workers, StallJob(w) PROVE BillingInv'
  BY <1>7, StallStep
<1>8. ASSUME NEW c \in Customers, Hire(c) PROVE BillingInv'
  BY <1>8, HireStep
<1>9. CASE UNCHANGED billingVars
  <2>1. BillingTypes /\ UNCHANGED <<today, moves, hiring, bills, job, worker>>
    BY <1>9 DEF billingVars, BillingInv
  <2>2. BillingTypes'
    BY <2>1 DEF BillingTypes
  <2>3. \A w \in Workers : WorkFits(w)'
    BY <2>1, WorkKept DEF BillingInv
  <2> QED BY <2>2, <2>3 DEF BillingInv
<1> QED BY <1>1, <1>2, <1>3, <1>4, <1>5, <1>6, <1>7, <1>8, <1>9, NextDayStep DEF BillingNext

LEMMA BillingInductive == BillingSpec => []BillingInv
  BY BillingInitInv, BillingNextInv, PTL DEF BillingSpec

------------------------------------------------------------------------------
(* Billing: the theorems *)

\* Today is a day of the calendar with a job for its month, a job is in one of its states or a
\* worker's, and the bills are customers'.
THEOREM BillingTypeCorrect == BillingSpec => []BillingTypeOK
<1>1. BillingInv => BillingTypeOK
  <2> SUFFICES ASSUME BillingInv PROVE BillingTypeOK
    OBVIOUS
  <2>1. {b.customer : b \in bills} \subseteq Customers
    BY DEF BillingInv, BillingTypes, BillType
  <2>2. \A m \in DOMAIN job : job[m].state \in {"none", "waiting", "completed", "failed"} \cup Workers
    BY DEF BillingInv, BillingTypes, JobStates
  <2> QED BY <2>1, <2>2 DEF BillingInv, BillingTypes, BillingTypeOK
<1> QED BY <1>1, BillingInductive, PTL

\* The period computed for a day is the one the comment promises, exactly unless the day is
\* before the anchor day and the month before, or the month itself, is too short for the day
\* moved back into it: for every anchor and every calendar of months of 28 to 31 days.
THEOREM PeriodsRight == BillingSpec => []PeriodRight
<1>1. BillingInv => PeriodRight
  <2> SUFFICES ASSUME BillingInv, NEW anchor \in Anchors
               PROVE  Period(anchor, today) = Reference(anchor, today)
                        <=> ~(/\ today.day < Clamp(anchor, today.month)
                              /\ \/ Clamp(anchor, today.month) > Days(today.month - 1)
                                 \/ Clamp(anchor, today.month + 1) > Days(today.month))
    BY DEF PeriodRight
  <2>1. anchor \in 1 .. 31 /\ today \in Dates
    BY BillingAssumption DEF BillingInv, BillingTypes
  <2> QED BY <2>1, PeriodOf
<1> QED BY <1>1, BillingInductive, PTL

\* A month's job that is completed has billed every customer who was there from its start to
\* its end, however often it was stalled, retried or taken over.
THEOREM CompletedAreBilled == BillingSpec => CompletedMeansBilled
<1> DEFINE Done(w) == worker[w].pc = "next" /\ Owner(w) /\ job'[worker[w].month].state = "completed"
           Billed(w) == \A c \in worker[w].steady :
             \E b \in bills, m \in worker[w].began.month..today.month, d \in 1..31 :
               /\ ~Before(Date(m, d), worker[w].began) /\ ~Before(today, Date(m, d))
               /\ d <= Days(m) /\ b = BillOn(c, Date(m, d))
<1>1. ASSUME BillingInv, BillingNext, NEW w \in Workers, Done(w) PROVE Billed(w)
  <2>1. /\ worker[w] \in NextWork /\ worker[w].month \in DOMAIN job /\ WorkFits(w) /\ BillingTypes
        /\ job[worker[w].month].state = w
    BY <1>1, WorkType DEF Owner
  <2>2. w \notin {"none", "waiting", "completed", "failed"} /\ "completed" \notin Workers
    BY BillingAssumption
  <2>3. job'[worker[w].month] # job[worker[w].month]
    BY <1>1, <2>1, <2>2
  <2>4. job \in [DOMAIN job -> [state : JobStates, attempt : Nat]]
    BY <2>1 DEF BillingTypes
  <2>5. Complete(w)
    <3>1. ~Schedule
      BY <2>1, <2>2, <2>3, <2>4 DEF Schedule
    <3>2. \A v \in Workers, m \in DOMAIN job : ~TakeJob(v, m)
      BY <2>1, <2>2, <2>3, <2>4 DEF TakeJob
    <3>3. \A v \in Workers : Complete(v) => v = w
      BY <2>1, <2>3, <2>4 DEF Complete, Return, Owner
    <3>4. \A v \in Workers : ~Fail(v)
      <4> SUFFICES ASSUME NEW v \in Workers, Fail(v) PROVE FALSE
        OBVIOUS
      <4>1. PICK state \in {"waiting", "failed"} : Return(v, state)
        BY DEF Fail
      <4>2. job'[worker[w].month].state \in {job[worker[w].month].state, state}
        BY <2>1, <2>4, <4>1 DEF Return
      <4> QED BY <1>1, <2>1, <2>2, <4>2
    <3>5. \A v \in Workers : ~StallJob(v)
      <4> SUFFICES ASSUME NEW v \in Workers, StallJob(v) PROVE FALSE
        OBVIOUS
      <4>1. job' = [job EXCEPT ![worker[v].month].state = "waiting"]
        BY DEF StallJob
      <4>2. job'[worker[w].month].state \in {job[worker[w].month].state, "waiting"}
        BY <2>1, <2>4, <4>1
      <4> QED BY <1>1, <2>1, <2>2, <4>2
    <3> QED BY <1>1, <2>3, <3>1, <3>2, <3>3, <3>4, <3>5 DEF BillingNext, Examine, Insert, Hire, NextDay
  <2>6. worker[w].left = {}
    BY <2>5 DEF Complete
  <2>7. \A c \in worker[w].steady : \E b \in bills : DueBill(c, worker[w].began, b)
    BY <1>1, <2>1, <2>6 DEF WorkFits
  <2> QED BY <2>7 DEF DueBill
<1>2. BillingInv /\ [BillingNext]_billingVars => [\A w \in Workers : Done(w) => Billed(w)]_billingVars
  BY <1>1
<1> QED BY <1>2, BillingInductive, PTL DEF BillingSpec, CompletedMeansBilled

------------------------------------------------------------------------------
(* Routing: the list *)

LEMMA LeastNat == ASSUME NEW T \in SUBSET Nat, T # {} PROVE \E n \in T : \A m \in T : n <= m
<1>1. IsWellFoundedOn(OpToRel(<, Nat), Nat)
  BY NatLessThanWellFounded
<1>2. PICK n \in T : \A m \in T : ~(<<m, n>> \in OpToRel(<, Nat))
  BY <1>1, WFMin
<1>3. \A m \in T : ~(m < n)
  BY <1>2 DEF OpToRel
<1> QED BY <1>3

\* What a message may find: there are finitely many hires, whatever their agents are called.
CandidateSets == {S \in SUBSET Candidate : IsFiniteSet(S)}

LEMMA PlacesNat == Routes \subseteq Nat /\ Names \subseteq Nat
  BY RoutingAssumption

LEMMA CandidateFields ==
    ASSUME NEW c \in Candidate
    PROVE  /\ c.hire \in Routes /\ c.agentName \in Names /\ c.hire \in Nat /\ c.agentName \in Nat
           /\ \A d \in Candidate : c.hire = d.hire /\ c.agentName = d.agentName => c = d
<1>1. c.hire \in Routes /\ c.agentName \in Names
  BY DEF Candidate
<1>2. \A d \in Candidate : c.hire = d.hire /\ c.agentName = d.agentName => c = d
  BY DEF Candidate
<1> QED BY <1>1, <1>2, PlacesNat

\* The candidate that comes first.
LEMMA FirstOf ==
    ASSUME NEW S \in SUBSET Candidate, S # {}
    PROVE  \E c \in S : \A d \in S \ {c} : Precedes(c, d)
<1>1. \A c \in S : /\ c.hire \in Nat /\ c.agentName \in Nat
                   /\ \A d \in S : c.hire = d.hire /\ c.agentName = d.agentName => c = d
  BY CandidateFields
<1>2. PICK n \in {c.agentName : c \in S} : \A c \in S : n <= c.agentName
  <2> DEFINE Places == {c.agentName : c \in S}
  <2>1. Places \in SUBSET Nat /\ Places # {}
    BY <1>1
  <2>2. \E a \in Places : \A b \in Places : a <= b
    BY <2>1, LeastNat
  <2> QED BY <2>2
<1>3. PICK h \in {c.hire : c \in {d \in S : d.agentName = n}} :
        \A c \in S : c.agentName = n => h <= c.hire
  <2> DEFINE Tied == {c.hire : c \in {d \in S : d.agentName = n}}
  <2>1. Tied \in SUBSET Nat /\ Tied # {}
    BY <1>1, <1>2
  <2>2. \E a \in Tied : \A b \in Tied : a <= b
    BY <2>1, LeastNat
  <2> QED BY <2>2
<1>4. PICK c \in S : c.agentName = n /\ c.hire = h
  BY <1>3
<1>5. ASSUME NEW d \in S \ {c} PROVE Precedes(c, d)
  <2>1. d.agentName = n => d.hire # h
    BY <1>1, <1>4, <1>5
  <2>2. n <= d.agentName /\ (d.agentName = n => h <= d.hire)
    BY <1>2, <1>3
  <2>3. n \in Nat /\ h \in Nat /\ d.agentName \in Nat /\ d.hire \in Nat
    BY <1>1, <1>4
  <2> QED BY <1>4, <2>1, <2>2, <2>3 DEF Precedes
<1> QED BY <1>5

Sorted(S, f) ==
    /\ f \in [1..Cardinality(S) -> S]
    /\ \A i, j \in 1..Cardinality(S) : i < j => Precedes(f[i], f[j])

\* By induction on their number: a least set of candidates that cannot be listed could be,
\* from the first of them and the list of the rest.
LEMMA SortExists == ASSUME NEW S \in CandidateSets PROVE \E f : Sorted(S, f)
<1> DEFINE Bad == {n \in Nat : \E T \in CandidateSets : Cardinality(T) = n /\ ~(\E f : Sorted(T, f))}
<1>1. \A T \in CandidateSets : IsFiniteSet(T) /\ Cardinality(T) \in Nat
  BY FS_CardinalityType DEF CandidateSets
<1>2. CASE Bad = {}
  BY <1>1, <1>2
<1>3. CASE Bad # {}
  <2>1. PICK n \in Bad : \A m \in Bad : n <= m
    BY <1>3, LeastNat
  <2>2. PICK T \in CandidateSets : Cardinality(T) = n /\ ~(\E f : Sorted(T, f))
    BY <2>1
  <2>3. n \in Nat
    OBVIOUS
  <2>4. T # {}
    <3> SUFFICES ASSUME T = {} PROVE FALSE
      OBVIOUS
    <3>1. n = 0
      BY <2>2, FS_EmptySet
    <3>2. Sorted(T, [i \in 1 .. 0 |-> i])
      BY <2>2, <3>1 DEF Sorted
    <3> QED BY <2>2, <3>2
  <2>5. PICK g \in T : \A h \in T \ {g} : Precedes(g, h)
    BY <2>4, FirstOf DEF CandidateSets
  <2>6. Cardinality(T \ {g}) = n - 1 /\ n - 1 \in Nat /\ T \ {g} \in CandidateSets
    <3>1. IsFiniteSet(T) /\ n # 0
      BY <1>1, <2>2, <2>4, FS_EmptySet
    <3>2. IsFiniteSet(T \ {g}) /\ Cardinality(T \ {g}) = n - 1
      BY <2>2, <3>1, FS_RemoveElement
    <3> QED BY <2>3, <3>1, <3>2 DEF CandidateSets
  <2>7. n - 1 \notin Bad
    BY <2>1, <2>3
  <2>8. PICK rest : Sorted(T \ {g}, rest)
    BY <2>6, <2>7
  <2> DEFINE f == [i \in 1 .. n |-> IF i = 1 THEN g ELSE rest[i - 1]]
  <2>9. rest \in [1 .. (n - 1) -> T \ {g}]
        /\ \A i, j \in 1 .. (n - 1) : i < j => Precedes(rest[i], rest[j])
    BY <2>6, <2>8 DEF Sorted
  <2>10. \A i \in 1 .. n : i # 1 => i - 1 \in 1 .. (n - 1)
    BY <2>3
  <2>11. f \in [1 .. n -> T]
    BY <2>9, <2>10
  <2>12. ASSUME NEW i \in 1 .. n, NEW j \in 1 .. n, i < j PROVE Precedes(f[i], f[j])
    <3>1. j # 1 /\ j - 1 \in 1 .. (n - 1) /\ f[j] = rest[j - 1] /\ f[j] \in T \ {g}
      BY <2>9, <2>10, <2>12
    <3>2. CASE i = 1
      BY <2>5, <3>1, <3>2
    <3>3. CASE i # 1
      <4>1. i - 1 \in 1 .. (n - 1) /\ f[i] = rest[i - 1] /\ i - 1 < j - 1
        BY <2>10, <2>12, <3>3
      <4> QED BY <2>9, <3>1, <4>1
    <3> QED BY <3>2, <3>3
  <2>13. Sorted(T, f)
    BY <2>2, <2>11, <2>12 DEF Sorted
  <2> QED BY <2>2, <2>13
<1> QED BY <1>2, <1>3

\* The list has each of the candidates once.
LEMMA ListedFacts ==
    ASSUME NEW S \in CandidateSets
    PROVE  /\ Listed(S) \in Seq(Candidate) /\ Len(Listed(S)) = Cardinality(S) /\ Cardinality(S) \in Nat
           /\ DOMAIN Listed(S) = 1 .. Cardinality(S)
           /\ Range(Listed(S)) = S
<1>1. IsFiniteSet(S) /\ Cardinality(S) \in Nat /\ S \subseteq Candidate
  BY FS_CardinalityType DEF CandidateSets
<1> PICK n : n = Cardinality(S)
  OBVIOUS
<1>2. Listed(S) \in [1 .. n -> S] /\ \A i, j \in 1 .. n : i < j => Precedes(Listed(S)[i], Listed(S)[j])
  <2>1. \E f \in [1 .. n -> S] : \A i, j \in 1 .. n : i < j => Precedes(f[i], f[j])
    BY SortExists DEF Sorted
  <2> QED BY <2>1 DEF Listed
<1>3. \A c \in Candidate : ~Precedes(c, c)
  BY CandidateFields DEF Precedes
<1>4. \A i, j \in 1 .. n : i # j => Listed(S)[i] # Listed(S)[j]
  <2> SUFFICES ASSUME NEW i \in 1 .. n, NEW j \in 1 .. n, i < j PROVE Listed(S)[i] # Listed(S)[j]
    BY <1>1
  <2>1. Listed(S)[i] \in Candidate /\ Precedes(Listed(S)[i], Listed(S)[j])
    BY <1>1, <1>2
  <2> QED BY <1>3, <2>1
<1>5. Listed(S) \in Injection(1 .. n, S)
  BY <1>2, <1>4 DEF Injection, IsInjective
<1>6. IsFiniteSet(1 .. n) /\ Cardinality(1 .. n) = n
  BY <1>1, FS_Interval
<1>7. Listed(S) \in Surjection(1 .. n, S)
  BY <1>1, <1>5, <1>6, FS_Injection
<1>8. Range(Listed(S)) = S
  BY <1>2, <1>7 DEF Surjection, Range
<1>9. Listed(S) \in Seq(Candidate) /\ Len(Listed(S)) = n
  BY <1>1, <1>2
<1> QED BY <1>1, <1>2, <1>8, <1>9

------------------------------------------------------------------------------
(* Routing: the runs *)

Sides == {Side(h) : h \in Routes}
RoutePcs == {"find", "agents", "history", "context", "identify", "store", "unroutable",
             "ambiguous", "dropped", "answered"}
Flying == {"find", "agents", "history", "context", "identify", "store"}
RouteType == [pc : RoutePcs, text : Texts, hires : SUBSET Routes, candidates : CandidateSets,
              chosen : Routes \cup {0}, last : SUBSET Sides, alone : BOOLEAN]

RoutingTypes ==
    /\ live \subseteq Agents /\ name \in [Agents -> Names]
    /\ contacts \subseteq {ClientOf[h] : h \in Routes}
    /\ stored \in Seq(Sides) /\ shown \in Seq(Candidate) /\ changes \in 0 .. MaxChanges
    /\ route \in [RoutingRuns -> {[pc |-> "new"]} \cup RouteType]

\* What was stored last, or nothing.
Newest == IF stored = <<>> THEN {} ELSE {Last(stored)}

\* A run that has its agent has it from the hires, one that asks the history found nothing in
\* the text, and one that is still alone knows what was stored last.
RouteFits(r) ==
    LET q == route[r] IN
    /\ q.pc \in {"context", "identify", "store"} => q.chosen \in Routes
    /\ q.pc = "store" => ClientOf[q.chosen] \in contacts
    /\ q.pc = "history" => /\ Explicit(q.candidates, q.text) = {} /\ q.candidates # {}
                           /\ Cardinality(q.candidates) # 1
    /\ q.pc \in Flying /\ q.alone => /\ q.last = Newest
                                     /\ \A p \in RoutingRuns \ {r} : route[p].pc \notin Flying

SendersKnown == \A i \in DOMAIN stored : stored[i].client \in contacts
ShownListed == shown = <<>> \/ \E found \in CandidateSets : shown = Listed(found)

RoutingInv ==
    RoutingTypes /\ SendersKnown /\ ShownListed /\ \A r \in RoutingRuns : RouteFits(r)

LEMMA RouteTyped ==
    ASSUME RoutingInv, NEW r \in RoutingRuns, route[r].pc # "new"
    PROVE  RoutingTypes /\ RouteFits(r) /\ route[r] \in RouteType
  BY DEF RoutingInv, RoutingTypes

\* What the run's own step leaves of the others, which is all but their being alone.
LEMMA RouteStep ==
    ASSUME RoutingInv, NEW r \in RoutingRuns, route[r].pc \in Flying, NEW new \in RouteType,
           route' = [route EXCEPT ![r] = new],
           new.alone = route[r].alone, new.last = route[r].last,
           UNCHANGED <<live, name, changes>>,
           contacts \subseteq contacts', contacts' \subseteq {ClientOf[h] : h \in Routes},
           \/ stored' = stored
           \/ /\ new.pc = "answered" /\ route[r].chosen \in Routes
              /\ ClientOf[route[r].chosen] \in contacts /\ stored' = Append(stored, Side(route[r].chosen)),
           \/ shown' = shown
           \/ \E found \in CandidateSets : shown' = Listed(found),
           new.pc \in {"context", "identify", "store"} => new.chosen \in Routes,
           new.pc = "store" => ClientOf[new.chosen] \in contacts',
           new.pc = "history" => /\ Explicit(new.candidates, new.text) = {} /\ new.candidates # {}
                                 /\ Cardinality(new.candidates) # 1
    PROVE  RoutingInv'
<1>1. /\ RoutingTypes /\ RouteFits(r) /\ route'[r] = new /\ route[r].pc # "new"
      /\ \A q \in RoutingRuns \ {r} : route'[q] = route[q]
  BY DEF RoutingInv, RoutingTypes, Flying
<1>2. RoutingTypes'
  <2>1. stored' \in Seq(Sides)
    <3>1. stored \in Seq(Sides)
      BY <1>1 DEF RoutingTypes
    <3>2. route[r].chosen \in Routes => Side(route[r].chosen) \in Sides
      BY DEF Sides
    <3>3. \/ stored' = stored
          \/ stored' = Append(stored, Side(route[r].chosen)) /\ route[r].chosen \in Routes
      OBVIOUS
    <3> QED BY <3>1, <3>2, <3>3
  <2>2. shown' \in Seq(Candidate)
    BY <1>1, ListedFacts DEF RoutingTypes
  <2> QED BY <1>1, <2>1, <2>2 DEF RoutingTypes
<1>3. SendersKnown'
  <2>1. CASE stored' = stored
    BY <2>1 DEF RoutingInv, SendersKnown
  <2>2. CASE /\ route[r].chosen \in Routes /\ ClientOf[route[r].chosen] \in contacts
             /\ stored' = Append(stored, Side(route[r].chosen))
    <3> SUFFICES ASSUME NEW i \in DOMAIN stored' PROVE stored'[i].client \in contacts'
      BY DEF SendersKnown
    <3>1. stored \in Seq(Sides) /\ Side(route[r].chosen) \in Sides
      BY <1>1, <2>2 DEF RoutingTypes, Sides
    <3>2. CASE i = Len(stored) + 1
      <4>1. stored'[i] = Side(route[r].chosen)
        BY <2>2, <3>1, <3>2
      <4> QED BY <2>2, <4>1 DEF Side
    <3>3. CASE i # Len(stored) + 1
      <4>1. i \in DOMAIN stored /\ stored'[i] = stored[i]
        BY <2>2, <3>1, <3>3
      <4> QED BY <4>1 DEF RoutingInv, SendersKnown
    <3> QED BY <3>2, <3>3
  <2> QED BY <2>1, <2>2
<1>4. ShownListed'
  BY DEF RoutingInv, ShownListed
<1>5. stored' = stored => Newest' = Newest
  BY DEF Newest
<1>6. RouteFits(r)'
  <2>1. new.pc \in Flying => stored' = stored
    BY DEF Flying
  <2>2. new.pc \in Flying /\ new.alone =>
          /\ new.last = Newest' /\ \A p \in RoutingRuns \ {r} : route'[p].pc \notin Flying
    BY <1>1, <1>5, <2>1 DEF RouteFits
  <2>3. new.pc = "history" => Explicit(route'[r].candidates, route'[r].text) = {} /\ route'[r].candidates # {}
                              /\ Cardinality(route'[r].candidates) # 1
    BY <1>1
  <2> QED BY <1>1, <2>2, <2>3 DEF RouteFits
<1>7. ASSUME NEW q \in RoutingRuns \ {r} PROVE RouteFits(q)'
  <2>1. RouteFits(q) /\ route'[q] = route[q]
    BY <1>1 DEF RoutingInv
  <2>2. ~(route[q].pc \in Flying /\ route[q].alone)
    BY <2>1 DEF RouteFits
  <2> QED BY <2>1, <2>2 DEF RouteFits
<1> QED BY <1>2, <1>3, <1>4, <1>6, <1>7 DEF RoutingInv

\* Who arrives while another run is under way is not alone, nor is the other any more.
LEMMA ArriveStep ==
    ASSUME RoutingInv, NEW r \in RoutingRuns, NEW text \in Texts, Arrive(r, text) PROVE RoutingInv'
<1> DEFINE new == [pc |-> "find", text |-> text, hires |-> {}, candidates |-> {}, chosen |-> 0,
                   last |-> Newest, alone |-> ~\E p \in RoutingRuns : InFlight(p)]
<1>1. /\ UNCHANGED <<live, name, contacts, stored, shown, changes>> /\ RoutingTypes /\ route[r].pc = "new"
      /\ route' = [q \in RoutingRuns |->
           IF q = r THEN new ELSE IF InFlight(q) THEN [route[q] EXCEPT !.alone = FALSE] ELSE route[q]]
  BY DEF Arrive, RoutingInv, Newest
<1>2. \A q \in RoutingRuns : InFlight(q) <=> route[q].pc \in Flying
  BY DEF InFlight, Flying
<1>3. /\ new \in RouteType /\ new.pc = "find" /\ new.last = Newest
      /\ new.alone <=> ~\E p \in RoutingRuns : route[p].pc \in Flying
  <2>1. Newest \subseteq Sides
    <3>1. stored # <<>> => Last(stored) \in Sides
      BY <1>1 DEF RoutingTypes, Last
    <3> QED BY <3>1 DEF Newest
  <2>2. {} \in CandidateSets
    BY FS_EmptySet DEF CandidateSets
  <2> QED BY <1>2, <2>1, <2>2 DEF RouteType, RoutePcs
<1>4. route'[r] = new
  BY <1>1
<1> HIDE DEF new
<1>5. ASSUME NEW q \in RoutingRuns \ {r}
      PROVE  /\ route'[q].pc = route[q].pc
             /\ \/ route'[q] = route[q] /\ route[q].pc \notin Flying
                \/ route'[q] = [route[q] EXCEPT !.alone = FALSE] /\ route[q].pc \in Flying /\ route[q] \in RouteType
  <2>1. CASE ~InFlight(q)
    BY <1>1, <1>2, <2>1
  <2>2. CASE InFlight(q)
    <3>1. route[q] \in RouteType /\ route[q].pc \in Flying
      BY <1>2, <2>2, RouteTyped DEF Flying
    <3>2. route'[q] = [route[q] EXCEPT !.alone = FALSE]
      BY <1>1, <2>2
    <3>3. [route[q] EXCEPT !.alone = FALSE].pc = route[q].pc
      BY <3>1 DEF RouteType
    <3> QED BY <3>1, <3>2, <3>3
  <2> QED BY <2>1, <2>2
<1>6. RoutingTypes'
  <2>1. \A q \in RoutingRuns \ {r} : route'[q] \in {[pc |-> "new"]} \cup RouteType
    <3> SUFFICES ASSUME NEW q \in RoutingRuns \ {r} PROVE route'[q] \in {[pc |-> "new"]} \cup RouteType
      OBVIOUS
    <3>1. CASE route'[q] = route[q]
      BY <1>1, <3>1 DEF RoutingTypes
    <3>2. CASE route'[q] = [route[q] EXCEPT !.alone = FALSE] /\ route[q] \in RouteType
      <4>1. [route[q] EXCEPT !.alone = FALSE] \in RouteType
        BY <3>2 DEF RouteType
      <4> QED BY <3>2, <4>1
    <3> QED BY <1>5, <3>1, <3>2
  <2>2. route' \in [RoutingRuns -> {[pc |-> "new"]} \cup RouteType]
    BY <1>1, <1>3, <1>4, <2>1
  <2> QED BY <1>1, <2>2 DEF RoutingTypes
<1>7. SendersKnown' /\ ShownListed' /\ Newest' = Newest
  BY <1>1 DEF RoutingInv, SendersKnown, ShownListed, Newest
<1>8. RouteFits(r)'
  <2>1. \A q \in RoutingRuns \ {r} : route'[q].pc = route[q].pc
    BY <1>5
  <2>2. new.alone => \A q \in RoutingRuns \ {r} : route'[q].pc \notin Flying
    BY <1>3, <2>1
  <2> QED BY <1>3, <1>4, <1>7, <2>2 DEF RouteFits
<1>9. ASSUME NEW q \in RoutingRuns \ {r} PROVE RouteFits(q)'
  <2>1. RouteFits(q)
    BY DEF RoutingInv
  <2>2. CASE route'[q] = route[q] /\ route[q].pc \notin Flying
    BY <2>2 DEF RouteFits, Flying
  <2>3. CASE route'[q] = [route[q] EXCEPT !.alone = FALSE] /\ route[q].pc \in Flying /\ route[q] \in RouteType
    <3>1. /\ route'[q].pc = route[q].pc /\ route'[q].chosen = route[q].chosen /\ route'[q].alone = FALSE
          /\ route'[q].candidates = route[q].candidates /\ route'[q].text = route[q].text
      BY <2>3 DEF RouteType
    <3> QED BY <1>1, <2>1, <3>1 DEF RouteFits
  <2> QED BY <1>5, <2>2, <2>3
<1> QED BY <1>6, <1>7, <1>8, <1>9 DEF RoutingInv

\* What a text asks for is among the candidates.
LEMMA PickedOf ==
    ASSUME NEW found \in CandidateSets, NEW text \in Texts
    PROVE  /\ Explicit(found, text) \subseteq found /\ Recent(found) \subseteq found
           /\ Keyword(found, text) \subseteq found
           /\ \A guess \in Semantic(found) : guess \subseteq found
<1>1. /\ \A S : Only(S) \subseteq S
      /\ \A names : Named(found, names) \subseteq found
  BY DEF Only, Named
<1>2. Explicit(found, text) \subseteq found
  <2>1. CASE text.number \in 1 .. Len(Listed(found))
    <3>1. Listed(found)[text.number] \in found
      BY <2>1, ListedFacts DEF Range
    <3> QED BY <2>1, <3>1 DEF Explicit
  <2>2. CASE text.number \notin 1 .. Len(Listed(found))
    BY <1>1, <2>2 DEF Explicit
  <2> QED BY <2>1, <2>2
<1>3. Recent(found) \subseteq found
  BY DEF Recent
<1>4. Keyword(found, text) \subseteq found
  BY <1>1 DEF Keyword
<1> QED BY <1>2, <1>3, <1>4 DEF Semantic

LEMMA FindHiresStep == ASSUME RoutingInv, NEW r \in RoutingRuns, FindHires(r) PROVE RoutingInv'
<1> PICK q : q = route[r]
  OBVIOUS
<1> DEFINE new == [q EXCEPT !.hires = Matching, !.pc = "agents"]
<1>1. /\ q.pc = "find" /\ q \in RouteType /\ RoutingTypes
      /\ UNCHANGED <<live, name, contacts, stored, shown, changes>>
  BY RouteTyped DEF FindHires
<1>2. route' = [route EXCEPT ![r] = new]
  BY DEF FindHires
<1>3. new \in RouteType /\ new.pc = "agents" /\ new.alone = q.alone /\ new.last = q.last
  BY <1>1 DEF RouteType, RoutePcs, Matching
<1> HIDE DEF new
<1> QED BY <1>1, <1>2, <1>3, RouteStep DEF Flying, RoutingTypes

\* The candidates are as many as their hires.
LEMMA FoundFinite ==
    ASSUME RoutingTypes, NEW r \in RoutingRuns, route[r] \in RouteType
    PROVE  Candidates(r) \in CandidateSets
<1> DEFINE served == {g \in route[r].hires : AgentOf[g] \in live}
           asRead(h) == [hire |-> h, agentName |-> name[AgentOf[h]]]
<1>1. served \subseteq Routes /\ IsFiniteSet(served)
  <2>1. served \subseteq Routes
    BY DEF RouteType
  <2> QED BY <2>1, RoutingAssumption, FS_Subset
<1>2. Candidates(r) = {asRead(h) : h \in served}
  BY DEF Candidates
<1>3. \A h \in served : asRead(h) \in Candidate
  BY <1>1 DEF RoutingTypes, Agents, Candidate
<1>4. IsFiniteSet(Candidates(r))
  <2> HIDE DEF asRead, served
  <2> DEFINE f == [h \in served |-> asRead(h)]
  <2>1. f \in Surjection(served, {asRead(h) : h \in served})
    BY DEF Surjection
  <2> QED BY <1>1, <1>2, <2>1, FS_Surjection
<1> QED BY <1>2, <1>3, <1>4 DEF CandidateSets

LEMMA ResolveRouteStep == ASSUME RoutingInv, NEW r \in RoutingRuns, ResolveRoute(r) PROVE RoutingInv'
<1> PICK q, found, pick : /\ q = route[r] /\ found = Candidates(r)
                          /\ pick = IF Cardinality(found) = 1 THEN found ELSE Explicit(found, q.text)
  OBVIOUS
<1> DEFINE new == [q EXCEPT !.candidates = found,
                     !.pc = IF found = {} THEN "unroutable" ELSE IF pick # {} THEN "context" ELSE "history",
                     !.chosen = IF pick = {} THEN 0 ELSE (CHOOSE c \in pick : TRUE).hire]
<1>1. /\ q.pc = "agents" /\ q \in RouteType /\ RoutingTypes
      /\ UNCHANGED <<live, name, contacts, stored, shown, changes>>
  BY RouteTyped DEF ResolveRoute
<1>2. route' = [route EXCEPT ![r] = new]
  BY DEF ResolveRoute
<1>3. found \in CandidateSets /\ pick \subseteq found /\ pick \subseteq Candidate
  <2>1. found \in CandidateSets /\ q.text \in Texts
    BY <1>1, FoundFinite DEF RouteType
  <2>2. Explicit(found, q.text) \subseteq found
    BY <2>1, PickedOf
  <2> QED BY <2>1, <2>2 DEF CandidateSets
<1>4. pick # {} => (CHOOSE c \in pick : TRUE).hire \in Routes
  <2>1. pick # {} => (CHOOSE c \in pick : TRUE) \in Candidate
    BY <1>3
  <2> QED BY <2>1 DEF Candidate
<1>5. /\ new \in RouteType /\ new.alone = q.alone /\ new.last = q.last /\ new.candidates = found
      /\ new.text = q.text
      /\ new.pc = IF found = {} THEN "unroutable" ELSE IF pick # {} THEN "context" ELSE "history"
      /\ new.chosen = IF pick = {} THEN 0 ELSE (CHOOSE c \in pick : TRUE).hire
  BY <1>1, <1>3, <1>4 DEF RouteType, RoutePcs
<1> HIDE DEF new
<1>6. new.pc = "history" => Explicit(new.candidates, new.text) = {} /\ new.candidates # {}
                            /\ Cardinality(new.candidates) # 1
  BY <1>5
<1>7. new.pc \in {"context", "identify", "store"} => new.chosen \in Routes
  BY <1>4, <1>5
<1>8. new.pc # "store" /\ contacts' \subseteq {ClientOf[h] : h \in Routes}
  BY <1>1, <1>5 DEF RoutingTypes
<1> QED BY <1>1, <1>2, <1>5, <1>6, <1>7, <1>8, RouteStep DEF Flying

LEMMA ReadHistoryStep == ASSUME RoutingInv, NEW r \in RoutingRuns, ReadHistory(r) PROVE RoutingInv'
<1> PICK q : q = route[r]
  OBVIOUS
<1>1. /\ q.pc = "history" /\ q \in RouteType /\ RoutingTypes /\ RouteFits(r)
      /\ UNCHANGED <<live, name, contacts, stored, changes>>
  BY RouteTyped DEF ReadHistory
<1>2. q.candidates \in CandidateSets /\ q.text \in Texts
  BY <1>1 DEF RouteType
<1>3. contacts' \subseteq {ClientOf[h] : h \in Routes} /\ contacts \subseteq contacts'
  BY <1>1 DEF RoutingTypes
<1>4. PICK guess \in Semantic(q.candidates) :
        LET pick == IF Recent(q.candidates) # {} THEN Recent(q.candidates)
                    ELSE IF Keyword(q.candidates, q.text) # {} THEN Keyword(q.candidates, q.text) ELSE guess
        IN  IF pick # {} THEN Resolve(r, pick) /\ UNCHANGED shown
            ELSE /\ shown' = Listed(q.candidates)
                 /\ route' = [route EXCEPT ![r].pc = "ambiguous"]
  BY DEF ReadHistory
<1>5. CASE route' = [route EXCEPT ![r].pc = "ambiguous"] /\ shown' = Listed(q.candidates)
  <2> DEFINE new == [q EXCEPT !.pc = "ambiguous"]
  <2>1. route' = [route EXCEPT ![r] = new]
    BY <1>5
  <2>2. new \in RouteType /\ new.pc = "ambiguous" /\ new.alone = q.alone /\ new.last = q.last
    BY <1>1 DEF RouteType, RoutePcs
  <2> HIDE DEF new
  <2> QED BY <1>1, <1>2, <1>3, <1>5, <2>1, <2>2, RouteStep DEF Flying
<1>6. ASSUME NEW pick \in SUBSET q.candidates, pick # {}, Resolve(r, pick), UNCHANGED shown
      PROVE  RoutingInv'
  <2> DEFINE new == [q EXCEPT !.pc = "context", !.chosen = (CHOOSE c \in pick : TRUE).hire]
  <2>1. route' = [route EXCEPT ![r] = new]
    BY <1>6 DEF Resolve
  <2>2. (CHOOSE c \in pick : TRUE).hire \in Routes
    <3>1. (CHOOSE c \in pick : TRUE) \in Candidate
      BY <1>2, <1>6 DEF CandidateSets
    <3> QED BY <3>1 DEF Candidate
  <2>3. new \in RouteType /\ new.pc = "context" /\ new.alone = q.alone /\ new.last = q.last /\ new.chosen \in Routes
    BY <1>1, <2>2 DEF RouteType, RoutePcs
  <2> HIDE DEF new
  <2> QED BY <1>1, <1>3, <1>6, <2>1, <2>3, RouteStep DEF Flying
<1>7. Recent(q.candidates) \subseteq q.candidates /\ Keyword(q.candidates, q.text) \subseteq q.candidates
      /\ guess \subseteq q.candidates
  BY <1>2, PickedOf
<1> QED BY <1>4, <1>5, <1>6, <1>7

\* The steps that leave a run its agent, or end it.
LEMMA LaterStep ==
    ASSUME RoutingInv, NEW r \in RoutingRuns, BuildContext(r) \/ Drop(r) \/ Identify(r) \/ Store(r)
    PROVE  RoutingInv'
<1> PICK q : q = route[r]
  OBVIOUS
<1>1. /\ q.pc \in {"context", "identify", "store"} /\ q \in RouteType /\ RoutingTypes /\ RouteFits(r)
      /\ q.chosen \in Routes /\ UNCHANGED <<live, name, shown, changes>>
  <2>1. route[r].pc \in {"context", "identify", "store"}
    BY DEF BuildContext, Drop, Identify, Store
  <2>2. RoutingTypes /\ RouteFits(r) /\ route[r] \in RouteType
    BY <2>1, RouteTyped
  <2> QED BY <2>1, <2>2 DEF BuildContext, Drop, Identify, Store, RouteFits
<1>2. PICK pc \in {"identify", "dropped", "store", "answered"} :
        /\ route' = [route EXCEPT ![r].pc = pc]
        /\ \/ pc \in {"identify", "dropped"} /\ UNCHANGED <<contacts, stored>>
           \/ pc = "store" /\ contacts' = contacts \cup {ClientOf[q.chosen]} /\ stored' = stored
           \/ /\ pc = "answered" /\ q.pc = "store" /\ contacts' = contacts
              /\ stored' = Append(stored, Side(q.chosen))
  <2>1. CASE BuildContext(r)
    BY <2>1 DEF BuildContext
  <2>2. CASE Drop(r)
    BY <2>2 DEF Drop
  <2>3. CASE Identify(r)
    BY <2>3 DEF Identify, WithContact
  <2>4. CASE Store(r)
    BY <2>4 DEF Store
  <2> QED BY <2>1, <2>2, <2>3, <2>4
<1> DEFINE new == [q EXCEPT !.pc = pc]
<1>3. route' = [route EXCEPT ![r] = new]
  BY <1>2
<1>4. new \in RouteType /\ new.pc = pc /\ new.alone = q.alone /\ new.last = q.last /\ new.chosen = q.chosen
  BY <1>1, <1>2 DEF RouteType, RoutePcs
<1> HIDE DEF new
<1>5. contacts \subseteq contacts' /\ contacts' \subseteq {ClientOf[h] : h \in Routes}
  BY <1>1, <1>2 DEF RoutingTypes
<1>6. pc = "store" => ClientOf[q.chosen] \in contacts'
  BY <1>2
<1>7. pc = "answered" => ClientOf[q.chosen] \in contacts /\ stored' = Append(stored, Side(q.chosen))
  BY <1>1, <1>2 DEF RouteFits
<1>8. pc # "answered" => stored' = stored
  BY <1>2
<1> QED BY <1>1, <1>2, <1>3, <1>4, <1>5, <1>6, <1>7, <1>8, RouteStep DEF Flying

LEMMA RoutesStill ==
    ASSUME RoutingInv, UNCHANGED <<contacts, stored, shown, route>>, live' \subseteq Agents,
           name' \in [Agents -> Names], changes' \in 0 .. MaxChanges
    PROVE  RoutingInv'
<1>1. RoutingTypes' /\ SendersKnown' /\ ShownListed' /\ Newest' = Newest
  BY DEF RoutingInv, RoutingTypes, SendersKnown, ShownListed, Newest
<1>2. ASSUME NEW r \in RoutingRuns PROVE RouteFits(r)'
  <2>1. RouteFits(r) /\ route' = route /\ contacts' = contacts
    BY DEF RoutingInv
  <2> QED BY <1>1, <2>1 DEF RouteFits
<1> QED BY <1>1, <1>2 DEF RoutingInv

LEMMA RoutingInitInv == RoutingInit => RoutingInv
  BY RoutingAssumption DEF RoutingInit, RoutingInv, RoutingTypes, SendersKnown, ShownListed, RouteFits, Flying

LEMMA RoutingNextInv == RoutingInv /\ [RoutingNext]_routingVars => RoutingInv'
<1> SUFFICES ASSUME RoutingInv, [RoutingNext]_routingVars PROVE RoutingInv'
  OBVIOUS
<1>1. ASSUME NEW r \in RoutingRuns, NEW text \in Texts, Arrive(r, text) PROVE RoutingInv'
  BY <1>1, ArriveStep
<1>2. ASSUME NEW r \in RoutingRuns, RoutingStep(r) PROVE RoutingInv'
  BY <1>2, FindHiresStep, ResolveRouteStep, ReadHistoryStep, LaterStep DEF RoutingStep
<1>3. live \subseteq Agents /\ name \in [Agents -> Names] /\ changes \in 0 .. MaxChanges
  BY DEF RoutingInv, RoutingTypes
<1>4. ASSUME NEW h \in Routes, NEW what \in {"hire", "channel"}, Toggle(h, what) PROVE RoutingInv'
  <2>1. changes' \in 0 .. MaxChanges /\ live' \subseteq Agents /\ UNCHANGED <<name, contacts, stored, shown, route>>
    BY <1>3, <1>4, RoutingAssumption DEF Toggle
  <2> QED BY <1>3, <2>1, RoutesStill
<1>5. ASSUME NEW a \in Agents, ToggleAgent(a) PROVE RoutingInv'
  <2>1. changes' \in 0 .. MaxChanges /\ live' \subseteq Agents /\ UNCHANGED <<name, contacts, stored, shown, route>>
    BY <1>3, <1>5, RoutingAssumption DEF ToggleAgent
  <2> QED BY <1>3, <2>1, RoutesStill
<1>6. ASSUME NEW a \in Agents, NEW new \in Names, RenameAgent(a, new) PROVE RoutingInv'
  <2>1. /\ changes' \in 0 .. MaxChanges /\ name' \in [Agents -> Names]
        /\ UNCHANGED <<live, contacts, stored, shown, route>>
    BY <1>3, <1>6, RoutingAssumption DEF RenameAgent
  <2> QED BY <1>3, <2>1, RoutesStill
<1>7. CASE UNCHANGED routingVars
  BY <1>3, <1>7, RoutesStill DEF routingVars
<1> QED BY <1>1, <1>2, <1>4, <1>5, <1>6, <1>7 DEF RoutingNext

LEMMA RoutingInductive == RoutingSpec => []RoutingInv
  BY RoutingInitInv, RoutingNextInv, PTL DEF RoutingSpec

\* A run gets its agent in one of two steps.
LEMMA ResolvedSteps ==
    ASSUME RoutingInv, RoutingNext, NEW r \in RoutingRuns, Resolved(r)
    PROVE  ResolveRoute(r) \/ ReadHistory(r)
<1>1. route[r].pc \in {"agents", "history"} /\ route'[r].pc = "context" /\ DOMAIN route = RoutingRuns
  BY DEF Resolved, RoutingInv, RoutingTypes
<1>2. ASSUME NEW q \in RoutingRuns, NEW text \in Texts, Arrive(q, text) PROVE FALSE
  <2>1. q # r
    BY <1>1, <1>2 DEF Arrive
  <2>2. CASE InFlight(r)
    <3>1. route'[r] = [route[r] EXCEPT !.alone = FALSE] /\ route[r] \in RouteType
      BY <1>1, <1>2, <2>1, <2>2, RouteTyped DEF Arrive
    <3>2. route'[r].pc = route[r].pc
      BY <3>1 DEF RouteType
    <3> QED BY <1>1, <3>2
  <2>3. CASE ~InFlight(r)
    BY <1>1, <1>2, <2>1, <2>3 DEF Arrive
  <2> QED BY <2>2, <2>3
<1>3. ASSUME NEW q \in RoutingRuns, FindHires(q) \/ BuildContext(q) \/ Drop(q) \/ Identify(q) \/ Store(q)
      PROVE  FALSE
  <2>1. q # r
    BY <1>1, <1>3 DEF FindHires, BuildContext, Drop, Identify, Store
  <2>2. route'[r] = route[r]
    BY <1>1, <1>3, <2>1 DEF FindHires, BuildContext, Drop, Identify, Store
  <2> QED BY <1>1, <2>2
<1>4. ASSUME NEW q \in RoutingRuns, q # r, ResolveRoute(q) PROVE FALSE
  BY <1>1, <1>4 DEF ResolveRoute
<1>5. ASSUME NEW q \in RoutingRuns, q # r, ReadHistory(q) PROVE FALSE
  <2>1. route'[r] = route[r]
    BY <1>1, <1>5 DEF ReadHistory, Resolve
  <2> QED BY <1>1, <2>1
<1>6. ASSUME NEW h \in Routes, NEW what \in {"hire", "channel"}, Toggle(h, what) PROVE FALSE
  BY <1>1, <1>6 DEF Toggle
<1>7. ASSUME NEW a \in Agents, ToggleAgent(a) PROVE FALSE
  BY <1>1, <1>7 DEF ToggleAgent
<1>8. ASSUME NEW a \in Agents, NEW new \in Names, RenameAgent(a, new) PROVE FALSE
  BY <1>1, <1>8 DEF RenameAgent
<1> QED BY <1>2, <1>3, <1>4, <1>5, <1>6, <1>7, <1>8 DEF RoutingNext, RoutingStep

\* What the agent of a run is picked from.
LEMMA ResolvedFrom ==
    ASSUME RoutingInv, RoutingNext, NEW r \in RoutingRuns, Resolved(r)
    PROVE  \E found \in CandidateSets, pick \in SUBSET Candidate :
             /\ route'[r].candidates = found /\ route'[r].text = route[r].text
             /\ route[r].text \in Texts
             /\ pick \subseteq found /\ \E c \in pick : route'[r].chosen = c.hire
             /\ \/ pick = IF Cardinality(found) = 1 THEN found ELSE Explicit(found, route[r].text)
                \/ /\ route[r].pc = "history" /\ found = route[r].candidates
                   /\ Recent(found) # {} => pick = Recent(found)
<1> PICK q : q = route[r]
  OBVIOUS
<1>1. /\ q \in RouteType /\ q.pc \in {"agents", "history"} /\ route'[r].pc = "context" /\ RoutingTypes
      /\ q.text \in Texts
  <2>1. route[r].pc \in {"agents", "history"} /\ route'[r].pc = "context"
    BY DEF Resolved
  <2>2. RoutingTypes /\ route[r] \in RouteType
    BY <2>1, RouteTyped
  <2> QED BY <2>1, <2>2 DEF RouteType
<1>2. CASE ResolveRoute(r)
  <2> PICK found, pick :
        /\ found = Candidates(r)
        /\ pick = IF Cardinality(found) = 1 THEN found ELSE Explicit(found, q.text)
    OBVIOUS
  <2> DEFINE new == [q EXCEPT !.candidates = found,
                       !.pc = IF found = {} THEN "unroutable" ELSE IF pick # {} THEN "context" ELSE "history",
                       !.chosen = IF pick = {} THEN 0 ELSE (CHOOSE c \in pick : TRUE).hire]
  <2>1. route'[r] = new
    BY <1>1, <1>2 DEF ResolveRoute, RoutingTypes
  <2>2. /\ new.candidates = found /\ new.text = q.text
        /\ new.pc = IF found = {} THEN "unroutable" ELSE IF pick # {} THEN "context" ELSE "history"
        /\ new.chosen = IF pick = {} THEN 0 ELSE (CHOOSE c \in pick : TRUE).hire
    BY <1>1 DEF RouteType
  <2> HIDE DEF new
  <2>3. pick # {}
    BY <1>1, <2>1, <2>2
  <2>4. \E c \in pick : route'[r].chosen = c.hire
    BY <2>1, <2>2, <2>3
  <2>5. found \in CandidateSets /\ found \subseteq Candidate
    BY <1>1, FoundFinite DEF CandidateSets
  <2>6. pick \subseteq found
    BY <1>1, <2>5, PickedOf
  <2> QED BY <1>1, <2>1, <2>2, <2>3, <2>4, <2>5, <2>6
<1>3. CASE ReadHistory(r)
  <2> PICK found : found = q.candidates
    OBVIOUS
  <2>1. q.pc = "history" /\ found \in CandidateSets /\ found \subseteq Candidate
    BY <1>1, <1>3 DEF ReadHistory, RouteType, CandidateSets
  <2>2. PICK guess \in Semantic(found) :
          LET pick == IF Recent(found) # {} THEN Recent(found)
                      ELSE IF Keyword(found, q.text) # {} THEN Keyword(found, q.text) ELSE guess
          IN  IF pick # {} THEN Resolve(r, pick) /\ UNCHANGED shown
              ELSE /\ shown' = Listed(found)
                   /\ route' = [route EXCEPT ![r].pc = "ambiguous"]
    BY <1>3 DEF ReadHistory
  <2> PICK pick : pick = IF Recent(found) # {} THEN Recent(found)
                         ELSE IF Keyword(found, q.text) # {} THEN Keyword(found, q.text) ELSE guess
    OBVIOUS
  <2>3. pick \subseteq found
    BY <1>1, <2>1, PickedOf
  <2>4. pick # {} /\ Resolve(r, pick)
    <3>1. ASSUME route' = [route EXCEPT ![r].pc = "ambiguous"] PROVE FALSE
      <4>1. route'[r] = [q EXCEPT !.pc = "ambiguous"]
        BY <1>1, <3>1 DEF RoutingTypes
      <4>2. [q EXCEPT !.pc = "ambiguous"].pc = "ambiguous"
        BY <1>1 DEF RouteType
      <4> QED BY <1>1, <4>1, <4>2
    <3> QED BY <2>2, <3>1
  <2> DEFINE new == [q EXCEPT !.pc = "context", !.chosen = (CHOOSE c \in pick : TRUE).hire]
  <2>5. route'[r] = new
    BY <1>1, <2>4 DEF Resolve, RoutingTypes
  <2>6. new.candidates = found /\ new.text = q.text /\ \E c \in pick : new.chosen = c.hire
    BY <1>1, <2>4 DEF RouteType
  <2> HIDE DEF new
  <2> QED BY <1>1, <2>1, <2>3, <2>4, <2>5, <2>6
<1> QED BY <1>2, <1>3, ResolvedSteps

LEMMA NumberStep ==
    ASSUME RoutingInv, RoutingNext, NEW r \in RoutingRuns, Resolved(r),
           route'[r].text.number \in DOMAIN shown, route'[r].candidates = Range(shown), Len(shown) > 1
    PROVE  route'[r].chosen = shown[route'[r].text.number].hire
<1>1. PICK found \in CandidateSets, pick \in SUBSET Candidate :
        /\ route'[r].candidates = found /\ route'[r].text = route[r].text
        /\ route[r].text \in Texts
        /\ pick \subseteq found /\ \E c \in pick : route'[r].chosen = c.hire
        /\ \/ pick = IF Cardinality(found) = 1 THEN found ELSE Explicit(found, route[r].text)
           \/ route[r].pc = "history" /\ found = route[r].candidates
  BY ResolvedFrom
<1>2. PICK list \in CandidateSets : shown = Listed(list)
  <2>1. shown # <<>>
    BY DEF RoutingInv, RoutingTypes
  <2> QED BY <2>1 DEF RoutingInv, ShownListed
<1>3. list = found
  BY <1>1, <1>2, ListedFacts
<1>4. /\ Len(Listed(found)) = Cardinality(found) /\ Cardinality(found) # 1
      /\ route[r].text.number \in 1 .. Len(Listed(found))
  BY <1>1, <1>2, <1>3, ListedFacts
<1>5. Explicit(found, route[r].text) = {shown[route[r].text.number]}
  BY <1>2, <1>3, <1>4 DEF Explicit
<1>6. CASE pick = IF Cardinality(found) = 1 THEN found ELSE Explicit(found, route[r].text)
  BY <1>1, <1>4, <1>5, <1>6
<1>7. CASE route[r].pc = "history" /\ found = route[r].candidates
  <2>1. Explicit(found, route[r].text) = {}
    BY <1>7 DEF RoutingInv, RouteFits
  <2> QED BY <1>5, <2>1
<1> QED BY <1>1, <1>6, <1>7

LEMMA StaysStep ==
    ASSUME RoutingInv, RoutingNext, NEW r \in RoutingRuns, Resolved(r), route[r].alone,
           route[r].text.names = {}, route[r].text.number = 0,
           NEW side \in route[r].last, NEW h \in route'[r].candidates, Side(h.hire) = side
    PROVE  Side(route'[r].chosen) = side
<1>1. PICK found \in CandidateSets, pick \in SUBSET Candidate :
        /\ route'[r].candidates = found
        /\ route[r].text \in Texts
        /\ pick \subseteq found /\ \E c \in pick : route'[r].chosen = c.hire
        /\ \/ pick = IF Cardinality(found) = 1 THEN found ELSE Explicit(found, route[r].text)
           \/ /\ route[r].pc = "history" /\ found = route[r].candidates
              /\ Recent(found) # {} => pick = Recent(found)
  BY ResolvedFrom
<1>2. CASE pick = IF Cardinality(found) = 1 THEN found ELSE Explicit(found, route[r].text)
  <2>1. CASE Cardinality(found) = 1
    <3>1. IsFiniteSet(found)
      BY DEF CandidateSets
    <3>2. PICK x : found = {x}
      BY <2>1, <3>1, FS_Singleton
    <3> QED BY <1>1, <1>2, <2>1, <3>2
  <2>2. CASE Cardinality(found) # 1
    <3>1. Named(found, {}) = {}
      BY FS_EmptySet DEF Only, Named
    <3>2. route[r].text.whole = {} /\ route[r].text.number \notin 1 .. Len(Listed(found))
      BY <1>1, RoutingAssumption, ListedFacts
    <3>3. Explicit(found, route[r].text) = {}
      BY <3>1, <3>2 DEF Explicit
    <3> QED BY <1>1, <1>2, <2>2, <3>3
  <2> QED BY <2>1, <2>2
<1>3. CASE /\ route[r].pc = "history" /\ found = route[r].candidates
           /\ Recent(found) # {} => pick = Recent(found)
  <2>1. route[r].last = Newest /\ stored \in Seq(Sides)
    BY <1>3 DEF RoutingInv, RouteFits, RoutingTypes, Flying
  <2>2. stored # <<>> /\ side = stored[Len(stored)] /\ Len(stored) \in DOMAIN stored
    BY <2>1 DEF Newest, Last
  <2>3. stored[Len(stored)].client \in contacts
    BY <2>2 DEF RoutingInv, SendersKnown
  <2> DEFINE with == {i \in DOMAIN stored : stored[i].client \in contacts /\ \E g \in found : Side(g.hire) = stored[i]}
             latest == CHOOSE i \in with : \A j \in with : j <= i
  <2>4. Len(stored) \in with /\ \A j \in with : j <= Len(stored) /\ j \in Nat
    BY <1>1, <2>1, <2>2, <2>3
  <2>5. latest = Len(stored)
    BY <2>4
  <2>6. Recent(found) = {g \in found : Side(g.hire) = stored[latest]}
    BY <2>4 DEF Recent
  <2>7. Recent(found) = {g \in found : Side(g.hire) = side}
    BY <2>2, <2>5, <2>6
  <2> QED BY <1>1, <1>3, <2>7
<1> QED BY <1>1, <1>2, <1>3

------------------------------------------------------------------------------
(* Routing: the theorems *)

\* What is kept of a sender has its types: the answers, the contacts and the list that was
\* sent are of the hires there are.
THEOREM RoutingTypeCorrect == RoutingSpec => []RoutingTypeOK
<1>1. RoutingInv => RoutingTypeOK
  <2> SUFFICES ASSUME RoutingInv PROVE RoutingTypeOK
    OBVIOUS
  <2>1. ASSUME NEW r \in RoutingRuns, route[r].pc # "new" PROVE route[r].chosen \in Routes \cup {0}
    BY <2>1, RouteTyped DEF RouteType
  <2> QED BY <2>1 DEF RoutingInv, RoutingTypes, RoutingTypeOK, Sides
<1> QED BY <1>1, RoutingInductive, PTL

\* A number picks the hire next to it in the list that was sent, however hires and agents are
\* switched on and off and agents renamed in between, if the candidates and their names are
\* those of the list again.
THEOREM NumberPicks == RoutingSpec => NumberPicksShown
<1>1. RoutingInv /\ [RoutingNext]_routingVars =>
        [\A r \in RoutingRuns :
           /\ Resolved(r) /\ route'[r].text.number \in DOMAIN shown
           /\ route'[r].candidates = Range(shown) /\ Len(shown) > 1
           => route'[r].chosen = shown[route'[r].text.number].hire]_routingVars
  BY NumberStep
<1> QED BY <1>1, RoutingInductive, PTL DEF RoutingSpec, NumberPicksShown

\* A message that names no agent, sent when nothing else of the sender's is under way, goes
\* to the agent of the last conversation, while that one is a candidate.
THEOREM ConversationsStay == RoutingSpec => StaysWithAgent
<1>1. RoutingInv /\ [RoutingNext]_routingVars =>
        [\A r \in RoutingRuns :
           Resolved(r) /\ route[r].alone /\ route[r].text.names = {} /\ route[r].text.number = 0
           => \A side \in route[r].last :
                (\E c \in route'[r].candidates : Side(c.hire) = side) => Side(route'[r].chosen) = side
        ]_routingVars
  BY StaysStep
<1> QED BY <1>1, RoutingInductive, PTL DEF RoutingSpec, StaysWithAgent

------------------------------------------------------------------------------
(* Backfills: the inductive invariant *)

PassPcs == {"not due", "new", "look", "fill", "last", "drop", "create", "done", "capped", "failed"}
RowsFor(p) == IF p \in MailPasses THEN Mailboxes ELSE Chats
PassType == [pc : PassPcs, rows : SUBSET (Chats \cup Mailboxes), chunks : Int,
             owed : SUBSET (Chats \cup Mailboxes)]
PassTypes == pass \in [Passes -> PassType]

\* A run owes whatever addresses have not their normal form since it began, as those that come
\* later have it.  After a short chunk, what is owed is in the chunk; unless the passes were cut off at the cap,
\* nothing is owed once the loop is left; and a mode that is about to be filled in is still
\* missing, or the race for it is known.
PassFits(p) ==
    LET q == pass[p] IN
    /\ q.rows \subseteq kept \cap RowsFor(p) /\ q.owed \subseteq kept \cap RowsFor(p)
    /\ q.pc \in {"not due", "new"} => q.rows = {}
    /\ p \in MailPasses /\ q.pc \notin {"not due", "new"} => Lacking(p) \subseteq q.owed
    /\ q.pc = "last" => q.owed \cap Lacking(p) \subseteq q.rows
    /\ q.pc \in {"drop", "create"} /\ q.chunks # MaxChunks => q.owed \cap Lacking(p) = {}
    /\ q.pc = "done" => /\ q.owed \cap Lacking(p) = {}
                        /\ p \in MailPasses => "email_1_ci" \in indexes \/ Doubles # {}
    /\ p \in ModePasses => \A c \in q.rows : mode[c] \in {"none", "bot"} \/ c \in raced

BackfillsInv == BackfillsTypeOK /\ PassTypes /\ \A p \in Passes : PassFits(p)

LEMMA LackingOf ==
    ASSUME NEW p \in Passes
    PROVE  /\ p \in ModePasses => Lacking(p) = {c \in kept \cap Chats : mode[c] = "none"}
           /\ p \in ListPasses => Lacking(p) = (kept \cap Chats) \ named
           /\ p \in MailPasses => Lacking(p) = (kept \cap Mailboxes) \ folded
           /\ Lacking(p) \subseteq kept \cap RowsFor(p)
<1>1. /\ p \in ModePasses => p \notin ListPasses /\ p \notin MailPasses
      /\ p \in ListPasses => p \notin MailPasses
      /\ p \in ModePasses \/ p \in ListPasses \/ p \in MailPasses
  BY BackfillsAssumption DEF Passes
<1>2. CASE p \in ModePasses
  BY <1>1, <1>2 DEF Lacking, RowsFor
<1>3. CASE p \in ListPasses
  BY <1>1, <1>3 DEF Lacking, RowsFor
<1>4. CASE p \in MailPasses
  BY <1>1, <1>4 DEF Lacking, RowsFor
<1> QED BY <1>1, <1>2, <1>3, <1>4

\* The same one step later.
LEMMA LackingNext ==
    ASSUME NEW p \in Passes
    PROVE  /\ p \in ModePasses => Lacking(p)' = {c \in kept' \cap Chats : mode'[c] = "none"}
           /\ p \in ListPasses => Lacking(p)' = (kept' \cap Chats) \ named'
           /\ p \in MailPasses => Lacking(p)' = (kept' \cap Mailboxes) \ folded'
<1>1. /\ p \in ModePasses => p \notin ListPasses /\ p \notin MailPasses
      /\ p \in ListPasses => p \notin MailPasses
      /\ p \in ModePasses \/ p \in ListPasses \/ p \in MailPasses
  BY BackfillsAssumption DEF Passes
<1>2. CASE p \in ModePasses
  BY <1>1, <1>2 DEF Lacking
<1>3. CASE p \in ListPasses
  BY <1>1, <1>3 DEF Lacking
<1>4. CASE p \in MailPasses
  BY <1>1, <1>4 DEF Lacking
<1> QED BY <1>1, <1>2, <1>3, <1>4

\* What there is stays, nothing that was there comes to lack a value, no address comes to lack
\* its normal form, and once all have theirs, what is doubled stays so.
OnlyFilled ==
    /\ kept \subseteq kept' /\ raced \subseteq raced'
    /\ \A p \in MailPasses : /\ Lacking(p)' \subseteq Lacking(p)
                             /\ Lacking(p) = {} => Doubles \subseteq Doubles'
    /\ "email_1_ci" \in indexes => "email_1_ci" \in indexes'
    /\ \A p \in Passes : Lacking(p)' \cap kept \subseteq Lacking(p)

\* A run that another step leaves alone.
LEMMA PassKept ==
    ASSUME BackfillsInv, OnlyFilled, NEW p \in Passes, pass'[p] = pass[p],
           p \in ModePasses => \A c \in pass[p].rows : mode'[c] \in {mode[c], "bot"} \/ c \in raced'
    PROVE  PassFits(p)'
<1>1. PassFits(p)
  BY DEF BackfillsInv
<1>2. pass[p].owed \cap Lacking(p)' \subseteq pass[p].owed \cap Lacking(p)
  BY <1>1 DEF OnlyFilled, PassFits
<1>3. p \in ModePasses => \A c \in pass[p].rows : mode'[c] \in {"none", "bot"} \/ c \in raced'
  BY <1>1 DEF PassFits, OnlyFilled
<1>4. p \in MailPasses => /\ Lacking(p)' \subseteq Lacking(p)
                          /\ Lacking(p) = {} => Doubles \subseteq Doubles'
  BY DEF OnlyFilled
<1>5. p \in MailPasses /\ pass[p].pc \notin {"not due", "new"} => Lacking(p)' \subseteq pass[p].owed
  <2>1. p \in MailPasses /\ pass[p].pc \notin {"not due", "new"} => Lacking(p) \subseteq pass[p].owed
    BY <1>1 DEF PassFits
  <2> QED BY <1>4, <2>1
<1>6. pass[p].pc = "done" => /\ pass[p].owed \cap Lacking(p)' = {}
                             /\ p \in MailPasses => "email_1_ci" \in indexes' \/ Doubles' # {}
  <2> SUFFICES ASSUME pass[p].pc = "done"
               PROVE  /\ pass[p].owed \cap Lacking(p)' = {}
                      /\ p \in MailPasses => "email_1_ci" \in indexes' \/ Doubles' # {}
    OBVIOUS
  <2>1. /\ pass[p].owed \cap Lacking(p) = {}
        /\ p \in MailPasses => /\ "email_1_ci" \in indexes \/ Doubles # {}
                               /\ Lacking(p) \subseteq pass[p].owed
    BY <1>1 DEF PassFits
  <2>2. p \in MailPasses => Lacking(p) = {}
    BY <2>1
  <2>3. "email_1_ci" \in indexes => "email_1_ci" \in indexes'
    BY DEF OnlyFilled
  <2>4. p \in MailPasses /\ Doubles # {} => Doubles' # {}
    BY <1>4, <2>2
  <2> QED BY <1>2, <2>1, <2>3, <2>4
<1>7. pass[p].rows \subseteq kept' \cap RowsFor(p) /\ pass[p].owed \subseteq kept' \cap RowsFor(p)
  BY <1>1 DEF PassFits, OnlyFilled
<1>8. pass[p].pc = "last" => pass[p].owed \cap Lacking(p)' \subseteq pass[p].rows
  BY <1>1, <1>2 DEF PassFits
<1>9. pass[p].pc \in {"drop", "create"} /\ pass[p].chunks # MaxChunks => pass[p].owed \cap Lacking(p)' = {}
  BY <1>1, <1>2 DEF PassFits
<1>10. pass[p].pc \in {"not due", "new"} => pass[p].rows = {}
  BY <1>1 DEF PassFits
<1> QED BY <1>3, <1>5, <1>6, <1>7, <1>8, <1>9, <1>10 DEF PassFits, RowsFor

\* Steps that leave the runs alone.
LEMMA PassesStill ==
    ASSUME BackfillsInv, OnlyFilled, pass' = pass, BackfillsTypeOK',
           \A p \in ModePasses, c \in Chats :
             c \in pass[p].rows => mode'[c] \in {mode[c], "bot"} \/ c \in raced'
    PROVE  BackfillsInv'
<1>1. \A p \in ModePasses : pass[p].rows \subseteq Chats
  <2> SUFFICES ASSUME NEW p \in ModePasses PROVE pass[p].rows \subseteq Chats
    OBVIOUS
  <2>1. p \in Passes /\ p \notin MailPasses
    BY BackfillsAssumption DEF Passes
  <2>2. PassFits(p)
    BY <2>1 DEF BackfillsInv
  <2> QED BY <2>1, <2>2 DEF PassFits, RowsFor
<1>2. \A p \in Passes : PassFits(p)'
  BY <1>1, PassKept
<1>3. PassTypes'
  BY DEF BackfillsInv, PassTypes
<1> QED BY <1>2, <1>3 DEF BackfillsInv

\* A run's own step that fills nothing.
LEMMA PassMoves ==
    ASSUME BackfillsInv, NEW p \in Passes, NEW q \in PassType, pass' = [pass EXCEPT ![p] = q],
           UNCHANGED <<kept, mode, named, resolved, folded, traffic, raced>>,
           crashes' \in 0 .. MaxCrashes, indexes' \subseteq {"email_1", "email_1_ci"},
           "email_1_ci" \in indexes => "email_1_ci" \in indexes',
           "email_1_ci" \in indexes' => Doubles = {},
           q.rows \subseteq pass[p].rows \/ q.rows \subseteq Lacking(p),
           q.pc \notin {"not due", "new"},
           q.owed \in {pass[p].owed, Lacking(p)},
           p \in MailPasses /\ q.pc \notin {"not due", "new"} => Lacking(p) \subseteq q.owed,
           q.pc = "last" => q.owed \cap Lacking(p) \subseteq q.rows,
           q.pc \in {"drop", "create"} /\ q.chunks # MaxChunks => q.owed \cap Lacking(p) = {},
           q.pc = "done" => /\ q.owed \cap Lacking(p) = {}
                            /\ p \in MailPasses => "email_1_ci" \in indexes' \/ Doubles # {}
    PROVE  BackfillsInv'
<1>1. /\ Doubles' = Doubles /\ \A r \in Passes : Lacking(r)' = Lacking(r)
      /\ MailPasses \subseteq Passes
  BY DEF Passes, Doubles, Collated, Lacking
<1>2. OnlyFilled
  BY <1>1 DEF OnlyFilled
<1>3. BackfillsTypeOK'
  BY <1>1 DEF BackfillsInv, BackfillsTypeOK
<1>4. PassTypes' /\ pass'[p] = q /\ \A r \in Passes \ {p} : pass'[r] = pass[r]
  BY DEF BackfillsInv, PassTypes
<1>5. ASSUME NEW r \in Passes \ {p} PROVE PassFits(r)'
  BY <1>2, <1>4, <1>5, PassKept
<1>6. PassFits(p)'
  <2>1. PassFits(p)
    BY DEF BackfillsInv
  <2>2. q.rows \subseteq kept \cap RowsFor(p) /\ q.owed \subseteq kept \cap RowsFor(p)
    BY <2>1, LackingOf DEF PassFits
  <2>3. p \in ModePasses => \A c \in q.rows : mode[c] \in {"none", "bot"} \/ c \in raced
    BY <2>1, LackingOf DEF PassFits
  <2> QED BY <1>1, <1>4, <2>2, <2>3 DEF PassFits, RowsFor
<1> QED BY <1>3, <1>4, <1>5, <1>6 DEF BackfillsInv

LEMMA PassAt ==
    ASSUME BackfillsInv, NEW p \in Passes
    PROVE  /\ pass[p] \in PassType /\ PassFits(p) /\ BackfillsTypeOK /\ crashes \in 0 .. MaxCrashes
           /\ indexes \subseteq {"email_1", "email_1_ci"}
           /\ "email_1_ci" \in indexes => Doubles = {}
  BY DEF BackfillsInv, PassTypes, BackfillsTypeOK

LEMMA LookStep ==
    ASSUME BackfillsInv, NEW p \in Passes, NEW chunk \in SUBSET (Chats \cup Mailboxes), Look(p, chunk)
    PROVE  BackfillsInv'
<1> PICK old, lacking, n : old = pass[p] /\ lacking = Lacking(p) /\ n = Cardinality(chunk)
  OBVIOUS
<1> DEFINE q == [old EXCEPT !.rows = chunk,
                   !.pc = IF chunk = {} THEN End(p, "done") ELSE IF n < ChunkOf[p] THEN "last" ELSE "fill",
                   !.owed = IF old.pc = "new" THEN lacking ELSE old.owed]
<1>1. /\ old \in PassType /\ chunk \subseteq lacking /\ lacking \subseteq Chats \cup Mailboxes
      /\ UNCHANGED <<kept, mode, named, resolved, folded, indexes, crashes, traffic, raced>>
  BY PassAt, LackingOf DEF Look, RowsFor, BackfillsTypeOK
<1>2. pass' = [pass EXCEPT ![p] = q]
  BY DEF Look
<1>3. /\ q \in PassType /\ q.rows = chunk /\ q.chunks = old.chunks
      /\ q.pc = IF chunk = {} THEN End(p, "done") ELSE IF n < ChunkOf[p] THEN "last" ELSE "fill"
      /\ q.owed = IF old.pc = "new" THEN lacking ELSE old.owed
  BY <1>1 DEF PassType, PassPcs, End
<1> HIDE DEF q
<1>4. n < ChunkOf[p] \/ chunk = {} => chunk = lacking
  <2>1. ChunkOf[p] \in Nat \ {0} /\ Cardinality({}) = 0
    BY BackfillsAssumption, FS_EmptySet
  <2>2. n = ChunkOf[p] \/ chunk = lacking
    BY DEF Look
  <2> QED BY <2>1, <2>2
<1>5. q.pc = "last" => q.owed \cap lacking \subseteq q.rows
  BY <1>3, <1>4 DEF End
<1>6. q.pc \in {"drop", "create", "done"} => q.owed \cap lacking = {}
  BY <1>3, <1>4
<1>7. q.pc = "done" => p \notin MailPasses
  BY <1>3 DEF End
<1>8. q.pc \notin {"not due", "new"}
  BY <1>3 DEF End
<1>9. p \in MailPasses => lacking \subseteq q.owed
  <2>1. old.pc \in {"new", "look"} /\ PassFits(p)
    BY PassAt DEF Look
  <2> QED BY <1>3, <2>1 DEF PassFits
<1> QED BY <1>1, <1>2, <1>3, <1>5, <1>6, <1>7, <1>9, <1>8, PassAt, PassMoves

LEMMA ChunkDoneStep == ASSUME BackfillsInv, NEW p \in Passes, ChunkDone(p) PROVE BackfillsInv'
<1> PICK old, n : old = pass[p] /\ n = pass[p].chunks + 1
  OBVIOUS
<1> DEFINE q == [old EXCEPT !.chunks = n,
                   !.pc = IF old.pc = "last" THEN End(p, "done")
                          ELSE IF n = MaxChunks THEN End(p, "capped") ELSE "look"]
<1>1. /\ old \in PassType /\ PassFits(p) /\ old.rows = {} /\ n \in Int
      /\ UNCHANGED <<kept, mode, named, resolved, folded, indexes, crashes, traffic, raced>>
  BY PassAt DEF ChunkDone, PassType
<1>2. pass' = [pass EXCEPT ![p] = q]
  BY DEF ChunkDone
<1>3. /\ q \in PassType /\ q.rows = old.rows /\ q.chunks = n /\ q.owed = old.owed
      /\ q.pc = IF old.pc = "last" THEN End(p, "done")
                ELSE IF n = MaxChunks THEN End(p, "capped") ELSE "look"
  BY <1>1 DEF PassType, PassPcs, End
<1> HIDE DEF q
<1>4. old.pc = "last" => q.owed \cap Lacking(p) = {}
  BY <1>1, <1>3 DEF PassFits
<1>5. q.pc \in {"drop", "create"} /\ q.chunks # MaxChunks => q.owed \cap Lacking(p) = {}
  BY <1>3, <1>4 DEF End
<1>6. q.pc = "done" => q.owed \cap Lacking(p) = {} /\ p \notin MailPasses
  BY <1>3, <1>4 DEF End
<1>7. q.pc # "last"
  BY <1>3 DEF End
<1>8. q.pc \notin {"not due", "new"}
  BY <1>3 DEF End
<1>9. p \in MailPasses => Lacking(p) \subseteq q.owed
  BY <1>1, <1>3 DEF PassFits, ChunkDone
<1> QED BY <1>1, <1>2, <1>3, <1>5, <1>6, <1>7, <1>9, <1>8, PassAt, PassMoves

LEMMA IndexStep ==
    ASSUME BackfillsInv, NEW p \in Passes, DropIndex(p) \/ CreateIndex(p) \/ BootFails(p)
    PROVE  BackfillsInv'
<1> PICK old : old = pass[p]
  OBVIOUS
<1>1. /\ old \in PassType /\ PassFits(p)
      /\ UNCHANGED <<kept, mode, named, resolved, folded, traffic, raced>>
      /\ p \in MailPasses => Lacking(p) \subseteq old.owed
  <2>1. old \in PassType /\ PassFits(p) /\ old.pc \notin {"not due", "new"}
    BY PassAt DEF DropIndex, CreateIndex, BootFails
  <2> QED BY <2>1 DEF PassFits, DropIndex, CreateIndex, BootFails
<1>2. CASE DropIndex(p)
  <2> DEFINE q == [old EXCEPT !.pc = "create"]
  <2>1. pass' = [pass EXCEPT ![p] = q] /\ indexes' = indexes \ {"email_1"} /\ crashes' = crashes
    BY <1>2 DEF DropIndex, Set
  <2>2. /\ q \in PassType /\ q.rows = old.rows /\ q.chunks = old.chunks /\ q.owed = old.owed
        /\ q.pc = "create"
    BY <1>1 DEF PassType, PassPcs
  <2> HIDE DEF q
  <2>3. old.pc = "drop"
    BY <1>2 DEF DropIndex
  <2>4. q.chunks # MaxChunks => q.owed \cap Lacking(p) = {}
    BY <1>1, <2>2, <2>3 DEF PassFits
  <2> QED BY <1>1, <2>1, <2>2, <2>4, PassAt, PassMoves
<1>3. CASE CreateIndex(p)
  <2> DEFINE q == [old EXCEPT !.pc = IF old.chunks = MaxChunks THEN "capped" ELSE "done"]
  <2>1. pass' = [pass EXCEPT ![p] = q] /\ indexes' = Indexed /\ crashes' = crashes
    BY <1>3 DEF CreateIndex, Set
  <2>2. /\ q \in PassType /\ q.rows = old.rows /\ q.chunks = old.chunks /\ q.owed = old.owed
        /\ q.pc = IF old.chunks = MaxChunks THEN "capped" ELSE "done"
    BY <1>1 DEF PassType, PassPcs
  <2> HIDE DEF q
  <2>3. old.pc = "create"
    BY <1>3 DEF CreateIndex
  <2>4. q.pc = "done" => q.owed \cap Lacking(p) = {}
    BY <1>1, <2>2, <2>3 DEF PassFits
  <2>5. /\ indexes' \subseteq {"email_1", "email_1_ci"}
        /\ ("email_1_ci" \in indexes \/ Doubles = {}) <=> "email_1_ci" \in indexes'
        /\ "email_1_ci" \in indexes' => Doubles = {}
    BY <2>1, PassAt DEF Indexed
  <2> QED BY <1>1, <2>1, <2>2, <2>4, <2>5, PassAt, PassMoves
<1>4. CASE BootFails(p)
  <2> DEFINE q == [old EXCEPT !.pc = "failed", !.rows = {}]
  <2>1. pass' = [pass EXCEPT ![p] = q] /\ indexes' = indexes
    BY <1>4 DEF BootFails
  <2>2. crashes' \in 0 .. MaxCrashes
    <3>1. crashes < MaxCrashes /\ crashes' = crashes + 1
      BY <1>4 DEF BootFails
    <3>2. crashes \in 0 .. MaxCrashes /\ MaxCrashes \in Nat
      BY PassAt, BackfillsAssumption
    <3> QED BY <3>1, <3>2
  <2>3. q \in PassType /\ q.rows = {} /\ q.owed = old.owed /\ q.pc = "failed"
    BY <1>1 DEF PassType, PassPcs
  <2> HIDE DEF q
  <2> QED BY <1>1, <2>1, <2>3, <2>2, PassAt, PassMoves
<1> QED BY <1>2, <1>3, <1>4

\* Filling a row: nothing lacks a value that had it, and the mode that is written over was
\* missing, or the race is known.
LEMMA FillStep ==
    ASSUME BackfillsInv, NEW p \in Passes, NEW x \in Chats \cup Mailboxes, Fill(p, x)
    PROVE  BackfillsInv'
<1> PICK old : old = pass[p]
  OBVIOUS
<1>1. /\ old \in PassType /\ PassFits(p) /\ x \in old.rows /\ BackfillsTypeOK
      /\ UNCHANGED <<kept, indexes, crashes, traffic, raced>> /\ x \in kept \cap RowsFor(p)
  BY PassAt DEF Fill, PassFits
<1>2. old.pc \notin {"not due", "new"}
  BY <1>1 DEF PassFits
<1>3. CASE p \in MailPasses /\ Clash(x)
  <2> DEFINE q == [old EXCEPT !.pc = "failed", !.rows = {}]
  <2>1. pass' = [pass EXCEPT ![p] = q] /\ UNCHANGED <<mode, named, resolved, folded>>
    BY <1>3 DEF Fill
  <2>2. q \in PassType /\ q.rows = {} /\ q.owed = old.owed /\ q.pc = "failed"
    BY <1>1 DEF PassType, PassPcs
  <2> HIDE DEF q
  <2>3. p \in MailPasses => Lacking(p) \subseteq q.owed
    BY <1>1, <2>2, <1>2 DEF PassFits
  <2> QED BY <1>1, <2>1, <2>2, <2>3, PassAt, PassMoves
<1>4. CASE ~(p \in MailPasses /\ Clash(x))
  <2> DEFINE q == [old EXCEPT !.rows = old.rows \ {x}]
  <2>1. /\ pass' = [pass EXCEPT ![p] = q]
        /\ mode' = IF p \in ModePasses THEN [mode EXCEPT ![x] = "bot"] ELSE mode
        /\ named' = IF p \in ListPasses THEN named \cup {x} ELSE named
        /\ resolved' \in IF p \in ListPasses THEN {resolved, resolved \cup {x}} ELSE {resolved}
        /\ folded' = IF p \in MailPasses THEN folded \cup {x} ELSE folded
    BY <1>4 DEF Fill
  <2>2. /\ q \in PassType /\ q.pc = old.pc /\ q.rows = old.rows \ {x} /\ q.chunks = old.chunks
        /\ q.owed = old.owed
    BY <1>1 DEF PassType
  <2> HIDE DEF q
  <2>3. /\ p \in ModePasses => p \notin ListPasses /\ p \notin MailPasses
        /\ p \in ListPasses => p \notin MailPasses
        /\ p \in ModePasses \/ p \in ListPasses \/ p \in MailPasses
    BY BackfillsAssumption DEF Passes
  <2>4. x \in IF p \in MailPasses THEN Mailboxes ELSE Chats
    BY <1>1 DEF RowsFor
  <2>5. mode \in [Chats -> {"none", "bot", "human"}] /\ named \subseteq Chats \cap kept
        /\ folded \subseteq Mailboxes \cap kept /\ resolved \subseteq named
    BY <1>1 DEF BackfillsTypeOK
  <2>6. /\ folded' = folded => Doubles' = Doubles
        /\ x \in folded => folded' = folded
        /\ p \notin MailPasses => folded' = folded
    BY <1>1, <2>1 DEF Doubles, Collated
  <2>7. \A r \in MailPasses : Lacking(r) = {} => Doubles \subseteq Doubles'
    <3> SUFFICES ASSUME NEW r \in MailPasses, Lacking(r) = {} PROVE Doubles' = Doubles
      OBVIOUS
    <3>1. p \in MailPasses => x \in folded
      BY <1>1, <2>4, LackingOf DEF Passes
    <3> QED BY <2>6, <3>1
  <2>8. "email_1_ci" \in indexes => Doubles' = {}
    <3> SUFFICES ASSUME "email_1_ci" \in indexes, folded' # folded PROVE Doubles' = {}
      BY <1>1, <2>6 DEF BackfillsTypeOK
    <3>1. p \in MailPasses /\ ~Clash(x) /\ folded' = folded \cup {x} /\ x \in Mailboxes
      BY <1>4, <2>1, <2>4, <2>6
    <3>2. Doubles = {}
      BY <1>1 DEF BackfillsTypeOK
    <3>3. SUFFICES ASSUME NEW a \in kept \cap Mailboxes, NEW b \in (kept \cap Mailboxes) \ {a},
                          Collated(a)' = Collated(b)'
                   PROVE  FALSE
      BY <1>1 DEF Doubles
    <3>4. \A v \in Mailboxes \ {x} : Collated(v)' = Collated(v)
      BY <3>1 DEF Collated
    <3>5. Collated(x)' = AddressOf[x]
      BY <3>1 DEF Collated
    <3>6. CASE a # x /\ b # x
      <4>1. Collated(a) = Collated(b)
        BY <3>3, <3>4, <3>6
      <4> QED BY <3>2, <4>1 DEF Doubles
    <3>7. CASE a = x
      <4>1. Collated(b) = AddressOf[x]
        BY <3>3, <3>4, <3>5, <3>7
      <4> QED BY <3>1, <3>3, <3>7, <4>1 DEF Clash
    <3>8. CASE b = x
      <4>1. Collated(a) = AddressOf[x] /\ a # x
        BY <3>3, <3>4, <3>5, <3>8
      <4> QED BY <3>1, <3>3, <3>8, <4>1 DEF Clash
    <3> QED BY <3>6, <3>7, <3>8
  <2>9. BackfillsTypeOK'
    <3>1. mode' \in [Chats -> {"none", "bot", "human"}]
      BY <2>1, <2>5
    <3>2. /\ resolved' \subseteq named' /\ named' \subseteq Chats \cap kept
          /\ folded' \subseteq Mailboxes \cap kept
      BY <1>1, <2>1, <2>3, <2>4, <2>5
    <3> QED BY <1>1, <2>8, <3>1, <3>2 DEF BackfillsTypeOK
  <2>10. \A c \in Chats : mode'[c] = mode[c] \/ (mode'[c] = "bot" /\ c = x /\ p \in ModePasses)
    BY <2>1, <2>5
  <2>11. \A r \in Passes : Lacking(r)' \subseteq Lacking(r)
    <3> SUFFICES ASSUME NEW r \in Passes PROVE Lacking(r)' \subseteq Lacking(r)
      OBVIOUS
    <3>1. CASE r \in ModePasses
      <4>1. Lacking(r) = {c \in kept \cap Chats : mode[c] = "none"}
            /\ Lacking(r)' = {c \in kept' \cap Chats : mode'[c] = "none"}
        BY <3>1, LackingOf, LackingNext DEF Passes
      <4> QED BY <1>1, <2>10, <4>1
    <3>2. CASE r \in ListPasses
      <4>1. Lacking(r) = (kept \cap Chats) \ named /\ Lacking(r)' = (kept' \cap Chats) \ named'
        BY <3>2, LackingOf, LackingNext
      <4> QED BY <1>1, <2>1, <4>1
    <3>3. CASE r \in MailPasses
      <4>1. Lacking(r) = (kept \cap Mailboxes) \ folded /\ Lacking(r)' = (kept' \cap Mailboxes) \ folded'
        BY <3>3, LackingOf, LackingNext
      <4> QED BY <1>1, <2>1, <4>1
    <3> QED BY <3>1, <3>2, <3>3 DEF Passes
  <2>12. x \notin Lacking(p)'
    <3>1. CASE p \in ModePasses
      <4>1. mode'[x] = "bot"
        BY <2>1, <2>3, <2>4, <2>5, <3>1
      <4> QED BY <3>1, <4>1, LackingNext
    <3>2. CASE p \in ListPasses
      BY <2>1, <3>2, LackingNext
    <3>3. CASE p \in MailPasses
      BY <2>1, <3>3, LackingNext
    <3> QED BY <2>3, <3>1, <3>2, <3>3
  <2>13. OnlyFilled
    <3>1. \A r \in MailPasses : r \in Passes
      BY DEF Passes
    <3> QED BY <1>1, <2>11, <2>7, <3>1 DEF OnlyFilled
  <2>14. PassTypes' /\ pass'[p] = q /\ \A r \in Passes \ {p} : pass'[r] = pass[r]
    BY <2>1, <2>2 DEF BackfillsInv, PassTypes
  <2>15. \A r \in ModePasses : r \in Passes /\ r \notin MailPasses
    BY BackfillsAssumption DEF Passes
  <2>16. ASSUME NEW r \in Passes \ {p} PROVE PassFits(r)'
    <3>1. PassFits(r)
      BY DEF BackfillsInv
    <3>2. r \in ModePasses => \A c \in pass[r].rows : mode'[c] \in {mode[c], "bot"}
      BY <2>10, <2>15, <3>1 DEF PassFits, RowsFor
    <3> QED BY <2>13, <2>14, <3>2, PassKept
  <2>17. PassFits(p)'
    <3>1. q.rows \subseteq kept \cap RowsFor(p) /\ q.owed \subseteq kept \cap RowsFor(p)
      BY <1>1, <2>2 DEF PassFits
    <3>2. q.pc = "last" => q.owed \cap Lacking(p)' \subseteq q.rows
      BY <1>1, <2>2, <2>11, <2>12 DEF PassFits
    <3>3. q.pc \in {"drop", "create"} /\ q.chunks # MaxChunks => q.owed \cap Lacking(p)' = {}
      BY <1>1, <2>2, <2>11 DEF PassFits
    <3>4. q.pc = "done" => /\ q.owed \cap Lacking(p)' = {}
                           /\ p \in MailPasses => "email_1_ci" \in indexes \/ Doubles' # {}
      <4> SUFFICES ASSUME q.pc = "done"
                   PROVE  /\ q.owed \cap Lacking(p)' = {}
                          /\ p \in MailPasses => "email_1_ci" \in indexes \/ Doubles' # {}
        OBVIOUS
      <4>1. /\ q.owed \cap Lacking(p) = {}
            /\ p \in MailPasses => /\ "email_1_ci" \in indexes \/ Doubles # {}
                                   /\ Lacking(p) \subseteq q.owed
        BY <1>1, <2>2 DEF PassFits
      <4>2. p \in MailPasses => Lacking(p) = {}
        BY <4>1
      <4> QED BY <2>11, <2>7, <4>1, <4>2
    <3>5. p \in MailPasses => Lacking(p)' \subseteq q.owed
      BY <1>1, <1>2, <2>2, <2>11 DEF PassFits
    <3>6. p \in ModePasses => \A c \in q.rows : mode'[c] \in {"none", "bot"} \/ c \in raced
      <4>1. p \in ModePasses => \A c \in q.rows : c \in Chats
        BY <2>15, <3>1 DEF RowsFor
      <4>2. p \in ModePasses => \A c \in q.rows : mode[c] \in {"none", "bot"} \/ c \in raced
        BY <1>1, <2>2 DEF PassFits
      <4> QED BY <2>10, <4>1, <4>2
    <3> QED BY <1>1, <1>2, <2>2, <2>14, <3>1, <3>2, <3>3, <3>4, <3>6, <3>5 DEF PassFits, RowsFor
  <2> QED BY <2>9, <2>14, <2>16, <2>17 DEF BackfillsInv
<1> QED BY <1>3, <1>4

LEMMA AutoIndexStep == ASSUME BackfillsInv, AutoIndex PROVE BackfillsInv'
<1>1. UNCHANGED <<kept, mode, named, resolved, folded, pass, crashes, traffic, raced>> /\ BackfillsTypeOK
  BY DEF AutoIndex, BackfillsInv
<1>2. /\ Doubles' = Doubles /\ \A r \in Passes : Lacking(r)' = Lacking(r)
      /\ MailPasses \subseteq Passes
  BY <1>1 DEF Passes, Doubles, Collated, Lacking
<1>3. /\ indexes' \subseteq {"email_1", "email_1_ci"} /\ indexes \subseteq indexes'
      /\ "email_1_ci" \in indexes' => Doubles = {}
  BY <1>1 DEF AutoIndex, Indexed, BackfillsTypeOK
<1>4. OnlyFilled
  BY <1>1, <1>2, <1>3 DEF OnlyFilled
<1>5. BackfillsTypeOK'
  BY <1>1, <1>2, <1>3 DEF BackfillsTypeOK
<1> QED BY <1>1, <1>4, <1>5, PassesStill

LEMMA LiveTyped == ASSUME BackfillsInv, Live PROVE traffic' \in 0 .. MaxTraffic
<1>1. traffic \in 0 .. MaxTraffic /\ MaxTraffic \in Nat /\ traffic < MaxTraffic /\ traffic' = traffic + 1
  BY BackfillsAssumption DEF Live, BackfillsInv, BackfillsTypeOK
<1> QED BY <1>1

\* A conversation that is opened has its mode, and was not there to be owed its columns.
LEMMA OpenStep == ASSUME BackfillsInv, NEW c \in Chats, Open(c) PROVE BackfillsInv'
<1>1. /\ UNCHANGED <<named, resolved, folded, indexes, pass, crashes, raced>> /\ BackfillsTypeOK
      /\ kept' = kept \cup {c} /\ c \notin kept /\ mode' = [mode EXCEPT ![c] = "bot"]
      /\ traffic' \in 0 .. MaxTraffic
  BY LiveTyped DEF Open, BackfillsInv
<1>2. mode \in [Chats -> {"none", "bot", "human"}] /\ kept' \cap Mailboxes = kept \cap Mailboxes
  BY <1>1, BackfillsAssumption DEF BackfillsTypeOK
<1>3. Doubles' = Doubles
  BY <1>1, <1>2 DEF Doubles, Collated
<1>4. BackfillsTypeOK'
  BY <1>1, <1>2, <1>3 DEF BackfillsTypeOK
<1>5. \A d \in Chats : mode'[d] \in {mode[d], "bot"}
  BY <1>1, <1>2
<1>6. \A r \in Passes : Lacking(r)' \cap kept \subseteq Lacking(r)
  <2> SUFFICES ASSUME NEW r \in Passes PROVE Lacking(r)' \cap kept \subseteq Lacking(r)
    OBVIOUS
  <2>1. CASE r \in ModePasses
    <3>1. Lacking(r) = {d \in kept \cap Chats : mode[d] = "none"}
          /\ Lacking(r)' = {d \in kept' \cap Chats : mode'[d] = "none"}
      BY <2>1, LackingOf, LackingNext DEF Passes
    <3> QED BY <1>1, <1>5, <3>1
  <2>2. CASE r \notin ModePasses /\ r \in ListPasses
    <3>1. Lacking(r) = (kept \cap Chats) \ named /\ Lacking(r)' = (kept' \cap Chats) \ named'
      BY <2>2, LackingOf, LackingNext DEF Passes
    <3> QED BY <1>1, <3>1
  <2>3. CASE r \notin ModePasses /\ r \notin ListPasses
    <3>1. Lacking(r) = (kept \cap Mailboxes) \ folded /\ Lacking(r)' = (kept' \cap Mailboxes) \ folded'
      BY <2>3, LackingOf, LackingNext DEF Passes
    <3> QED BY <1>1, <3>1
  <2> QED BY <2>1, <2>2, <2>3
<1>7. \A r \in MailPasses : Lacking(r)' = Lacking(r)
  BY <1>1, <1>2, LackingOf, LackingNext DEF Passes
<1>8. OnlyFilled
  BY <1>1, <1>3, <1>6, <1>7 DEF OnlyFilled
<1> QED BY <1>1, <1>4, <1>5, <1>8, PassesStill

\* An operator's choice while a run is about to fill the mode in is a race, and is remembered.
LEMMA SetModeStep ==
    ASSUME BackfillsInv, NEW c \in Chats, NEW m \in {"bot", "human"}, SetMode(c, m)
    PROVE  BackfillsInv'
<1>1. /\ UNCHANGED <<kept, named, resolved, folded, indexes, pass, crashes>> /\ BackfillsTypeOK
      /\ mode' = [mode EXCEPT ![c] = m]
      /\ raced' = IF \E p \in ModePasses : c \in pass[p].rows THEN raced \cup {c} ELSE raced
      /\ traffic' \in 0 .. MaxTraffic
  BY LiveTyped DEF SetMode, BackfillsInv
<1>2. mode \in [Chats -> {"none", "bot", "human"}] /\ Doubles' = Doubles
  BY <1>1 DEF BackfillsTypeOK, Doubles, Collated
<1>3. BackfillsTypeOK'
  BY <1>1, <1>2 DEF BackfillsTypeOK
<1>4. \A d \in Chats : mode'[d] = mode[d] \/ (d = c /\ mode'[d] # "none")
  BY <1>1, <1>2
<1>5. \A r \in Passes : Lacking(r)' \cap kept \subseteq Lacking(r)
  <2> SUFFICES ASSUME NEW r \in Passes PROVE Lacking(r)' \cap kept \subseteq Lacking(r)
    OBVIOUS
  <2>1. CASE r \in ModePasses
    <3>1. Lacking(r) = {d \in kept \cap Chats : mode[d] = "none"}
          /\ Lacking(r)' = {d \in kept' \cap Chats : mode'[d] = "none"}
      BY <2>1, LackingOf, LackingNext DEF Passes
    <3> QED BY <1>1, <1>4, <3>1
  <2>2. CASE r \notin ModePasses
    BY <1>1, <2>2, LackingOf, LackingNext DEF Passes
  <2> QED BY <2>1, <2>2
<1>6. \A r \in MailPasses : Lacking(r)' = Lacking(r)
  BY <1>1, LackingOf, LackingNext DEF Passes
<1>7. OnlyFilled
  BY <1>1, <1>2, <1>5, <1>6 DEF OnlyFilled
<1>8. \A p \in ModePasses, d \in Chats : d \in pass[p].rows => mode'[d] \in {mode[d], "bot"} \/ d \in raced'
  BY <1>1, <1>4
<1> QED BY <1>1, <1>3, <1>7, <1>8, PassesStill

\* An address that is taken, by an index that is there, is refused; a new one is normal.
LEMMA AddUserStep == ASSUME BackfillsInv, NEW u \in Mailboxes, AddUser(u) PROVE BackfillsInv'
<1>1. /\ UNCHANGED <<mode, named, resolved, indexes, pass, crashes, raced>> /\ BackfillsTypeOK
      /\ kept' = kept \cup {u} /\ u \notin kept /\ ~Clash(u) /\ folded' = folded \cup {u}
      /\ traffic' \in 0 .. MaxTraffic
  BY LiveTyped DEF AddUser, BackfillsInv
<1>2. Collated(u)' = AddressOf[u] /\ \A v \in Mailboxes \ {u} : Collated(v)' = Collated(v)
  BY <1>1 DEF Collated
<1>3. kept' \cap Chats = kept \cap Chats /\ Doubles \subseteq Doubles'
  <2>1. kept' \cap Chats = kept \cap Chats
    BY <1>1, BackfillsAssumption
  <2>2. ASSUME NEW a \in Doubles PROVE a \in Doubles'
    <3>1. PICK b \in (kept \cap Mailboxes) \ {a} : Collated(a) = Collated(b)
      BY <2>2 DEF Doubles
    <3>2. a \in kept \cap Mailboxes /\ a # u /\ b # u
      BY <1>1, <2>2, <3>1 DEF Doubles
    <3>3. Collated(a)' = Collated(b)'
      BY <1>2, <3>1, <3>2
    <3> QED BY <1>1, <3>1, <3>2, <3>3 DEF Doubles
  <2> QED BY <2>1, <2>2
<1>4. "email_1_ci" \in indexes => Doubles' = {}
  <2> SUFFICES ASSUME "email_1_ci" \in indexes, NEW a \in kept' \cap Mailboxes,
                      NEW b \in (kept' \cap Mailboxes) \ {a}, Collated(a)' = Collated(b)'
               PROVE  FALSE
    BY DEF Doubles
  <2>1. CASE a = u
    <3>1. b \in (kept \cap Mailboxes) \ {u} /\ Collated(b) = AddressOf[u]
      BY <1>1, <1>2, <2>1
    <3> QED BY <1>1, <3>1 DEF Clash
  <2>2. CASE b = u
    <3>1. a \in (kept \cap Mailboxes) \ {u} /\ Collated(a) = AddressOf[u]
      BY <1>1, <1>2, <2>2
    <3> QED BY <1>1, <3>1 DEF Clash
  <2>3. CASE a # u /\ b # u
    <3>1. a \in kept \cap Mailboxes /\ b \in (kept \cap Mailboxes) \ {a}
      BY <1>1, <2>3
    <3>2. Collated(a) = Collated(b)
      BY <1>2, <2>3, <3>1
    <3>3. a \in Doubles
      BY <3>1, <3>2 DEF Doubles
    <3> QED BY <1>1, <3>3 DEF BackfillsTypeOK
  <2> QED BY <2>1, <2>3, <2>2
<1>5. BackfillsTypeOK'
  BY <1>1, <1>4 DEF BackfillsTypeOK
<1>6. \A r \in Passes : Lacking(r)' \cap kept \subseteq Lacking(r)
  <2> SUFFICES ASSUME NEW r \in Passes PROVE Lacking(r)' \cap kept \subseteq Lacking(r)
    OBVIOUS
  <2>1. CASE r \in ModePasses \/ r \in ListPasses
    BY <1>1, <1>3, <2>1, LackingOf, LackingNext
  <2>2. CASE r \notin ModePasses /\ r \notin ListPasses
    <3>1. Lacking(r) = (kept \cap Mailboxes) \ folded /\ Lacking(r)' = (kept' \cap Mailboxes) \ folded'
      BY <2>2, LackingOf, LackingNext DEF Passes
    <3> QED BY <1>1, <3>1
  <2> QED BY <2>1, <2>2
<1>7. \A r \in MailPasses : Lacking(r)' \subseteq Lacking(r)
  BY <1>1, LackingOf, LackingNext DEF Passes
<1>8. OnlyFilled
  BY <1>1, <1>3, <1>6, <1>7 DEF OnlyFilled
<1> QED BY <1>1, <1>5, <1>8, PassesStill

LEMMA BackfillsInitInv == BackfillsInit => BackfillsInv
<1> SUFFICES ASSUME BackfillsInit PROVE BackfillsInv
  OBVIOUS
<1>1. BackfillsTypeOK
  <2>1. kept \subseteq Chats \cup Mailboxes /\ mode \in [Chats -> {"none", "bot", "human"}]
    BY DEF BackfillsInit
  <2>2. crashes \in 0 .. MaxCrashes /\ traffic \in 0 .. MaxTraffic
    <3>1. MaxCrashes \in Nat /\ MaxTraffic \in Nat
      BY BackfillsAssumption
    <3>2. crashes = 0 /\ traffic = 0
      BY DEF BackfillsInit
    <3> QED BY <3>1, <3>2
  <2> QED BY <2>1, <2>2 DEF BackfillsInit, BackfillsTypeOK
<1>2. PICK due \in Boots :
        pass = [p \in Passes |-> [pc |-> IF p \in due THEN "new" ELSE "not due",
                                 rows |-> {}, chunks |-> 0, owed |-> {}]]
  BY DEF BackfillsInit
<1>3. PassTypes
  <2> SUFFICES ASSUME NEW p \in Passes
               PROVE  [pc |-> IF p \in due THEN "new" ELSE "not due", rows |-> {}, chunks |-> 0, owed |-> {}]
                        \in PassType
    BY <1>2 DEF PassTypes
  <2> QED BY DEF PassType, PassPcs
<1>4. \A p \in Passes : PassFits(p)
  BY <1>2 DEF PassFits
<1> QED BY <1>1, <1>3, <1>4 DEF BackfillsInv

LEMMA BackfillsNextInv == BackfillsInv /\ [BackfillsNext]_backfillsVars => BackfillsInv'
<1> SUFFICES ASSUME BackfillsInv, [BackfillsNext]_backfillsVars PROVE BackfillsInv'
  OBVIOUS
<1>1. CASE UNCHANGED backfillsVars
  <2>1. UNCHANGED <<kept, mode, named, resolved, folded, indexes, pass, crashes, traffic, raced>>
        /\ BackfillsTypeOK
    BY <1>1 DEF backfillsVars, BackfillsInv
  <2>2. /\ Doubles' = Doubles /\ \A r \in Passes : Lacking(r)' = Lacking(r)
        /\ MailPasses \subseteq Passes
    BY <2>1 DEF Passes, Doubles, Collated, Lacking
  <2>3. BackfillsTypeOK' /\ OnlyFilled
    BY <2>1, <2>2 DEF BackfillsTypeOK, OnlyFilled
  <2> QED BY <2>1, <2>3, PassesStill
<1> QED BY <1>1, LookStep, FillStep, ChunkDoneStep, IndexStep, AutoIndexStep, OpenStep, SetModeStep,
           AddUserStep DEF BackfillsNext

LEMMA BackfillsInductive == BackfillsSpec => []BackfillsInv
  BY BackfillsInitInv, BackfillsNextInv, PTL DEF BackfillsSpec

------------------------------------------------------------------------------
(* Backfills: the theorems *)

\* With the new index no two stored addresses differ in case only, whatever boots fail,
\* whichever users are created beside the migrations, and whatever blanks these take away.
THEOREM BackfillsTypeCorrect == BackfillsSpec => []BackfillsTypeOK
  BY BackfillsInductive, PTL DEF BackfillsInv

\* The only step that changes a run's rows and a mode is its filling of a row.
LEMMA ModeFilled ==
    ASSUME BackfillsInv, BackfillsNext, NEW p \in ModePasses, NEW c \in Chats,
           pass[p].rows # pass'[p].rows, mode[c] # mode'[c]
    PROVE  mode[c] = "none" \/ c \in raced
<1>1. p \in Passes /\ mode \in [Chats -> {"none", "bot", "human"}] /\ PassTypes /\ PassFits(p)
  BY DEF Passes, BackfillsInv, BackfillsTypeOK
<1>2. pass' # pass /\ mode' # mode
  OBVIOUS
<1>3. PICK r \in Passes, x \in Chats \cup Mailboxes : Fill(r, x)
  BY <1>2 DEF BackfillsNext, Look, ChunkDone, DropIndex, CreateIndex, BootFails, AutoIndex, Open, SetMode,
              AddUser
<1>4. x \in pass[r].rows /\ mode' = [mode EXCEPT ![x] = "bot"] /\ r = p
  <2>1. \E q : pass' = [pass EXCEPT ![r] = q]
    BY <1>3 DEF Fill
  <2>2. r = p
    BY <1>1, <2>1 DEF PassTypes
  <2> QED BY <1>2, <1>3, <2>2 DEF Fill
<1>5. c = x /\ mode[c] # "bot"
  BY <1>1, <1>4
<1> QED BY <1>1, <1>4, <1>5 DEF PassFits

\* A migration that ends below its cap leaves nothing of what it found, and never takes back
\* the mode an operator chose, unless it was about to fill it in.
THEOREM FilledAndKept == BackfillsSpec => FilledNotOverwritten
<1>1. BackfillsInv => Filled
  BY DEF BackfillsInv, PassFits, Filled
<1>2. BackfillsInv' => Filled'
  BY DEF BackfillsInv, PassFits, Filled
<1>3. BackfillsInv /\ BackfillsInv' /\ [BackfillsNext]_backfillsVars =>
        [/\ Filled'
         /\ \A p \in ModePasses, c \in Chats :
              pass[p].rows # pass'[p].rows /\ mode[c] # mode'[c] => mode[c] = "none" \/ c \in raced
        ]_backfillsVars
  BY <1>2, ModeFilled
<1> QED BY <1>3, BackfillsInductive, PTL DEF BackfillsSpec, FilledNotOverwritten

------------------------------------------------------------------------------
(* Catalogue: rows one after the other *)

\* A function that is defined along the numbers up to n.
Along(f, n, S, x, G) ==
    f \in [0..n -> S] /\ f[0] = x /\ \A k \in 1..n : f[k] = G[<<k, f[k - 1]>>]

LEMMA AlongNumbers ==
    ASSUME NEW S, NEW n \in Nat, NEW x \in S, NEW G \in [(1..n) \X S -> S]
    PROVE  \E f : Along(f, n, S, x, G)
<1> DEFINE Upto(m) == \E f \in [0..m -> S] : f[0] = x /\ \A k \in 1..m : f[k] = G[<<k, f[k - 1]>>]
           T == {m \in Nat : m <= n /\ ~Upto(m)}
<1>1. T = {}
  <2> SUFFICES ASSUME T # {} PROVE FALSE
    OBVIOUS
  <2>1. PICK m \in T : \A l \in T : m <= l
    BY LeastNat
  <2>2. Upto(0)
    <3> WITNESS [k \in 0..0 |-> x] \in [0..0 -> S]
    <3> QED OBVIOUS
  <2> HIDE DEF Upto
  <2>3. m - 1 \in Nat /\ m - 1 \notin T /\ m \in 1..n
    <3>1. m \in Nat /\ m <= n /\ ~Upto(m)
      OBVIOUS
    <3>2. m # 0
      BY <2>2, <3>1
    <3> QED BY <2>1, <3>1, <3>2
  <2>4. Upto(m - 1)
    BY <2>3
  <2>5. PICK f \in [0..(m - 1) -> S] : f[0] = x /\ \A k \in 1..(m - 1) : f[k] = G[<<k, f[k - 1]>>]
    BY <2>4 DEF Upto
  <2> DEFINE g == [k \in 0..m |-> IF k = m THEN G[<<m, f[m - 1]>>] ELSE f[k]]
  <2>6. G[<<m, f[m - 1]>>] \in S
    BY <2>3, <2>5
  <2>7. g \in [0..m -> S]
    BY <2>3, <2>5, <2>6
  <2>8. g[0] = x /\ \A k \in 1..m : g[k] = G[<<k, g[k - 1]>>]
    <3>1. g[0] = x
      BY <2>3, <2>5
    <3>2. ASSUME NEW k \in 1..m PROVE g[k] = G[<<k, g[k - 1]>>]
      <4>1. g[k - 1] = f[k - 1]
        BY <2>3
      <4>2. CASE k = m
        <5>1. g[m] = G[<<m, f[m - 1]>>]
          BY <2>3
        <5> QED BY <4>1, <4>2, <5>1
      <4>3. CASE k # m
        BY <2>3, <2>5, <4>1, <4>3
      <4> QED BY <4>2, <4>3
    <3> QED BY <3>1, <3>2
  <2>9. Upto(m)
    BY <2>7, <2>8 DEF Upto
  <2> QED BY <2>1, <2>9
<1> HIDE DEF Upto
<1>2. Upto(n)
  BY <1>1
<1> QED BY <1>2 DEF Upto, Along

\* What holds at 0 and goes on to the next number holds of all of them.
LEMMA UpTo ==
    ASSUME NEW n \in Nat, NEW P \in [0..n -> BOOLEAN], P[0], \A k \in 1..n : P[k - 1] => P[k]
    PROVE  \A k \in 0..n : P[k]
<1> DEFINE T == {k \in 0..n : ~P[k]}
<1>1. T = {}
  <2> SUFFICES ASSUME T # {} PROVE FALSE
    OBVIOUS
  <2>1. PICK m \in T : \A l \in T : m <= l
    <3>1. T \in SUBSET Nat
      OBVIOUS
    <3> QED BY <3>1, LeastNat
  <2>2. m # 0 /\ m \in 1..n /\ m - 1 \in 0..n /\ m - 1 \notin T
    BY <2>1
  <2> QED BY <2>1, <2>2
<1> QED BY <1>1

ValidRow == {r \in CatalogueRow : Valid(r)}
Item == [name : 1..2, amount : 0..2, currency : {NoCurrency, "EUR", "USD"}, active : BOOLEAN]
Unpriced(it) == it # NoItem /\ it.currency = NoCurrency => ~Priced(it)
Shows(it, r) == /\ it # NoItem /\ it.name = r.name /\ it.active
                /\ Priced(r) => it.amount = r.amount /\ it.currency = r.currency

LEMMA ItemIsSome == \A it \in Item : it # NoItem
BY DEF Item, NoItem

LEMMA Upserting ==
    ASSUME NEW old \in {NoItem} \cup Item, NEW r \in ValidRow
    PROVE  /\ Upserted(old, r) \in Item /\ Shows(Upserted(old, r), r)
           /\ Unpriced(old) => Unpriced(Upserted(old, r))
<1>1. /\ r.name \in 1..2 /\ r.amount \in 0..2 /\ r.currency \in {NoCurrency, "EUR", "USD"}
      /\ Priced(r) => r.currency # NoCurrency
  BY DEF ValidRow, CatalogueRow, Valid
<1> DEFINE new == Upserted(old, r)
<1>2. /\ new.name = r.name /\ new.active = TRUE
      /\ new.amount = IF Priced(r) \/ old = NoItem THEN r.amount ELSE old.amount
      /\ new.currency = IF r.currency # NoCurrency \/ old = NoItem THEN r.currency ELSE old.currency
  BY DEF Upserted
<1>3. old # NoItem => /\ old.amount \in 0..2 /\ old.currency \in {NoCurrency, "EUR", "USD"}
  BY DEF Item
<1>4. new \in Item
  <2>1. new = [name |-> new.name, amount |-> new.amount, currency |-> new.currency,
               active |-> new.active]
    BY DEF Upserted
  <2>2. /\ new.name \in 1..2 /\ new.amount \in 0..2 /\ new.active \in BOOLEAN
        /\ new.currency \in {NoCurrency, "EUR", "USD"}
    <3> HIDE DEF new
    <3> QED BY <1>1, <1>2, <1>3
  <2> HIDE DEF new
  <2> QED BY <2>1, <2>2 DEF Item
<1>5. new # NoItem
  BY <1>4, ItemIsSome
<1> HIDE DEF new
<1>6. Shows(new, r)
  BY <1>1, <1>2, <1>5 DEF Shows
<1>7. Unpriced(old) => Unpriced(new)
  BY <1>1, <1>2, <1>3 DEF Unpriced, Priced
<1> QED BY <1>4, <1>6, <1>7 DEF new

\* An item after some rows, in the order given: it shows the last row of it, with a price if
\* that has one, and is as it was if there is none.
LEMMA UpsertsShow ==
    ASSUME NEW s \in Skus, item[s] \in {NoItem} \cup Item, NEW chunk \in Seq(ValidRow)
    PROVE  /\ Upserts(s, chunk)[Len(chunk)] \in {NoItem} \cup Item
           /\ IF \E i \in DOMAIN chunk : chunk[i].sku = s
              THEN \E i \in DOMAIN chunk : chunk[i].sku = s /\ Shows(Upserts(s, chunk)[Len(chunk)], chunk[i])
              ELSE Upserts(s, chunk)[Len(chunk)] = item[s]
           /\ Unpriced(item[s]) => Unpriced(Upserts(s, chunk)[Len(chunk)])
<1> DEFINE n == Len(chunk)
           S == {NoItem} \cup Item
           Step(k, old) == IF chunk[k].sku # s THEN old ELSE Upserted(old, chunk[k])
           f == Upserts(s, chunk)
<1>1. n \in Nat /\ DOMAIN chunk = 1..n /\ \A k \in 1..n : chunk[k] \in ValidRow
  OBVIOUS
<1>2. \A k \in 1..n, old \in S : Step(k, old) \in S
  BY <1>1, Upserting
<1>3. \E g \in [0..n -> S] : g[0] = item[s] /\ \A k \in 1..n : g[k] = Step(k, g[k - 1])
  <2> DEFINE G == [p \in (1..n) \X S |-> Step(p[1], p[2])]
  <2> HIDE DEF Step
  <2>1. G \in [(1..n) \X S -> S]
    BY <1>2
  <2>2. PICK g \in [0..n -> S] : g[0] = item[s] /\ \A k \in 1..n : g[k] = G[<<k, g[k - 1]>>]
    <3> HIDE DEF G, n, S
    <3>1. n \in Nat /\ item[s] \in S
      BY <1>1 DEF S
    <3>2. \E g : Along(g, n, S, item[s], G)
      BY <2>1, <3>1, AlongNumbers
    <3> QED BY <3>2 DEF Along
  <2>3. \A k \in 1..n : g[k - 1] \in S
    BY <1>1, <2>2
  <2>4. \A k \in 1..n : G[<<k, g[k - 1]>>] = Step(k, g[k - 1])
    BY <2>3
  <2> QED BY <2>2, <2>4
<1>4. \E g : g = [k \in 0..n |-> IF k = 0 THEN item[s] ELSE Step(k, g[k - 1])]
  <2>1. PICK g \in [0..n -> S] : g[0] = item[s] /\ \A k \in 1..n : g[k] = Step(k, g[k - 1])
    BY <1>3
  <2> HIDE DEF Step, S
  <2>2. g = [k \in 0..n |-> IF k = 0 THEN item[s] ELSE Step(k, g[k - 1])]
    BY <1>1, <2>1
  <2> QED BY <2>2
<1>5. f = CHOOSE g : g = [k \in 0..n |-> IF k = 0 THEN item[s] ELSE Step(k, g[k - 1])]
  BY Zenon DEF Upserts
<1>6. f = [k \in 0..n |-> IF k = 0 THEN item[s] ELSE Step(k, f[k - 1])]
  <2> HIDE DEF f, Step, n
  <2> QED BY <1>4, <1>5
<1>7. f[0] = item[s] /\ \A k \in 1..n : f[k] = Step(k, f[k - 1])
  <2> HIDE DEF f, Step, n
  <2> QED BY <1>1, <1>6
<1> HIDE DEF f
<1> DEFINE P == [k \in 0..n |->
                   /\ f[k] \in S
                   /\ IF \E i \in 1..k : chunk[i].sku = s
                      THEN \E i \in 1..k : chunk[i].sku = s /\ Shows(f[k], chunk[i])
                      ELSE f[k] = item[s]
                   /\ Unpriced(item[s]) => Unpriced(f[k])]
<1>8. P[0]
  BY <1>1, <1>7
<1>9. ASSUME NEW k \in 1..n, P[k - 1] PROVE P[k]
  <2>1. /\ f[k - 1] \in S
        /\ Unpriced(item[s]) => Unpriced(f[k - 1])
        /\ IF \E i \in 1..(k - 1) : chunk[i].sku = s
           THEN \E i \in 1..(k - 1) : chunk[i].sku = s /\ Shows(f[k - 1], chunk[i])
           ELSE f[k - 1] = item[s]
    BY <1>1, <1>9
  <2>2. 1..k = 1..(k - 1) \cup {k}
    BY <1>1
  <2>3. CASE chunk[k].sku # s
    <3>1. f[k] = f[k - 1]
      BY <1>7, <2>3
    <3> QED BY <1>1, <2>1, <2>2, <2>3, <3>1
  <2>4. CASE chunk[k].sku = s
    <3>1. f[k] = Upserted(f[k - 1], chunk[k])
      BY <1>7, <2>4
    <3>2. f[k] \in Item /\ Shows(f[k], chunk[k]) /\ (Unpriced(f[k - 1]) => Unpriced(f[k]))
      BY <1>1, <2>1, <3>1, Upserting
    <3> QED BY <1>1, <2>1, <2>2, <2>4, <3>2
  <2> QED BY <2>3, <2>4
<1>10. P[n]
  <2>1. P \in [0..n -> BOOLEAN] /\ n \in 0..n
    BY <1>1
  <2> HIDE DEF P
  <2> QED BY <1>1, <1>8, <1>9, <2>1, UpTo
<1> QED BY <1>1, <1>10 DEF f

LEMMA Putting ==
    ASSUME NEW list \in Seq(ValidRow), NEW r \in ValidRow
    PROVE  Put(list, r) \in Seq(ValidRow)
<1>1. CASE \E i \in DOMAIN list : list[i].sku = r.sku
  <2>1. Put(list, r) = [i \in DOMAIN list |-> IF list[i].sku = r.sku THEN r ELSE list[i]]
    BY <1>1 DEF Put
  <2>2. DOMAIN list = 1..Len(list) /\ Len(list) \in Nat /\ \A i \in 1..Len(list) : list[i] \in ValidRow
    OBVIOUS
  <2>3. [i \in DOMAIN list |-> IF list[i].sku = r.sku THEN r ELSE list[i]] \in [1..Len(list) -> ValidRow]
    BY <2>2
  <2>4. [1..Len(list) -> ValidRow] \subseteq Seq(ValidRow)
    BY <2>2
  <2> QED BY <2>1, <2>3, <2>4
<1>2. CASE ~ \E i \in DOMAIN list : list[i].sku = r.sku
  BY <1>2 DEF Put
<1> QED BY <1>1, <1>2

\* The rows of a batch are put into the list.
LEMMA Merging ==
    ASSUME NEW list \in Seq(ValidRow), NEW batch \in Seq(ValidRow)
    PROVE  Merge(list, batch) \in Seq(ValidRow)
<1> DEFINE n == Len(batch)
           S == Seq(ValidRow)
           Step(k, old) == Put(old, batch[k])
           f == CHOOSE g : g = [k \in 0..n |-> IF k = 0 THEN list ELSE Step(k, g[k - 1])]
<1>1. n \in Nat /\ \A k \in 1..n : batch[k] \in ValidRow
  OBVIOUS
<1>2. \A k \in 1..n, old \in S : Step(k, old) \in S
  BY <1>1, Putting
<1>3. \E g \in [0..n -> S] : g[0] = list /\ \A k \in 1..n : g[k] = Step(k, g[k - 1])
  <2> DEFINE G == [p \in (1..n) \X S |-> Step(p[1], p[2])]
  <2> HIDE DEF Step
  <2>1. G \in [(1..n) \X S -> S]
    BY <1>2
  <2>2. \E g : Along(g, n, S, list, G)
    <3> HIDE DEF G, n, S
    <3>1. n \in Nat /\ list \in S
      BY <1>1 DEF S
    <3> QED BY <2>1, <3>1, AlongNumbers
  <2>3. PICK g \in [0..n -> S] : g[0] = list /\ \A k \in 1..n : g[k] = G[<<k, g[k - 1]>>]
    <3> HIDE DEF G, n, S
    <3> QED BY <2>2 DEF Along
  <2>4. \A k \in 1..n : g[k - 1] \in S
    BY <1>1, <2>3
  <2>5. \A k \in 1..n : G[<<k, g[k - 1]>>] = Step(k, g[k - 1])
    BY <2>4
  <2> QED BY <2>3, <2>5
<1>4. \E g : g = [k \in 0..n |-> IF k = 0 THEN list ELSE Step(k, g[k - 1])]
  <2>1. PICK g \in [0..n -> S] : g[0] = list /\ \A k \in 1..n : g[k] = Step(k, g[k - 1])
    BY <1>3
  <2> HIDE DEF Step, S
  <2>2. g = [k \in 0..n |-> IF k = 0 THEN list ELSE Step(k, g[k - 1])]
    BY <1>1, <2>1
  <2> QED BY <2>2
<1>5. f = [k \in 0..n |-> IF k = 0 THEN list ELSE Step(k, f[k - 1])]
  <2> HIDE DEF Step, n
  <2> QED BY <1>4
<1>6. Merge(list, batch) = f[n]
  BY Zenon DEF Merge
<1>7. f[0] = list /\ \A k \in 1..n : f[k] = Step(k, f[k - 1])
  <2> HIDE DEF f, Step, n
  <2> QED BY <1>1, <1>5
<1>11. list \in S
  OBVIOUS
<1> HIDE DEF f, S, Step
<1> DEFINE P == [k \in 0..n |-> f[k] \in S]
<1>8. P[0]
  <2>1. f[0] \in S /\ 0 \in 0..n
    BY <1>1, <1>7, <1>11
  <2> QED BY <2>1
<1>9. ASSUME NEW k \in 1..n, P[k - 1] PROVE P[k]
  <2>1. f[k - 1] \in S /\ k - 1 \in 0..n /\ k \in 0..n
    <3>1. k - 1 \in 0..n /\ k \in 0..n
      BY <1>1
    <3> QED BY <1>9, <3>1, Zenon
  <2>2. f[k] \in S
    BY <1>2, <1>7, <2>1
  <2> QED BY <2>1, <2>2
<1>10. P[n]
  <2>1. P \in [0..n -> BOOLEAN] /\ n \in 0..n
    BY <1>1
  <2> HIDE DEF P
  <2> QED BY <1>1, <1>8, <1>9, <2>1, UpTo
<1>12. f[n] \in S
  <2>1. n \in 0..n
    BY <1>1
  <2> HIDE DEF n
  <2> QED BY <1>10, <2>1, Zenon
<1> QED BY <1>6, <1>12 DEF S

------------------------------------------------------------------------------
(* Catalogue: the invariant *)

Begun ==
    [pc : {"extract", "write", "ok", "400", "502"}, parts : Int, list : Seq(ValidRow), committed : Nat]

CatalogueTypes ==
    /\ item \in [Skus -> {NoItem} \cup Item] /\ writer \in [Skus -> Uploads \cup {"edit"}]
    /\ cleared \subseteq Skus
    /\ upload \in [Uploads -> {[pc |-> "new"]} \cup Begun]
    /\ edits \in 0..MaxEdits /\ losses \in 0..MaxLosses

\* A price without a currency is the work of an edit.
PricesFit == \A s \in Skus : Unpriced(item[s]) \/ s \in cleared

\* The rows an upload has committed, and what it has the right to say: an item it wrote last
\* shows one of them, and if it is the only one all of them are written.
Committed(u) == {i \in DOMAIN upload[u].list : i <= upload[u].committed * DbChunk}
Alone(u) == edits = 0 /\ \A v \in Uploads : v # u => upload[v].pc = "new"
UploadFits(u) ==
    /\ upload[u].pc = "new" => \A s \in Skus : writer[s] # u
    /\ upload[u].pc # "new" =>
         /\ \A s \in Skus : writer[s] = u =>
              \E i \in Committed(u) : upload[u].list[i].sku = s /\ Shows(item[s], upload[u].list[i])
         /\ Alone(u) => \A i \in Committed(u) : writer[upload[u].list[i].sku] = u
    /\ upload[u].pc \in {"extract", "400"} => upload[u].committed = 0
    /\ upload[u].pc = "ok" => Len(upload[u].list) <= upload[u].committed * DbChunk
    /\ upload[u].pc \in {"400", "502"} => upload[u].committed * DbChunk <= Len(upload[u].list)

CatalogueInv == CatalogueTypes /\ PricesFit /\ \A u \in Uploads : UploadFits(u)

LEMMA CatalogueStarts == CatalogueInit => CatalogueInv
<1> SUFFICES ASSUME CatalogueInit PROVE CatalogueInv
  OBVIOUS
<1>1. CatalogueTypes
  BY CatalogueAssumption DEF CatalogueInit, CatalogueTypes
<1>2. PricesFit
  BY DEF CatalogueInit, PricesFit, Unpriced
<1>3. \A u \in Uploads : UploadFits(u)
  BY CatalogueAssumption DEF CatalogueInit, UploadFits
<1> QED BY <1>1, <1>2, <1>3 DEF CatalogueInv

\* A step that begins an upload or changes what is said of one, and writes no item.
LEMMA Saying ==
    ASSUME CatalogueInv, NEW u \in Uploads, NEW new \in Begun,
           upload' = [upload EXCEPT ![u] = new], new.list = upload[u].list \/ new.committed = 0,
           upload[u].pc = "new" => new.committed = 0,
           upload[u].pc # "new" => new.committed = upload[u].committed,
           new.pc = "extract" \/ new.pc = "400" => new.committed = 0,
           new.pc = "ok" => Len(new.list) <= new.committed * DbChunk,
           new.pc \in {"400", "502"} => new.committed * DbChunk <= Len(new.list),
           UNCHANGED <<item, writer, cleared, edits>>, losses' \in 0..MaxLosses
    PROVE  CatalogueInv'
<1>1. CatalogueTypes /\ PricesFit /\ \A v \in Uploads : UploadFits(v)
  BY DEF CatalogueInv
<1>2. upload' \in [Uploads -> {[pc |-> "new"]} \cup Begun]
  BY <1>1 DEF CatalogueTypes
<1>3. CatalogueTypes'
  BY <1>1, <1>2 DEF CatalogueTypes
<1>4. PricesFit'
  BY <1>1 DEF PricesFit
<1>5. new.pc # "new" /\ upload'[u] = new /\ \A v \in Uploads \ {u} : upload'[v] = upload[v]
  BY <1>1 DEF CatalogueTypes, Begun
<1>6. \A v \in Uploads : Alone(v)' => Alone(v)
  BY <1>5 DEF Alone
<1>7. UploadFits(u)'
  <2>1. CASE upload[u].pc = "new"
    <3>1. \A s \in Skus : writer[s] # u
      BY <1>1, <2>1 DEF UploadFits
    <3>2. Committed(u)' = {}
      BY <1>5, <2>1, CatalogueAssumption DEF Committed, Begun
    <3> QED BY <1>5, <3>1, <3>2 DEF UploadFits
  <2>2. CASE upload[u].pc # "new"
    <3>1. CASE new.list = upload[u].list
      <4>1. Committed(u)' = Committed(u)
        BY <1>5, <2>2, <3>1 DEF Committed
      <4> QED BY <1>1, <1>5, <1>6, <2>2, <3>1, <4>1 DEF UploadFits
    <3>2. CASE new.committed = 0
      <4>1. upload[u] \in Begun
        BY <1>1, <2>2 DEF CatalogueTypes
      <4>2. Committed(u)' = {} /\ Committed(u) = {}
        BY <1>5, <2>2, <3>2, <4>1, CatalogueAssumption DEF Committed, Begun
      <4> QED BY <1>1, <1>5, <1>6, <2>2, <4>2 DEF UploadFits
    <3> QED BY <3>1, <3>2
  <2> QED BY <2>1, <2>2
<1>8. ASSUME NEW v \in Uploads \ {u} PROVE UploadFits(v)'
  <2>1. Committed(v)' = Committed(v)
    BY <1>5 DEF Committed
  <2> QED BY <1>1, <1>5, <1>6, <2>1 DEF UploadFits
<1> QED BY <1>3, <1>4, <1>7, <1>8 DEF CatalogueInv

\* An edit of items by hand: nobody is alone any more, and what it wrote is no upload's.
LEMMA Editing ==
    ASSUME CatalogueInv, item' \in [Skus -> {NoItem} \cup Item], NEW T \in SUBSET Skus,
           writer' = [s \in Skus |-> IF s \in T THEN "edit" ELSE writer[s]],
           \A s \in Skus \ T : item'[s] = item[s], PricesFit', cleared' \subseteq Skus,
           edits' = edits + 1, edits < MaxEdits, UNCHANGED <<upload, losses>>
    PROVE  CatalogueInv'
<1>1. CatalogueTypes /\ PricesFit /\ \A v \in Uploads : UploadFits(v)
  BY DEF CatalogueInv
<1>2. writer' \in [Skus -> Uploads \cup {"edit"}]
  BY <1>1 DEF CatalogueTypes
<1>3. edits' \in 0..MaxEdits /\ edits' # 0
  BY <1>1, CatalogueAssumption DEF CatalogueTypes
<1>4. CatalogueTypes'
  BY <1>1, <1>2, <1>3 DEF CatalogueTypes
<1>5. ASSUME NEW v \in Uploads PROVE UploadFits(v)'
  <2>1. ~Alone(v)' /\ Committed(v)' = Committed(v)
    BY <1>3 DEF Alone, Committed
  <2>2. \A s \in Skus : writer'[s] = v => writer[s] = v /\ item'[s] = item[s]
    BY CatalogueAssumption
  <2> QED BY <1>1, <2>1, <2>2 DEF UploadFits
<1> QED BY <1>4, <1>5 DEF CatalogueInv

LEMMA CatalogueFacts ==
    /\ {RowsPerCall, TextPerCall, DbChunk} \subseteq Nat \ {0} /\ "edit" \notin Uploads
    /\ Batches \subseteq Seq(ValidRow) /\ MaxEdits \in Nat /\ MaxLosses \in Nat
    /\ \A f \in Files : WorkUnits(f) \in Int
<1>1. ASSUME NEW f \in Files PROVE WorkUnits(f) \in Int
  <2>1. f.kind \in {"table", "text", "picture"} /\ f.size \in Nat
    BY CatalogueAssumption
  <2>2. \A d \in Nat \ {0} : (f.size + d - 1) \div d \in Int
    BY <2>1
  <2> QED BY <2>1, <2>2, CatalogueAssumption DEF WorkUnits
<1> QED BY <1>1, CatalogueAssumption DEF ValidRow

\* The part of a sequence after its first n elements, up to the m-th.
LEMMA Slice ==
    ASSUME NEW S, NEW seq \in Seq(S), NEW n \in Nat, NEW m \in Nat, n <= m, m <= Len(seq)
    PROVE  /\ SubSeq(seq, n + 1, m) \in Seq(S)
           /\ DOMAIN SubSeq(seq, n + 1, m) = 1..(m - n)
           /\ \A k \in 1..(m - n) : SubSeq(seq, n + 1, m)[k] = seq[n + k]
<1> DEFINE part == [k \in 1..(m - n) |-> seq[n + k]]
<1>1. DOMAIN seq = 1..Len(seq) /\ \A i \in 1..Len(seq) : seq[i] \in S
  OBVIOUS
<1>2. \A k \in 1..(m - n) : n + k \in 1..Len(seq)
  OBVIOUS
<1>3. \A k \in 1..(m - n) : part[k] \in S
  BY <1>1, <1>2
<1>4. part \in Seq(S)
  BY <1>3
<1>5. SubSeq(seq, n + 1, m) = part
  OBVIOUS
<1> QED BY <1>4, <1>5

\* What a chunk holds: the rows after those committed, up to the size of a chunk.
LEMMA ChunkFacts ==
    ASSUME NEW u \in Uploads, upload[u] \in Begun, Left(u) > 0
    PROVE  /\ Chunk(u) \in Seq(ValidRow)
           /\ \A k \in DOMAIN Chunk(u) :
                /\ upload[u].committed * DbChunk + k \in DOMAIN upload[u].list
                /\ Chunk(u)[k] = upload[u].list[upload[u].committed * DbChunk + k]
           /\ \A i \in DOMAIN upload[u].list :
                (i <= (upload[u].committed + 1) * DbChunk) <=>
                  \/ i <= upload[u].committed * DbChunk
                  \/ i - upload[u].committed * DbChunk \in DOMAIN Chunk(u)
<1> DEFINE n == upload[u].committed * DbChunk
           list == upload[u].list
           m == IF Left(u) < DbChunk THEN Len(list) ELSE n + DbChunk
<1>1. /\ list \in Seq(ValidRow) /\ upload[u].committed \in Nat /\ DbChunk \in Nat \ {0}
      /\ n \in Nat /\ (upload[u].committed + 1) * DbChunk = n + DbChunk
  BY CatalogueFacts DEF Begun
<1>2. Left(u) = Len(list) - n /\ Len(list) \in Nat /\ DOMAIN list = 1..Len(list)
  BY <1>1 DEF Left
<1>3. Chunk(u) = SubSeq(list, n + 1, m)
  BY DEF Chunk
<1> HIDE DEF n, list
<1>4. m \in Nat /\ n < m /\ m <= Len(list)
      /\ \A i \in 1..Len(list) : i <= n + DbChunk <=> i <= m
  BY <1>1, <1>2
<1> HIDE DEF m
<1>5. /\ SubSeq(list, n + 1, m) \in Seq(ValidRow)
      /\ DOMAIN SubSeq(list, n + 1, m) = 1..(m - n)
      /\ \A k \in 1..(m - n) : SubSeq(list, n + 1, m)[k] = list[n + k]
  BY <1>1, <1>2, <1>4, Slice
<1>6. ASSUME NEW k \in DOMAIN Chunk(u) PROVE n + k \in DOMAIN list /\ Chunk(u)[k] = list[n + k]
  <2>1. k \in 1..(m - n)
    BY <1>3, <1>5
  <2>2. n + k \in 1..Len(list)
    BY <1>1, <1>2, <1>4, <2>1
  <2> QED BY <1>2, <1>3, <1>5, <2>1, <2>2
<1>7. \A i \in DOMAIN list : i <= (upload[u].committed + 1) * DbChunk <=> (i <= n \/ i - n \in DOMAIN Chunk(u))
  BY <1>1, <1>2, <1>3, <1>4, <1>5
<1> QED BY <1>3, <1>5, <1>6, <1>7 DEF n, list

\* In which order the rows of a chunk are written does not matter to what an item has the
\* right to be.
LEMMA Writes ==
    ASSUME CatalogueInv, NEW u \in Uploads, WriteChunk(u), Left(u) > 0, upload[u] \in Begun
    PROVE  /\ item' \in [Skus -> {NoItem} \cup Item]
           /\ \A s \in Skus :
                /\ IF \E k \in DOMAIN Chunk(u) : Chunk(u)[k].sku = s
                   THEN \E k \in DOMAIN Chunk(u) : Chunk(u)[k].sku = s /\ Shows(item'[s], Chunk(u)[k])
                   ELSE item'[s] = item[s]
                /\ Unpriced(item[s]) => Unpriced(item'[s])
<1> DEFINE chunk == Chunk(u)
<1>1. chunk \in Seq(ValidRow) /\ DOMAIN chunk = 1..Len(chunk) /\ Len(chunk) \in Nat
  BY ChunkFacts
<1>2. PICK order \in Bijection(DOMAIN chunk, DOMAIN chunk) :
        item' = [s \in Skus |-> Upserts(s, [k \in DOMAIN chunk |-> chunk[order[k]]])[Len(chunk)]]
  <2>1. Left(u) \in Int
    BY CatalogueFacts DEF Left, Begun
  <2>2. ~(Left(u) <= 0)
    BY <2>1
  <2> QED BY <2>2 DEF WriteChunk
<1> HIDE DEF chunk
<1> DEFINE g == [k \in DOMAIN chunk |-> chunk[order[k]]]
<1>3. /\ \A k \in DOMAIN chunk : order[k] \in DOMAIN chunk
      /\ \A k \in DOMAIN chunk : \E j \in DOMAIN chunk : order[j] = k
  BY <1>2 DEF Bijection, Injection, Surjection
<1>4. g \in Seq(ValidRow) /\ Len(g) = Len(chunk) /\ DOMAIN g = DOMAIN chunk
  <2>1. \A k \in DOMAIN chunk : chunk[order[k]] \in ValidRow
    BY <1>1, <1>3
  <2>2. g \in [1..Len(chunk) -> ValidRow]
    BY <1>1, <2>1
  <2> QED BY <1>1, <2>2
<1>5. item \in [Skus -> {NoItem} \cup Item]
  BY DEF CatalogueInv, CatalogueTypes
<1>6. ASSUME NEW s \in Skus
      PROVE  /\ item'[s] \in {NoItem} \cup Item
             /\ IF \E k \in DOMAIN chunk : chunk[k].sku = s
                THEN \E k \in DOMAIN chunk : chunk[k].sku = s /\ Shows(item'[s], chunk[k])
                ELSE item'[s] = item[s]
             /\ Unpriced(item[s]) => Unpriced(item'[s])
  <2>1. item'[s] = Upserts(s, g)[Len(g)]
    BY <1>2, <1>4
  <2>2. \A k \in DOMAIN chunk : g[k] = chunk[order[k]]
    OBVIOUS
  <2> HIDE DEF g
  <2>3. /\ item'[s] \in {NoItem} \cup Item
        /\ IF \E k \in DOMAIN g : g[k].sku = s
           THEN \E k \in DOMAIN g : g[k].sku = s /\ Shows(item'[s], g[k])
           ELSE item'[s] = item[s]
        /\ Unpriced(item[s]) => Unpriced(item'[s])
    BY <1>4, <1>5, <2>1, UpsertsShow
  <2>4. (\E k \in DOMAIN chunk : chunk[k].sku = s) => \E k \in DOMAIN g : g[k].sku = s
    BY <1>3, <1>4, <2>2
  <2>5. (\E k \in DOMAIN g : g[k].sku = s) => \E k \in DOMAIN chunk : chunk[k].sku = s
    BY <1>3, <1>4, <2>2
  <2>6. (\E k \in DOMAIN g : g[k].sku = s /\ Shows(item'[s], g[k]))
           => \E k \in DOMAIN chunk : chunk[k].sku = s /\ Shows(item'[s], chunk[k])
    BY <1>3, <1>4, <2>2
  <2> QED BY <2>3, <2>4, <2>5, <2>6
<1>7. DOMAIN item' = Skus /\ item' = [s \in Skus |-> item'[s]]
  BY <1>2
<1>8. item' \in [Skus -> {NoItem} \cup Item]
  BY <1>6, <1>7
<1> QED BY <1>6, <1>8 DEF chunk

LEMMA ChunkWritten ==
    ASSUME CatalogueInv, NEW u \in Uploads, WriteChunk(u), Left(u) > 0
    PROVE  CatalogueInv'
<1> DEFINE chunk == Chunk(u)
           here == {chunk[i].sku : i \in DOMAIN chunk}
           n == upload[u].committed * DbChunk
<1>1. CatalogueTypes /\ PricesFit /\ \A v \in Uploads : UploadFits(v)
  BY DEF CatalogueInv
<1>2. upload[u].pc = "write" /\ upload[u] \in Begun /\ Left(u) \in Int /\ DbChunk \in Nat \ {0}
  <2>1. upload[u].pc = "write"
    BY DEF WriteChunk
  <2>2. upload[u] \in Begun
    BY <1>1, <2>1 DEF CatalogueTypes
  <2> QED BY <2>1, <2>2, CatalogueFacts DEF Left, Begun
<1>3. /\ writer' = [s \in Skus |-> IF s \in here THEN u ELSE writer[s]]
      /\ cleared' = {s \in cleared : item'[s].currency = NoCurrency}
      /\ upload' = [upload EXCEPT ![u].committed = @ + 1] /\ UNCHANGED <<edits, losses>>
  <2>1. ~(Left(u) <= 0)
    BY <1>2
  <2> QED BY <2>1 DEF WriteChunk
<1>4. /\ item' \in [Skus -> {NoItem} \cup Item]
      /\ \A s \in Skus : /\ s \in here => \E k \in DOMAIN chunk : chunk[k].sku = s /\ Shows(item'[s], chunk[k])
                         /\ s \notin here => item'[s] = item[s]
                         /\ Unpriced(item[s]) => Unpriced(item'[s])
  BY <1>2, Writes
<1>5. /\ \A k \in DOMAIN chunk : n + k \in DOMAIN upload[u].list /\ chunk[k] = upload[u].list[n + k]
      /\ \A i \in DOMAIN upload[u].list :
           (i <= (upload[u].committed + 1) * DbChunk) <=> (i <= n \/ i - n \in DOMAIN chunk)
      /\ DOMAIN chunk \subseteq Nat /\ n \in Nat
  <2>1. chunk \in Seq(ValidRow) /\ n \in Nat
    BY <1>2, ChunkFacts DEF Begun
  <2>2. DOMAIN chunk = 1..Len(chunk)
    BY <2>1
  <2> QED BY <1>2, <2>1, <2>2, ChunkFacts
<1>6. /\ upload'[u] \in Begun /\ upload'[u].committed = upload[u].committed + 1
      /\ upload'[u].list = upload[u].list /\ upload'[u].pc = "write"
      /\ \A v \in Uploads \ {u} : upload'[v] = upload[v]
  <2>1. upload'[u] = [upload[u] EXCEPT !.committed = @ + 1]
    BY <1>1, <1>3 DEF CatalogueTypes
  <2>2. \A v \in Uploads \ {u} : upload'[v] = upload[v]
    BY <1>1, <1>3 DEF CatalogueTypes
  <2> QED BY <1>2, <2>1, <2>2 DEF Begun
<1> HIDE DEF chunk, n
<1>7. CatalogueTypes'
  <2>1. writer' \in [Skus -> Uploads \cup {"edit"}]
    BY <1>1, <1>3 DEF CatalogueTypes
  <2>2. upload' \in [Uploads -> {[pc |-> "new"]} \cup Begun]
    BY <1>1, <1>3, <1>6 DEF CatalogueTypes
  <2> QED BY <1>1, <1>3, <1>4, <2>1, <2>2 DEF CatalogueTypes
<1>8. PricesFit'
  BY <1>1, <1>3, <1>4 DEF PricesFit, Unpriced
<1>9. \A i \in DOMAIN upload[u].list : i \in Committed(u)' <=> (i \in Committed(u) \/ i - n \in DOMAIN chunk)
  BY <1>5, <1>6 DEF Committed, n
<1>10. UploadFits(u)'
  <2>1. ASSUME NEW s \in Skus, writer'[s] = u
        PROVE  \E i \in Committed(u)' : upload[u].list[i].sku = s /\ Shows(item'[s], upload[u].list[i])
    <3>1. CASE s \in here
      <4>1. PICK k \in DOMAIN chunk : chunk[k].sku = s /\ Shows(item'[s], chunk[k])
        BY <1>4, <3>1
      <4>2. n + k \in DOMAIN upload[u].list /\ chunk[k] = upload[u].list[n + k] /\ (n + k) - n = k
        BY <1>5
      <4>3. n + k \in Committed(u)'
        BY <1>9, <4>2
      <4> QED BY <4>1, <4>2, <4>3
    <3>2. CASE s \notin here
      <4>1. writer[s] = u /\ item'[s] = item[s]
        BY <1>3, <1>4, <2>1, <3>2
      <4>2. PICK i \in Committed(u) : upload[u].list[i].sku = s /\ Shows(item[s], upload[u].list[i])
        BY <1>1, <1>2, <4>1 DEF UploadFits
      <4>3. i \in Committed(u)'
        BY <1>9 DEF Committed
      <4> QED BY <4>1, <4>2, <4>3
    <3> QED BY <3>1, <3>2
  <2>2. ASSUME Alone(u)', NEW i \in Committed(u)' PROVE writer'[upload[u].list[i].sku] = u
    <3>1. Alone(u)
      BY <1>3, <1>6, <2>2 DEF Alone
    <3>2. i \in DOMAIN upload[u].list
      BY <1>6 DEF Committed
    <3>3. upload[u].list[i].sku \in Skus
      BY <1>2, <3>2 DEF Begun, ValidRow, CatalogueRow
    <3>4. CASE i \in Committed(u)
      BY <1>1, <1>2, <1>3, <3>1, <3>3, <3>4 DEF UploadFits
    <3>5. CASE i - n \in DOMAIN chunk
      <4>1. chunk[i - n] = upload[u].list[i]
        BY <1>2, <1>5, <3>2, <3>5 DEF Begun
      <4> QED BY <1>3, <3>3, <3>5, <4>1
    <3> QED BY <1>9, <3>2, <3>4, <3>5
  <2> QED BY <1>6, <2>1, <2>2 DEF UploadFits
<1>11. ASSUME NEW v \in Uploads \ {u} PROVE UploadFits(v)'
  <2>1. ~Alone(v)' /\ Committed(v)' = Committed(v)
    BY <1>6 DEF Alone, Committed
  <2>2. \A s \in Skus : writer'[s] = v => writer[s] = v /\ item'[s] = item[s]
    BY <1>3, <1>4
  <2> QED BY <1>1, <1>6, <2>1, <2>2 DEF UploadFits
<1> QED BY <1>7, <1>8, <1>10, <1>11 DEF CatalogueInv

\* The steps of an upload before it writes, and its end.
LEMMA UploadTypes ==
    ASSUME CatalogueInv, NEW u \in Uploads
    PROVE  /\ upload \in [Uploads -> {[pc |-> "new"]} \cup Begun] /\ UploadFits(u)
           /\ upload[u].pc # "new" => upload[u] \in Begun
           /\ losses \in 0..MaxLosses
BY DEF CatalogueInv, CatalogueTypes

LEMMA Begins ==
    ASSUME CatalogueInv, NEW u \in Uploads,
           (\E f \in Files : BeginImport(u, f)) \/ (\E b \in Batches : BeginBulk(u, b))
    PROVE  CatalogueInv'
<1>1. CASE \E f \in Files : BeginImport(u, f)
  <2>1. PICK f \in Files : BeginImport(u, f)
    BY <1>1
  <2> DEFINE new == [pc |-> IF Readable(f) THEN "extract" ELSE "400",
                     parts |-> WorkUnits(f), list |-> <<>>, committed |-> 0]
  <2>2. new \in Begun
    BY CatalogueFacts DEF Begun
  <2>3. /\ upload[u].pc = "new" /\ upload' = [upload EXCEPT ![u] = new]
        /\ UNCHANGED <<item, writer, cleared, edits, losses>>
    BY <2>1 DEF BeginImport
  <2>4. new.committed = 0 /\ new.pc \in {"extract", "400"} /\ 0 * DbChunk <= Len(new.list)
    BY CatalogueFacts
  <2>5. losses' \in 0..MaxLosses
    BY <2>3, UploadTypes
  <2> HIDE DEF new
  <2> QED BY <2>2, <2>3, <2>4, <2>5, Saying
<1>2. CASE \E b \in Batches : BeginBulk(u, b)
  <2>1. PICK b \in Batches : BeginBulk(u, b)
    BY <1>2
  <2> DEFINE new == [pc |-> "write", parts |-> 0, list |-> b, committed |-> 0]
  <2>2. new \in Begun /\ new.committed = 0 /\ new.pc = "write"
    BY CatalogueFacts DEF Begun
  <2>3. /\ upload[u].pc = "new" /\ upload' = [upload EXCEPT ![u] = new]
        /\ UNCHANGED <<item, writer, cleared, edits, losses>>
    BY <2>1 DEF BeginBulk
  <2>4. losses' \in 0..MaxLosses
    BY <2>3, UploadTypes
  <2> HIDE DEF new
  <2> QED BY <2>2, <2>3, <2>4, Saying
<1> QED BY <1>1, <1>2

LEMMA Extracts ==
    ASSUME CatalogueInv, NEW u \in Uploads, NEW b \in Batches, ExtractPart(u, b)
    PROVE  CatalogueInv'
<1> DEFINE left == upload[u].parts - 1
           list == IF Conflicting(b) THEN upload[u].list ELSE Merge(upload[u].list, b)
           pc == IF Conflicting(b) THEN "400" ELSE IF left > 0 THEN "extract" ELSE "write"
           new == [upload[u] EXCEPT !.pc = pc, !.parts = left, !.list = list]
<1>1. upload[u].pc = "extract" /\ UNCHANGED <<item, writer, cleared, edits, losses>>
  BY DEF ExtractPart
<1>2. upload[u] \in Begun /\ upload[u].committed = 0 /\ losses' \in 0..MaxLosses
  BY <1>1, UploadTypes DEF UploadFits
<1>3. upload' = [upload EXCEPT ![u] = new]
  BY Zenon DEF ExtractPart
<1>4. list \in Seq(ValidRow)
  BY <1>2, CatalogueFacts, Merging DEF Begun
<1>5. left \in Int /\ pc \in {"extract", "400", "write"}
  BY <1>2 DEF Begun
<1> HIDE DEF list, left, pc
<1>6. /\ new \in Begun /\ new.pc \in {"extract", "400", "write"} /\ new.committed = 0
      /\ new.list \in Seq(ValidRow)
  BY <1>2, <1>4, <1>5 DEF Begun
<1>7. new.committed * DbChunk <= Len(new.list)
  <2>1. Len(new.list) \in Nat
    BY <1>6
  <2> QED BY <1>6, <2>1, CatalogueFacts
<1> HIDE DEF new
<1> QED BY <1>1, <1>2, <1>3, <1>6, <1>7, Saying

LEMMA Answers ==
    ASSUME CatalogueInv, NEW u \in Uploads,
           \/ ExtractionFails(u)
           \/ ChunkFails(u)
           \/ WriteChunk(u) /\ ~(Left(u) > 0)
    PROVE  CatalogueInv'
<1> DEFINE to == IF WriteChunk(u) /\ ~(Left(u) > 0) THEN "ok" ELSE "502"
           new == [upload[u] EXCEPT !.pc = to]
<1>9. upload[u].pc \in {"extract", "write"}
  BY DEF ExtractionFails, ChunkFails, WriteChunk
<1>2. upload[u] \in Begun /\ UploadFits(u) /\ losses \in 0..MaxLosses
      /\ upload \in [Uploads -> {[pc |-> "new"]} \cup Begun]
  BY <1>9, UploadTypes
<1>3. Left(u) = Len(upload[u].list) - upload[u].committed * DbChunk /\ Left(u) \in Int
  BY <1>2, CatalogueFacts DEF Left, Begun
<1>10. Ask(u, to) /\ losses' \in 0..MaxLosses /\ UNCHANGED <<item, writer, cleared, edits>>
  <2>1. Lose => losses' \in 0..MaxLosses
    BY <1>2, CatalogueFacts DEF Lose
  <2>2. CASE ExtractionFails(u)
    BY <2>1, <2>2 DEF ExtractionFails, WriteChunk
  <2>3. CASE ChunkFails(u)
    BY <2>1, <2>3 DEF ChunkFails
  <2>4. CASE WriteChunk(u) /\ ~(Left(u) > 0)
    <3>1. Left(u) <= 0
      BY <1>3, <2>4
    <3> QED BY <1>2, <2>4, <3>1 DEF WriteChunk
  <2> QED BY <2>2, <2>3, <2>4
<1>1. upload[u].pc \in {"extract", "write"} /\ UNCHANGED <<item, writer, cleared, edits>>
  BY <1>9, <1>10
<1>4. upload' = [upload EXCEPT ![u] = new] /\ losses' \in 0..MaxLosses
  <2> HIDE DEF to
  <2> QED BY <1>2, <1>10 DEF Ask
<1>5. /\ new \in Begun /\ new.pc = to /\ new.list = upload[u].list
      /\ new.committed = upload[u].committed
  BY <1>2 DEF Begun
<1>6. to = "ok" => Len(new.list) <= new.committed * DbChunk
  BY <1>2, <1>3, <1>5, CatalogueFacts DEF Begun
<1>7. to = "502" => new.committed * DbChunk <= Len(new.list)
  <2>1. CASE upload[u].pc = "extract"
    <3>1. new.committed = 0 /\ Len(new.list) \in Nat
      BY <1>2, <1>5, <2>1 DEF UploadFits, Begun
    <3> QED BY <3>1, CatalogueFacts
  <2>2. CASE upload[u].pc = "write"
    <3>1. to = "502" => Left(u) > 0
      BY <2>2 DEF ExtractionFails, ChunkFails
    <3> QED BY <1>2, <1>3, <1>5, <3>1, CatalogueFacts DEF Begun
  <2> QED BY <1>1, <2>1, <2>2
<1>8. to \in {"ok", "502"}
  OBVIOUS
<1> HIDE DEF new, to
<1> QED BY <1>1, <1>2, <1>4, <1>5, <1>6, <1>7, <1>8, Saying

\* An edit of one item, which has to come with the mark of what it cleared.
LEMMA EditsOne ==
    ASSUME CatalogueInv, NEW s \in Skus, NEW new \in Item, Edit(s, new), cleared' \subseteq Skus,
           cleared \ {s} \subseteq cleared', Unpriced(new) \/ s \in cleared'
    PROVE  CatalogueInv'
<1>1. item \in [Skus -> {NoItem} \cup Item] /\ writer \in [Skus -> Uploads \cup {"edit"}] /\ PricesFit
  BY DEF CatalogueInv, CatalogueTypes
<1>2. /\ item' = [item EXCEPT ![s] = new] /\ writer' = [writer EXCEPT ![s] = "edit"]
      /\ edits < MaxEdits /\ edits' = edits + 1 /\ UNCHANGED <<upload, losses>>
  BY DEF Edit
<1>3. writer' = [t \in Skus |-> IF t \in {s} THEN "edit" ELSE writer[t]]
  BY <1>1, <1>2
<1>4. item' \in [Skus -> {NoItem} \cup Item]
  BY <1>1, <1>2
<1>5. item'[s] = new /\ \A t \in Skus \ {s} : item'[t] = item[t]
  BY <1>1, <1>2
<1>6. PricesFit'
  BY <1>1, <1>5 DEF PricesFit
<1>7. \E T \in SUBSET Skus : /\ writer' = [t \in Skus |-> IF t \in T THEN "edit" ELSE writer[t]]
                             /\ \A t \in Skus \ T : item'[t] = item[t]
  <2>1. {s} \in SUBSET Skus
    OBVIOUS
  <2> QED BY <1>3, <1>5, <2>1
<1> QED BY <1>2, <1>4, <1>6, <1>7, Editing

LEMMA Edits ==
    ASSUME CatalogueInv, NEW s \in Skus,
           \/ \E a \in 0..1, c \in {NoCurrency, "EUR"} : SetPrice(s, a, c)
           \/ item[s] # NoItem /\ SetPrice(s, NoAmount, item[s].currency)
           \/ \E c \in {NoCurrency, "EUR"} : SetCurrency(s, c)
           \/ \E on \in BOOLEAN : SetActive(s, on)
    PROVE  CatalogueInv'
<1>1. item[s] # NoItem
  BY DEF SetPrice, SetCurrency, SetActive
<1>2. item[s] \in Item /\ cleared \subseteq Skus /\ (Unpriced(item[s]) \/ s \in cleared)
  BY <1>1 DEF CatalogueInv, CatalogueTypes, PricesFit
<1>3. ASSUME NEW a \in 0..1, NEW c \in {NoCurrency, "EUR", "USD"}, SetPrice(s, a, c)
      PROVE  CatalogueInv'
  <2> DEFINE new == [item[s] EXCEPT !.amount = a, !.currency = c]
  <2>1. new \in Item /\ new.amount = a /\ new.currency = c
    <3>1. a \in 0..2
      OBVIOUS
    <3> QED BY <1>2, <3>1 DEF Item
  <2>2. /\ a # NoAmount => c # NoCurrency
        /\ Edit(s, new) /\ cleared' = cleared \ {s}
    BY <1>3 DEF SetPrice
  <2> HIDE DEF new
  <2>3. Unpriced(new)
    BY <2>1, <2>2 DEF Unpriced, Priced
  <2> QED BY <1>2, <2>1, <2>2, <2>3, EditsOne
<1>4. CASE \E a \in 0..1, c \in {NoCurrency, "EUR"} : SetPrice(s, a, c)
  BY <1>3, <1>4
<1>5. CASE SetPrice(s, NoAmount, item[s].currency)
  <2>1. NoAmount \in 0..1 /\ item[s].currency \in {NoCurrency, "EUR", "USD"}
    BY <1>2 DEF Item, NoAmount
  <2> QED BY <1>3, <1>5, <2>1
<1>6. CASE \E c \in {NoCurrency, "EUR"} : SetCurrency(s, c)
  <2>1. PICK c \in {NoCurrency, "EUR"} : SetCurrency(s, c)
    BY <1>6
  <2> DEFINE new == [item[s] EXCEPT !.currency = c]
  <2>2. new \in Item /\ new.currency = c /\ new.amount = item[s].amount
    BY <1>2 DEF Item
  <2>3. /\ Edit(s, new)
        /\ cleared' = IF c = NoCurrency /\ Priced(item[s]) THEN cleared \cup {s} ELSE cleared \ {s}
    BY <2>1 DEF SetCurrency
  <2> HIDE DEF new
  <2>4. Unpriced(new) \/ s \in cleared'
    BY <2>2, <2>3 DEF Unpriced, Priced
  <2>5. cleared' \subseteq Skus /\ cleared \ {s} \subseteq cleared'
    BY <1>2, <2>3
  <2> QED BY <2>2, <2>3, <2>4, <2>5, EditsOne
<1>7. CASE \E on \in BOOLEAN : SetActive(s, on)
  <2>1. PICK on \in BOOLEAN : SetActive(s, on)
    BY <1>7
  <2> DEFINE new == [item[s] EXCEPT !.active = on]
  <2>2. new \in Item /\ new.currency = item[s].currency /\ new.amount = item[s].amount
    BY <1>2 DEF Item
  <2>3. Edit(s, new) /\ cleared' = cleared
    BY <2>1 DEF SetActive
  <2> HIDE DEF new
  <2>4. Unpriced(new) \/ s \in cleared'
    BY <1>1, <1>2, <2>2, <2>3 DEF Unpriced, Priced
  <2> QED BY <1>2, <2>2, <2>3, <2>4, EditsOne
<1> QED BY <1>4, <1>5, <1>6, <1>7

LEMMA Adds ==
    ASSUME CatalogueInv, NEW b \in Batches, NEW i \in DOMAIN b, AddItem(b[i])
    PROVE  CatalogueInv'
<1>1. b[i] \in ValidRow
  BY CatalogueFacts
<1>2. b[i].sku \in Skus
  BY <1>1 DEF ValidRow, CatalogueRow
<1>3. Upserted(NoItem, b[i]) \in Item /\ Unpriced(Upserted(NoItem, b[i]))
  BY <1>1, Upserting DEF Unpriced
<1>4. Edit(b[i].sku, Upserted(NoItem, b[i])) /\ cleared' = cleared /\ cleared \subseteq Skus
  BY DEF AddItem, CatalogueInv, CatalogueTypes
<1> QED BY <1>2, <1>3, <1>4, EditsOne

LEMMA Renames ==
    ASSUME CatalogueInv, NEW s \in Skus, NEW t \in Skus, Rename(s, t)
    PROVE  CatalogueInv'
<1>1. /\ item \in [Skus -> {NoItem} \cup Item] /\ writer \in [Skus -> Uploads \cup {"edit"}]
      /\ PricesFit /\ cleared \subseteq Skus
  BY DEF CatalogueInv, CatalogueTypes
<1>2. /\ item[s] # NoItem /\ item[t] = NoItem /\ s # t
      /\ item' = [item EXCEPT ![s] = NoItem, ![t] = item[s]]
      /\ writer' = [writer EXCEPT ![s] = "edit", ![t] = "edit"]
      /\ cleared' = IF s \in cleared THEN (cleared \ {s}) \cup {t} ELSE cleared
      /\ edits < MaxEdits /\ edits' = edits + 1 /\ UNCHANGED <<upload, losses>>
  BY DEF Rename
<1>3. writer' = [r \in Skus |-> IF r \in {s, t} THEN "edit" ELSE writer[r]]
  BY <1>1, <1>2
<1>4. item' \in [Skus -> {NoItem} \cup Item]
  BY <1>1, <1>2
<1>5. item'[s] = NoItem /\ item'[t] = item[s] /\ \A r \in Skus \ {s, t} : item'[r] = item[r]
  BY <1>1, <1>2
<1>6. PricesFit' /\ cleared' \subseteq Skus
  BY <1>1, <1>2, <1>5 DEF PricesFit, Unpriced
<1>7. \E T \in SUBSET Skus : /\ writer' = [r \in Skus |-> IF r \in T THEN "edit" ELSE writer[r]]
                             /\ \A r \in Skus \ T : item'[r] = item[r]
  <2>1. {s, t} \in SUBSET Skus
    OBVIOUS
  <2> QED BY <1>3, <1>5, <2>1
<1> QED BY <1>2, <1>4, <1>6, <1>7, Editing

LEMMA CatalogueKeeps == CatalogueInv /\ [CatalogueNext]_catalogueVars => CatalogueInv'
<1> SUFFICES ASSUME CatalogueInv, [CatalogueNext]_catalogueVars PROVE CatalogueInv'
  OBVIOUS
<1>1. ASSUME NEW u \in Uploads, WriteChunk(u) PROVE CatalogueInv'
  BY <1>1, ChunkWritten, Answers
<1>2. CASE CatalogueNext
  BY <1>1, <1>2, Begins, Extracts, Answers, Adds, Edits, Renames DEF CatalogueNext
<1>3. CASE UNCHANGED catalogueVars
  BY <1>3 DEF catalogueVars, CatalogueInv, CatalogueTypes, PricesFit, UploadFits, Committed, Alone
<1> QED BY <1>2, <1>3

LEMMA CatalogueInductive == CatalogueSpec => []CatalogueInv
BY CatalogueStarts, CatalogueKeeps, PTL DEF CatalogueSpec

------------------------------------------------------------------------------
(* Catalogue: the theorems *)

\* Items have their types, and one with an amount lacks its currency only if an edit cleared
\* the currency alone: no upload, in whichever order its rows are written, makes such an item.
THEOREM CatalogueTypeCorrect == CatalogueSpec => []CatalogueTypeOK
<1>1. CatalogueInv => CatalogueTypeOK
  <2> SUFFICES ASSUME CatalogueInv PROVE CatalogueTypeOK
    OBVIOUS
  <2>1. CatalogueTypes /\ PricesFit
    BY DEF CatalogueInv
  <2>2. ASSUME NEW s \in Skus, item[s] # NoItem
        PROVE  /\ [sku |-> s, name |-> item[s].name, amount |-> item[s].amount,
                   currency |-> item[s].currency] \in CatalogueRow
               /\ item[s].currency = NoCurrency /\ Priced(item[s]) => s \in cleared
    <3>1. item[s] \in Item
      BY <2>1, <2>2 DEF CatalogueTypes
    <3> QED BY <2>1, <2>2, <3>1 DEF Item, CatalogueRow, PricesFit, Unpriced
  <2> QED BY <2>1, <2>2 DEF CatalogueTypes, CatalogueTypeOK
<1> QED BY <1>1, CatalogueInductive, PTL

\* An upload has written what it reports, all, nothing or the chunks it counts, and what nobody
\* wrote since is as uploaded: for any rows, also several of one SKU, any size of the chunks and
\* any order within them, beside other uploads and edits.
THEOREM UploadsReportTruth == CatalogueSpec => []UploadReportsTruth
<1>1. CatalogueInv => UploadReportsTruth
  <2> SUFFICES ASSUME CatalogueInv, NEW u \in Uploads, upload[u].pc \in {"ok", "502", "400"}
               PROVE  LET list == upload[u].list
                          told == IF upload[u].pc = "ok" THEN list
                                  ELSE SubSeq(list, 1, upload[u].committed * DbChunk)
                      IN  /\ \A s \in Skus : writer[s] = u => s \in SkusOf(told) /\ AsUploaded(s, told)
                          /\ (\A v \in Uploads : v # u => upload[v].pc = "new") /\ edits = 0
                                => \A s \in SkusOf(told) : writer[s] = u
    BY DEF UploadReportsTruth
  <2> DEFINE list == upload[u].list
             n == upload[u].committed * DbChunk
             told == IF upload[u].pc = "ok" THEN list ELSE SubSeq(list, 1, n)
  <2>1. UploadFits(u) /\ upload[u] \in Begun /\ upload[u].pc # "new"
    BY UploadTypes
  <2>2. list \in Seq(ValidRow) /\ n \in Nat
    BY <2>1, CatalogueFacts DEF Begun
  <2>3. DOMAIN told = Committed(u) /\ \A i \in Committed(u) : told[i] = list[i]
    <3>1. CASE upload[u].pc = "ok"
      <4>1. Len(list) <= n
        BY <2>1, <3>1 DEF UploadFits
      <4> QED BY <2>2, <3>1, <4>1 DEF Committed
    <3>2. CASE upload[u].pc # "ok"
      <4>1. n <= Len(list)
        BY <2>1, <3>2 DEF UploadFits
      <4>2. told = SubSeq(list, 1, n)
        BY <3>2
      <4> HIDE DEF told, n
      <4>3. DOMAIN SubSeq(list, 1, n) = 1..n /\ \A i \in 1..n : SubSeq(list, 1, n)[i] = list[i]
        <5>1. 0 + 1 = 1 /\ n - 0 = n /\ \A i \in 1..n : 0 + i = i
          BY <2>2
        <5> QED BY <2>2, <4>1, <5>1, Slice
      <4>4. Committed(u) = 1..n
        BY <2>2, <4>1 DEF Committed, n
      <4> QED BY <4>2, <4>3, <4>4
    <3> QED BY <3>1, <3>2
  <2> HIDE DEF told, n
  <2>4. ASSUME NEW s \in Skus, writer[s] = u PROVE s \in SkusOf(told) /\ AsUploaded(s, told)
    <3>1. PICK i \in Committed(u) : list[i].sku = s /\ Shows(item[s], list[i])
      BY <2>1, <2>4 DEF UploadFits
    <3> QED BY <2>3, <3>1 DEF SkusOf, AsUploaded, Shows
  <2>5. ASSUME \A v \in Uploads : v # u => upload[v].pc = "new", edits = 0, NEW s \in SkusOf(told)
        PROVE  writer[s] = u
    <3>1. Alone(u)
      BY <2>5 DEF Alone
    <3>2. PICK i \in Committed(u) : list[i].sku = s
      BY <2>3, <2>5 DEF SkusOf
    <3> QED BY <2>1, <3>1, <3>2 DEF UploadFits
  <2> QED BY <2>4, <2>5 DEF told, n
<1> QED BY <1>1, CatalogueInductive, PTL

------------------------------------------------------------------------------
(* Seeding *)

\* How far a host has come: it is in the catalogue, between owners, or the one that
\* registered the owner it is at and works on the owner's team and hires.
InCatalogue == {"catalogue", "create"}
AtTeam == {"password", "member", "insert", "hire"}
Team(h) == host[h].pc \in AtTeam
SeedPcs == InCatalogue \cup AtTeam \cup {"down", "done", "failed", "owner", "onboard"}

Kinds == {"admin", "user", "personality", "agent", "channel", "agentPrice", "channelPrice"}
CatalogueRows == [kind : Kinds, name : STRING]
OwnerSet == Elements(Owners)
MemberSet == UNION {Elements(MembersOf[o]) : o \in OwnerSet}

SeedTypes ==
    /\ copies \in [SeedRows -> Seq(Nat \ {0})]
    /\ users \subseteq OwnerSet \cup MemberSet /\ passwords \subseteq users
    /\ host \in [Hosts -> [pc : SeedPcs, at : Nat, k : Nat, copy : [Elements(SeedAgents) -> Nat]]]
    /\ boots \in 0..MaxBoots /\ breaks \in 0..MaxBreaks /\ cut \in BOOLEAN

\* Agents are numbered as they are added; prices are one per agent; what is unique is there once.
CopiesFit == \A r \in SeedRows :
    /\ \A i, j \in DOMAIN copies[r] : copies[r][i] = copies[r][j] => i = j
    /\ r.kind = "agent" => \A i \in DOMAIN copies[r] : copies[r][i] <= Len(copies[r])
    /\ r.kind \notin {"agent", "agentPrice"} => copies[r] \in {<<>>, <<1>>}

\* The rows a host has passed are there, and it goes by a copy of each agent it has passed.
RowsPassed(h, n) ==
    \A i \in DOMAIN Plan : i < n /\ Plan[i].kind # "user" =>
        /\ copies[Plan[i]] # <<>>
        /\ Plan[i].kind = "agent" => host[h].copy[Plan[i].name] > 0
OwnersPassed(n) == \A i \in DOMAIN Owners : i < n => Owners[i] \in users

HostFits(h) ==
    LET q == host[h] IN
    /\ q.pc \in InCatalogue => q.at \in 1 .. Len(Plan) + 1 /\ RowsPassed(h, q.at)
    /\ q.pc = "create" => q.at \in DOMAIN Plan /\ Plan[q.at].kind # "user"
    /\ q.pc \in {"owner", "onboard"} \cup AtTeam => CatalogueSeeded /\ OwnersPassed(q.at)
    /\ q.pc = "owner" => q.at \in 1 .. Len(Owners) + 1
    /\ q.pc = "onboard" => q.at \in DOMAIN Owners
    /\ q.pc \in AtTeam =>
         /\ q.at \in DOMAIN Owners
         /\ Current(h) \in users /\ <<Current(h), 0>> \in hired /\ q.k > 0
         /\ q.pc # "password" => Current(h) \in passwords
         /\ q.pc \in {"member", "insert"} => \A i \in DOMAIN MembersOf[Current(h)] :
              i < q.k => MembersOf[Current(h)][i] \in users
         /\ q.pc = "hire" =>
              /\ Elements(MembersOf[Current(h)]) \subseteq users
              /\ \A k \in 0 .. ExtraHires[Current(h)] : k < q.k => <<Current(h), k>> \in hired
    /\ q.pc = "insert" => q.k \in DOMAIN MembersOf[Current(h)]
    /\ q.pc = "done" => Owners[1] \in users

\* While no boot was cut: an owner is worked on by the one host that registered it, to whom
\* its team is left; and while owners are missing a host is on its way to them.
OneWorker == \A g, h \in Hosts : Team(g) /\ Team(h) /\ Current(g) = Current(h) => g = h
TeamLeft == \A h \in Hosts :
    host[h].pc = "insert" => MembersOf[Current(h)][host[h].k] \notin users
WorkedOn(o) == Seeded(o) \/ \E h \in Hosts : Team(h) /\ Current(h) = o
OnTheWay(h) ==
    \/ host[h].pc = "owner"
    \/ host[h].pc = "onboard" /\ Current(h) \notin users
    \/ Team(h)

Uncut ==
    /\ OneWorker /\ TeamLeft
    /\ \A o \in OwnerSet \cap users : WorkedOn(o)
    /\ users # {} /\ ~(OwnerSet \subseteq users) => \E h \in Hosts : OnTheWay(h)

SeedingInv ==
    /\ SeedTypes /\ CopiesFit /\ \A h \in Hosts : HostFits(h)
    /\ users # {} => CatalogueSeeded
    /\ ~cut => Uncut

------------------------------------------------------------------------------
(* The plan of a boot *)

LEMMA Concat ==
    ASSUME NEW S, NEW s \in Seq(S), NEW t \in Seq(S), NEW u, u = s \o t
    PROVE  /\ u \in Seq(S)
           /\ \A i \in DOMAIN u :
                \/ i \in DOMAIN s /\ u[i] = s[i]
                \/ i > Len(s) /\ \E j \in DOMAIN t : u[i] = t[j]
           /\ \A i \in DOMAIN s : i \in DOMAIN u /\ u[i] = s[i]
<1>1. \A i \in DOMAIN u :
        \/ i \in DOMAIN s
        \/ i > Len(s) /\ i - Len(s) \in DOMAIN t /\ u[i] = t[i - Len(s)]
  OBVIOUS
<1> QED BY <1>1

LEMMA ElementOf ==
    ASSUME NEW s, NEW e
    PROVE  e \in Elements(s) <=> \E i \in DOMAIN s : s[i] = e
  BY DEF Elements

RowsOfKind(list, kind, names) ==
    /\ list \in Seq(CatalogueRows) /\ DOMAIN list = DOMAIN names
    /\ \A i \in DOMAIN list : list[i] = [kind |-> kind, name |-> names[i]]

LEMMA RowsOf ==
    ASSUME NEW kind \in Kinds, NEW names \in Seq(STRING)
    PROVE  RowsOfKind(PlanRows(kind, names), kind, names)
<1>1. DOMAIN names = 1 .. Len(names) /\ Len(names) \in Nat /\ \A i \in DOMAIN names : names[i] \in STRING
  OBVIOUS
<1>2. PlanRows(kind, names) \in [1 .. Len(names) -> CatalogueRows]
  BY <1>1 DEF PlanRows, CatalogueRows
<1> QED BY <1>1, <1>2 DEF PlanRows, RowsOfKind

\* What comes before the prices in the plan, and the prices.
Wares ==
    PlanRows("admin", Admins) \o PlanRows("user", <<Owners[1]>>) \o PlanRows("personality", Personalities)
      \o PlanRows("agent", SeedAgents) \o PlanRows("channel", Channels)

OwnPricesLast(plan) ==
    /\ plan \in Seq(CatalogueRows)
    /\ \A i \in DOMAIN plan : plan[i].kind \in {"agent", "agentPrice"} => plan[i].name \in Elements(SeedAgents)

LEMMA WaresFacts ==
    /\ OwnPricesLast(Wares)
    /\ \A i \in DOMAIN Wares : Wares[i].kind # "agentPrice"
    /\ \A a \in Elements(SeedAgents) : \E i \in DOMAIN Wares : Wares[i] = [kind |-> "agent", name |-> a]
<1> DEFINE A == PlanRows("admin", Admins)
           U == PlanRows("user", <<Owners[1]>>)
           P == PlanRows("personality", Personalities)
           G == PlanRows("agent", SeedAgents)
           C == PlanRows("channel", Channels)
<1>0. /\ Admins \in Seq(STRING) /\ Personalities \in Seq(STRING) /\ SeedAgents \in Seq(STRING)
      /\ Channels \in Seq(STRING) /\ Owners \in Seq(STRING) /\ Owners # <<>>
  BY SeedingAssumption
<1>1. <<Owners[1]>> \in Seq(STRING)
  <2>1. Owners[1] \in STRING
    BY <1>0
  <2> QED BY <2>1
<1>2. /\ "admin" \in Kinds /\ "user" \in Kinds /\ "personality" \in Kinds
      /\ "agent" \in Kinds /\ "channel" \in Kinds
  BY DEF Kinds
<1>3. /\ RowsOfKind(A, "admin", Admins) /\ RowsOfKind(U, "user", <<Owners[1]>>)
      /\ RowsOfKind(P, "personality", Personalities)
      /\ RowsOfKind(G, "agent", SeedAgents) /\ RowsOfKind(C, "channel", Channels)
  BY <1>0, <1>1, <1>2, RowsOf
<1> DEFINE AU == A \o U
           AUP == AU \o P
           AUPG == AUP \o G
<1> HIDE DEF A, U, P, G, C
<1> HIDE DEF AU, AUP, AUPG
<1>4. AU \in Seq(CatalogueRows) /\ \A i \in DOMAIN AU : AU[i].kind \in {"admin", "user"}
  <2>1. /\ A \in Seq(CatalogueRows) /\ \A i \in DOMAIN A : A[i].kind = "admin"
        /\ U \in Seq(CatalogueRows) /\ \A i \in DOMAIN U : U[i].kind = "user"
    BY <1>3 DEF RowsOfKind
  <2>2. AU = A \o U
    BY DEF AU
  <2> QED BY <2>1, <2>2, Concat
<1>5. AUP \in Seq(CatalogueRows) /\ \A i \in DOMAIN AUP : AUP[i].kind \in {"admin", "user", "personality"}
  <2>1. P \in Seq(CatalogueRows) /\ \A i \in DOMAIN P : P[i].kind = "personality"
    BY <1>3 DEF RowsOfKind
  <2>2. AUP = AU \o P
    BY DEF AUP
  <2> QED BY <1>4, <2>1, <2>2, Concat
<1>6. /\ G \in Seq(CatalogueRows) /\ DOMAIN G = DOMAIN SeedAgents
      /\ \A i \in DOMAIN G : G[i] = [kind |-> "agent", name |-> SeedAgents[i]]
  BY <1>3 DEF RowsOfKind
<1>7. /\ AUPG \in Seq(CatalogueRows)
      /\ \A i \in DOMAIN AUPG : \/ AUPG[i].kind \in {"admin", "user", "personality"}
                                \/ \E j \in DOMAIN G : AUPG[i] = G[j]
  <2>1. AUPG = AUP \o G
    BY DEF AUPG
  <2>2. \A i \in DOMAIN AUPG : (i \in DOMAIN AUP /\ AUPG[i] = AUP[i]) \/ \E j \in DOMAIN G : AUPG[i] = G[j]
    BY <1>5, <1>6, <2>1, Concat
  <2> QED BY <1>5, <1>6, <2>1, <2>2, Concat
<1>8. \A j \in DOMAIN G : \E i \in DOMAIN AUPG : AUPG[i] = G[j]
  <2> SUFFICES ASSUME NEW j \in DOMAIN G PROVE \E i \in DOMAIN AUPG : AUPG[i] = G[j]
    OBVIOUS
  <2>1. Len(AUP) \in Nat /\ j \in Nat /\ j >= 1 /\ j <= Len(G) /\ Len(G) \in Nat
    BY <1>5, <1>6
  <2>2. Len(AUP) + j \in DOMAIN AUPG /\ AUPG[Len(AUP) + j] = G[j]
    BY <1>5, <1>6, <2>1 DEF AUPG
  <2> QED BY <2>2
<1>9. C \in Seq(CatalogueRows) /\ \A i \in DOMAIN C : C[i].kind = "channel"
  BY <1>3 DEF RowsOfKind
<1>10. Wares = AUPG \o C
  BY DEF Wares, AUPG, AUP, AU, A, U, P, G, C
<1>11. /\ Wares \in Seq(CatalogueRows)
       /\ \A i \in DOMAIN Wares : \/ i \in DOMAIN AUPG /\ Wares[i] = AUPG[i]
                                  \/ Wares[i].kind = "channel"
       /\ \A i \in DOMAIN AUPG : i \in DOMAIN Wares /\ Wares[i] = AUPG[i]
  BY <1>7, <1>9, <1>10, Concat
<1>12. ASSUME NEW i \in DOMAIN Wares
       PROVE  /\ Wares[i].kind # "agentPrice"
              /\ Wares[i].kind = "agent" => Wares[i].name \in Elements(SeedAgents)
  <2>1. CASE \E j \in DOMAIN G : Wares[i] = G[j]
    <3>1. PICK j \in DOMAIN SeedAgents : Wares[i] = [kind |-> "agent", name |-> SeedAgents[j]]
      BY <1>6, <2>1
    <3> QED BY <3>1, ElementOf
  <2>2. CASE Wares[i].kind \in {"admin", "user", "personality", "channel"}
    BY <2>2
  <2> QED BY <1>7, <1>11, <2>1, <2>2
<1>13. ASSUME NEW a \in Elements(SeedAgents)
       PROVE  \E i \in DOMAIN Wares : Wares[i] = [kind |-> "agent", name |-> a]
  <2>1. PICK j \in DOMAIN G : G[j] = [kind |-> "agent", name |-> a]
    BY <1>6, ElementOf
  <2>2. PICK i \in DOMAIN AUPG : AUPG[i] = G[j]
    BY <1>8
  <2> QED BY <1>11, <2>1, <2>2
<1> QED BY <1>11, <1>12, <1>13 DEF OwnPricesLast

\* The rows of a plan have their types, and an agent comes before its price.
LEMMA PlanFacts ==
    /\ Plan \in Seq(CatalogueRows) /\ Len(Plan) \in Nat /\ DOMAIN Plan = 1 .. Len(Plan)
    /\ \A i \in DOMAIN Plan :
         /\ Plan[i].kind \in {"agent", "agentPrice"} => Plan[i].name \in Elements(SeedAgents)
         /\ Plan[i].kind = "agentPrice" =>
              \E j \in DOMAIN Plan : j < i /\ Plan[j] = [kind |-> "agent", name |-> Plan[i].name]
<1> DEFINE Q == PlanRows("agentPrice", SeedAgents)
           R == PlanRows("channelPrice", Channels)
           WA == Wares \o Q
<1>0. SeedAgents \in Seq(STRING) /\ Channels \in Seq(STRING)
  BY SeedingAssumption
<1>1. "agentPrice" \in Kinds /\ "channelPrice" \in Kinds
  BY DEF Kinds
<1>2. RowsOfKind(Q, "agentPrice", SeedAgents) /\ RowsOfKind(R, "channelPrice", Channels)
  BY <1>0, <1>1, RowsOf
<1>3. Wares \in Seq(CatalogueRows)
  BY WaresFacts DEF OwnPricesLast
<1>4. Plan = WA \o R
  BY DEF Plan, Wares
<1> HIDE DEF Q, R
<1>5. /\ Q \in Seq(CatalogueRows)
      /\ \A i \in DOMAIN Q : Q[i].kind = "agentPrice" /\ Q[i].name \in Elements(SeedAgents)
      /\ R \in Seq(CatalogueRows) /\ \A i \in DOMAIN R : R[i].kind = "channelPrice"
  <2>1. /\ Q \in Seq(CatalogueRows) /\ DOMAIN Q = DOMAIN SeedAgents
        /\ \A i \in DOMAIN Q : Q[i] = [kind |-> "agentPrice", name |-> SeedAgents[i]]
    BY <1>2 DEF RowsOfKind
  <2>2. R \in Seq(CatalogueRows) /\ \A i \in DOMAIN R : R[i] = [kind |-> "channelPrice", name |-> Channels[i]]
    BY <1>2 DEF RowsOfKind
  <2>3. \A i \in DOMAIN Q : Q[i].kind = "agentPrice" /\ Q[i].name = SeedAgents[i]
    BY <2>1
  <2>4. \A i \in DOMAIN SeedAgents : SeedAgents[i] \in Elements(SeedAgents)
    BY ElementOf
  <2> QED BY <2>1, <2>2, <2>3, <2>4
<1> HIDE DEF WA
<1>6. /\ WA \in Seq(CatalogueRows)
      /\ \A i \in DOMAIN WA : \/ i \in DOMAIN Wares /\ WA[i] = Wares[i]
                              \/ i > Len(Wares) /\ \E j \in DOMAIN Q : WA[i] = Q[j]
      /\ \A i \in DOMAIN Wares : i \in DOMAIN WA /\ WA[i] = Wares[i]
  <2>1. WA = Wares \o Q
    BY DEF WA
  <2> QED BY <1>3, <1>5, <2>1, Concat
<1>7. /\ Plan \in Seq(CatalogueRows)
      /\ \A i \in DOMAIN Plan : \/ i \in DOMAIN WA /\ Plan[i] = WA[i]
                                \/ \E j \in DOMAIN R : Plan[i] = R[j]
      /\ \A i \in DOMAIN WA : i \in DOMAIN Plan /\ Plan[i] = WA[i]
  BY <1>4, <1>5, <1>6, Concat
<1>8. DOMAIN Plan = 1 .. Len(Plan) /\ Len(Plan) \in Nat /\ DOMAIN Wares = 1 .. Len(Wares) /\ Len(Wares) \in Nat
  BY <1>3, <1>7
<1>9. ASSUME NEW i \in DOMAIN Plan, Plan[i].kind \in {"agent", "agentPrice"}
      PROVE  /\ Plan[i].name \in Elements(SeedAgents)
             /\ Plan[i].kind = "agentPrice" => i > Len(Wares)
  <2>1. i \in DOMAIN WA /\ Plan[i] = WA[i]
    BY <1>5, <1>7, <1>9
  <2>2. CASE i \in DOMAIN Wares /\ WA[i] = Wares[i]
    BY <1>9, <2>1, <2>2, WaresFacts DEF OwnPricesLast
  <2>3. CASE i > Len(Wares) /\ \E j \in DOMAIN Q : WA[i] = Q[j]
    BY <1>5, <2>1, <2>3
  <2> QED BY <1>6, <2>1, <2>2, <2>3
<1>10. ASSUME NEW i \in DOMAIN Plan, Plan[i].kind = "agentPrice"
       PROVE  \E j \in DOMAIN Plan : j < i /\ Plan[j] = [kind |-> "agent", name |-> Plan[i].name]
  <2>1. i > Len(Wares) /\ Plan[i].name \in Elements(SeedAgents)
    BY <1>9, <1>10
  <2>2. PICK j \in DOMAIN Wares : Wares[j] = [kind |-> "agent", name |-> Plan[i].name]
    BY <2>1, WaresFacts
  <2>3. j \in DOMAIN Plan /\ Plan[j] = Wares[j] /\ j < i
    BY <1>6, <1>7, <1>8, <2>1
  <2> QED BY <2>2, <2>3
<1> QED BY <1>7, <1>8, <1>9, <1>10

------------------------------------------------------------------------------
(* Steps *)

HostType == [pc : SeedPcs, at : Nat, k : Nat, copy : [Elements(SeedAgents) -> Nat]]

LEMMA Went ==
    ASSUME SeedTypes, NEW h \in Hosts, NEW pc \in SeedPcs, NEW at \in Nat, NEW k \in Nat, GoOn(h, pc, at, k)
    PROVE  /\ host' \in [Hosts -> HostType]
           /\ host'[h].pc = pc /\ host'[h].at = at /\ host'[h].k = k /\ host'[h].copy = host[h].copy
           /\ \A g \in Hosts \ {h} : host'[g] = host[g]
<1>1. host \in [Hosts -> HostType]
  BY DEF SeedTypes, HostType
<1> QED BY <1>1 DEF GoOn, HostType

LEMMA RowIn ==
    ASSUME NEW i \in DOMAIN Plan, Plan[i].kind # "user"
    PROVE  Plan[i] \in SeedRows
  BY ElementOf DEF SeedRows

LEMMA OwnerFacts ==
    /\ Len(Owners) \in Nat /\ DOMAIN Owners = 1 .. Len(Owners) /\ 1 \in DOMAIN Owners
    /\ \A i \in DOMAIN Owners : Owners[i] \in OwnerSet
    /\ \A o \in OwnerSet : /\ \E i \in DOMAIN Owners : Owners[i] = o
                           /\ MembersOf[o] \in Seq(STRING) /\ ExtraHires[o] \in Nat
                           /\ Elements(MembersOf[o]) \subseteq MemberSet
    /\ OwnerSet \cap MemberSet = {}
<1>1. Owners \in Seq(STRING) /\ Owners # <<>>
  BY SeedingAssumption
<1>2. \A i \in DOMAIN Owners : Owners[i] \in OwnerSet
  BY ElementOf DEF OwnerSet
<1>3. \A o \in OwnerSet : \E i \in DOMAIN Owners : Owners[i] = o
  BY ElementOf DEF OwnerSet
<1>4. \A o \in OwnerSet : MembersOf[o] \in Seq(STRING) /\ ExtraHires[o] \in Nat
  BY SeedingAssumption DEF OwnerSet
<1>5. OwnerSet \cap MemberSet = {}
  BY SeedingAssumption DEF OwnerSet, MemberSet
<1>6. \A o \in OwnerSet : Elements(MembersOf[o]) \subseteq MemberSet
  BY DEF MemberSet
<1> QED BY <1>1, <1>2, <1>3, <1>4, <1>5, <1>6

\* What a step may do to the rows others rely on.
Grown ==
    /\ \A r \in SeedRows : copies[r] # <<>> => copies'[r] # <<>>
    /\ users \subseteq users' /\ passwords \subseteq passwords' /\ hired \subseteq hired'
    /\ CatalogueSeeded => CatalogueSeeded'

LEMMA OthersFit ==
    ASSUME Grown, NEW g \in Hosts, host'[g] = host[g], HostFits(g)
    PROVE  HostFits(g)'
<1>3. Current(g)' = Current(g)
  BY DEF Current
<1>4. host[g].pc \in InCatalogue => RowsPassed(g, host[g].at)'
  <2> SUFFICES ASSUME host[g].pc \in InCatalogue PROVE RowsPassed(g, host[g].at)'
    OBVIOUS
  <2>1. RowsPassed(g, host[g].at)
    BY DEF HostFits
  <2> QED BY <2>1, RowIn DEF Grown, RowsPassed
<1>5. host[g].pc \in {"owner", "onboard"} \cup AtTeam => CatalogueSeeded' /\ OwnersPassed(host[g].at)'
  BY DEF HostFits, Grown, OwnersPassed
<1> QED BY <1>3, <1>4, <1>5 DEF HostFits, Grown

\* A step of h that adds no user.
Keeps(h) ==
    /\ ~cut
    /\ Team(h)' => Team(h) /\ Current(h)' = Current(h)
    /\ host'[h].pc = "insert" => MembersOf[Current(h)'][host'[h].k] \notin users
    /\ \A o \in OwnerSet : Team(h) /\ Current(h) = o => Team(h)' \/ Seeded(o)'
    /\ OnTheWay(h) => OnTheWay(h)' \/ OwnerSet \subseteq users

LEMMA SeededStays ==
    ASSUME Grown, NEW o, Seeded(o)
    PROVE  Seeded(o)'
  BY DEF Grown, Seeded

LEMMA UncutKept ==
    ASSUME SeedingInv, Grown, NEW h \in Hosts, \A g \in Hosts \ {h} : host'[g] = host[g],
           users' = users, Keeps(h)
    PROVE  Uncut'
<1>0. Uncut
  BY DEF SeedingInv, Keeps
<1>1. \A g \in Hosts \ {h} : /\ Team(g)' <=> Team(g)
                             /\ Current(g)' = Current(g)
                             /\ OnTheWay(g)' <=> OnTheWay(g)
  BY DEF Team, Current, OnTheWay
<1>2. \A g \in Hosts : Team(g)' => Team(g) /\ Current(g)' = Current(g)
  BY <1>1 DEF Keeps
<1>3. OneWorker'
  BY <1>0, <1>2 DEF Uncut, OneWorker
<1>4. TeamLeft'
  BY <1>0, <1>1 DEF Uncut, TeamLeft, Keeps
<1>5. ASSUME NEW o \in OwnerSet \cap users PROVE WorkedOn(o)'
  <2>1. CASE Seeded(o)
    BY <2>1, SeededStays DEF WorkedOn
  <2>2. CASE \E g \in Hosts : Team(g) /\ Current(g) = o
    <3>1. PICK g \in Hosts : Team(g) /\ Current(g) = o
      BY <2>2
    <3>2. CASE Team(g)'
      BY <1>2, <3>1, <3>2 DEF WorkedOn
    <3>3. CASE ~Team(g)'
      BY <1>1, <3>1, <3>3 DEF Keeps, WorkedOn
    <3> QED BY <3>2, <3>3
  <2> QED BY <1>0, <2>1, <2>2 DEF Uncut, WorkedOn
<1>6. users # {} /\ ~(OwnerSet \subseteq users) => \E g \in Hosts : OnTheWay(g)'
  <2> SUFFICES ASSUME users # {}, ~(OwnerSet \subseteq users) PROVE \E g \in Hosts : OnTheWay(g)'
    OBVIOUS
  <2>1. PICK g \in Hosts : OnTheWay(g)
    BY <1>0 DEF Uncut
  <2> QED BY <1>1, <2>1 DEF Keeps
<1>7. \A o \in OwnerSet \cap users' : WorkedOn(o)'
  BY <1>5
<1>8. users' # {} /\ ~(OwnerSet \subseteq users') => \E g \in Hosts : OnTheWay(g)'
  BY <1>6
<1> QED BY <1>3, <1>4, <1>7, <1>8 DEF Uncut

LEMMA StepKeeps ==
    ASSUME SeedingInv, Grown, NEW h \in Hosts, \A g \in Hosts \ {h} : host'[g] = host[g],
           users' = users, ~cut' => Keeps(h), SeedTypes', CopiesFit', HostFits(h)'
    PROVE  SeedingInv'
<1>1. \A g \in Hosts : HostFits(g)'
  BY OthersFit DEF SeedingInv
<1>2. users' # {} => CatalogueSeeded'
  BY DEF SeedingInv, Grown
<1>3. ~cut' => Uncut'
  BY UncutKept
<1> QED BY <1>1, <1>2, <1>3 DEF SeedingInv

LEMMA HostTyped ==
    ASSUME SeedTypes, NEW h \in Hosts
    PROVE  host \in [Hosts -> HostType] /\ host[h] \in HostType
  BY DEF SeedTypes, HostType

LEMMA HostBoots ==
    ASSUME SeedingInv, NEW h \in Hosts, Boot(h)
    PROVE  SeedingInv'
<1>1. SeedTypes
  BY DEF SeedingInv
<1>2. /\ host' \in [Hosts -> HostType]
      /\ host'[h].pc = "catalogue" /\ host'[h].at = 1
      /\ \A g \in Hosts \ {h} : host'[g] = host[g]
  BY <1>1, Went DEF Boot, SeedPcs, InCatalogue
<1>3. UNCHANGED <<copies, users, passwords, hired, breaks, cut>> /\ boots' \in 0 .. MaxBoots
  BY <1>1, SeedingAssumption DEF Boot, SeedTypes
<1>4. SeedTypes'
  BY <1>1, <1>2, <1>3 DEF SeedTypes, HostType
<1>5. CopiesFit' /\ Grown
  BY <1>3 DEF SeedingInv, CopiesFit, Grown, CatalogueSeeded
<1>6. RowsPassed(h, host[h].at)'
  BY <1>2, PlanFacts DEF RowsPassed
<1>7. HostFits(h)'
  BY <1>2, <1>6, PlanFacts DEF HostFits, InCatalogue, AtTeam
<1>8. host[h].pc \in {"down", "done", "failed"}
  BY DEF Boot, Booting
<1>9. ~cut' => Keeps(h)
  BY <1>2, <1>3, <1>8 DEF Keeps, Team, AtTeam, OnTheWay
<1> QED BY <1>2, <1>3, <1>4, <1>5, <1>7, <1>9, StepKeeps

LEMMA CatalogueDone ==
    ASSUME CopiesFit, NEW h \in Hosts, RowsPassed(h, Len(Plan) + 1)
    PROVE  CatalogueSeeded
<1> SUFFICES ASSUME NEW r \in SeedRows
             PROVE  copies[r] # <<>> /\ (r.kind \notin {"agent", "agentPrice"} => copies[r] = <<1>>)
  BY DEF CatalogueSeeded
<1>1. PICK i \in DOMAIN Plan : Plan[i] = r
  BY ElementOf DEF SeedRows
<1>2. i < Len(Plan) + 1 /\ Plan[i].kind # "user"
  BY <1>1, PlanFacts DEF SeedRows
<1> QED BY <1>1, <1>2 DEF CopiesFit, RowsPassed

\* A host finds a row or goes on to create it.
LEMMA FindsRow ==
    ASSUME SeedingInv, NEW h \in Hosts, FindRow(h)
    PROVE  SeedingInv'
<1> DEFINE i == host[h].at  row == Plan[i]
<1>1. SeedTypes /\ CopiesFit /\ HostFits(h) /\ host[h] \in HostType /\ host \in [Hosts -> HostType]
  BY HostTyped DEF SeedingInv
<1>2. host[h].pc = "catalogue" /\ i \in 1 .. Len(Plan) + 1 /\ RowsPassed(h, i) /\ Len(Plan) \in Nat
  BY <1>1, PlanFacts DEF FindRow, HostFits, InCatalogue
<1>3. UNCHANGED <<copies, users, passwords, hired, boots, breaks, cut>>
  BY DEF FindRow
<1>4. CopiesFit' /\ Grown
  BY <1>1, <1>3 DEF CopiesFit, Grown, CatalogueSeeded
<1>5. /\ host' \in [Hosts -> HostType] /\ \A g \in Hosts \ {h} : host'[g] = host[g]
      /\ host'[h].pc \in {"owner", "catalogue", "create", "done", "failed"} /\ HostFits(h)'
  <2>1. CASE i > Len(Plan)
    <3>1. GoOn(h, "owner", 1, 0)
      BY <2>1 DEF FindRow
    <3>2. /\ host' \in [Hosts -> HostType] /\ \A g \in Hosts \ {h} : host'[g] = host[g]
          /\ host'[h].pc = "owner" /\ host'[h].at = 1
      BY <1>1, <3>1, Went DEF SeedPcs
    <3>3. CatalogueSeeded
      <4>1. i = Len(Plan) + 1
        BY <1>2, <2>1
      <4> QED BY <1>1, <1>2, <4>1, CatalogueDone
    <3>4. CatalogueSeeded' /\ OwnersPassed(host[h].at)'
      BY <1>3, <3>2, <3>3, OwnerFacts DEF CatalogueSeeded, OwnersPassed
    <3> QED BY <3>2, <3>4, OwnerFacts DEF HostFits, InCatalogue, AtTeam
  <2>2. CASE i <= Len(Plan)
    <3>0. /\ i \in DOMAIN Plan /\ i + 1 \in 1 .. Len(Plan) + 1 /\ i \in Nat /\ i + 1 \in Nat
          /\ \A j \in DOMAIN Plan : j < i + 1 => j < i \/ j = i
      BY <1>2, <2>2, PlanFacts
    <3>1. CASE row.kind = "user"
      <4>1. PICK pc \in {"catalogue", "done", "failed"} :
              /\ GoOn(h, pc, IF pc = "catalogue" THEN i + 1 ELSE i, 0)
              /\ pc # "catalogue" => Owners[1] \in users
        BY <2>2, <3>0, <3>1 DEF FindRow
      <4>2. /\ host' \in [Hosts -> HostType] /\ \A g \in Hosts \ {h} : host'[g] = host[g]
            /\ host'[h].pc = pc /\ host'[h].copy = host[h].copy
            /\ pc = "catalogue" => host'[h].at = i + 1
        BY <1>1, <3>0, <4>1, Went DEF SeedPcs, InCatalogue
      <4>3. pc = "catalogue" => RowsPassed(h, host[h].at)'
        BY <1>2, <1>3, <3>0, <3>1, <4>2 DEF RowsPassed
      <4>4. pc # "catalogue" => Owners[1] \in users'
        BY <1>3, <4>1
      <4> QED BY <3>0, <4>2, <4>3, <4>4 DEF HostFits, InCatalogue, AtTeam
    <3>2. CASE row.kind # "user" /\ GoOn(h, "create", i, 0)
      <4>1. /\ host' \in [Hosts -> HostType] /\ \A g \in Hosts \ {h} : host'[g] = host[g]
            /\ host'[h].pc = "create" /\ host'[h].at = i /\ host'[h].copy = host[h].copy
        BY <1>1, <3>0, <3>2, Went DEF SeedPcs, InCatalogue
      <4>2. RowsPassed(h, host[h].at)'
        BY <1>2, <1>3, <4>1 DEF RowsPassed
      <4> QED BY <1>2, <3>0, <3>2, <4>1, <4>2 DEF HostFits, InCatalogue, AtTeam
    <3>3. CASE /\ row.kind = "agent" /\ copies[row] # <<>>
               /\ host' = [host EXCEPT ![h].at = i + 1, ![h].copy[row.name] = 1]
      <4>1. row.name \in Elements(SeedAgents)
        BY <3>0, <3>3, PlanFacts
      <4>2. host[h].copy \in [Elements(SeedAgents) -> Nat]
        BY <1>1 DEF HostType
      <4>3. /\ host'[h] = [host[h] EXCEPT !.at = i + 1, !.copy = [host[h].copy EXCEPT ![row.name] = 1]]
            /\ \A g \in Hosts \ {h} : host'[g] = host[g]
            /\ host' \in [Hosts -> HostType]
        BY <1>1, <3>0, <3>3, <4>1, <4>2 DEF HostType
      <4>4. host'[h].pc = "catalogue" /\ host'[h].at = i + 1 /\ host'[h].copy = [host[h].copy EXCEPT ![row.name] = 1]
        BY <1>1, <1>2, <4>3 DEF HostType
      <4>5. \A a \in Elements(SeedAgents) : host[h].copy[a] > 0 \/ a = row.name => host'[h].copy[a] > 0
        BY <4>1, <4>2, <4>4
      <4>6. RowsPassed(h, host[h].at)'
        <5> SUFFICES ASSUME NEW j \in DOMAIN Plan, j < i + 1, Plan[j].kind # "user"
                     PROVE  /\ copies'[Plan[j]] # <<>>
                            /\ Plan[j].kind = "agent" => host'[h].copy[Plan[j].name] > 0
          BY <4>4 DEF RowsPassed
        <5>1. Plan[j].kind = "agent" => Plan[j].name \in Elements(SeedAgents)
          BY PlanFacts
        <5> QED BY <1>2, <1>3, <3>0, <3>3, <4>5, <5>1 DEF RowsPassed
      <4> QED BY <3>0, <4>3, <4>4, <4>6 DEF HostFits, InCatalogue, AtTeam
    <3>4. CASE /\ row.kind \notin {"user", "agent"} /\ New(h, row) \in Elements(copies[row])
               /\ GoOn(h, "catalogue", i + 1, 0)
      <4>1. /\ host' \in [Hosts -> HostType] /\ \A g \in Hosts \ {h} : host'[g] = host[g]
            /\ host'[h].pc = "catalogue" /\ host'[h].at = i + 1 /\ host'[h].copy = host[h].copy
        BY <1>1, <3>0, <3>4, Went DEF SeedPcs, InCatalogue
      <4>2. copies[row] # <<>>
        BY <3>4, ElementOf
      <4>3. RowsPassed(h, host[h].at)'
        BY <1>2, <1>3, <3>0, <3>4, <4>1, <4>2 DEF RowsPassed
      <4> QED BY <3>0, <4>1, <4>3 DEF HostFits, InCatalogue, AtTeam
    <3> QED BY <1>2, <2>2, <3>1, <3>2, <3>3, <3>4 DEF FindRow
  <2> QED BY <1>2, <2>1, <2>2
<1>6. SeedTypes'
  BY <1>1, <1>3, <1>5 DEF SeedTypes, HostType
<1>7. ~cut' => Keeps(h)
  BY <1>2, <1>3, <1>5 DEF Keeps, Team, AtTeam, OnTheWay
<1> QED BY <1>3, <1>4, <1>5, <1>6, <1>7, StepKeeps

\* What a host is about to add to a row.
LEMMA NewRow ==
    ASSUME SeedTypes, CopiesFit, NEW h \in Hosts, host[h].pc = "create", HostFits(h)
    PROVE  LET row == Plan[host[h].at] IN
           /\ row \in SeedRows /\ copies[row] \in Seq(Nat \ {0}) /\ New(h, row) \in Nat \ {0}
           /\ row.kind \notin {"agent", "agentPrice"} => New(h, row) = 1
           /\ row.kind = "agent" => New(h, row) = 1 + Len(copies[row]) /\ row.name \in Elements(SeedAgents)
<1> DEFINE i == host[h].at  row == Plan[i]
<1>1. i \in DOMAIN Plan /\ row.kind # "user" /\ RowsPassed(h, i) /\ host[h] \in HostType
  BY HostTyped DEF HostFits, InCatalogue
<1>2. row \in SeedRows /\ copies[row] \in Seq(Nat \ {0}) /\ Len(copies[row]) \in Nat
  BY <1>1, RowIn DEF SeedTypes
<1>3. CASE row.kind = "agent"
  <2>1. New(h, row) = 1 + Len(copies[row])
    BY <1>3 DEF New
  <2>2. row.name \in Elements(SeedAgents)
    BY <1>1, <1>3, PlanFacts
  <2>3. 1 + Len(copies[row]) \in Nat \ {0}
    BY <1>2
  <2> QED BY <1>2, <1>3, <2>1, <2>2, <2>3
<1>4. CASE row.kind = "agentPrice"
  <2>1. PICK j \in DOMAIN Plan : j < i /\ Plan[j] = [kind |-> "agent", name |-> row.name]
    BY <1>1, <1>4, PlanFacts
  <2>2. Plan[j].kind = "agent" /\ Plan[j].name = row.name
    BY <2>1
  <2>3. host[h].copy[row.name] > 0
    BY <1>1, <2>1, <2>2 DEF RowsPassed
  <2>4. row.name \in Elements(SeedAgents) /\ host[h].copy \in [Elements(SeedAgents) -> Nat]
    BY <1>1, <1>4, PlanFacts DEF HostType
  <2>5. New(h, row) = host[h].copy[row.name]
    BY <1>4 DEF New
  <2>6. host[h].copy[row.name] \in Nat \ {0}
    BY <2>3, <2>4
  <2> QED BY <1>2, <1>4, <2>5, <2>6
<1>5. CASE row.kind \notin {"agent", "agentPrice"}
  BY <1>2, <1>5 DEF New
<1> QED BY <1>3, <1>4, <1>5

\* A row grows by a number it has not.
LEMMA RowGrows ==
    ASSUME SeedTypes, CopiesFit, NEW h \in Hosts, host[h].pc = "create", HostFits(h),
           LET row == Plan[host[h].at] IN
             ~Taken(h, row) /\ copies' = [copies EXCEPT ![row] = Append(@, New(h, row))],
           users' = users, passwords' = passwords, hired' = hired
    PROVE  /\ copies' \in [SeedRows -> Seq(Nat \ {0})] /\ CopiesFit' /\ Grown
           /\ copies'[Plan[host[h].at]] # <<>>
<1> DEFINE row == Plan[host[h].at]  new == New(h, row)
<1>1. /\ row \in SeedRows /\ copies[row] \in Seq(Nat \ {0}) /\ new \in Nat \ {0}
      /\ row.kind \notin {"agent", "agentPrice"} => new = 1
      /\ row.kind = "agent" => new = 1 + Len(copies[row])
  BY NewRow
<1>2. copies' = [copies EXCEPT ![row] = Append(copies[row], new)] /\ copies \in [SeedRows -> Seq(Nat \ {0})]
  BY DEF SeedTypes
<1>3. \A j \in DOMAIN copies[row] : copies[row][j] # new
  BY ElementOf DEF Taken
<1> HIDE DEF row, new
<1> DEFINE grown == Append(copies[row], new)
<1>4. /\ grown \in Seq(Nat \ {0}) /\ Len(copies[row]) \in Nat /\ Len(grown) = Len(copies[row]) + 1
      /\ DOMAIN copies[row] = 1 .. Len(copies[row]) /\ DOMAIN grown = 1 .. Len(copies[row]) + 1
      /\ \A j \in DOMAIN copies[row] : grown[j] = copies[row][j]
      /\ grown[Len(copies[row]) + 1] = new
  BY <1>1
<1>5. /\ copies'[row] = grown /\ \A r \in SeedRows \ {row} : copies'[r] = copies[r]
      /\ copies' \in [SeedRows -> Seq(Nat \ {0})]
  BY <1>1, <1>2, <1>4
<1> HIDE DEF grown
<1>6. \A i, j \in DOMAIN grown : grown[i] = grown[j] => i = j
  <2>1. \A i, j \in DOMAIN copies[row] : copies[row][i] = copies[row][j] => i = j
    BY <1>1 DEF CopiesFit
  <2>2. \A i \in DOMAIN grown : i \in DOMAIN copies[row] \/ i = Len(copies[row]) + 1
    BY <1>4
  <2> QED BY <1>3, <1>4, <2>1, <2>2
<1>7. row.kind = "agent" => \A i \in DOMAIN grown : grown[i] <= Len(grown)
  <2> SUFFICES ASSUME row.kind = "agent", NEW i \in DOMAIN grown PROVE grown[i] <= Len(grown)
    OBVIOUS
  <2>1. CASE i \in DOMAIN copies[row]
    <3>1. copies[row][i] <= Len(copies[row]) /\ copies[row][i] \in Nat
      BY <1>1, <2>1 DEF CopiesFit
    <3> QED BY <1>4, <2>1, <3>1
  <2>2. CASE i = Len(copies[row]) + 1
    BY <1>1, <1>4, <2>2
  <2> QED BY <1>4, <2>1, <2>2
<1>8. row.kind \notin {"agent", "agentPrice"} => copies[row] = <<>> /\ grown = <<1>>
  <2> SUFFICES ASSUME row.kind \notin {"agent", "agentPrice"} PROVE copies[row] = <<>> /\ grown = <<1>>
    OBVIOUS
  <2>1. copies[row] \in {<<>>, <<1>>} /\ new = 1
    BY <1>1 DEF CopiesFit
  <2>2. copies[row] # <<1>>
    <3> SUFFICES copies[row] = <<1>> => FALSE
      OBVIOUS
    <3> HAVE copies[row] = <<1>>
    <3>1. 1 \in DOMAIN copies[row] /\ copies[row][1] = 1
      OBVIOUS
    <3> QED BY <1>3, <2>1, <3>1
  <2>3. copies[row] = <<>>
    BY <2>1, <2>2
  <2>4. Append(<<>>, 1) = <<1>>
    OBVIOUS
  <2>5. grown = Append(<<>>, 1)
    BY <2>1, <2>3 DEF grown
  <2> QED BY <2>3, <2>4, <2>5
<1>9. CopiesFit'
  <2> SUFFICES ASSUME NEW r \in SeedRows
               PROVE  /\ \A i, j \in DOMAIN copies'[r] : copies'[r][i] = copies'[r][j] => i = j
                      /\ r.kind = "agent" => \A i \in DOMAIN copies'[r] : copies'[r][i] <= Len(copies'[r])
                      /\ r.kind \notin {"agent", "agentPrice"} => copies'[r] \in {<<>>, <<1>>}
    BY DEF CopiesFit
  <2>1. CASE r = row
    BY <1>5, <1>6, <1>7, <1>8, <2>1
  <2>2. CASE r # row
    <3>1. copies'[r] = copies[r]
      BY <1>5, <2>2
    <3>2. /\ \A i, j \in DOMAIN copies[r] : copies[r][i] = copies[r][j] => i = j
          /\ r.kind = "agent" => \A i \in DOMAIN copies[r] : copies[r][i] <= Len(copies[r])
          /\ r.kind \notin {"agent", "agentPrice"} => copies[r] \in {<<>>, <<1>>}
      BY Zenon DEF CopiesFit
    <3> QED BY <3>1, <3>2, Zenon
  <2> QED BY <2>1, <2>2
<1>10. grown # <<>>
  BY <1>4
<1>11. Grown
  <2>1. \A r \in SeedRows : copies[r] # <<>> => copies'[r] # <<>>
    BY <1>5, <1>10
  <2>2. CatalogueSeeded => CatalogueSeeded'
    BY <1>5, <1>8, <1>10 DEF CatalogueSeeded
  <2> QED BY <2>1, <2>2 DEF Grown
<1>12. copies'[row] # <<>>
  BY <1>5, <1>10
<1> QED BY <1>5, <1>9, <1>11, <1>12 DEF row

LEMMA CreatesRow ==
    ASSUME SeedingInv, NEW h \in Hosts, CreateRow(h)
    PROVE  SeedingInv'
<1> DEFINE i == host[h].at  row == Plan[i]
<1>1. SeedTypes /\ CopiesFit /\ HostFits(h) /\ host[h] \in HostType /\ host \in [Hosts -> HostType]
  BY HostTyped DEF SeedingInv
<1>2. /\ host[h].pc = "create" /\ i \in DOMAIN Plan /\ row.kind # "user" /\ RowsPassed(h, i)
      /\ i \in 1 .. Len(Plan) + 1 /\ i + 1 \in 1 .. Len(Plan) + 1 /\ i + 1 \in Nat /\ row \in SeedRows
  BY <1>1, PlanFacts, RowIn DEF CreateRow, HostFits, InCatalogue
<1>3. UNCHANGED <<users, passwords, hired, boots, breaks, cut>>
  BY DEF CreateRow
<1>4. \A j \in DOMAIN Plan : j < i + 1 => j < i \/ j = i
  BY <1>2, PlanFacts
<1>5. /\ host' \in [Hosts -> HostType] /\ \A g \in Hosts \ {h} : host'[g] = host[g]
      /\ host'[h].pc \in {"catalogue", "failed"} /\ HostFits(h)'
      /\ copies' \in [SeedRows -> Seq(Nat \ {0})] /\ CopiesFit' /\ Grown
  <2>1. CASE Taken(h, row)
    <3>1. UNCHANGED copies
      BY <2>1 DEF CreateRow
    <3>2. PICK pc \in {"catalogue", "failed"} : GoOn(h, pc, IF pc = "catalogue" THEN i + 1 ELSE i, 0)
      BY <2>1 DEF CreateRow
    <3>3. i \in Nat
      BY <1>2, PlanFacts
    <3>4. /\ host' \in [Hosts -> HostType] /\ \A g \in Hosts \ {h} : host'[g] = host[g]
          /\ host'[h].pc = pc /\ host'[h].copy = host[h].copy
          /\ pc = "catalogue" => host'[h].at = i + 1
      <4>1. CASE pc = "catalogue"
        BY <1>1, <1>2, <3>2, <4>1, Went DEF SeedPcs, InCatalogue
      <4>2. CASE pc = "failed"
        BY <1>1, <3>2, <3>3, <4>2, Went DEF SeedPcs, InCatalogue
      <4> QED BY <4>1, <4>2
    <3>5. CopiesFit' /\ Grown /\ copies' \in [SeedRows -> Seq(Nat \ {0})]
      BY <1>1, <1>3, <3>1 DEF CopiesFit, Grown, CatalogueSeeded, SeedTypes
    <3>6. pc = "catalogue" => RowsPassed(h, host[h].at)'
      <4> SUFFICES ASSUME pc = "catalogue" PROVE RowsPassed(h, host[h].at)'
        OBVIOUS
      <4>1. row.kind = "channel" /\ copies[row] # <<>>
        <5>1. copies[row] # <<>>
          BY <2>1, ElementOf DEF Taken
        <5>2. row.kind # "channel" => GoOn(h, "failed", i, 0)
          BY <2>1 DEF CreateRow
        <5>3. row.kind # "channel" => host'[h].pc = "failed"
          BY <1>1, <3>3, <5>2, Went DEF SeedPcs
        <5> QED BY <3>4, <5>1, <5>3
      <4> QED BY <1>2, <1>4, <3>1, <3>4, <4>1 DEF RowsPassed
    <3>7. HostFits(h)'
      BY <1>2, <3>4, <3>6 DEF HostFits, InCatalogue, AtTeam
    <3> QED BY <3>4, <3>5, <3>7
  <2>2. CASE ~Taken(h, row)
    <3>1. /\ copies' = [copies EXCEPT ![row] = Append(@, New(h, row))]
          /\ host' = [host EXCEPT ![h].pc = "catalogue", ![h].at = i + 1,
               ![h].copy = IF row.kind = "agent" THEN [@ EXCEPT ![row.name] = New(h, row)] ELSE @]
      BY <2>2 DEF CreateRow
    <3>2. /\ copies' \in [SeedRows -> Seq(Nat \ {0})] /\ CopiesFit' /\ Grown /\ copies'[row] # <<>>
      BY <1>1, <1>2, <1>3, <2>2, <3>1, RowGrows
    <3>3. New(h, row) \in Nat \ {0} /\ (row.kind = "agent" => row.name \in Elements(SeedAgents))
      BY <1>1, <1>2, NewRow
    <3> DEFINE copy == IF row.kind = "agent" THEN [host[h].copy EXCEPT ![row.name] = New(h, row)] ELSE host[h].copy
    <3>4. /\ host[h].copy \in [Elements(SeedAgents) -> Nat] /\ copy \in [Elements(SeedAgents) -> Nat]
          /\ \A a \in Elements(SeedAgents) : host[h].copy[a] > 0 => copy[a] > 0
          /\ row.kind = "agent" => copy[row.name] > 0
      BY <1>1, <3>3 DEF HostType
    <3> HIDE DEF copy
    <3>5. host' = [host EXCEPT ![h] = [host[h] EXCEPT !.pc = "catalogue", !.at = i + 1, !.copy = copy]]
      BY <1>1, <3>1 DEF copy, HostType
    <3>6. /\ host' \in [Hosts -> HostType] /\ \A g \in Hosts \ {h} : host'[g] = host[g]
          /\ host'[h].pc = "catalogue" /\ host'[h].at = i + 1 /\ host'[h].copy = copy
      BY <1>1, <1>2, <3>4, <3>5 DEF HostType, SeedPcs, InCatalogue
    <3>7. RowsPassed(h, host[h].at)'
      <4> SUFFICES ASSUME NEW j \in DOMAIN Plan, j < i + 1, Plan[j].kind # "user"
                   PROVE  /\ copies'[Plan[j]] # <<>>
                          /\ Plan[j].kind = "agent" => copy[Plan[j].name] > 0
        BY <3>6 DEF RowsPassed
      <4>1. CASE j = i
        BY <3>2, <3>4, <4>1
      <4>2. CASE j < i
        <5>1. /\ copies[Plan[j]] # <<>>
              /\ Plan[j].kind = "agent" => host[h].copy[Plan[j].name] > 0
          BY <1>2, <4>2 DEF RowsPassed
        <5> QED BY <3>2, <3>4, <5>1, RowIn, PlanFacts DEF Grown
      <4> QED BY <1>4, <4>1, <4>2
    <3>8. HostFits(h)'
      BY <1>2, <3>6, <3>7 DEF HostFits, InCatalogue, AtTeam
    <3> QED BY <3>2, <3>6, <3>8
  <2> QED BY <2>1, <2>2
<1>6. SeedTypes'
  BY <1>1, <1>3, <1>5 DEF SeedTypes, HostType
<1>7. ~cut' => Keeps(h)
  BY <1>2, <1>3, <1>5 DEF Keeps, Team, AtTeam, OnTheWay
<1> QED BY <1>3, <1>5, <1>6, <1>7, StepKeeps

\* Steps between the catalogue's end and a team: to the next owner, or to its onboarding.
LEMMA FindsOwner ==
    ASSUME SeedingInv, NEW h \in Hosts, FindOwner(h)
    PROVE  SeedingInv'
<1> DEFINE i == host[h].at
<1>1. SeedTypes /\ CopiesFit /\ HostFits(h)
  BY DEF SeedingInv
<1>2. /\ host[h].pc = "owner" /\ i \in 1 .. Len(Owners) + 1 /\ CatalogueSeeded /\ OwnersPassed(i)
      /\ i \in Nat /\ i + 1 \in Nat
  BY <1>1, OwnerFacts DEF FindOwner, HostFits, InCatalogue, AtTeam
<1>3. UNCHANGED <<copies, users, passwords, hired, boots, breaks, cut>>
  BY DEF FindOwner
<1>4. CopiesFit' /\ Grown
  BY <1>1, <1>3 DEF CopiesFit, Grown, CatalogueSeeded
<1>5. CASE i > Len(Owners)
  <2>1. GoOn(h, "done", i, 0)
    BY <1>5 DEF FindOwner
  <2>2. /\ host' \in [Hosts -> HostType] /\ \A g \in Hosts \ {h} : host'[g] = host[g]
        /\ host'[h].pc = "done"
    BY <1>1, <1>2, <2>1, Went DEF SeedPcs
  <2>3. OwnerSet \subseteq users
    BY <1>2, <1>5, OwnerFacts DEF OwnersPassed
  <2>4. HostFits(h)'
    BY <1>3, <2>2, <2>3, OwnerFacts DEF HostFits, InCatalogue, AtTeam
  <2>5. SeedTypes'
    BY <1>1, <1>3, <2>2 DEF SeedTypes, HostType
  <2>6. ~cut' => Keeps(h)
    BY <1>2, <1>3, <2>2, <2>3 DEF Keeps, Team, AtTeam, OnTheWay
  <2> QED BY <1>3, <1>4, <2>2, <2>4, <2>5, <2>6, StepKeeps
<1>6. CASE i <= Len(Owners)
  <2>1. PICK pc \in {"owner", "onboard"} :
          /\ pc = "owner" => Owners[i] \in users /\ GoOn(h, "owner", i + 1, 0)
          /\ pc = "onboard" => Owners[i] \notin users /\ GoOn(h, "onboard", i, 1)
    <3>1. CASE Owners[i] \in users
      BY <1>2, <1>6, <3>1, OwnerFacts DEF FindOwner
    <3>2. CASE Owners[i] \notin users
      BY <1>2, <1>6, <3>2, OwnerFacts DEF FindOwner
    <3> QED BY <3>1, <3>2
  <2>2. /\ host' \in [Hosts -> HostType] /\ \A g \in Hosts \ {h} : host'[g] = host[g]
        /\ host'[h].pc = pc
        /\ pc = "owner" => host'[h].at = i + 1
        /\ pc = "onboard" => host'[h].at = i
    <3>1. CASE pc = "owner"
      <4>1. GoOn(h, "owner", i + 1, 0)
        BY <2>1, <3>1
      <4>2. "owner" \in SeedPcs /\ i + 1 \in Nat /\ 0 \in Nat
        BY <1>2 DEF SeedPcs
      <4> HIDE DEF i
      <4>3. /\ host' \in [Hosts -> HostType] /\ \A g \in Hosts \ {h} : host'[g] = host[g]
            /\ host'[h].pc = "owner" /\ host'[h].at = i + 1
        BY <1>1, <4>1, <4>2, Went
      <4> QED BY <3>1, <4>3
    <3>2. CASE pc = "onboard"
      BY <1>1, <1>2, <2>1, <3>2, Went DEF SeedPcs
    <3> QED BY <3>1, <3>2
  <2>3. i \in DOMAIN Owners /\ i + 1 \in 1 .. Len(Owners) + 1
    BY <1>2, <1>6, OwnerFacts
  <2>4. OwnersPassed(host[h].at)' /\ CatalogueSeeded'
    BY <1>2, <1>3, <2>1, <2>2, OwnerFacts DEF OwnersPassed, CatalogueSeeded
  <2>5. HostFits(h)'
    BY <2>2, <2>3, <2>4 DEF HostFits, InCatalogue, AtTeam
  <2>6. SeedTypes'
    BY <1>1, <1>3, <2>2 DEF SeedTypes, HostType
  <2>7. pc = "onboard" => Current(h)' \notin users'
    BY <1>3, <2>1, <2>2 DEF Current
  <2>8. ~cut' => Keeps(h)
    BY <1>2, <1>3, <2>2, <2>7 DEF Keeps, Team, AtTeam, OnTheWay
  <2> QED BY <1>3, <1>4, <2>2, <2>5, <2>6, <2>8, StepKeeps
<1> QED BY <1>2, <1>5, <1>6, OwnerFacts

LEMMA AtOnboard ==
    ASSUME SeedTypes, NEW h \in Hosts, HostFits(h), host[h].pc = "onboard"
    PROVE  /\ host[h].at \in DOMAIN Owners /\ host[h].at \in Nat /\ host[h].k \in Nat
           /\ CatalogueSeeded /\ OwnersPassed(host[h].at)
           /\ Current(h) \in OwnerSet /\ Current(h) \notin MemberSet
<1>1. host[h] \in HostType
  BY HostTyped
<1>2. host[h].at \in DOMAIN Owners /\ CatalogueSeeded /\ OwnersPassed(host[h].at)
  BY DEF HostFits, InCatalogue, AtTeam
<1> QED BY <1>1, <1>2, OwnerFacts DEF Current, HostType

\* The owner is there by now: the boot ends.
LEMMA LosesOwner ==
    ASSUME SeedingInv, NEW h \in Hosts, Onboard(h), Current(h) \in users
    PROVE  SeedingInv'
<1>1. SeedTypes /\ CopiesFit /\ HostFits(h) /\ host[h].pc = "onboard" /\ host[h].at \in Nat
  BY AtOnboard DEF SeedingInv, Onboard
<1>2. UNCHANGED <<copies, users, passwords, hired, boots, breaks, cut>> /\ GoOn(h, "failed", host[h].at, 0)
  BY DEF Onboard
<1>3. /\ host' \in [Hosts -> HostType] /\ \A g \in Hosts \ {h} : host'[g] = host[g]
      /\ host'[h].pc = "failed"
  BY <1>1, <1>2, Went DEF SeedPcs
<1>4. CopiesFit' /\ Grown
  BY <1>1, <1>2 DEF CopiesFit, Grown, CatalogueSeeded
<1>5. HostFits(h)'
  BY <1>3 DEF HostFits, InCatalogue, AtTeam
<1>6. SeedTypes'
  BY <1>1, <1>2, <1>3 DEF SeedTypes, HostType
<1>7. ~cut' => Keeps(h)
  BY <1>1, <1>2, <1>3 DEF Keeps, Team, AtTeam, OnTheWay
<1> QED BY <1>2, <1>3, <1>4, <1>5, <1>6, <1>7, StepKeeps

\* What a registration leaves of the others, and what it makes of the rows.
LEMMA Registered ==
    ASSUME SeedingInv, NEW h \in Hosts, host[h].pc = "onboard", Register(h),
           UNCHANGED <<copies, passwords>>, host' \in [Hosts -> HostType],
           \A g \in Hosts \ {h} : host'[g] = host[g]
    PROVE  /\ CopiesFit' /\ Grown /\ users' \subseteq OwnerSet \cup MemberSet /\ passwords' \subseteq users'
           /\ CatalogueSeeded' /\ \A g \in Hosts \ {h} : HostFits(g)'
<1>1. SeedTypes /\ CopiesFit /\ HostFits(h) /\ CatalogueSeeded /\ Current(h) \in OwnerSet
  BY AtOnboard DEF SeedingInv
<1>2. CopiesFit' /\ Grown
  BY <1>1 DEF CopiesFit, Grown, CatalogueSeeded, Register
<1>3. users' \subseteq OwnerSet \cup MemberSet /\ passwords' \subseteq users'
  BY <1>1 DEF SeedTypes, Register
<1>4. \A g \in Hosts \ {h} : HostFits(g)'
  BY <1>2, OthersFit DEF SeedingInv
<1> QED BY <1>1, <1>2, <1>3, <1>4 DEF Grown

LEMMA Onboards ==
    ASSUME SeedingInv, NEW h \in Hosts, Onboard(h), Current(h) \notin users
    PROVE  SeedingInv'
<1> DEFINE o == Current(h)
<1>1. /\ SeedTypes /\ CopiesFit /\ HostFits(h) /\ host[h].pc = "onboard"
      /\ host[h].at \in DOMAIN Owners /\ host[h].at \in Nat /\ OwnersPassed(host[h].at)
      /\ o \in OwnerSet /\ o \notin MemberSet
  BY AtOnboard DEF SeedingInv, Onboard
<1>2. /\ UNCHANGED <<copies, passwords, boots, breaks, cut>> /\ Register(h)
      /\ GoOn(h, "password", host[h].at, 1)
  BY DEF Onboard
<1>3. /\ host' \in [Hosts -> HostType] /\ \A g \in Hosts \ {h} : host'[g] = host[g]
      /\ host'[h].pc = "password" /\ host'[h].at = host[h].at /\ host'[h].k = 1
  BY <1>1, <1>2, Went DEF SeedPcs, AtTeam
<1>4. /\ CopiesFit' /\ Grown /\ users' \subseteq OwnerSet \cup MemberSet /\ passwords' \subseteq users'
      /\ CatalogueSeeded' /\ \A g \in Hosts \ {h} : HostFits(g)'
  BY <1>1, <1>2, <1>3, Registered
<1>5. users' = users \cup {o} /\ hired' = hired \cup {<<o, 0>>}
  BY <1>2 DEF Register
<1>6. Current(h)' = o /\ \A g \in Hosts \ {h} : Current(g)' = Current(g)
  BY <1>3 DEF Current
<1>7. OwnersPassed(host[h].at)'
  BY <1>1, <1>3, <1>5 DEF OwnersPassed
<1>8. HostFits(h)'
  BY <1>1, <1>3, <1>4, <1>5, <1>6, <1>7 DEF HostFits, InCatalogue, AtTeam
<1>9. SeedTypes'
  BY <1>1, <1>2, <1>3, <1>4 DEF SeedTypes, HostType
<1>10. ASSUME ~cut' PROVE Uncut'
  <2>1. Uncut
    BY <1>2, <1>10 DEF SeedingInv
  <2>2. Team(h)' /\ ~Team(h) /\ \A g \in Hosts \ {h} : Team(g)' <=> Team(g)
    BY <1>1, <1>3 DEF Team, AtTeam
  <2>3. \A g \in Hosts : Team(g) => Current(g) \in users
    BY DEF SeedingInv, HostFits, Team
  <2>4. OneWorker'
    BY <1>6, <2>1, <2>2, <2>3 DEF Uncut, OneWorker
  <2>5. TeamLeft'
    <3> SUFFICES ASSUME NEW g \in Hosts \ {h}, host[g].pc = "insert"
                 PROVE  MembersOf[Current(g)][host[g].k] \notin users'
      BY <1>3, <1>6 DEF TeamLeft
    <3>1. MembersOf[Current(g)][host[g].k] \notin users
      BY <2>1 DEF Uncut, TeamLeft
    <3>2. HostFits(g)
      BY DEF SeedingInv
    <3>3. Current(g) \in OwnerSet /\ host[g].k \in DOMAIN MembersOf[Current(g)]
      BY <3>2, OwnerFacts DEF HostFits, AtTeam, Current
    <3>4. MembersOf[Current(g)][host[g].k] \in MemberSet
      BY <3>3, OwnerFacts, ElementOf
    <3> QED BY <1>1, <1>5, <3>1, <3>4
  <2>6. ASSUME NEW p \in OwnerSet \cap users' PROVE WorkedOn(p)'
    <3>1. CASE p = o
      BY <1>6, <2>2, <3>1 DEF WorkedOn
    <3>2. CASE p # o
      <4>1. p \in OwnerSet \cap users
        BY <1>5, <3>2
      <4>2. CASE Seeded(p)
        BY <1>4, <4>2, SeededStays DEF WorkedOn
      <4>3. CASE \E g \in Hosts : Team(g) /\ Current(g) = p
        BY <1>6, <2>2, <4>3 DEF WorkedOn
      <4> QED BY <2>1, <4>1, <4>2, <4>3 DEF Uncut, WorkedOn
    <3> QED BY <3>1, <3>2
  <2>7. \E g \in Hosts : OnTheWay(g)'
    BY <2>2 DEF OnTheWay
  <2> QED BY <2>4, <2>5, <2>6, <2>7 DEF Uncut
<1>11. \A g \in Hosts : HostFits(g)'
  BY <1>4, <1>8
<1> QED BY <1>4, <1>9, <1>10, <1>11 DEF SeedingInv

\* A transaction that fails is tried again, committed or not.
LEMMA FailsToOnboard ==
    ASSUME SeedingInv, NEW h \in Hosts, OnboardFails(h)
    PROVE  SeedingInv'
<1>1. /\ SeedTypes /\ CopiesFit /\ HostFits(h) /\ host[h].pc = "onboard"
      /\ host[h].at \in DOMAIN Owners /\ host[h].at \in Nat /\ host[h].k \in Nat
      /\ OwnersPassed(host[h].at) /\ CatalogueSeeded
      /\ Current(h) \in OwnerSet /\ Current(h) \notin users
  BY AtOnboard DEF SeedingInv, OnboardFails
<1>2. UNCHANGED <<copies, passwords, boots>> /\ breaks' \in 0 .. MaxBreaks
  BY <1>1, SeedingAssumption DEF OnboardFails, SeedTypes
<1>3. PICK pc \in {"onboard", "failed"} :
        /\ GoOn(h, pc, host[h].at, host[h].k + 1)
        /\ \/ Register(h) /\ cut' = TRUE
           \/ UNCHANGED <<users, hired>> /\ cut' = (cut \/ pc = "failed")
  BY DEF OnboardFails
<1>4. /\ host' \in [Hosts -> HostType] /\ \A g \in Hosts \ {h} : host'[g] = host[g]
      /\ host'[h].pc = pc /\ host'[h].at = host[h].at
  <2>1. host[h].k + 1 \in Nat /\ pc \in SeedPcs
    BY <1>1 DEF SeedPcs
  <2> QED BY <1>1, <1>3, <2>1, Went
<1>5. cut' \in BOOLEAN
  BY <1>3
<1>6. ASSUME users \subseteq users', CatalogueSeeded' PROVE HostFits(h)'
  <2>1. OwnersPassed(host[h].at)'
    BY <1>1, <1>4, <1>6 DEF OwnersPassed
  <2> QED BY <1>1, <1>4, <1>6, <2>1 DEF HostFits, InCatalogue, AtTeam
<1>7. CASE Register(h) /\ cut' = TRUE
  <2>1. /\ CopiesFit' /\ Grown /\ users' \subseteq OwnerSet \cup MemberSet /\ passwords' \subseteq users'
        /\ CatalogueSeeded' /\ \A g \in Hosts \ {h} : HostFits(g)'
    BY <1>1, <1>2, <1>4, <1>7, Registered
  <2>2. HostFits(h)'
    BY <1>6, <2>1 DEF Grown
  <2>3. SeedTypes'
    BY <1>1, <1>2, <1>4, <1>5, <2>1 DEF SeedTypes, HostType
  <2>4. \A g \in Hosts : HostFits(g)'
    BY <2>1, <2>2
  <2> QED BY <1>7, <2>1, <2>3, <2>4 DEF SeedingInv
<1>8. CASE UNCHANGED <<users, hired>> /\ cut' = (cut \/ pc = "failed")
  <2>1. CopiesFit' /\ Grown
    BY <1>1, <1>2, <1>8 DEF CopiesFit, Grown, CatalogueSeeded
  <2>2. HostFits(h)'
    BY <1>1, <1>6, <2>1 DEF Grown
  <2>3. SeedTypes'
    BY <1>1, <1>2, <1>4, <1>5, <1>8 DEF SeedTypes, HostType
  <2>4. Current(h)' = Current(h)
    BY <1>4 DEF Current
  <2>5. ~cut' => ~cut /\ pc = "onboard"
    BY <1>8
  <2>6. ~cut' => Keeps(h)
    BY <1>1, <1>4, <1>8, <2>4, <2>5 DEF Keeps, Team, AtTeam, OnTheWay
  <2> QED BY <1>4, <1>8, <2>1, <2>2, <2>3, <2>6, StepKeeps
<1> QED BY <1>3, <1>7, <1>8

------------------------------------------------------------------------------
(* An owner's team and hires *)

LEMMA AtTeamOf ==
    ASSUME SeedTypes, NEW h \in Hosts, HostFits(h), Team(h)
    PROVE  /\ host[h].at \in DOMAIN Owners /\ host[h].at \in Nat /\ host[h].at + 1 \in Nat
           /\ host[h].k \in Nat /\ host[h].k > 0 /\ host[h].k + 1 \in Nat
           /\ CatalogueSeeded /\ OwnersPassed(host[h].at)
           /\ Current(h) \in OwnerSet /\ Current(h) \in users /\ <<Current(h), 0>> \in hired
           /\ DOMAIN MembersOf[Current(h)] = 1 .. Len(MembersOf[Current(h)])
           /\ Len(MembersOf[Current(h)]) \in Nat /\ ExtraHires[Current(h)] \in Nat
<1>1. host[h] \in HostType
  BY HostTyped
<1>2. /\ host[h].at \in DOMAIN Owners /\ CatalogueSeeded /\ OwnersPassed(host[h].at)
      /\ Current(h) \in users /\ <<Current(h), 0>> \in hired /\ host[h].k > 0
  BY DEF HostFits, Team
<1>3. Current(h) \in OwnerSet
  BY <1>2, OwnerFacts DEF Current
<1>4. MembersOf[Current(h)] \in Seq(STRING) /\ ExtraHires[Current(h)] \in Nat
  BY <1>3, OwnerFacts
<1> QED BY <1>1, <1>2, <1>3, <1>4, OwnerFacts DEF HostType

\* What a host's step within the team leaves of it.
LEMMA StaysAtTeam ==
    ASSUME SeedTypes, NEW h \in Hosts, HostFits(h), Team(h), Grown,
           NEW pc \in AtTeam, host'[h].pc = pc, host'[h].at = host[h].at
    PROVE  /\ Team(h)' /\ Current(h)' = Current(h)
           /\ CatalogueSeeded' /\ OwnersPassed(host[h].at)'
           /\ Current(h) \in users' /\ <<Current(h), 0>> \in hired'
<1>1. /\ host[h].at \in DOMAIN Owners /\ CatalogueSeeded /\ OwnersPassed(host[h].at)
      /\ Current(h) \in users /\ <<Current(h), 0>> \in hired
  BY AtTeamOf
<1>2. OwnersPassed(host[h].at)'
  BY <1>1 DEF OwnersPassed, Grown
<1> QED BY <1>1, <1>2 DEF Team, Current, Grown

LEMMA SetsPassword ==
    ASSUME SeedingInv, NEW h \in Hosts, SetPassword(h)
    PROVE  SeedingInv'
<1>1. SeedTypes /\ CopiesFit /\ HostFits(h) /\ host[h].pc = "password" /\ Team(h)
  BY DEF SeedingInv, SetPassword, Team, AtTeam
<1>2. /\ host[h].at \in DOMAIN Owners /\ host[h].at \in Nat /\ Current(h) \in users
      /\ DOMAIN MembersOf[Current(h)] = 1 .. Len(MembersOf[Current(h)])
  BY <1>1, AtTeamOf
<1>3. /\ UNCHANGED <<copies, users, hired, boots, breaks, cut>>
      /\ passwords' = passwords \cup {Current(h)} /\ GoOn(h, "member", host[h].at, 1)
  BY DEF SetPassword
<1>4. /\ host' \in [Hosts -> HostType] /\ \A g \in Hosts \ {h} : host'[g] = host[g]
      /\ host'[h].pc = "member" /\ host'[h].at = host[h].at /\ host'[h].k = 1
  BY <1>1, <1>2, <1>3, Went DEF SeedPcs, AtTeam
<1>5. CopiesFit' /\ Grown
  BY <1>1, <1>3 DEF CopiesFit, Grown, CatalogueSeeded
<1>6. /\ Team(h)' /\ Current(h)' = Current(h)
      /\ CatalogueSeeded' /\ OwnersPassed(host[h].at)'
      /\ Current(h) \in users' /\ <<Current(h), 0>> \in hired'
  BY <1>1, <1>4, <1>5, StaysAtTeam DEF AtTeam
<1>7. HostFits(h)'
  BY <1>2, <1>3, <1>4, <1>6 DEF HostFits, InCatalogue, AtTeam
<1>8. SeedTypes'
  BY <1>1, <1>2, <1>3, <1>4 DEF SeedTypes, HostType
<1>9. ~cut' => Keeps(h)
  BY <1>1, <1>3, <1>4, <1>6 DEF Keeps, OnTheWay
<1> QED BY <1>3, <1>4, <1>5, <1>7, <1>8, <1>9, StepKeeps

LEMMA FindsMember ==
    ASSUME SeedingInv, NEW h \in Hosts, FindMember(h)
    PROVE  SeedingInv'
<1> DEFINE k == host[h].k  team == MembersOf[Current(h)]
<1>1. SeedTypes /\ CopiesFit /\ HostFits(h) /\ host[h].pc = "member" /\ Team(h)
  BY DEF SeedingInv, FindMember, Team, AtTeam
<1>2. /\ host[h].at \in DOMAIN Owners /\ host[h].at \in Nat /\ k \in Nat /\ k > 0 /\ k + 1 \in Nat
      /\ DOMAIN team = 1 .. Len(team) /\ Len(team) \in Nat
  BY <1>1, AtTeamOf
<1>3. Current(h) \in passwords /\ \A i \in DOMAIN team : i < k => team[i] \in users
  BY <1>1 DEF HostFits, AtTeam
<1>4. UNCHANGED <<copies, users, passwords, hired, boots, breaks, cut>>
  BY DEF FindMember
<1>5. CopiesFit' /\ Grown
  BY <1>1, <1>4 DEF CopiesFit, Grown, CatalogueSeeded
<1>6. PICK pc \in {"hire", "member", "insert"}, n \in {1, k, k + 1} :
        /\ GoOn(h, pc, host[h].at, n)
        /\ pc = "hire" => n = 1 /\ k > Len(team)
        /\ pc = "member" => n = k + 1 /\ k <= Len(team) /\ team[k] \in users
        /\ pc = "insert" => n = k /\ k <= Len(team) /\ team[k] \notin users
  <2>1. CASE k > Len(team)
    BY <2>1 DEF FindMember
  <2>2. CASE k <= Len(team) /\ team[k] \in users
    BY <1>2, <2>2 DEF FindMember
  <2>3. CASE k <= Len(team) /\ team[k] \notin users
    BY <1>2, <2>3 DEF FindMember
  <2> QED BY <1>2, <2>1, <2>2, <2>3
<1>7. /\ host' \in [Hosts -> HostType] /\ \A g \in Hosts \ {h} : host'[g] = host[g]
      /\ host'[h].pc = pc /\ host'[h].at = host[h].at /\ host'[h].k = n
  <2>1. n \in Nat /\ pc \in SeedPcs
    BY <1>2 DEF SeedPcs, AtTeam
  <2> QED BY <1>1, <1>2, <1>6, <2>1, Went
<1>8. /\ Team(h)' /\ Current(h)' = Current(h)
      /\ CatalogueSeeded' /\ OwnersPassed(host[h].at)'
      /\ Current(h) \in users' /\ <<Current(h), 0>> \in hired'
  BY <1>1, <1>5, <1>7, StaysAtTeam DEF AtTeam
<1>9. pc = "hire" => Elements(team) \subseteq users
  BY <1>2, <1>3, <1>6, ElementOf
<1>10. n > 0 /\ (pc = "insert" => n \in DOMAIN team)
  BY <1>2, <1>6
<1>11. pc \in {"member", "insert"} => \A i \in DOMAIN team : i < n => team[i] \in users
  BY <1>2, <1>3, <1>6
<1>12. pc = "hire" => \A j \in 0 .. ExtraHires[Current(h)] : j < n => <<Current(h), j>> \in hired
  BY <1>1, <1>6, AtTeamOf
<1>13. HostFits(h)'
  <2>1. host'[h].pc \in AtTeam /\ host'[h].pc \notin InCatalogue \cup {"owner", "onboard", "done", "create"}
    BY <1>7 DEF InCatalogue, AtTeam
  <2>2. /\ host'[h].pc \in {"member", "insert"} => \A i \in DOMAIN team : i < host'[h].k => team[i] \in users'
        /\ host'[h].pc = "hire" =>
             /\ Elements(team) \subseteq users'
             /\ \A j \in 0 .. ExtraHires[Current(h)] : j < host'[h].k => <<Current(h), j>> \in hired'
        /\ host'[h].pc = "insert" => host'[h].k \in DOMAIN team
    BY <1>4, <1>7, <1>9, <1>10, <1>11, <1>12
  <2> QED BY <1>2, <1>3, <1>4, <1>7, <1>8, <1>10, <2>1, <2>2 DEF HostFits
<1>14. SeedTypes'
  BY <1>1, <1>4, <1>7 DEF SeedTypes, HostType
<1>15. ~cut' => Keeps(h)
  BY <1>1, <1>4, <1>6, <1>7, <1>8 DEF Keeps, OnTheWay
<1> QED BY <1>4, <1>5, <1>7, <1>13, <1>14, <1>15, StepKeeps

LEMMA InsertsMember ==
    ASSUME SeedingInv, NEW h \in Hosts, InsertMember(h)
    PROVE  SeedingInv'
<1> DEFINE o == Current(h)  k == host[h].k  member == MembersOf[o][k]
<1>1. SeedTypes /\ CopiesFit /\ HostFits(h) /\ host[h].pc = "insert" /\ Team(h)
  BY DEF SeedingInv, InsertMember, Team, AtTeam
<1>2. /\ host[h].at \in DOMAIN Owners /\ host[h].at \in Nat /\ k \in Nat /\ k > 0 /\ k + 1 \in Nat
      /\ o \in OwnerSet /\ CatalogueSeeded /\ DOMAIN MembersOf[o] = 1 .. Len(MembersOf[o])
  BY <1>1, AtTeamOf
<1>3. /\ o \in passwords /\ \A i \in DOMAIN MembersOf[o] : i < k => MembersOf[o][i] \in users
      /\ k \in DOMAIN MembersOf[o]
  BY <1>1 DEF HostFits, AtTeam
<1>4. member \in Elements(MembersOf[o]) /\ member \in MemberSet /\ member \notin OwnerSet
  BY <1>2, <1>3, ElementOf, OwnerFacts
<1>5. PICK pc \in {"member", "failed"} :
        /\ GoOn(h, pc, host[h].at, k + 1)
        /\ pc = "failed" => member \in users
  BY DEF InsertMember
<1>6. UNCHANGED <<copies, passwords, hired, boots, breaks, cut>> /\ users' = users \cup {member}
  BY DEF InsertMember
<1>7. /\ host' \in [Hosts -> HostType] /\ \A g \in Hosts \ {h} : host'[g] = host[g]
      /\ host'[h].pc = pc /\ host'[h].at = host[h].at /\ host'[h].k = k + 1
  <2>1. pc \in SeedPcs
    BY DEF SeedPcs, AtTeam
  <2> QED BY <1>1, <1>2, <1>5, <2>1, Went
<1>8. CopiesFit' /\ Grown
  BY <1>1, <1>6 DEF CopiesFit, Grown, CatalogueSeeded
<1>9. pc = "member" =>
        /\ Team(h)' /\ Current(h)' = Current(h)
        /\ CatalogueSeeded' /\ OwnersPassed(host[h].at)'
        /\ Current(h) \in users' /\ <<Current(h), 0>> \in hired'
  BY <1>1, <1>7, <1>8, StaysAtTeam DEF AtTeam
<1>10. \A i \in DOMAIN MembersOf[o] : i < k + 1 => MembersOf[o][i] \in users'
  BY <1>2, <1>3, <1>6
<1>11. HostFits(h)'
  <2>1. CASE pc = "failed"
    BY <1>7, <2>1 DEF HostFits, InCatalogue, AtTeam
  <2>2. CASE pc = "member"
    BY <1>2, <1>3, <1>6, <1>7, <1>9, <1>10, <2>2 DEF HostFits, InCatalogue, AtTeam
  <2> QED BY <2>1, <2>2
<1>12. \A g \in Hosts : HostFits(g)'
  BY <1>7, <1>8, <1>11, OthersFit DEF SeedingInv
<1>13. SeedTypes'
  BY <1>1, <1>4, <1>6, <1>7 DEF SeedTypes, HostType
<1>14. CatalogueSeeded'
  BY <1>2, <1>8 DEF Grown
<1>15. ASSUME ~cut' PROVE Uncut'
  <2>1. Uncut
    BY <1>6, <1>15 DEF SeedingInv
  <2>2. member \notin users /\ pc = "member"
    BY <1>1, <1>5, <2>1 DEF Uncut, TeamLeft
  <2>3. Team(h)' /\ Current(h)' = o
    BY <1>9, <2>2
  <2>4. \A g \in Hosts : (Team(g)' <=> Team(g)) /\ Current(g)' = Current(g)
    BY <1>1, <1>7, <2>3 DEF Team, Current
  <2>5. OneWorker'
    BY <2>1, <2>4 DEF Uncut, OneWorker
  <2>6. TeamLeft'
    <3> SUFFICES ASSUME NEW g \in Hosts \ {h}, host[g].pc = "insert"
                 PROVE  MembersOf[Current(g)][host[g].k] \notin users'
      BY <1>7, <2>2, <2>4 DEF TeamLeft
    <3>1. MembersOf[Current(g)][host[g].k] \notin users
      BY <2>1 DEF Uncut, TeamLeft
    <3>2. HostFits(g) /\ Team(g)
      BY DEF SeedingInv, Team, AtTeam
    <3>3. Current(g) \in OwnerSet /\ host[g].k \in DOMAIN MembersOf[Current(g)]
      BY <3>2, OwnerFacts DEF HostFits, AtTeam, Current
    <3>4. Current(g) # o
      BY <1>1, <2>1, <3>2 DEF Uncut, OneWorker
    <3>5. Elements(MembersOf[Current(g)]) \cap Elements(MembersOf[o]) = {}
      BY <1>2, <3>3, <3>4, SeedingAssumption DEF OwnerSet
    <3>6. MembersOf[Current(g)][host[g].k] \in Elements(MembersOf[Current(g)])
      BY <3>3, ElementOf
    <3> QED BY <1>4, <1>6, <3>1, <3>5, <3>6
  <2>7. ASSUME NEW p \in OwnerSet \cap users' PROVE WorkedOn(p)'
    <3>1. p \in OwnerSet \cap users
      BY <1>4, <1>6
    <3>2. CASE Seeded(p)
      BY <1>8, <3>2, SeededStays DEF WorkedOn
    <3>3. CASE \E g \in Hosts : Team(g) /\ Current(g) = p
      BY <2>4, <3>3 DEF WorkedOn
    <3> QED BY <2>1, <3>1, <3>2, <3>3 DEF Uncut, WorkedOn
  <2>8. \E g \in Hosts : OnTheWay(g)'
    BY <2>3 DEF OnTheWay
  <2> QED BY <2>5, <2>6, <2>7, <2>8 DEF Uncut
<1> QED BY <1>8, <1>12, <1>13, <1>14, <1>15 DEF SeedingInv

LEMMA SeedsHire ==
    ASSUME SeedingInv, NEW h \in Hosts, SeedHire(h)
    PROVE  SeedingInv'
<1> DEFINE o == Current(h)  k == host[h].k
<1>1. SeedTypes /\ CopiesFit /\ HostFits(h) /\ host[h].pc = "hire" /\ Team(h)
  BY DEF SeedingInv, SeedHire, Team, AtTeam
<1>2. /\ host[h].at \in DOMAIN Owners /\ host[h].at \in Nat /\ host[h].at + 1 \in Nat
      /\ k \in Nat /\ k > 0 /\ k + 1 \in Nat
      /\ OwnersPassed(host[h].at) /\ CatalogueSeeded /\ o \in OwnerSet /\ o \in users /\ <<o, 0>> \in hired
      /\ ExtraHires[o] \in Nat
  BY <1>1, AtTeamOf
<1>3. /\ o \in passwords /\ Elements(MembersOf[o]) \subseteq users
      /\ \A j \in 0 .. ExtraHires[o] : j < k => <<o, j>> \in hired
  BY <1>1 DEF HostFits, AtTeam
<1>4. UNCHANGED <<copies, users, passwords, boots, breaks, cut>> /\ hired \subseteq hired'
  BY DEF SeedHire
<1>5. CopiesFit' /\ Grown
  BY <1>1, <1>4 DEF CopiesFit, Grown, CatalogueSeeded
<1>6. CASE k > ExtraHires[o]
  <2>1. GoOn(h, "owner", host[h].at + 1, 0)
    BY <1>6 DEF SeedHire
  <2>2. /\ host' \in [Hosts -> HostType] /\ \A g \in Hosts \ {h} : host'[g] = host[g]
        /\ host'[h].pc = "owner" /\ host'[h].at = host[h].at + 1
    <3>1. "owner" \in SeedPcs
      BY DEF SeedPcs
    <3> QED BY <1>1, <1>2, <2>1, <3>1, Went
  <2>3. Seeded(o)
    BY <1>2, <1>3, <1>6 DEF Seeded
  <2>4. ASSUME NEW p \in OwnerSet, o = p PROVE Seeded(p)'
    BY <1>5, <2>3, <2>4, SeededStays
  <2>5. OwnersPassed(host[h].at)' /\ host[h].at + 1 \in 1 .. Len(Owners) + 1
    BY <1>2, <1>4, <2>2, OwnerFacts DEF OwnersPassed, Current
  <2>6. HostFits(h)'
    BY <1>2, <1>5, <2>2, <2>5 DEF HostFits, InCatalogue, AtTeam, Grown
  <2>7. SeedTypes'
    BY <1>1, <1>4, <2>2 DEF SeedTypes, HostType
  <2>8. ~cut' => Keeps(h)
    BY <1>4, <2>2, <2>4 DEF Keeps, Team, AtTeam, OnTheWay
  <2> QED BY <1>4, <1>5, <2>2, <2>6, <2>7, <2>8, StepKeeps
<1>7. CASE k <= ExtraHires[o]
  <2>1. GoOn(h, "hire", host[h].at, k + 1) /\ hired' = hired \cup {<<o, k>>}
    BY <1>2, <1>7 DEF SeedHire
  <2>2. /\ host' \in [Hosts -> HostType] /\ \A g \in Hosts \ {h} : host'[g] = host[g]
        /\ host'[h].pc = "hire" /\ host'[h].at = host[h].at /\ host'[h].k = k + 1
    <3>1. "hire" \in SeedPcs
      BY DEF SeedPcs, AtTeam
    <3> QED BY <1>1, <1>2, <2>1, <3>1, Went
  <2>3. /\ Team(h)' /\ Current(h)' = Current(h)
        /\ CatalogueSeeded' /\ OwnersPassed(host[h].at)'
        /\ Current(h) \in users' /\ <<Current(h), 0>> \in hired'
    BY <1>1, <1>5, <2>2, StaysAtTeam DEF AtTeam
  <2>4. \A j \in 0 .. ExtraHires[o] : j < k + 1 => <<o, j>> \in hired'
    BY <1>2, <1>3, <2>1
  <2>5. HostFits(h)'
    BY <1>2, <1>3, <1>4, <2>2, <2>3, <2>4 DEF HostFits, InCatalogue, AtTeam
  <2>6. SeedTypes'
    BY <1>1, <1>4, <2>2 DEF SeedTypes, HostType
  <2>7. ~cut' => Keeps(h)
    BY <1>1, <1>4, <2>2, <2>3 DEF Keeps, OnTheWay
  <2> QED BY <1>4, <1>5, <2>2, <2>5, <2>6, <2>7, StepKeeps
<1> QED BY <1>2, <1>6, <1>7

LEMMA Crashes ==
    ASSUME SeedingInv, NEW h \in Hosts, Crash(h)
    PROVE  SeedingInv'
<1>1. SeedTypes
  BY DEF SeedingInv
<1>2. /\ UNCHANGED <<copies, users, passwords, hired, boots>> /\ cut' = TRUE
      /\ GoOn(h, "down", 0, 0) /\ breaks' \in 0 .. MaxBreaks
  BY <1>1, SeedingAssumption DEF Crash, SeedTypes
<1>3. /\ host' \in [Hosts -> HostType] /\ \A g \in Hosts \ {h} : host'[g] = host[g]
      /\ host'[h].pc = "down"
  BY <1>1, <1>2, Went DEF SeedPcs
<1>4. CopiesFit' /\ Grown
  BY <1>2 DEF SeedingInv, CopiesFit, Grown, CatalogueSeeded
<1>5. HostFits(h)'
  BY <1>3 DEF HostFits, InCatalogue, AtTeam
<1>6. SeedTypes'
  BY <1>1, <1>2, <1>3 DEF SeedTypes, HostType
<1> QED BY <1>2, <1>3, <1>4, <1>5, <1>6, StepKeeps

LEMMA SeedingKeeps == SeedingInv /\ [SeedingNext]_seedingVars => SeedingInv'
<1>1. ASSUME SeedingInv, NEW h \in Hosts, Boot(h) \/ SeedStep(h) \/ Crash(h) PROVE SeedingInv'
  BY <1>1, HostBoots, Crashes, FindsRow, CreatesRow, FindsOwner, LosesOwner, Onboards, FailsToOnboard,
     SetsPassword, FindsMember, InsertsMember, SeedsHire DEF SeedStep
<1>2. ASSUME SeedingInv, UNCHANGED seedingVars PROVE SeedingInv'
  BY <1>2 DEF seedingVars, SeedingInv, SeedTypes, CopiesFit, HostFits, RowsPassed, OwnersPassed, Current,
     CatalogueSeeded, Uncut, OneWorker, TeamLeft, WorkedOn, OnTheWay, Team, Seeded
<1> QED BY <1>1, <1>2 DEF SeedingNext

LEMMA SeedingStarts == SeedingInit => SeedingInv
<1> SUFFICES ASSUME SeedingInit PROVE SeedingInv
  OBVIOUS
<1>1. host \in [Hosts -> HostType] /\ \A h \in Hosts : host[h].pc = "down"
  BY DEF SeedingInit, HostType, SeedPcs
<1>2. \A r \in SeedRows : copies[r] = <<>>
  BY DEF SeedingInit
<1>3. copies \in [SeedRows -> Seq(Nat \ {0})]
  BY DEF SeedingInit
<1>4. SeedTypes
  <2>1. /\ users \subseteq OwnerSet \cup MemberSet /\ passwords \subseteq users
        /\ boots \in 0..MaxBoots /\ breaks \in 0..MaxBreaks /\ cut \in BOOLEAN
    <3>1. MaxBoots \in Nat /\ MaxBreaks \in Nat
      BY SeedingAssumption
    <3>2. users = {} /\ passwords = {} /\ boots = 0 /\ breaks = 0 /\ cut = FALSE
      BY DEF SeedingInit
    <3>3. boots \in 0..MaxBoots /\ breaks \in 0..MaxBreaks
      BY <3>1, <3>2
    <3>4. cut \in BOOLEAN
      BY <3>2, Zenon
    <3> QED BY <3>2, <3>3, <3>4
  <2> QED BY <1>1, <1>3, <2>1 DEF SeedTypes, HostType
<1>5. CopiesFit
  BY <1>2 DEF CopiesFit
<1>6. \A h \in Hosts : HostFits(h)
  BY <1>1 DEF HostFits, InCatalogue, AtTeam
<1>7. Uncut
  BY <1>1 DEF SeedingInit, Uncut, OneWorker, TeamLeft, Team, AtTeam
<1> QED BY <1>4, <1>5, <1>6, <1>7 DEF SeedingInv, SeedingInit

LEMMA SeedingHolds == SeedingSpec => []SeedingInv
  BY SeedingStarts, SeedingKeeps, PTL DEF SeedingSpec

\* A list without repetitions is as long as it has elements.
LEMMA AsLong ==
    ASSUME NEW S, NEW s \in Seq(S), \A i, j \in DOMAIN s : s[i] = s[j] => i = j
    PROVE  Cardinality(Elements(s)) = Len(s)
<1>1. DOMAIN s = 1 .. Len(s) /\ Len(s) \in Nat
  OBVIOUS
<1>2. s \in Bijection(1 .. Len(s), Elements(s))
  BY <1>1 DEF Bijection, Injection, IsInjective, Surjection, Elements
<1> QED BY <1>1, <1>2, FS_CountingElements DEF ExistsBijection

\* Whatever hosts boot and crash: nothing the catalogue has an index for is seeded twice.
THEOREM SeedingTypeCorrect == SeedingSpec => []SeedingTypeOK
<1>1. SeedingInv => SeedingTypeOK
  <2> SUFFICES ASSUME SeedingInv PROVE SeedingTypeOK
    OBVIOUS
  <2>1. SeedTypes /\ CopiesFit
    BY DEF SeedingInv
  <2>2. \A r \in SeedRows : Cardinality(Elements(copies[r])) = Len(copies[r])
    BY <2>1, AsLong DEF SeedTypes, CopiesFit
  <2> QED BY <2>1, <2>2 DEF SeedTypes, SeedingTypeOK, OwnerSet, MemberSet
<1> QED BY <1>1, SeedingHolds, PTL

\* When no host boots any more and one has finished, all the data is there, unless a boot was
\* cut short: a host that fails for what another has inserted leaves the rest to that one, and
\* one that finds the first user there to the host that registered it.
THEOREM DoneIsSeeded == SeedingSpec => []DoneMeansSeeded
<1>1. SeedingInv => DoneMeansSeeded
  <2> SUFFICES ASSUME SeedingInv, ~cut, NEW d \in Hosts, host[d].pc = "done", \A h \in Hosts : ~Booting(h)
               PROVE  CatalogueSeeded /\ \A o \in OwnerSet : Seeded(o)
    BY DEF DoneMeansSeeded, OwnerSet
  <2>1. Owners[1] \in users /\ Uncut
    BY DEF SeedingInv, HostFits
  <2>2. \A h \in Hosts : ~Team(h) /\ ~OnTheWay(h)
    BY DEF Booting, Team, AtTeam, OnTheWay
  <2>3. OwnerSet \subseteq users
    BY <2>1, <2>2 DEF Uncut
  <2> QED BY <2>1, <2>2, <2>3 DEF SeedingInv, Uncut, WorkedOn
<1> QED BY <1>1, SeedingHolds, PTL

------------------------------------------------------------------------------
(* The components side by side *)

\* What the components share is no state: a behaviour of all of them together is one of each
\* of those proved here, which stands still while another moves.
THEOREM Components ==
    BackgroundSpec => /\ RoutingSpec /\ MemorySpec /\ SessionsSpec /\ BillingSpec /\ AdaptersSpec
                      /\ BackfillsSpec /\ SeedingSpec /\ CatalogueSpec
<1>1. BackgroundInit => /\ RoutingInit /\ MemoryInit /\ SessionsInit /\ BillingInit /\ AdaptersInit
                        /\ BackfillsInit /\ SeedingInit /\ CatalogueInit
  BY DEF BackgroundInit
<1>2. [BackgroundNext]_backgroundVars =>
        /\ [RoutingNext]_routingVars /\ [MemoryNext]_memoryVars /\ [SessionsNext]_sessionsVars
        /\ [BillingNext]_billingVars /\ [AdaptersNext]_adaptersVars /\ [BackfillsNext]_backfillsVars
        /\ [SeedingNext]_seedingVars /\ [CatalogueNext]_catalogueVars
  BY DEF BackgroundNext, backgroundVars
<1> QED
  BY <1>1, <1>2, PTL DEF BackgroundSpec, RoutingSpec, MemorySpec, SessionsSpec, BillingSpec,
                         AdaptersSpec, BackfillsSpec, SeedingSpec, CatalogueSpec

\* So the invariants of the parts hold of the whole: no message is summarised twice, no revoked
\* session is accepted, none outlives its end, the periods are right where they can be, no message
\* is lost without a reason that is known, a boot that says it seeded everything has, and an
\* upload has written what it reports.
THEOREM PartsHold ==
    BackgroundSpec => [](/\ CoveredOnce /\ RevokedStaysRevoked /\ LifetimeBounded
                         /\ PeriodRight /\ LossExplained /\ DoneMeansSeeded
                         /\ UploadReportsTruth)
  BY Components, SummarisedOnce, RevokedIsRefused, NoneOutlives, PeriodsRight, LossesExplained,
     DoneIsSeeded, UploadsReportTruth, PTL

\* The types of all parts together, and what the types say beyond their name.
THEOREM BackgroundTypeCorrect == BackgroundSpec => []BackgroundTypeOK
  BY Components, RoutingTypeCorrect, MemoryTypeCorrect, SessionsTypeCorrect, BillingTypeCorrect,
     SeedingTypeCorrect, AdaptersTypeCorrect, CatalogueTypeCorrect, BackfillsTypeCorrect,
     PTL DEF BackgroundTypeOK

\* And so do the properties of their steps: a number picks what the sender was shown, if the
\* candidates and their names are those of the list; a conversation stays with its agent; a
\* month that is completed is billed; and what a migration found is filled in once.
THEOREM PartsStep ==
    BackgroundSpec => /\ NumberPicksShown /\ StaysWithAgent /\ CompletedMeansBilled
                      /\ FilledNotOverwritten
  BY Components, NumberPicks, ConversationsStay, CompletedAreBilled, FilledAndKept, PTL
=============================================================================
