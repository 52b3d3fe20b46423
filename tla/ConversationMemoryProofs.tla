------------------------ MODULE ConversationMemoryProofs ------------------------
(***************************************************************************)
(* What is summarised, for any number of overlapping turns and any         *)
(* threshold.                                                              *)
(***************************************************************************)
EXTENDS ConversationMemory, TLAPS

------------------------------------------------------------------------------
(* The inductive invariant *)

TurnPcs == {"idle", "store", "model", "answer", "check", "fetch", "generate"}
TurnTypes == turn \in [Turns -> [pc : TurnPcs, read : SUBSET Nat]]

\* Among the summaries there is a latest, and each covers earlier rows only.
InOrder ==
    /\ Summaries # {} => Latest # {}
    /\ \A s \in Summaries : rows[s].covers \subseteq 1 .. (s - 1)

\* But for what is excused, a summary that is being generated is of the context there is;
\* nothing that two of them read is not excused.
UpToDate ==
    /\ \A t \in Generating : /\ turn[t].read \subseteq Context \cup excused
                             /\ Context \subseteq turn[t].read \cup excused
    /\ \A t, q \in Generating : t # q => turn[t].read \subseteq excused

MemoryInv == MemoryTypeOK /\ TurnTypes /\ InOrder /\ CoveredOnce /\ UpToDate

------------------------------------------------------------------------------
(* Rows that are added *)

LEMMA Added ==
    ASSUME MemoryTypeOK, NEW row \in Rows, Add(row)
    PROVE  /\ rows' \in Seq(Rows) /\ Len(rows') = Len(rows) + 1 /\ Len(rows') <= MaxRows
           /\ Len(rows) \in Nat /\ DOMAIN rows = 1 .. Len(rows)
           /\ DOMAIN rows' = DOMAIN rows \cup {Len(rows) + 1} /\ Len(rows) + 1 \notin DOMAIN rows
           /\ \A i \in DOMAIN rows : rows'[i] = rows[i]
           /\ rows'[Len(rows) + 1] = row
  BY MemoryAssumption DEF MemoryTypeOK, Add

LEMMA MessageAdded ==
    ASSUME MemoryTypeOK, NEW kind \in {"user", "agent"}, Add([kind |-> kind, covers |-> {}])
    PROVE  /\ Messages' = Messages \cup {Len(rows) + 1} /\ Summaries' = Summaries /\ Latest' = Latest
           /\ Context' = Context \cup {Len(rows) + 1}
           /\ \A i : CoveredBy(i)' = CoveredBy(i)
           /\ \A s \in Summaries : rows'[s] = rows[s]
           /\ MemoryTypeOK' \/ ~(\A t \in Turns : turn'[t].read \subseteq DOMAIN rows')
<1> DEFINE n == Len(rows) + 1
           row == [kind |-> kind, covers |-> {}]
<1>1. row \in Rows
  BY DEF Rows
<1>2. /\ rows' \in Seq(Rows) /\ Len(rows') = n /\ Len(rows') <= MaxRows
      /\ Len(rows) \in Nat /\ DOMAIN rows = 1 .. Len(rows)
      /\ DOMAIN rows' = DOMAIN rows \cup {n} /\ n \notin DOMAIN rows
      /\ \A i \in DOMAIN rows : rows'[i] = rows[i]
      /\ rows'[n] = row
  BY <1>1, Added
<1>3. Messages' = Messages \cup {n} /\ Summaries' = Summaries
  BY <1>2 DEF Messages, Summaries
<1>4. Latest' = Latest
  BY <1>3 DEF Latest
<1>5. Context' = Context \cup {n}
  <2>1. \A s \in Latest : s \in 1 .. Len(rows)
    BY <1>2 DEF Latest, Summaries
  <2>2. \A s \in Latest : n > s
    BY <1>2, <2>1
  <2> HIDE DEF n
  <2> QED BY <1>3, <1>4, <2>2 DEF Context
<1>6. Summaries \subseteq DOMAIN rows
  BY DEF Summaries
<1> HIDE DEF n, row
<1>7. \A s \in Summaries : rows'[s] = rows[s]
  BY <1>2, <1>6
<1>8. \A i : {s \in Summaries' : i \in rows'[s].covers} = {s \in Summaries : i \in rows[s].covers}
  BY <1>3, <1>7
<1>9. MemoryTypeOK' \/ ~(\A t \in Turns : turn'[t].read \subseteq DOMAIN rows')
  BY <1>2 DEF MemoryTypeOK
<1> QED BY <1>3, <1>4, <1>5, <1>7, <1>8, <1>9 DEF CoveredBy, n

LEMMA SummaryAdded ==
    ASSUME MemoryTypeOK, NEW read \in SUBSET (DOMAIN rows), Add([kind |-> "summary", covers |-> read])
    PROVE  /\ Messages' = Messages /\ Summaries' = Summaries \cup {Len(rows) + 1}
           /\ Latest' = {Len(rows) + 1} /\ Context' = {}
           /\ \A i : i \in read => CoveredBy(i)' = CoveredBy(i) \cup {Len(rows) + 1}
           /\ \A i : i \notin read => CoveredBy(i)' = CoveredBy(i)
           /\ \A s \in Summaries : rows'[s] = rows[s]
           /\ rows'[Len(rows) + 1].covers = read /\ read \subseteq 1 .. Len(rows)
           /\ MemoryTypeOK' \/ ~(\A t \in Turns : turn'[t].read \subseteq DOMAIN rows')
<1> DEFINE n == Len(rows) + 1
           row == [kind |-> "summary", covers |-> read]
<1>1. row \in Rows /\ read \subseteq 1 .. Len(rows)
  BY MemoryAssumption DEF Rows, MemoryTypeOK
<1>2. /\ rows' \in Seq(Rows) /\ Len(rows') = n /\ Len(rows') <= MaxRows
      /\ Len(rows) \in Nat /\ DOMAIN rows = 1 .. Len(rows)
      /\ DOMAIN rows' = DOMAIN rows \cup {n} /\ n \notin DOMAIN rows
      /\ \A i \in DOMAIN rows : rows'[i] = rows[i]
      /\ rows'[n] = row
  BY <1>1, Added
<1>3. Messages' = Messages /\ Summaries' = Summaries \cup {n}
  BY <1>2 DEF Messages, Summaries
<1>4. /\ \A s \in Summaries : s < n
      /\ \A i \in Messages : i < n
  BY <1>2 DEF Summaries, Messages
<1>5. Latest' = {n}
  <2>1. Latest' = {i \in Summaries' : \A j \in Summaries' : j <= i}
    BY DEF Latest
  <2>2. n \in Nat /\ \A s \in Summaries : s \in Nat
    BY <1>2 DEF Summaries
  <2> HIDE DEF n
  <2> QED BY <1>3, <1>4, <2>1, <2>2
<1>6. Context' = {}
  <2>1. \A i \in Messages : ~(i > n)
    BY <1>2, <1>4 DEF Messages
  <2> HIDE DEF n
  <2> QED BY <1>3, <1>5, <2>1 DEF Context
<1>7. Summaries \subseteq DOMAIN rows
  BY DEF Summaries
<1> HIDE DEF n
<1>8. (\A s \in Summaries : rows'[s] = rows[s]) /\ rows'[n].covers = read
  BY <1>2, <1>7
<1>9. \A i : CoveredBy(i)' = {s \in Summaries' : i \in rows'[s].covers}
  BY DEF CoveredBy
<1>10. MemoryTypeOK' \/ ~(\A t \in Turns : turn'[t].read \subseteq DOMAIN rows')
  BY <1>2 DEF MemoryTypeOK
<1> QED BY <1>1, <1>3, <1>5, <1>6, <1>8, <1>9, <1>10 DEF CoveredBy, n

------------------------------------------------------------------------------
(* Steps *)

LEMMA ToTypes ==
    ASSUME TurnTypes, NEW t \in Turns, NEW pc \in TurnPcs, NEW read \in SUBSET Nat, To(t, pc, read)
    PROVE  /\ TurnTypes' /\ turn'[t].pc = pc /\ turn'[t].read = read
           /\ \A q \in Turns \ {t} : turn'[q] = turn[q]
           /\ pc # "generate" => Generating' = Generating \ {t}
           /\ pc = "generate" => Generating' = Generating \cup {t}
<1>1. /\ TurnTypes' /\ turn'[t].pc = pc /\ turn'[t].read = read
      /\ \A q \in Turns \ {t} : turn'[q] = turn[q]
  BY DEF TurnTypes, To
<1> QED BY <1>1 DEF Generating

LEMMA RowsAreNat ==
    ASSUME MemoryTypeOK
    PROVE  Len(rows) \in Nat /\ Len(rows) + 1 \in Nat /\ DOMAIN rows \subseteq Nat /\ DOMAIN rows = 1 .. Len(rows)
           /\ Context \subseteq Messages /\ Messages \subseteq DOMAIN rows
           /\ Len(rows) + 1 \notin DOMAIN rows
  BY DEF MemoryTypeOK, Context, Messages

\* A step that adds no row and ends at something else than generating.
LEMMA QuietTurn ==
    ASSUME MemoryInv, NEW t \in Turns, NEW pc \in TurnPcs, pc # "generate",
           NEW read \in SUBSET (DOMAIN rows), To(t, pc, read), UNCHANGED <<rows, excused>>
    PROVE  MemoryInv'
<1>1. read \in SUBSET Nat
  BY RowsAreNat DEF MemoryInv
<1>2. /\ TurnTypes' /\ turn'[t].pc = pc /\ turn'[t].read = read
      /\ \A q \in Turns \ {t} : turn'[q] = turn[q]
      /\ Generating' = Generating \ {t}
  BY <1>1, ToTypes DEF MemoryInv
<1>3. MemoryTypeOK'
  BY <1>2 DEF MemoryInv, MemoryTypeOK
<1>4. /\ Messages' = Messages /\ Summaries' = Summaries /\ Latest' = Latest /\ Context' = Context
      /\ \A i : CoveredBy(i)' = CoveredBy(i)
  BY DEF Messages, Summaries, Latest, Context, CoveredBy
<1>5. InOrder' /\ CoveredOnce'
  BY <1>4 DEF MemoryInv, InOrder, CoveredOnce
<1>6. UpToDate'
  <2>1. \A q \in Generating' : q \in Generating /\ turn'[q] = turn[q]
    BY <1>2 DEF Generating
  <2> QED BY <1>4, <2>1 DEF MemoryInv, UpToDate
<1> QED BY <1>2, <1>3, <1>5, <1>6 DEF MemoryInv

LEMMA AddMessageStep ==
    ASSUME MemoryInv, NEW t \in Turns, NEW kind \in {"user", "agent"}, AddMessage(kind),
           turn[t].pc # "generate", NEW pc \in TurnPcs, pc # "generate",
           NEW read, To(t, pc, read), read \subseteq turn[t].read \cup {Len(rows) + 1}
    PROVE  MemoryInv'
<1> DEFINE n == Len(rows) + 1
<1>1. /\ Messages' = Messages \cup {n} /\ Summaries' = Summaries /\ Latest' = Latest
      /\ Context' = Context \cup {n}
      /\ \A i : CoveredBy(i)' = CoveredBy(i)
      /\ \A s \in Summaries : rows'[s] = rows[s]
      /\ MemoryTypeOK' \/ ~(\A q \in Turns : turn'[q].read \subseteq DOMAIN rows')
  BY MessageAdded DEF MemoryInv, AddMessage
<1>2. n \in Nat /\ DOMAIN rows \subseteq Nat /\ DOMAIN rows' = DOMAIN rows \cup {n}
  <2>1. [kind |-> kind, covers |-> {}] \in Rows
    BY DEF Rows
  <2> QED BY <2>1, Added, RowsAreNat DEF MemoryInv, AddMessage
<1>3. read \in SUBSET Nat /\ \A q \in Turns : turn[q].read \subseteq DOMAIN rows
  BY <1>2 DEF MemoryInv, MemoryTypeOK
<1>4. excused' = IF Generating = {} THEN excused ELSE excused \cup {n}
  BY DEF AddMessage
<1> HIDE DEF n
<1>5. /\ TurnTypes' /\ turn'[t].pc = pc /\ turn'[t].read = read
      /\ \A q \in Turns \ {t} : turn'[q] = turn[q]
      /\ Generating' = Generating \ {t}
  BY <1>3, ToTypes DEF MemoryInv
<1>6. MemoryTypeOK'
  <2>1. \A q \in Turns : turn'[q].read \subseteq DOMAIN rows'
    BY <1>2, <1>3, <1>5 DEF n
  <2> QED BY <1>1, <2>1
<1>7. InOrder'
  BY <1>1 DEF MemoryInv, InOrder
<1>8. CoveredOnce'
  BY <1>1, <1>4 DEF MemoryInv, CoveredOnce
<1>9. UpToDate'
  <2>1. Generating' \subseteq Generating /\ \A q \in Generating' : turn'[q] = turn[q]
    BY <1>5 DEF Generating
  <2>2. Generating' # {} => excused' = excused \cup {n}
    BY <1>4, <2>1
  <2>3. Generating' # {} => UpToDate
    BY DEF MemoryInv
  <2>4. excused \subseteq excused'
    BY <1>4
  <2>5. ASSUME NEW q \in Generating'
        PROVE  /\ turn'[q].read \subseteq Context' \cup excused'
               /\ Context' \subseteq turn'[q].read \cup excused'
    BY <1>1, <2>1, <2>2, <2>3, <2>5 DEF UpToDate
  <2>6. \A p, q \in Generating' : p # q => turn'[p].read \subseteq excused'
    BY <2>1, <2>3, <2>4 DEF UpToDate
  <2> QED BY <2>5, <2>6 DEF UpToDate
<1> QED BY <1>5, <1>6, <1>7, <1>8, <1>9 DEF MemoryInv

LEMMA FetchStep == ASSUME MemoryInv, NEW t \in Turns, Fetch(t) PROVE MemoryInv'
<1>1. rows' = rows /\ Context \subseteq DOMAIN rows /\ Context \in SUBSET Nat
  BY RowsAreNat DEF Fetch, MemoryInv
<1>2. /\ Messages' = Messages /\ Summaries' = Summaries /\ Latest' = Latest /\ Context' = Context
      /\ \A i : CoveredBy(i)' = CoveredBy(i)
  BY <1>1 DEF Messages, Summaries, Latest, Context, CoveredBy
<1>3. t \notin Generating
  BY DEF Fetch, Generating
<1>4. /\ TurnTypes' /\ turn'[t].read = Context
      /\ \A q \in Turns \ {t} : turn'[q] = turn[q]
      /\ Generating' \subseteq Generating \cup {t}
  <2>1. CASE To(t, "idle", Context)
    BY <1>1, <2>1, ToTypes DEF MemoryInv, TurnPcs
  <2>2. CASE To(t, "generate", Context)
    BY <1>1, <2>2, ToTypes DEF MemoryInv, TurnPcs
  <2> QED BY <2>1, <2>2 DEF Fetch
<1>5. /\ excused \subseteq excused'
      /\ Generating # {} => Context \subseteq excused' /\ \A q \in Generating : turn[q].read \subseteq excused'
  BY DEF Fetch
<1>6. MemoryTypeOK'
  BY <1>1, <1>4 DEF MemoryInv, MemoryTypeOK
<1>7. InOrder' /\ CoveredOnce'
  BY <1>1, <1>2, <1>5 DEF MemoryInv, InOrder, CoveredOnce
<1>8. UpToDate'
  <2>1. \A q \in Generating' \ {t} : q \in Generating /\ turn'[q] = turn[q]
    BY <1>4 DEF Generating
  <2>2. UpToDate
    BY DEF MemoryInv
  <2>3. ASSUME NEW q \in Generating'
        PROVE  /\ turn'[q].read \subseteq Context' \cup excused'
               /\ Context' \subseteq turn'[q].read \cup excused'
    <3>1. CASE q = t
      BY <1>2, <1>4, <3>1
    <3>2. CASE q # t
      BY <1>2, <1>5, <2>1, <2>3, <3>2
    <3> QED BY <3>1, <3>2
  <2>4. ASSUME NEW p \in Generating', NEW q \in Generating', p # q
        PROVE  turn'[p].read \subseteq excused'
    <3>1. Generating # {}
      BY <1>4, <2>4
    <3> QED BY <1>4, <1>5, <2>1, <2>4, <3>1
  <2> QED BY <2>3, <2>4 DEF UpToDate
<1> QED BY <1>4, <1>6, <1>7, <1>8 DEF MemoryInv

LEMMA StoreSummaryStep == ASSUME MemoryInv, NEW t \in Turns, StoreSummary(t) PROVE MemoryInv'
<1> DEFINE n == Len(rows) + 1
<1>1. /\ t \in Generating /\ To(t, "idle", {}) /\ turn[t].read \subseteq DOMAIN rows
      /\ MemoryTypeOK /\ TurnTypes /\ InOrder /\ CoveredOnce /\ UpToDate
      /\ \A q \in Turns : turn[q].read \subseteq DOMAIN rows
  BY DEF StoreSummary, Generating, MemoryInv, MemoryTypeOK
<1>2. /\ TurnTypes' /\ turn'[t].read = {}
      /\ \A q \in Turns \ {t} : turn'[q] = turn[q]
      /\ Generating' = Generating \ {t}
  BY <1>1, ToTypes DEF TurnPcs
<1>3. ASSUME NEW read \in SUBSET (DOMAIN rows), Add([kind |-> "summary", covers |-> read]),
             excused \subseteq excused',
             \/ read = turn[t].read
             \/ read = {} /\ turn[t].read \subseteq excused'
      PROVE  MemoryInv'
  <2>1. /\ Messages' = Messages /\ Summaries' = Summaries \cup {n}
        /\ Latest' = {n} /\ Context' = {}
        /\ \A i : i \in read => CoveredBy(i)' = CoveredBy(i) \cup {n}
        /\ \A i : i \notin read => CoveredBy(i)' = CoveredBy(i)
        /\ \A s \in Summaries : rows'[s] = rows[s]
        /\ rows'[n].covers = read /\ read \subseteq 1 .. Len(rows)
        /\ MemoryTypeOK' \/ ~(\A q \in Turns : turn'[q].read \subseteq DOMAIN rows')
    BY <1>1, <1>3, SummaryAdded
  <2>2. Len(rows) \in Nat /\ DOMAIN rows = 1 .. Len(rows) /\ Context \subseteq Messages /\ n - 1 = Len(rows)
    BY <1>1, RowsAreNat
  <2>3. DOMAIN rows \subseteq DOMAIN rows'
    <3>1. [kind |-> "summary", covers |-> read] \in Rows
      BY <1>1, <1>3, <2>2, MemoryAssumption DEF Rows, MemoryTypeOK
    <3> QED BY <1>1, <1>3, <3>1, Added
  <2> HIDE DEF n
  <2>4. MemoryTypeOK'
    <3>1. \A q \in Turns : turn'[q].read \subseteq DOMAIN rows'
      BY <1>1, <1>2, <2>3
    <3> QED BY <2>1, <3>1
  <2>5. InOrder'
    <3>1. Summaries' # {} => Latest' # {}
      BY <2>1
    <3>2. \A s \in Summaries' : rows'[s].covers \subseteq 1 .. (s - 1)
      BY <1>1, <2>1, <2>2 DEF InOrder
    <3> QED BY <3>1, <3>2 DEF InOrder
  <2>6. CoveredOnce'
    <3> SUFFICES ASSUME NEW i \in Messages, i \notin excused'
                 PROVE  \E s \in Summaries' : {q \in Summaries' : i \in rows'[q].covers} = {s}
      BY <2>1 DEF CoveredOnce, CoveredBy
    <3>0. \A S : CoveredBy(i)' = S => {q \in Summaries' : i \in rows'[q].covers} = S
      BY DEF CoveredBy
    <3>1. CASE i \in Context
      <4>1. i \in read
        BY <1>1, <1>3, <3>1 DEF UpToDate
      <4>2. CoveredBy(i) = {}
        <5>1. ASSUME NEW s \in Summaries, i \in rows[s].covers PROVE FALSE
          <6>1. PICK l \in Latest : TRUE
            BY <1>1, <5>1 DEF InOrder
          <6>2. s \in Nat /\ l \in Nat /\ i \in Nat /\ s <= l /\ i > l /\ i \in 1 .. (s - 1)
            BY <1>1, <2>2, <3>1, <5>1, <6>1 DEF Context, Latest, InOrder, Summaries, Messages
          <6> QED BY <6>2
        <5> QED BY <5>1 DEF CoveredBy
      <4>3. CoveredBy(i)' = {n}
        BY <2>1, <4>1, <4>2
      <4> QED BY <2>1, <3>0, <4>3
    <3>2. CASE i \notin Context
      <4>1. PICK s \in Summaries : CoveredBy(i) = {s}
        BY <1>1, <1>3, <3>2 DEF CoveredOnce
      <4>2. i \notin read
        BY <1>1, <1>3, <3>2 DEF UpToDate
      <4>3. CoveredBy(i)' = {s}
        BY <2>1, <4>1, <4>2
      <4> QED BY <2>1, <3>0, <4>3
    <3> QED BY <3>1, <3>2
  <2>7. UpToDate'
    <3>1. \A q \in Generating' : q \in Generating /\ q # t /\ turn'[q] = turn[q]
      BY <1>2 DEF Generating
    <3>2. \A q \in Generating' : turn'[q].read \subseteq excused'
      BY <1>1, <1>3, <3>1 DEF UpToDate
    <3> QED BY <2>1, <3>2 DEF UpToDate
  <2> QED BY <1>2, <2>4, <2>5, <2>6, <2>7 DEF MemoryInv
<1> QED BY <1>1, <1>3 DEF StoreSummary

------------------------------------------------------------------------------
(* The invariant, and what it shows *)

LEMMA MemoryInitInv == MemoryInit => MemoryInv
<1> SUFFICES ASSUME MemoryInit PROVE MemoryInv
  OBVIOUS
<1>1. Summaries = {} /\ Messages = {} /\ Generating = {} /\ Context = {}
  BY DEF MemoryInit, Summaries, Messages, Generating, Context
<1>2. MemoryTypeOK /\ TurnTypes
  BY MemoryAssumption DEF MemoryInit, MemoryTypeOK, TurnTypes, TurnPcs
<1> QED BY <1>1, <1>2 DEF MemoryInv, InOrder, CoveredOnce, UpToDate

LEMMA MemoryNextInv == ASSUME MemoryInv, [MemoryNext]_memoryVars PROVE MemoryInv'
<1>1. ASSUME NEW t \in Turns, StoreUserMessage(t) PROVE MemoryInv'
  BY <1>1, AddMessageStep DEF StoreUserMessage, TurnPcs
<1>2. ASSUME NEW t \in Turns, StoreAnswer(t) PROVE MemoryInv'
  BY <1>2, AddMessageStep DEF StoreAnswer, TurnPcs
<1>3. ASSUME NEW t \in Turns, Fetch(t) \/ StoreSummary(t) PROVE MemoryInv'
  BY <1>3, FetchStep, StoreSummaryStep
<1>4. ASSUME NEW t \in Turns,
             ReadContext(t) \/ ModelAnswers(t) \/ RunFails(t) \/ Check(t) \/ SummaryFails(t)
      PROVE  MemoryInv'
  <2>1. Context \subseteq DOMAIN rows
    BY RowsAreNat DEF MemoryInv
  <2>2. PICK pc \in {"store", "answer", "idle", "fetch"}, read \in {Context, {}} : To(t, pc, read)
    BY <1>4 DEF ReadContext, ModelAnswers, RunFails, Check, SummaryFails
  <2>3. UNCHANGED <<rows, excused>>
    BY <1>4 DEF ReadContext, ModelAnswers, RunFails, Check, SummaryFails
  <2> QED BY <2>1, <2>2, <2>3, QuietTurn DEF TurnPcs
<1>5. CASE UNCHANGED memoryVars
  <2>1. UNCHANGED <<rows, turn, excused>>
    BY <1>5 DEF memoryVars
  <2> QED BY <2>1 DEF MemoryInv, MemoryTypeOK, TurnTypes, InOrder, CoveredOnce, UpToDate, Generating,
                      Context, Latest, Summaries, Messages, CoveredBy
<1> QED BY <1>1, <1>2, <1>3, <1>4, <1>5 DEF MemoryNext, TurnStep

LEMMA MemoryInductive == MemorySpec => []MemoryInv
  BY MemoryInitInv, MemoryNextInv, PTL DEF MemorySpec

\* Turns read rows that are there, and a summary covers rows that were.
THEOREM MemoryTypeCorrect == MemorySpec => []MemoryTypeOK
<1>1. MemoryInv => MemoryTypeOK
  BY DEF MemoryInv
<1> QED BY <1>1, MemoryInductive, PTL

\* However the turns overlap, what has left the context is covered by exactly one summary, but
\* for what is excused: stored or read by another turn while a summary was being generated, or
\* of a summary that came back empty.
THEOREM SummarisedOnce == MemorySpec => []CoveredOnce
<1>1. MemoryInv => CoveredOnce
  BY DEF MemoryInv
<1> QED BY <1>1, MemoryInductive, PTL
================================================================================
