-------------------------- MODULE ConversationMemory --------------------------
(***************************************************************************)
(* What an agent remembers of a conversation: the messages since the last  *)
(* summary, which the runs write in the background once there are many.    *)
(*                                                                         *)
(* One conversation with one agent.  A run of the agent and the summary    *)
(* it triggers are one turn here; turns overlap.  Rows are in the order of *)
(* their createdAt, no two of which are equal.                             *)
(***************************************************************************)
EXTENDS Naturals, Sequences, FiniteSets

CONSTANTS
    Turns,        \* concurrent runs of the agent
    Threshold,    \* CONVERSATION_TOKEN_THRESHOLD, in messages
    MaxRows       \* bound: rows of the conversation

ASSUME MemoryAssumption == Threshold \in Nat \ {0} /\ MaxRows \in Nat

VARIABLES
    rows,      \* the conversation: user and agent messages, and summaries with what they cover
    turn,      \* per turn: pc, and the messages it has read
    excused    \* (history) messages that came, or were summarised, while a summary was being
               \* generated, or whose summary came back empty

memoryVars == <<rows, turn, excused>>

MemoryInit ==
    /\ rows = <<>>
    /\ turn = [t \in Turns |-> [pc |-> "idle", read |-> {}]]
    /\ excused = {}

------------------------------------------------------------------------------
Messages == {i \in DOMAIN rows : rows[i].kind # "summary"}
Summaries == DOMAIN rows \ Messages
Latest == {i \in Summaries : \A j \in Summaries : j <= i}

\* Variant: only what the user wrote.
MutantContext_UserOnly == {i \in Messages : rows[i].kind = "user" /\ \A s \in Latest : i > s}

\* The messages after the latest summary, which is the history a run gives to the model.
Context == {i \in Messages : \A s \in Latest : i > s}

Generating == {t \in Turns : turn[t].pc = "generate"}
Add(row) == Len(rows) < MaxRows /\ rows' = Append(rows, row)
AddMessage(kind) ==
    /\ Add([kind |-> kind, covers |-> {}])
    /\ excused' = IF Generating = {} THEN excused ELSE excused \cup {Len(rows) + 1}
To(t, pc, read) == turn' = [turn EXCEPT ![t] = [pc |-> pc, read |-> read]]

\* The history is read before the message is stored.
ReadContext(t) ==
    /\ turn[t].pc = "idle"
    /\ To(t, "store", Context)
    /\ UNCHANGED <<rows, excused>>

StoreUserMessage(t) ==
    /\ turn[t].pc = "store"
    /\ AddMessage("user")
    /\ To(t, "model", turn[t].read \cup {Len(rows) + 1})

\* The model answers, or says nothing and is answered for.
ModelAnswers(t) ==
    /\ turn[t].pc = "model"
    /\ To(t, "answer", {})
    /\ UNCHANGED <<rows, excused>>

\* The answer is stored; the summary goes on in the background.
StoreAnswer(t) ==
    /\ turn[t].pc = "answer"
    /\ AddMessage("agent")
    /\ To(t, "check", {})

\* The model fails, or storing its answer: there is an apology, which is not stored, and no
\* summary.
RunFails(t) ==
    /\ turn[t].pc \in {"model", "answer"}
    /\ To(t, "idle", {})
    /\ UNCHANGED <<rows, excused>>

\* checkAndSummarizeIfNeeded: the context is counted.
Check(t) ==
    /\ turn[t].pc = "check"
    /\ To(t, IF Cardinality(Context) >= Threshold THEN "fetch" ELSE "idle", {})
    /\ UNCHANGED <<rows, excused>>

\* generateSummary: the context is read again, and given to the model.
Fetch(t) ==
    /\ turn[t].pc = "fetch"
    /\ To(t, IF Context = {} THEN "idle" ELSE "generate", Context)
    /\ excused' = IF Generating = {} THEN excused
                  ELSE excused \cup Context \cup UNION {turn[q].read : q \in Generating}
    /\ UNCHANGED rows

\* The summary is stored as the latest row.  An empty one is replaced by "Unable to generate
\* summary", and stored all the same.
StoreSummary(t) ==
    /\ turn[t].pc = "generate"
    /\ \/ /\ Add([kind |-> "summary", covers |-> turn[t].read])
          /\ UNCHANGED excused
       \/ /\ Add([kind |-> "summary", covers |-> {}])
          /\ excused' = excused \cup turn[t].read
    /\ To(t, "idle", {})

\* The model or the database fails: logged, until a later turn checks again.
SummaryFails(t) ==
    /\ turn[t].pc \in {"check", "fetch", "generate"}
    /\ To(t, "idle", {})
    /\ UNCHANGED <<rows, excused>>

TurnStep(t) ==
    \/ ReadContext(t) \/ StoreUserMessage(t) \/ ModelAnswers(t) \/ StoreAnswer(t)
    \/ RunFails(t) \/ Check(t) \/ Fetch(t) \/ StoreSummary(t) \/ SummaryFails(t)

MemoryNext == \E t \in Turns : TurnStep(t)

MemorySpec == MemoryInit /\ [][MemoryNext]_memoryVars

------------------------------------------------------------------------------
(* Properties *)

Rows == [kind : {"user", "agent", "summary"}, covers : SUBSET (1..MaxRows)]

MemoryTypeOK ==
    /\ rows \in Seq(Rows) /\ Len(rows) <= MaxRows
    /\ \A t \in Turns : turn[t].read \subseteq DOMAIN rows

CoveredBy(i) == {s \in Summaries : i \in rows[s].covers}

\* What leaves the context is summarised, once: every message older than the latest summary
\* is covered by exactly one, but for those that were stored or read by another turn while a
\* summary was being generated, and those whose summary came back empty.  The former are
\* forgotten, or summarised twice: the row that hides them is stamped after them.
CoveredOnce ==
    \A i \in Messages \ (Context \cup excused) : \E s \in Summaries : CoveredBy(i) = {s}
================================================================================
