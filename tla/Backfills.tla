-------------------------------- MODULE Backfills --------------------------------
(***************************************************************************)
(* The migrations a server runs when it boots, beside live traffic and     *)
(* the boots of others: the control mode of conversations, the columns of  *)
(* the inbox's list, the normal form of e-mail addresses and their index.  *)
(***************************************************************************)
EXTENDS Integers, FiniteSets

CONSTANTS
    Chats, Mailboxes,                  \* conversations, and users with what they typed
    TypedOf,                           \* per mailbox: the address as it was typed, but for its case
    AddressOf,                         \* per mailbox: its normal form, without case and blanks
    ModePasses, ListPasses, MailPasses,\* the boots' runs of the three migrations
    Boots,                             \* bound: the sets of them that there may be together
    ChunkOf,                           \* BACKFILL_CHUNK_SIZE, per run to check more than one
    MaxChunks,                         \* BACKFILL_MAX_ITERATIONS
    MaxCrashes,                        \* bound: boots that fail
    MaxTraffic                         \* bound: conversations opened, modes chosen, users created

Passes == ModePasses \cup ListPasses \cup MailPasses

ASSUME BackfillsAssumption ==
    /\ ChunkOf \in [Passes -> Nat \ {0}] /\ MaxChunks \in Nat \ {0} /\ MaxCrashes \in Nat /\ MaxTraffic \in Nat
    /\ Boots \subseteq SUBSET Passes
    /\ ModePasses \cap ListPasses = {} /\ (ModePasses \cup ListPasses) \cap MailPasses = {}
    /\ Chats \cap Mailboxes = {} /\ DOMAIN AddressOf = Mailboxes /\ DOMAIN TypedOf = Mailboxes
    /\ \A u, v \in Mailboxes : TypedOf[u] \in {TypedOf[v], AddressOf[v]} => AddressOf[u] = AddressOf[v]

VARIABLES
    kept,      \* conversations and users there are
    mode,      \* per conversation: controlMode, or "none"
    named,     \* conversations with contactNameLower
    resolved,     \* conversations with clientAgentId
    folded,    \* users whose address has its normal form
    indexes,   \* unique indexes of users: "email_1", "email_1_ci"
    pass,      \* per run: pc, rows of its chunk, chunks done; (history) what it owes
    crashes, traffic,
    raced      \* (history) conversations whose mode was chosen while a run was about to fill it

backfillsVars == <<kept, mode, named, resolved, folded, indexes, pass, crashes, traffic, raced>>

Booted == {p \in Passes : pass[p].pc # "not due"}

\* What a run has to fill.
Lacking(p) == CASE p \in ModePasses -> {c \in kept \cap Chats : mode[c] = "none"}
                [] p \in ListPasses -> (kept \cap Chats) \ named
                [] p \in MailPasses -> (kept \cap Mailboxes) \ folded

\* A database from before the migrations.
BackfillsInit ==
    /\ \E c \in SUBSET Chats, u \in SUBSET Mailboxes : kept = c \cup u
    /\ mode = [c \in Chats |-> "none"]
    /\ named = {} /\ resolved = {} /\ folded = {} /\ indexes = {"email_1"}
    /\ \E due \in Boots :
         pass = [p \in Passes |-> [pc |-> IF p \in due THEN "new" ELSE "not due",
                                  rows |-> {}, chunks |-> 0, owed |-> {}]]
    /\ crashes = 0 /\ traffic = 0 /\ raced = {}

------------------------------------------------------------------------------
(* The passes *)

Set(p, pc) == pass' = [pass EXCEPT ![p].pc = pc]

\* What an index that ignores case compares: the stored address, blanks and all, of which a
\* pass takes the blanks away.
Collated(u) == IF u \in folded THEN AddressOf[u] ELSE TypedOf[u]
Doubles == {u \in kept \cap Mailboxes :
              \E v \in (kept \cap Mailboxes) \ {u} : Collated(u) = Collated(v)}

\* Is the normal form of u in the way of another address?  By the old index, of the same
\* address only; by the new one, of one that differs in case, too.
Clash(u) == \E v \in (kept \cap Mailboxes) \ {u} :
    Collated(v) = AddressOf[u] /\ ("email_1_ci" \in indexes \/ (v \in folded /\ indexes # {}))

\* The end of the loop.
End(p, pc) == IF p \in MailPasses THEN "drop" ELSE pc

\* The next chunk, of conversations in any order.
Look(p, rows) ==
    /\ pass[p].pc \in {"new", "look"}
    /\ rows \subseteq Lacking(p)
    /\ Cardinality(rows) = ChunkOf[p] \/ (Cardinality(rows) < ChunkOf[p] /\ rows = Lacking(p))
    /\ pass' = [pass EXCEPT ![p].rows = rows,
         ![p].pc = IF rows = {} THEN End(p, "done") ELSE IF Cardinality(rows) < ChunkOf[p] THEN "last" ELSE "fill",
         ![p].owed = IF pass[p].pc = "new" THEN Lacking(p) ELSE @]
    /\ UNCHANGED <<kept, mode, named, resolved, folded, indexes, crashes, traffic, raced>>

\* A row is filled, whatever became of it since the chunk was read.  The hire is the one that
\* serves the channel, if there is exactly one.
Fill(p, x) ==
    /\ x \in pass[p].rows
    /\ IF p \in MailPasses /\ Clash(x)
       THEN /\ pass' = [pass EXCEPT ![p].pc = "failed", ![p].rows = {}]
            /\ UNCHANGED <<mode, named, resolved, folded>>
       ELSE /\ pass' = [pass EXCEPT ![p].rows = @ \ {x}]
            /\ mode' = IF p \in ModePasses THEN [mode EXCEPT ![x] = "bot"] ELSE mode
            /\ named' = IF p \in ListPasses THEN named \cup {x} ELSE named
            /\ resolved' \in IF p \in ListPasses THEN {resolved, resolved \cup {x}} ELSE {resolved}
            /\ folded' = IF p \in MailPasses THEN folded \cup {x} ELSE folded
    /\ UNCHANGED <<kept, indexes, crashes, traffic, raced>>

\* Variant: there is no loop.
MutantChunkDone_Once(p) ==
    /\ pass[p].pc \in {"fill", "last"} /\ pass[p].rows = {}
    /\ pass' = [pass EXCEPT ![p].chunks = @ + 1, ![p].pc = End(p, "done")]
    /\ UNCHANGED <<kept, mode, named, resolved, folded, indexes, crashes, traffic, raced>>

\* The chunk is done: a short one was the last, and there are at most MaxChunks.
ChunkDone(p) ==
    LET n == pass[p].chunks + 1 IN
    /\ pass[p].pc \in {"fill", "last"} /\ pass[p].rows = {}
    /\ pass' = [pass EXCEPT ![p].chunks = n,
         ![p].pc = IF pass[p].pc = "last" THEN End(p, "done")
                   ELSE IF n = MaxChunks THEN End(p, "capped") ELSE "look"]
    /\ UNCHANGED <<kept, mode, named, resolved, folded, indexes, crashes, traffic, raced>>

DropIndex(p) ==
    /\ pass[p].pc = "drop" /\ Set(p, "create")
    /\ indexes' = indexes \ {"email_1"}
    /\ UNCHANGED <<kept, mode, named, resolved, folded, crashes, traffic, raced>>

\* The new index: stored addresses that differ in case only are tolerated, and there is none
\* then.  It sees no likeness in addresses that differ in blanks.
Indexed == IF Doubles = {} THEN indexes \cup {"email_1_ci"} ELSE indexes

CreateIndex(p) ==
    /\ pass[p].pc = "create"
    /\ Set(p, IF pass[p].chunks = MaxChunks THEN "capped" ELSE "done")
    /\ indexes' = Indexed
    /\ UNCHANGED <<kept, mode, named, resolved, folded, crashes, traffic, raced>>

\* A call fails, or the host dies.
BootFails(p) ==
    /\ crashes < MaxCrashes /\ crashes' = crashes + 1
    /\ pass[p].pc \in {"look", "fill", "last", "drop", "create"}
    /\ pass' = [pass EXCEPT ![p].pc = "failed", ![p].rows = {}]
    /\ UNCHANGED <<kept, mode, named, resolved, folded, indexes, traffic, raced>>

------------------------------------------------------------------------------
(* Live traffic *)

\* Mongoose's autoIndex.
AutoIndex ==
    /\ indexes' = Indexed
    /\ UNCHANGED <<kept, mode, named, resolved, folded, pass, crashes, traffic, raced>>

Live == traffic < MaxTraffic /\ traffic' = traffic + 1

\* A conversation is opened, in bot mode.  Nobody sets its columns for the list.
Open(c) ==
    /\ Live /\ c \in Chats \ kept /\ kept' = kept \cup {c}
    /\ mode' = [mode EXCEPT ![c] = "bot"]
    /\ UNCHANGED <<named, resolved, folded, indexes, pass, crashes, raced>>

\* An operator takes a conversation over, or gives it back.
SetMode(c, m) ==
    /\ Live /\ c \in Chats \cap kept /\ mode[c] # m
    /\ mode' = [mode EXCEPT ![c] = m]
    /\ raced' = IF \E p \in ModePasses : c \in pass[p].rows THEN raced \cup {c} ELSE raced
    /\ UNCHANGED <<kept, named, resolved, folded, indexes, pass, crashes>>

\* A user is created, with the normal form of the address.
AddUser(u) ==
    /\ Live /\ u \in Mailboxes \ kept /\ ~Clash(u) /\ kept' = kept \cup {u}
    /\ folded' = folded \cup {u}
    /\ UNCHANGED <<mode, named, resolved, indexes, pass, crashes, raced>>

BackfillsNext ==
    \/ \E p \in Passes :
         \/ \E rows \in SUBSET (Chats \cup Mailboxes) : Look(p, rows)
         \/ \E x \in Chats \cup Mailboxes : Fill(p, x)
         \/ ChunkDone(p) \/ DropIndex(p) \/ CreateIndex(p) \/ BootFails(p)
    \/ AutoIndex
    \/ \E c \in Chats : Open(c) \/ \E m \in {"bot", "human"} : SetMode(c, m)
    \/ \E u \in Mailboxes : AddUser(u)

BackfillsSpec == BackfillsInit /\ [][BackfillsNext]_backfillsVars

------------------------------------------------------------------------------
(* Properties *)

\* With the new index no two stored addresses differ in case only.  They may differ in blanks
\* only, until a pass that meets both fails at the second.
BackfillsTypeOK ==
    /\ kept \subseteq Chats \cup Mailboxes /\ mode \in [Chats -> {"none", "bot", "human"}]
    /\ resolved \subseteq named /\ named \subseteq Chats \cap kept /\ folded \subseteq Mailboxes \cap kept
    /\ indexes \subseteq {"email_1", "email_1_ci"} /\ crashes \in 0..MaxCrashes /\ traffic \in 0..MaxTraffic
    /\ "email_1_ci" \in indexes => Doubles = {}

\* "Remaining documents will be picked up on the next boot": a migration that ends without
\* having reached its cap leaves nothing of what it found, whatever other hosts and the
\* traffic do; it never takes back the mode an operator chose, unless it was about to fill
\* it in; and it leaves users without the new index only if two have the same address then.
Filled == \A p \in Passes : pass[p].pc = "done" =>
    /\ pass[p].owed \cap Lacking(p) = {}
    /\ p \in MailPasses => "email_1_ci" \in indexes \/ Doubles # {}
FilledNotOverwritten ==
    [][/\ Filled'
       /\ \A p \in ModePasses, c \in Chats :
            pass[p].rows # pass'[p].rows /\ mode[c] # mode'[c] => mode[c] = "none" \/ c \in raced
      ]_backfillsVars

\* "After the first successful pass the predicate empties, so re-runs are no-ops"
\* (inbox-conversation-enrichment-backfill.migration.ts:44-45): a pass that begins after one
\* is done finds nothing.
RerunsAreNoOps ==
    [][\A p, q \in ListPasses :
         pass[p].pc = "new" /\ pass'[p].pc # "new" /\ pass[q].pc = "done" => pass'[p].owed = {}
      ]_backfillsVars
================================================================================
