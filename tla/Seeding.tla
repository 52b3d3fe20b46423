------------------------------- MODULE Seeding -------------------------------
(***************************************************************************)
(* The seed data, written when a host boots.  Several hosts boot at the    *)
(* same time, and a host that crashed or failed is booted again.           *)
(***************************************************************************)
EXTENDS Integers, Sequences, FiniteSets

CONSTANTS
    Hosts,
    Admins, Personalities, SeedAgents, Channels,   \* the rows of the catalogue, in order
    Owners,                              \* the users of the seed data, in order
    MembersOf,                           \* per owner: the rest of the team, in order
    ExtraHires,                          \* per owner: how many hires after the first
    OnboardingAttempts,                  \* onboardingRetryAttempts
    MaxBoots, MaxBreaks                  \* bounds: boots, and crashes and failed transactions

Elements(list) == {list[i] : i \in DOMAIN list}
PlanRows(kind, names) == [i \in DOMAIN names |-> [kind |-> kind, name |-> names[i]]]

\* What a boot goes through, the first user among it, before the users.
Plan ==
    PlanRows("admin", Admins) \o PlanRows("user", <<Owners[1]>>) \o PlanRows("personality", Personalities)
      \o PlanRows("agent", SeedAgents) \o PlanRows("channel", Channels)
      \o PlanRows("agentPrice", SeedAgents) \o PlanRows("channelPrice", Channels)
SeedRows == {r \in Elements(Plan) : r.kind # "user"}

\* No address is seeded twice: a member of a team is no owner, and in no other team.
ASSUME SeedingAssumption ==
    /\ {Admins, Personalities, SeedAgents, Channels, Owners} \subseteq Seq(STRING) /\ Owners # <<>>
    /\ MembersOf \in [Elements(Owners) -> Seq(STRING)] /\ ExtraHires \in [Elements(Owners) -> Nat]
    /\ \A o, p \in Elements(Owners) :
         /\ Elements(MembersOf[o]) \cap Elements(Owners) = {}
         /\ o = p \/ Elements(MembersOf[o]) \cap Elements(MembersOf[p]) = {}
    /\ OnboardingAttempts \in Nat \ {0} /\ MaxBoots \in Nat /\ MaxBreaks \in Nat

VARIABLES
    copies,      \* per row of the catalogue: the rows there are, numbers of agents or of the agents
                 \* they price, or 1
    users,       \* emails
    passwords,   \* owners that have one
    hired,       \* <<owner, 0>> the first hire, <<owner, k>> the k-th after it
    host,        \* per host: pc, at in the list it goes through, k in the one within, and which
                 \* copy of each agent it goes by
    boots, breaks,
    cut          \* (history) a boot was ended by a crash or by the database

seedingVars == <<copies, users, passwords, hired, host, boots, breaks, cut>>

SeedingInit ==
    /\ copies = [r \in SeedRows |-> <<>>]
    /\ users = {} /\ passwords = {} /\ hired = {}
    /\ host = [h \in Hosts |-> [pc |-> "down", at |-> 0, k |-> 0, copy |-> [a \in Elements(SeedAgents) |-> 0]]]
    /\ boots = 0 /\ breaks = 0 /\ cut = FALSE

------------------------------------------------------------------------------
Booting(h) == host[h].pc \notin {"down", "done", "failed"}
GoOn(h, pc, at, k) == host' = [host EXCEPT ![h].pc = pc, ![h].at = at, ![h].k = k]
Current(h) == Owners[host[h].at]

\* onApplicationBootstrap, where seeding is on.
Boot(h) ==
    /\ ~Booting(h) /\ boots < MaxBoots /\ boots' = boots + 1
    /\ GoOn(h, "catalogue", 1, 0)
    /\ UNCHANGED <<copies, users, passwords, hired, breaks, cut>>

\* What would be inserted: an agent more, a price of the agent the host goes by, or the row.
New(h, row) ==
    CASE row.kind = "agent" -> 1 + Len(copies[row])
      [] row.kind = "agentPrice" -> host[h].copy[row.name]
      [] OTHER -> 1

\* A row of the catalogue is looked up.  After the administrators the first user is: if it
\* is there the rest is taken to be, and if it has no hire the boot fails.
FindRow(h) ==
    /\ host[h].pc = "catalogue"
    /\ IF host[h].at > Len(Plan) THEN GoOn(h, "owner", 1, 0)
       ELSE LET i == host[h].at  row == Plan[i] IN
            CASE row.kind = "user" ->
                   IF Owners[1] \notin users THEN GoOn(h, "catalogue", i + 1, 0)
                   ELSE GoOn(h, IF \E hire \in hired : hire[1] = Owners[1] THEN "done" ELSE "failed", i, 0)
              [] row.kind = "agent" ->
                   IF copies[row] = <<>> THEN GoOn(h, "create", i, 0)
                   ELSE host' = [host EXCEPT ![h].at = i + 1, ![h].copy[row.name] = 1]
              [] OTHER ->
                   IF New(h, row) \in Elements(copies[row]) THEN GoOn(h, "catalogue", i + 1, 0)
                   ELSE GoOn(h, "create", i, 0)
    /\ UNCHANGED <<copies, users, passwords, hired, boots, breaks, cut>>

\* Variant: nothing is unique.
MutantTaken_Never(h, row) == FALSE

\* A unique index has it: of administrators, personalities, channels and prices, not of agents.
Taken(h, row) == New(h, row) \in Elements(copies[row])

\* It was not there and is inserted.  A channel is found or created in one, prices are not.
CreateRow(h) ==
    /\ host[h].pc = "create"
    /\ LET i == host[h].at  row == Plan[i] IN
       IF Taken(h, row)
       THEN /\ IF row.kind = "channel" THEN GoOn(h, "catalogue", i + 1, 0) ELSE GoOn(h, "failed", i, 0)
            /\ UNCHANGED copies
       ELSE /\ copies' = [copies EXCEPT ![row] = Append(@, New(h, row))]
            /\ host' = [host EXCEPT ![h].pc = "catalogue", ![h].at = i + 1,
                 ![h].copy = IF row.kind = "agent" THEN [@ EXCEPT ![row.name] = New(h, row)] ELSE @]
    /\ UNCHANGED <<users, passwords, hired, boots, breaks, cut>>

\* Variant: it is always the first user that is looked up.
MutantFindOwner_First(h) ==
    /\ host[h].pc = "owner"
    /\ LET i == host[h].at IN
       IF i > Len(Owners) THEN GoOn(h, "done", i, 0)
       ELSE IF Owners[1] \in users THEN GoOn(h, "owner", i + 1, 0)
       ELSE GoOn(h, "onboard", i, 1)
    /\ UNCHANGED <<copies, users, passwords, hired, boots, breaks, cut>>

\* The next user: passed over if it is there.
FindOwner(h) ==
    /\ host[h].pc = "owner"
    /\ LET i == host[h].at IN
       IF i > Len(Owners) THEN GoOn(h, "done", i, 0)
       ELSE IF Owners[i] \in users THEN GoOn(h, "owner", i + 1, 0)
       ELSE GoOn(h, "onboard", i, 1)
    /\ UNCHANGED <<copies, users, passwords, hired, boots, breaks, cut>>

Register(h) ==
    /\ users' = users \cup {Current(h)}
    /\ hired' = hired \cup {<<Current(h), 0>>}

\* registerAndHire, one transaction; a user who is there by now is a 409, which ends the boot.
Onboard(h) ==
    /\ host[h].pc = "onboard"
    /\ IF Current(h) \in users
       THEN GoOn(h, "failed", host[h].at, 0) /\ UNCHANGED <<users, hired>>
       ELSE Register(h) /\ GoOn(h, "password", host[h].at, 1)
    /\ UNCHANGED <<copies, passwords, boots, breaks, cut>>

\* The transaction fails with a transient error, though it may be committed; it is tried again.
OnboardFails(h) ==
    /\ host[h].pc = "onboard" /\ Current(h) \notin users
    /\ breaks < MaxBreaks /\ breaks' = breaks + 1
    /\ LET more == host[h].k < OnboardingAttempts IN
       /\ GoOn(h, IF more THEN "onboard" ELSE "failed", host[h].at, host[h].k + 1)
       /\ \/ Register(h) /\ cut' = TRUE
          \/ UNCHANGED <<users, hired>> /\ cut' = (cut \/ ~more)
    /\ UNCHANGED <<copies, passwords, boots>>

SetPassword(h) ==
    /\ host[h].pc = "password"
    /\ passwords' = passwords \cup {Current(h)}
    /\ GoOn(h, "member", host[h].at, 1)
    /\ UNCHANGED <<copies, users, hired, boots, breaks, cut>>

\* seedTeamMembers, one at a time, and then the hires.
FindMember(h) ==
    /\ host[h].pc = "member"
    /\ LET k == host[h].k  team == MembersOf[Current(h)] IN
       IF k > Len(team) THEN GoOn(h, "hire", host[h].at, 1)
       ELSE IF team[k] \in users THEN GoOn(h, "member", host[h].at, k + 1)
       ELSE GoOn(h, "insert", host[h].at, k)
    /\ UNCHANGED <<copies, users, passwords, hired, boots, breaks, cut>>

InsertMember(h) ==
    /\ host[h].pc = "insert"
    /\ LET k == host[h].k  member == MembersOf[Current(h)][k] IN
       /\ users' = users \cup {member}
       /\ GoOn(h, IF member \in users THEN "failed" ELSE "member", host[h].at, k + 1)
    /\ UNCHANGED <<copies, passwords, hired, boots, breaks, cut>>

\* The next of the other hires; after the last, the next user.
SeedHire(h) ==
    /\ host[h].pc = "hire"
    /\ LET k == host[h].k IN
       IF k > ExtraHires[Current(h)]
       THEN GoOn(h, "owner", host[h].at + 1, 0) /\ UNCHANGED hired
       ELSE /\ hired' = hired \cup {<<Current(h), k>>}
            /\ GoOn(h, "hire", host[h].at, k + 1)
    /\ UNCHANGED <<copies, users, passwords, boots, breaks, cut>>

\* The process dies, or a call fails and the boot with it.
Crash(h) ==
    /\ Booting(h) /\ breaks < MaxBreaks /\ breaks' = breaks + 1
    /\ GoOn(h, "down", 0, 0) /\ cut' = TRUE
    /\ UNCHANGED <<copies, users, passwords, hired, boots>>

SeedStep(h) ==
    \/ FindRow(h) \/ CreateRow(h) \/ FindOwner(h) \/ Onboard(h) \/ OnboardFails(h)
    \/ SetPassword(h) \/ FindMember(h) \/ InsertMember(h) \/ SeedHire(h)

SeedingNext == \E h \in Hosts : Boot(h) \/ SeedStep(h) \/ Crash(h)

SeedingSpec == SeedingInit /\ [][SeedingNext]_seedingVars

------------------------------------------------------------------------------
(* Properties *)

SeedingTypeOK ==
    /\ copies \in [SeedRows -> Seq(Nat \ {0})]
    /\ \A r \in SeedRows : Cardinality(Elements(copies[r])) = Len(copies[r])
    /\ users \subseteq Elements(Owners) \cup UNION {Elements(MembersOf[o]) : o \in Elements(Owners)}
    /\ passwords \subseteq users
    /\ boots \in 0..MaxBoots /\ breaks \in 0..MaxBreaks

CatalogueSeeded ==
    \A r \in SeedRows : copies[r] # <<>> /\ (r.kind \notin {"agent", "agentPrice"} => copies[r] = <<1>>)

Seeded(o) ==
    /\ {o} \cup Elements(MembersOf[o]) \subseteq users /\ o \in passwords
    /\ \A k \in 0..ExtraHires[o] : <<o, k>> \in hired

\* When no host is booting and one has booted, all is seeded, although each takes the first
\* user to stand for the rest, and may have failed for what another inserted; unless a crash
\* or the database ended a boot.  What such a boot left undone is never made up for once the
\* first user is there.
DoneMeansSeeded ==
    (~cut /\ \E h \in Hosts : host[h].pc = "done") /\ (\A h \in Hosts : ~Booting(h))
    => CatalogueSeeded /\ \A o \in Elements(Owners) : Seeded(o)
================================================================================
