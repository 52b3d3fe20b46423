------------------------------- MODULE Sessions -------------------------------
(***************************************************************************)
(* Sessions of client users; those of administrators are the same code     *)
(* over other collections.                                                 *)
(*                                                                         *)
(* A visit is one request: a login, or a request with a session's cookie,  *)
(* which may be a logout.  Requests of one session overlap.                *)
(***************************************************************************)
EXTENDS Integers, FiniteSets

CONSTANTS
    Persons,      \* users
    Cookies,      \* sessions, by token
    NoSession,
    Visits,       \* concurrent requests
    Lifetimes,    \* the configurations: idle and absolute lifetime, and the touch throttle
    MaxClock,     \* bound: time
    MaxSwitches   \* bound: users made inactive or active

SessionRow == [person : Persons, created : Nat, seen : Nat, expires : Nat, revoked : BOOLEAN]

ASSUME SessionsAssumption ==
    /\ NoSession \notin SessionRow
    /\ Lifetimes \subseteq [idle : Nat \ {0}, absolute : Nat \ {0}, throttle : Nat]
    /\ MaxClock \in Nat /\ MaxSwitches \in Nat

VARIABLES
    clock,
    lifetime,   \* the configuration
    enabled,    \* users that are active
    session,    \* per cookie: the row, or NoSession
    visit,      \* per visit: pc, cookie, now, and (history) late: it began after the revocation
    switches

sessionsVars == <<clock, lifetime, enabled, session, visit, switches>>

SessionsInit ==
    /\ clock = 0
    /\ lifetime \in Lifetimes
    /\ enabled = Persons
    /\ session = [c \in Cookies |-> NoSession]
    /\ visit = [v \in Visits |-> [pc |-> "new"]]
    /\ switches = 0

------------------------------------------------------------------------------
Smaller(a, b) == IF a < b THEN a ELSE b
Cutoff(c) == session[c].created + lifetime.absolute
Becomes(v, pc) == visit' = [visit EXCEPT ![v].pc = pc]

\* login: the user is active and the password right.
Login(v, p, c) ==
    /\ visit[v].pc = "new" /\ session[c] = NoSession
    /\ ~\E w \in Visits : visit[w].pc # "new" /\ visit[w].cookie = c
    /\ visit' = [visit EXCEPT ![v] =
         [pc |-> IF p \in enabled THEN "issue" ELSE "401", cookie |-> c, person |-> p,
          now |-> clock, late |-> FALSE, logout |-> FALSE, copy |-> NoSession]]
    /\ UNCHANGED <<clock, lifetime, enabled, session, switches>>

\* The session starts even if the user has become inactive since.
Issue(v) ==
    /\ visit[v].pc = "issue"
    /\ session' = [session EXCEPT ![visit[v].cookie] =
         [person |-> visit[v].person, created |-> clock, seen |-> clock,
          expires |-> clock + lifetime.idle, revoked |-> FALSE]]
    /\ Becomes(v, "ok")
    /\ UNCHANGED <<clock, lifetime, enabled, switches>>

\* A request with a cookie arrives.
Present(v, c, logout) ==
    /\ visit[v].pc = "new" /\ session[c] # NoSession
    /\ visit' = [visit EXCEPT ![v] =
         [pc |-> "find", cookie |-> c, person |-> session[c].person, now |-> clock,
          late |-> session[c].revoked, logout |-> logout, copy |-> NoSession]]
    /\ UNCHANGED <<clock, lifetime, enabled, session, switches>>

\* findActiveByTokenHash, and the cutoff: `now` is taken here for all that follows.
Find(v) ==
    /\ visit[v].pc = "find"
    /\ LET c == visit[v].cookie  s == session[c]
           valid == /\ s # NoSession /\ ~s.revoked /\ s.expires > clock
                    /\ clock < Cutoff(c)
       IN  visit' = [visit EXCEPT ![v].pc = IF valid THEN "user" ELSE "401",
                                  ![v].now = clock, ![v].copy = s]
    /\ UNCHANGED <<clock, lifetime, enabled, session, switches>>

\* Variant: every request extends the session.
MutantDue_Always(v) == TRUE

\* The session has not been touched for a while.
Due(v) == visit[v].now - visit[v].copy.seen > lifetime.throttle

\* An inactive user's session is revoked; otherwise the session is touched when it is due.
ReadUser(v) ==
    /\ visit[v].pc = "user"
    /\ Becomes(v, IF visit[v].person \notin enabled THEN "revoke"
                  ELSE IF Due(v) THEN "touch" ELSE "accepted")
    /\ UNCHANGED <<clock, lifetime, enabled, session, switches>>

Update(c, row) == session' = [session EXCEPT ![c] = IF @ = NoSession THEN @ ELSE row]

\* Variant: the row that was read is saved.
MutantTouch_Save(v) ==
    /\ visit[v].pc = "touch"
    /\ LET c == visit[v].cookie IN
       Update(c, [visit[v].copy EXCEPT !.seen = visit[v].now,
                    !.expires = Smaller(visit[v].now + lifetime.idle,
                                        visit[v].copy.created + lifetime.absolute)])
    /\ Becomes(v, "accepted")
    /\ UNCHANGED <<clock, lifetime, enabled, switches>>

\* touchLastSeen sets these two fields, in whatever row is there; a failure is logged.
Touch(v) ==
    /\ visit[v].pc = "touch"
    /\ LET c == visit[v].cookie IN
       \/ Update(c, [session[c] EXCEPT !.seen = visit[v].now,
                       !.expires = Smaller(visit[v].now + lifetime.idle,
                                           visit[v].copy.created + lifetime.absolute)])
       \/ UNCHANGED session
    /\ Becomes(v, "accepted")
    /\ UNCHANGED <<clock, lifetime, enabled, switches>>

\* The inactive user's session is revoked, or that fails and is logged.
RevokeInactive(v) ==
    /\ visit[v].pc = "revoke"
    /\ LET c == visit[v].cookie IN
       Update(c, [session[c] EXCEPT !.revoked = TRUE]) \/ UNCHANGED session
    /\ Becomes(v, "401")
    /\ UNCHANGED <<clock, lifetime, enabled, switches>>

\* logout, of an accepted request.
Logout(v) ==
    /\ visit[v].pc = "accepted" /\ visit[v].logout
    /\ LET c == visit[v].cookie IN Update(c, [session[c] EXCEPT !.revoked = TRUE])
    /\ Becomes(v, "ok")
    /\ UNCHANGED <<clock, lifetime, enabled, switches>>

\* The TTL index removes rows that have expired.
Sweep(c) ==
    /\ session[c] # NoSession /\ session[c].expires <= clock
    /\ session' = [session EXCEPT ![c] = NoSession]
    /\ UNCHANGED <<clock, lifetime, enabled, visit, switches>>

\* An answered request makes room for another.
Answered(v) ==
    /\ \/ visit[v].pc \in {"401", "ok"}
       \/ visit[v].pc = "accepted" /\ ~visit[v].logout
    /\ visit' = [visit EXCEPT ![v] = [pc |-> "new"]]
    /\ UNCHANGED <<clock, lifetime, enabled, session, switches>>

\* An administrator changes the status of a user: sessions are left alone.
SetStatus(p) ==
    /\ switches < MaxSwitches /\ switches' = switches + 1
    /\ enabled' = IF p \in enabled THEN enabled \ {p} ELSE enabled \cup {p}
    /\ UNCHANGED <<clock, lifetime, session, visit>>

Pass ==
    /\ clock < MaxClock /\ clock' = clock + 1
    /\ UNCHANGED <<lifetime, enabled, session, visit, switches>>

SessionsNext ==
    \/ \E v \in Visits :
         \/ \E c \in Cookies : \/ \E p \in Persons : Login(v, p, c)
                               \/ \E logout \in BOOLEAN : Present(v, c, logout)
         \/ Issue(v) \/ Find(v) \/ ReadUser(v) \/ Touch(v) \/ RevokeInactive(v)
         \/ Logout(v) \/ Answered(v)
    \/ \E c \in Cookies : Sweep(c)
    \/ \E p \in Persons : SetStatus(p)
    \/ Pass

SessionsSpec == SessionsInit /\ [][SessionsNext]_sessionsVars

------------------------------------------------------------------------------
(* Properties *)

SessionsTypeOK ==
    /\ clock \in 0..MaxClock /\ lifetime \in Lifetimes /\ enabled \subseteq Persons
    /\ session \in [Cookies -> SessionRow \cup {NoSession}]
    /\ switches \in 0..MaxSwitches

\* A request that begins after the logout is refused, whatever requests that began before
\* it still write to the session.
RevokedStaysRevoked == \A v \in Visits : visit[v].pc = "accepted" => ~visit[v].late

\* No session outlives its absolute lifetime, or the idle one it starts with; and unless the
\* throttle is shorter than the idle lifetime, which by default it is not (60 and 30
\* minutes), no request ever extends it: who works without a pause is logged out as well.
LifetimeBounded ==
    \A c \in Cookies : session[c] # NoSession =>
        LET idle == session[c].created + lifetime.idle IN
        session[c].expires <= IF lifetime.throttle < lifetime.idle /\ idle < Cutoff(c)
                              THEN Cutoff(c) ELSE idle
================================================================================
