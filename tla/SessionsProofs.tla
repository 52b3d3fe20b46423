----------------------------- MODULE SessionsProofs -----------------------------
(***************************************************************************)
(* Sessions, for any number of users, cookies and overlapping requests and *)
(* any lifetimes.                                                          *)
(***************************************************************************)
EXTENDS Sessions, TLAPS

------------------------------------------------------------------------------
(* The inductive invariant *)

Accepting == {"user", "touch", "revoke", "accepted"}
VisitPcs == {"issue", "find", "401", "ok"} \cup Accepting
Visit == [pc : VisitPcs, cookie : Cookies, person : Persons, now : Nat, late : BOOLEAN,
          logout : BOOLEAN, copy : SessionRow \cup {NoSession}]
AnyVisit == {[pc |-> "new"]} \cup Visit

VisitTypes == visit \in [Visits -> AnyVisit]

\* What is true of a row however it came to be written.
Bound(s) ==
    LET idle == s.created + lifetime.idle
        cutoff == s.created + lifetime.absolute
    IN  IF lifetime.throttle < lifetime.idle /\ idle < cutoff THEN cutoff ELSE idle
Fits(s) == s.expires <= Bound(s) /\ s.expires <= s.seen + lifetime.idle
RowsFit == \A c \in Cookies : session[c] # NoSession => Fits(session[c])

\* While a request has a cookie, the cookie is of one session at most: what was read of it,
\* and whether it was revoked, is of the session there is, or of none.
Holds(v) ==
    LET q == visit[v]  s == session[q.cookie] IN
    q.pc # "new" =>
    /\ q.pc = "issue" => /\ s = NoSession
                         /\ \A w \in Visits \ {v} : visit[w].pc # "new" => visit[w].cookie # q.cookie
    /\ q.pc = "find" /\ q.late => s = NoSession \/ s.revoked
    /\ q.pc \in Accepting => /\ ~q.late
                             /\ q.copy # NoSession /\ Fits(q.copy) /\ q.copy.expires > q.now
                             /\ s # NoSession => s.created = q.copy.created
    /\ q.pc = "touch" => Due(v)
VisitsHold == \A v \in Visits : Holds(v)

SessionsInv == SessionsTypeOK /\ VisitTypes /\ RowsFit /\ VisitsHold

------------------------------------------------------------------------------
(* Steps *)

LEMMA LifetimeTypes ==
    ASSUME SessionsTypeOK
    PROVE  /\ lifetime.idle \in Nat /\ lifetime.idle > 0
           /\ lifetime.absolute \in Nat /\ lifetime.absolute > 0 /\ lifetime.throttle \in Nat
  BY SessionsAssumption DEF SessionsTypeOK

LEMMA VisitType ==
    ASSUME VisitTypes, NEW v \in Visits, visit[v].pc # "new" PROVE visit[v] \in Visit
  BY DEF VisitTypes, AnyVisit

\* A step of a visit that is only one to its next pc.
LEMMA BecomesType ==
    ASSUME VisitTypes, NEW v \in Visits, visit[v].pc # "new", NEW pc \in VisitPcs, Becomes(v, pc)
    PROVE  /\ VisitTypes'
           /\ visit'[v].pc = pc /\ visit'[v].cookie = visit[v].cookie /\ visit'[v].now = visit[v].now
           /\ visit'[v].late = visit[v].late /\ visit'[v].copy = visit[v].copy
           /\ \A w \in Visits \ {v} : visit'[w] = visit[w]
<1>1. visit[v] \in Visit
  BY VisitType
<1>2. visit' = [visit EXCEPT ![v] = [visit[v] EXCEPT !.pc = pc]]
  BY <1>1 DEF Becomes, VisitTypes
<1>3. [visit[v] EXCEPT !.pc = pc] \in Visit
  BY <1>1 DEF Visit
<1> QED BY <1>1, <1>2, <1>3 DEF VisitTypes, AnyVisit, Visit

\* The others still hold after a step of v that leaves their sessions what they were, but for
\* being touched, revoked or swept.
SameSession(c) ==
    session'[c] # NoSession =>
      session[c] # NoSession /\ session'[c].created = session[c].created
        /\ (session[c].revoked => session'[c].revoked)

LEMMA OthersHold ==
    ASSUME VisitsHold, VisitTypes, lifetime' = lifetime, NEW v \in Visits,
           \A w \in Visits \ {v} : visit'[w] = visit[w],
           \A w \in Visits \ {v} : visit[w].pc # "new" => SameSession(visit[w].cookie),
           \A w \in Visits \ {v} : visit[w].pc = "issue" /\ visit'[v].pc # "new" =>
             visit'[v].cookie # visit[w].cookie
    PROVE  \A w \in Visits \ {v} : Holds(w)'
<1> SUFFICES ASSUME NEW w \in Visits \ {v}, visit[w].pc # "new" PROVE Holds(w)'
  BY DEF Holds
<1>1. visit[w] \in Visit /\ Holds(w) /\ visit'[w] = visit[w]
  BY VisitType DEF VisitsHold
<1>3. SameSession(visit[w].cookie)
  OBVIOUS
<1>4. Fits(visit[w].copy)' <=> Fits(visit[w].copy)
  BY <1>1 DEF Fits, Bound
<1>5. Due(w)' <=> Due(w)
  BY <1>1 DEF Due
<1>6. visit[w].pc = "issue" => \A u \in Visits \ {w} : visit'[u].pc # "new" => visit'[u].cookie # visit[w].cookie
  BY <1>1 DEF Holds
<1> QED BY <1>1, <1>3, <1>4, <1>5, <1>6 DEF Holds, SameSession

\* A step of a visit that leaves the sessions alone.
LEMMA QuietVisit ==
    ASSUME SessionsInv, NEW v \in Visits, UNCHANGED <<clock, lifetime, enabled, session, switches>>,
           VisitTypes', \A w \in Visits \ {v} : visit'[w] = visit[w], Holds(v)',
           \A w \in Visits \ {v} : visit[w].pc = "issue" /\ visit'[v].pc # "new" =>
             visit'[v].cookie # visit[w].cookie
    PROVE  SessionsInv'
<1>1. SessionsTypeOK' /\ RowsFit'
  BY DEF SessionsInv, SessionsTypeOK, RowsFit, Fits, Bound
<1>2. \A c : SameSession(c)
  BY DEF SameSession
<1>3. \A w \in Visits \ {v} : Holds(w)'
  BY <1>2, OthersHold DEF SessionsInv
<1> QED BY <1>1, <1>3 DEF SessionsInv, VisitsHold

\* A step of a visit that is only one to its next pc.
LEMMA QuietBecomes ==
    ASSUME SessionsInv, NEW v \in Visits, UNCHANGED <<clock, lifetime, enabled, session, switches>>,
           visit[v].pc # "new", visit[v].pc # "issue",
           NEW pc, Becomes(v, pc),
           \/ pc \in {"401", "ok"}
           \/ pc \in {"revoke", "touch", "accepted"} /\ visit[v].pc \in Accepting /\ (pc = "touch" => Due(v))
    PROVE  SessionsInv'
<1>1. Holds(v) /\ VisitTypes /\ visit[v] \in Visit
  BY VisitType DEF SessionsInv, VisitsHold
<1>2. pc \in VisitPcs
  BY DEF VisitPcs, Accepting
<1>3. /\ VisitTypes'
      /\ visit'[v].pc = pc /\ visit'[v].cookie = visit[v].cookie /\ visit'[v].now = visit[v].now
      /\ visit'[v].late = visit[v].late /\ visit'[v].copy = visit[v].copy
      /\ \A w \in Visits \ {v} : visit'[w] = visit[w]
  BY <1>1, <1>2, BecomesType
<1>4. (Fits(visit[v].copy)' <=> Fits(visit[v].copy)) /\ (Due(v)' <=> Due(v))
  BY <1>3 DEF Fits, Bound, Due
<1>5. Holds(v)'
  BY <1>1, <1>3, <1>4 DEF Holds, Accepting
<1>6. \A w \in Visits \ {v} : visit[w].pc = "issue" => visit'[v].cookie # visit[w].cookie
  BY <1>3 DEF SessionsInv, VisitsHold, Holds
<1> QED BY <1>3, <1>5, <1>6, QuietVisit

LEMMA LoginStep ==
    ASSUME SessionsInv, NEW v \in Visits, NEW p \in Persons, NEW c \in Cookies, Login(v, p, c)
    PROVE  SessionsInv'
<1> DEFINE n == [pc |-> IF p \in enabled THEN "issue" ELSE "401", cookie |-> c, person |-> p,
                 now |-> clock, late |-> FALSE, logout |-> FALSE, copy |-> NoSession]
<1>1. n \in Visit /\ n.pc \in {"issue", "401"} /\ n.cookie = c
  BY DEF SessionsInv, SessionsTypeOK, Visit, VisitPcs
<1>2. visit' = [visit EXCEPT ![v] = n] /\ session[c] = NoSession
      /\ UNCHANGED <<clock, lifetime, enabled, session, switches>>
      /\ \A w \in Visits : visit[w].pc # "new" => visit[w].cookie # c
  BY DEF Login
<1> HIDE DEF n
<1>3. VisitTypes' /\ visit'[v] = n /\ \A w \in Visits \ {v} : visit'[w] = visit[w]
  BY <1>1, <1>2 DEF SessionsInv, VisitTypes, AnyVisit
<1>4. Holds(v)'
  BY <1>1, <1>2, <1>3 DEF Holds, Accepting
<1> QED BY <1>1, <1>2, <1>3, <1>4, QuietVisit

LEMMA PresentStep ==
    ASSUME SessionsInv, NEW v \in Visits, NEW c \in Cookies, NEW logout \in BOOLEAN, Present(v, c, logout)
    PROVE  SessionsInv'
<1> DEFINE n == [pc |-> "find", cookie |-> c, person |-> session[c].person, now |-> clock,
                 late |-> session[c].revoked, logout |-> logout, copy |-> NoSession]
<1>1. session[c] \in SessionRow /\ clock \in Nat /\ session[c] # NoSession
  BY DEF SessionsInv, SessionsTypeOK, Present
<1>2. n \in Visit /\ n.pc = "find" /\ n.cookie = c /\ n.late = session[c].revoked
  BY <1>1 DEF Visit, VisitPcs, SessionRow
<1>3. visit' = [visit EXCEPT ![v] = n] /\ UNCHANGED <<clock, lifetime, enabled, session, switches>>
  BY DEF Present
<1> HIDE DEF n
<1>4. VisitTypes' /\ visit'[v] = n /\ \A w \in Visits \ {v} : visit'[w] = visit[w]
  BY <1>2, <1>3 DEF SessionsInv, VisitTypes, AnyVisit
<1>5. Holds(v)'
  BY <1>2, <1>3, <1>4 DEF Holds, Accepting
<1>6. \A w \in Visits \ {v} : visit[w].pc = "issue" => c # visit[w].cookie
  BY <1>1 DEF SessionsInv, VisitsHold, Holds
<1> QED BY <1>2, <1>3, <1>4, <1>5, <1>6, QuietVisit

LEMMA FindStep == ASSUME SessionsInv, NEW v \in Visits, Find(v) PROVE SessionsInv'
<1> DEFINE c == visit[v].cookie
           s == session[c]
           valid == s # NoSession /\ ~s.revoked /\ s.expires > clock /\ clock < Cutoff(c)
           n == [visit[v] EXCEPT !.pc = IF valid THEN "user" ELSE "401", !.now = clock, !.copy = s]
<1>1. /\ visit[v].pc = "find" /\ visit[v] \in Visit /\ Holds(v) /\ c \in Cookies
      /\ s \in SessionRow \cup {NoSession} /\ clock \in Nat
  BY VisitType DEF SessionsInv, VisitsHold, Find, Visit, SessionsTypeOK
<1>2. visit' = [visit EXCEPT ![v] = n] /\ UNCHANGED <<clock, lifetime, enabled, session, switches>>
  BY <1>1 DEF Find, SessionsInv, VisitTypes
<1>3. /\ n \in Visit /\ n.pc = (IF valid THEN "user" ELSE "401") /\ n.cookie = c /\ n.late = visit[v].late
      /\ n.now = clock /\ n.copy = s
  BY <1>1 DEF Visit, VisitPcs, Accepting
<1>4. VisitTypes' /\ visit'[v] = n /\ \A w \in Visits \ {v} : visit'[w] = visit[w]
  BY <1>2, <1>3 DEF SessionsInv, VisitTypes, AnyVisit
<1>5. valid => ~visit[v].late
  BY <1>1 DEF Holds
<1>6. s # NoSession => Fits(s)
  BY <1>1 DEF SessionsInv, RowsFit
<1>7. Fits(s)' <=> Fits(s)
  BY <1>2 DEF Fits, Bound
<1>8. Holds(v)'
  <2>1. CASE ~valid
    <3>1. visit'[v].pc = "401"
      BY <1>3, <1>4, <2>1
    <3> QED BY <3>1 DEF Holds, Accepting
  <2>2. CASE valid
    <3>1. /\ visit'[v].pc = "user" /\ visit'[v].cookie = c /\ ~visit'[v].late /\ visit'[v].now = clock
          /\ visit'[v].copy = s
      BY <1>3, <1>4, <1>5, <2>2
    <3>2. Fits(visit[v].copy)'
      BY <1>2, <1>6, <2>2, <3>1 DEF Fits, Bound
    <3>3. session'[visit'[v].cookie] = s /\ s.expires > clock
      BY <1>2, <2>2, <3>1
    <3> HIDE DEF s, valid
    <3> QED BY <2>2, <3>1, <3>2, <3>3 DEF Holds, Accepting, valid
  <2> QED BY <2>1, <2>2
<1>9. \A w \in Visits \ {v} : visit[w].pc = "issue" => c # visit[w].cookie
  BY <1>1 DEF SessionsInv, VisitsHold, Holds
<1> HIDE DEF n
<1> QED BY <1>2, <1>3, <1>4, <1>8, <1>9, QuietVisit

\* Touch, revocation and logout change a row that is there, and no other.
LEMMA UpdateStep ==
    ASSUME SessionsInv, NEW v \in Visits, UNCHANGED <<clock, lifetime, enabled, switches>>,
           visit[v].pc \in Accepting, NEW pc \in {"accepted", "401", "ok"}, Becomes(v, pc),
           NEW row, Update(visit[v].cookie, row),
           session[visit[v].cookie] # NoSession =>
             /\ row \in SessionRow /\ Fits(row)
             /\ row.created = session[visit[v].cookie].created
             /\ session[visit[v].cookie].revoked => row.revoked
    PROVE  SessionsInv'
<1> DEFINE c == visit[v].cookie
<1>1. visit[v].pc # "new" /\ visit[v] \in Visit /\ c \in Cookies /\ Holds(v)
  <2>1. visit[v].pc # "new"
    BY DEF Accepting
  <2> QED BY <2>1, VisitType DEF SessionsInv, VisitsHold, Visit
<1>2. /\ VisitTypes'
      /\ visit'[v].pc = pc /\ visit'[v].cookie = c /\ visit'[v].now = visit[v].now
      /\ visit'[v].late = visit[v].late /\ visit'[v].copy = visit[v].copy
      /\ \A w \in Visits \ {v} : visit'[w] = visit[w]
  <2>1. pc \in VisitPcs
    BY DEF VisitPcs, Accepting
  <2> QED BY <1>1, <2>1, BecomesType DEF SessionsInv
<1>3. /\ \A k \in Cookies \ {c} : session'[k] = session[k]
      /\ session[c] = NoSession => session'[c] = NoSession
      /\ session[c] # NoSession => session'[c] = row
  BY <1>1 DEF Update, SessionsInv, SessionsTypeOK
<1>4. session' \in [Cookies -> SessionRow \cup {NoSession}]
  <2>1. CASE session[c] = NoSession
    BY <1>1, <2>1 DEF Update, SessionsInv, SessionsTypeOK
  <2>2. CASE session[c] # NoSession
    BY <1>1, <2>2 DEF Update, SessionsInv, SessionsTypeOK
  <2> QED BY <2>1, <2>2
<1>5. SessionsTypeOK'
  BY <1>4 DEF SessionsInv, SessionsTypeOK
<1>6. RowsFit'
  BY <1>1, <1>3 DEF SessionsInv, RowsFit, Fits, Bound
<1>7. \A k \in Cookies : SameSession(k)
  BY <1>1, <1>3, SessionsAssumption DEF SameSession
<1>8. \A w \in Visits \ {v} : Holds(w)'
  <2>1. \A w \in Visits \ {v} : visit[w].pc # "new" => visit[w].cookie \in Cookies
    BY VisitType DEF SessionsInv, Visit
  <2>2. \A w \in Visits \ {v} : visit[w].pc = "issue" => c # visit[w].cookie
    BY <1>1 DEF SessionsInv, VisitsHold, Holds
  <2> QED BY <1>2, <1>7, <2>1, <2>2, OthersHold DEF SessionsInv
<1>9. Holds(v)'
  <2>1. Fits(visit[v].copy)' <=> Fits(visit[v].copy)
    BY <1>2 DEF Fits, Bound
  <2>2. SameSession(c)
    BY <1>1, <1>7
  <2> HIDE DEF c
  <2>3. visit'[v].pc \in {"accepted", "401", "ok"}
    BY <1>2
  <2>4. /\ ~visit[v].late /\ visit[v].copy # NoSession /\ Fits(visit[v].copy)
        /\ visit[v].copy.expires > visit[v].now
        /\ session[c] # NoSession => session[c].created = visit[v].copy.created
    BY <1>1 DEF Holds, c
  <2> QED BY <1>2, <2>1, <2>2, <2>3, <2>4 DEF Holds, SameSession, Accepting
<1> QED BY <1>2, <1>5, <1>6, <1>8, <1>9 DEF SessionsInv, VisitsHold

LEMMA IssueStep == ASSUME SessionsInv, NEW v \in Visits, Issue(v) PROVE SessionsInv'
<1> DEFINE c == visit[v].cookie
           row == [person |-> visit[v].person, created |-> clock, seen |-> clock,
                   expires |-> clock + lifetime.idle, revoked |-> FALSE]
<1>1. /\ visit[v].pc = "issue" /\ visit[v] \in Visit /\ c \in Cookies /\ clock \in Nat
      /\ \A w \in Visits \ {v} : visit[w].pc # "new" => visit[w].cookie # c
  BY VisitType DEF SessionsInv, VisitsHold, Holds, Issue, Visit, SessionsTypeOK
<1>2. lifetime.idle \in Nat /\ lifetime.absolute \in Nat /\ lifetime.throttle \in Nat
  BY LifetimeTypes DEF SessionsInv
<1>3. row \in SessionRow /\ Fits(row)
  BY <1>1, <1>2 DEF SessionRow, Visit, Fits, Bound
<1>4. /\ session' = [session EXCEPT ![c] = row] /\ Becomes(v, "ok")
      /\ UNCHANGED <<clock, lifetime, enabled, switches>>
  BY DEF Issue
<1> HIDE DEF row
<1>5. VisitTypes' /\ visit'[v].pc = "ok" /\ visit'[v].cookie = c
      /\ \A w \in Visits \ {v} : visit'[w] = visit[w]
  <2>1. "ok" \in VisitPcs
    BY DEF VisitPcs
  <2> QED BY <1>1, <1>4, <2>1, BecomesType DEF SessionsInv
<1>6. session' \in [Cookies -> SessionRow \cup {NoSession}] /\ session'[c] = row
      /\ \A k \in Cookies \ {c} : session'[k] = session[k]
  BY <1>1, <1>3, <1>4 DEF SessionsInv, SessionsTypeOK
<1>7. SessionsTypeOK'
  BY <1>4, <1>6 DEF SessionsInv, SessionsTypeOK
<1>8. RowsFit'
  BY <1>3, <1>4, <1>6 DEF SessionsInv, RowsFit, Fits, Bound
<1>9. \A w \in Visits \ {v} : Holds(w)'
  <2>1. \A w \in Visits \ {v} : visit[w].pc # "new" => visit[w].cookie \in Cookies \ {c}
    BY <1>1, VisitType DEF SessionsInv, Visit
  <2>2. \A w \in Visits \ {v} : visit[w].pc # "new" => SameSession(visit[w].cookie)
    BY <1>6, <2>1 DEF SameSession
  <2>3. \A w \in Visits \ {v} : visit[w].pc = "issue" => visit[w].cookie # c
    BY <1>1
  <2> QED BY <1>4, <1>5, <2>2, <2>3, OthersHold DEF SessionsInv
<1>10. Holds(v)'
  BY <1>5 DEF Holds, Accepting
<1> QED BY <1>5, <1>7, <1>8, <1>9, <1>10 DEF SessionsInv, VisitsHold

\* A touch is in time, and so only where the throttle is shorter than the idle lifetime.
LEMMA TouchStep == ASSUME SessionsInv, NEW v \in Visits, Touch(v) PROVE SessionsInv'
<1> DEFINE c == visit[v].cookie
           copy == visit[v].copy
           row == [session[c] EXCEPT !.seen = visit[v].now,
                     !.expires = Smaller(visit[v].now + lifetime.idle, copy.created + lifetime.absolute)]
<1>1. /\ visit[v].pc = "touch" /\ visit[v].pc \in Accepting /\ visit[v].pc \notin {"new", "issue"}
      /\ UNCHANGED <<clock, lifetime, enabled, switches>> /\ Becomes(v, "accepted")
      /\ Update(c, row) \/ UNCHANGED session
  BY DEF Touch, Accepting
<1>2. /\ visit[v] \in Visit /\ c \in Cookies /\ Holds(v) /\ session[c] \in SessionRow \cup {NoSession}
  BY <1>1, VisitType DEF SessionsInv, VisitsHold, Visit, SessionsTypeOK
<1>3. CASE UNCHANGED session
  BY <1>1, <1>3, QuietBecomes
<1>4. CASE Update(c, row)
  <2>1. ASSUME session[c] # NoSession
        PROVE  /\ row \in SessionRow /\ Fits(row) /\ row.created = session[c].created
               /\ session[c].revoked => row.revoked
    <3>1. lifetime.idle \in Nat /\ lifetime.absolute \in Nat /\ lifetime.throttle \in Nat
      BY LifetimeTypes DEF SessionsInv
    <3>2. /\ session[c] \in SessionRow /\ copy \in SessionRow /\ visit[v].now \in Nat
          /\ copy.expires > visit[v].now /\ Fits(copy) /\ session[c].created = copy.created /\ Due(v)
      BY <1>1, <1>2, <2>1 DEF Holds, Visit
    <3> DEFINE e == Smaller(visit[v].now + lifetime.idle, copy.created + lifetime.absolute)
    <3>3. /\ copy.created \in Nat /\ copy.expires \in Nat /\ copy.seen \in Nat
      BY <3>2 DEF SessionRow
    <3>4. lifetime.throttle < lifetime.idle
      BY <3>1, <3>2, <3>3 DEF Fits, Due
    <3>5. /\ e \in Nat /\ e <= visit[v].now + lifetime.idle /\ e <= copy.created + lifetime.absolute
      BY <3>1, <3>2, <3>3 DEF Smaller
    <3> HIDE DEF e
    <3>6. row = [session[c] EXCEPT !.seen = visit[v].now, !.expires = e]
      BY DEF e
    <3> HIDE DEF row
    <3>7. /\ row \in SessionRow /\ row.created = session[c].created /\ row.revoked = session[c].revoked
          /\ row.seen = visit[v].now /\ row.expires = e
      BY <3>2, <3>5, <3>6 DEF SessionRow
    <3>8. Fits(row)
      BY <3>1, <3>2, <3>3, <3>4, <3>5, <3>7 DEF Fits, Bound
    <3> QED BY <3>7, <3>8
  <2> HIDE DEF row
  <2> QED BY <1>1, <1>4, <2>1, UpdateStep
<1> QED BY <1>1, <1>3, <1>4

\* Revocation of an inactive user's session, and logout.
LEMMA RevokeStep ==
    ASSUME SessionsInv, NEW v \in Visits, RevokeInactive(v) \/ Logout(v) PROVE SessionsInv'
<1> DEFINE c == visit[v].cookie
           row == [session[c] EXCEPT !.revoked = TRUE]
<1>1. /\ visit[v].pc \in {"revoke", "accepted"} /\ visit[v].pc \in Accepting
      /\ visit[v].pc \notin {"new", "issue"}
      /\ UNCHANGED <<clock, lifetime, enabled, switches>>
      /\ Update(c, row) \/ UNCHANGED session
      /\ Becomes(v, "401") \/ Becomes(v, "ok")
  BY DEF RevokeInactive, Logout, Accepting
<1>2. c \in Cookies /\ session[c] \in SessionRow \cup {NoSession}
  BY <1>1, VisitType DEF SessionsInv, Visit, SessionsTypeOK
<1>3. CASE UNCHANGED session
  BY <1>1, <1>3, QuietBecomes
<1>4. CASE Update(c, row)
  <2>1. ASSUME session[c] # NoSession
        PROVE  /\ row \in SessionRow /\ Fits(row) /\ row.created = session[c].created
               /\ session[c].revoked => row.revoked
    <3>1. session[c] \in SessionRow /\ Fits(session[c])
      BY <1>2, <2>1 DEF SessionsInv, RowsFit
    <3>2. /\ row \in SessionRow /\ row.created = session[c].created /\ row.revoked
          /\ row.seen = session[c].seen /\ row.expires = session[c].expires
      BY <3>1 DEF SessionRow
    <3> HIDE DEF row
    <3> QED BY <3>1, <3>2 DEF Fits, Bound
  <2> HIDE DEF row
  <2> QED BY <1>1, <1>4, <2>1, UpdateStep
<1> QED BY <1>1, <1>3, <1>4

LEMMA SweepStep == ASSUME SessionsInv, NEW c \in Cookies, Sweep(c) PROVE SessionsInv'
<1>1. session' = [session EXCEPT ![c] = NoSession] /\ UNCHANGED <<clock, lifetime, enabled, visit, switches>>
  BY DEF Sweep
<1>2. /\ session' \in [Cookies -> SessionRow \cup {NoSession}]
      /\ \A k \in Cookies : session'[k] # NoSession => session'[k] = session[k]
  BY <1>1 DEF SessionsInv, SessionsTypeOK
<1>3. SessionsTypeOK' /\ VisitTypes' /\ RowsFit'
  BY <1>1, <1>2 DEF SessionsInv, SessionsTypeOK, VisitTypes, RowsFit, Fits, Bound
<1>4. ASSUME NEW v \in Visits, visit[v].pc # "new" PROVE Holds(v)'
  <2>1. visit[v].cookie \in Cookies /\ Holds(v)
    BY <1>4, VisitType DEF SessionsInv, Visit, VisitsHold
  <2>2. session[visit[v].cookie] = NoSession => session'[visit[v].cookie] = NoSession
    BY <1>2, <2>1
  <2>3. (Fits(visit[v].copy)' <=> Fits(visit[v].copy)) /\ (Due(v)' <=> Due(v))
    BY <1>1 DEF Fits, Bound, Due
  <2> QED BY <1>1, <1>2, <2>1, <2>2, <2>3 DEF Holds
<1>5. VisitsHold'
  BY <1>1, <1>4 DEF VisitsHold, Holds
<1> QED BY <1>3, <1>5 DEF SessionsInv

LEMMA AnsweredStep == ASSUME SessionsInv, NEW v \in Visits, Answered(v) PROVE SessionsInv'
<1>1. /\ visit' = [visit EXCEPT ![v] = [pc |-> "new"]]
      /\ UNCHANGED <<clock, lifetime, enabled, session, switches>>
  BY DEF Answered
<1>2. VisitTypes' /\ visit'[v] = [pc |-> "new"] /\ \A w \in Visits \ {v} : visit'[w] = visit[w]
  BY <1>1 DEF SessionsInv, VisitTypes, AnyVisit
<1>3. Holds(v)'
  BY <1>2 DEF Holds
<1> QED BY <1>1, <1>2, <1>3, QuietVisit

\* Time, the status of a user, and stuttering.
LEMMA OutsideStep ==
    ASSUME SessionsInv, UNCHANGED <<lifetime, session, visit>>, SessionsTypeOK' PROVE SessionsInv'
<1>1. \A v \in Visits : Holds(v)'
  BY DEF SessionsInv, VisitsHold, Holds, Fits, Bound, Due
<1> QED BY <1>1 DEF SessionsInv, VisitsHold, RowsFit, Fits, Bound, VisitTypes

------------------------------------------------------------------------------
(* The invariant, and what it shows *)

LEMMA SessionsInitInv == SessionsInit => SessionsInv
  BY SessionsAssumption
     DEF SessionsInit, SessionsInv, SessionsTypeOK, VisitTypes, AnyVisit, RowsFit, VisitsHold, Holds

LEMMA SessionsNextInv == ASSUME SessionsInv, [SessionsNext]_sessionsVars PROVE SessionsInv'
<1>1. ASSUME NEW v \in Visits, NEW c \in Cookies, NEW p \in Persons, Login(v, p, c) PROVE SessionsInv'
  BY <1>1, LoginStep
<1>2. ASSUME NEW v \in Visits, NEW c \in Cookies, NEW logout \in BOOLEAN, Present(v, c, logout)
      PROVE  SessionsInv'
  BY <1>2, PresentStep
<1>3. ASSUME NEW v \in Visits, ReadUser(v) PROVE SessionsInv'
  <2>1. /\ visit[v].pc \in Accepting /\ visit[v].pc \notin {"new", "issue"}
        /\ UNCHANGED <<clock, lifetime, enabled, session, switches>>
        /\ \/ Becomes(v, "revoke") \/ Becomes(v, "accepted")
           \/ Becomes(v, "touch") /\ Due(v)
    BY <1>3 DEF ReadUser, Accepting
  <2> QED BY <2>1, QuietBecomes
<1>4. ASSUME NEW v \in Visits,
             Issue(v) \/ Find(v) \/ Touch(v) \/ RevokeInactive(v) \/ Logout(v) \/ Answered(v)
      PROVE  SessionsInv'
  BY <1>4, IssueStep, FindStep, TouchStep, RevokeStep, AnsweredStep
<1>5. ASSUME NEW c \in Cookies, Sweep(c) PROVE SessionsInv'
  BY <1>5, SweepStep
<1>6. ASSUME NEW p \in Persons, SetStatus(p) PROVE SessionsInv'
  <2>1. SessionsTypeOK'
    BY <1>6, SessionsAssumption DEF SetStatus, SessionsInv, SessionsTypeOK
  <2> QED BY <1>6, <2>1, OutsideStep DEF SetStatus
<1>7. CASE Pass
  <2>1. SessionsTypeOK'
    BY <1>7, SessionsAssumption DEF Pass, SessionsInv, SessionsTypeOK
  <2> QED BY <1>7, <2>1, OutsideStep DEF Pass
<1>8. CASE UNCHANGED sessionsVars
  <2>1. SessionsTypeOK'
    BY <1>8 DEF sessionsVars, SessionsInv, SessionsTypeOK
  <2> QED BY <1>8, <2>1, OutsideStep DEF sessionsVars
<1> QED BY <1>1, <1>2, <1>3, <1>4, <1>5, <1>6, <1>7, <1>8 DEF SessionsNext

LEMMA SessionsInductive == SessionsSpec => []SessionsInv
  BY SessionsInitInv, SessionsNextInv, PTL DEF SessionsSpec

\* Rows and configuration keep their types.
THEOREM SessionsTypeCorrect == SessionsSpec => []SessionsTypeOK
<1>1. SessionsInv => SessionsTypeOK
  BY DEF SessionsInv
<1> QED BY <1>1, SessionsInductive, PTL

\* A request that begins after the session was revoked is refused: no touch of an earlier
\* request brings the session back.
THEOREM RevokedIsRefused == SessionsSpec => []RevokedStaysRevoked
<1>1. SessionsInv => RevokedStaysRevoked
  BY DEF SessionsInv, VisitsHold, Holds, RevokedStaysRevoked, Accepting
<1> QED BY <1>1, SessionsInductive, PTL

\* No session outlives its absolute lifetime, and none is ever extended unless the throttle
\* is shorter than the idle lifetime.
THEOREM NoneOutlives == SessionsSpec => []LifetimeBounded
<1>1. SessionsInv => LifetimeBounded
  BY DEF SessionsInv, RowsFit, Fits, Bound, LifetimeBounded, Cutoff
<1> QED BY <1>1, SessionsInductive, PTL
================================================================================
