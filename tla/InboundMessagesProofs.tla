------------------------- MODULE InboundMessagesProofs -------------------------
(***************************************************************************)
(* Safety of inbound processing for any channels, contacts, messages,      *)
(* conversations and handlers, any timeout and any quota.                  *)
(***************************************************************************)
EXTENDS InboundMessages, FiniteSetTheorems, TLAPS

LEMMA IdleTypes ==
    /\ AnyMessage \in Messages /\ IdleHandler \in Handler /\ NoConversation \in Conv
    /\ \A m \in Messages : /\ m.channel \in Channels /\ m.contact \in Contacts /\ m.no \in Nat
                           /\ Thread(m) \in Channels \X Contacts
                           /\ Key(m) \in Contacts \X Nat
<1>1. AnyMessage \in Messages
  BY InboundAssumption DEF AnyMessage
<1>2. \A m \in Messages : /\ m.channel \in Channels /\ m.contact \in Contacts /\ m.no \in Nat
                          /\ Thread(m) \in Channels \X Contacts
                          /\ Key(m) \in Contacts \X Nat
  BY InboundAssumption DEF Thread, Key
<1> QED
  BY <1>1, <1>2 DEF IdleHandler, NoConversation, Handler, Stages, Conv

\* What a step of handler h may do to the handlers.
LEMMA HandlerType ==
    ASSUME TypeOK, NEW h \in Handlers, NEW new \in Handler,
           handler' = [handler EXCEPT ![h] = new]
    PROVE  handler' \in [Handlers -> Handler]
  BY DEF TypeOK

LEMMA InitType == Init => TypeOK
<1> SUFFICES ASSUME Init PROVE TypeOK
  OBVIOUS
<1>1. 0 .. Quota \subseteq Nat
  BY InboundAssumption
<1> QED
  BY <1>1, IdleTypes DEF Init, TypeOK, Effects

LEMMA GotoType ==
    ASSUME TypeOK, NEW h \in Handlers,
           NEW pc \in Stages, Goto(h, pc)
    PROVE  handler' \in [Handlers -> Handler]
<1>1. handler \in [Handlers -> Handler]
  BY DEF TypeOK
<1> QED BY <1>1 DEF Goto, Handler

\* The assignments to several fields of a run keep its type.
LEMMA FieldsType ==
    ASSUME TypeOK, NEW h \in Handlers, NEW pc \in Stages,
           NEW c \in Convs \cup {NoConv}, NEW n \in Nat
    PROVE  /\ [handler EXCEPT ![h].pc = pc, ![h].now = n] \in [Handlers -> Handler]
           /\ [handler EXCEPT ![h].pc = pc, ![h].conv = c] \in [Handlers -> Handler]
           /\ [handler EXCEPT ![h].pc = pc, ![h].conv = c, ![h].now = n]
                 \in [Handlers -> Handler]
<1>1. handler \in [Handlers -> Handler]
  BY DEF TypeOK
<1>2. [handler EXCEPT ![h].pc = pc, ![h].now = n] \in [Handlers -> Handler]
  BY <1>1 DEF Handler
<1>3. [handler EXCEPT ![h].pc = pc, ![h].conv = c] \in [Handlers -> Handler]
  BY <1>1 DEF Handler
<1>4. [handler EXCEPT ![h].pc = pc, ![h].conv = c, ![h].now = n] \in [Handlers -> Handler]
  BY <1>1 DEF Handler
<1> QED BY <1>2, <1>3, <1>4

LEMMA DeclineType ==
    ASSUME TypeOK, NEW h \in Handlers, Decline(h)
    PROVE  handler' \in [Handlers -> Handler] /\ declined' \in SUBSET Messages
  BY IdleTypes DEF TypeOK, Decline, Handler

LEMMA GateType ==
    ASSUME TypeOK, NEW h \in Handlers, NEW c \in Convs, Gate(h, c)
    PROVE  handler' \in [Handlers -> Handler] /\ declined' \in SUBSET Messages
<1>1. CASE Decline(h)
  BY <1>1, DeclineType
<1>2. CASE handler' = [handler EXCEPT ![h].pc = "user", ![h].conv = c] /\ UNCHANGED declined
  BY <1>2, FieldsType DEF Stages, TypeOK
<1> QED BY <1>1, <1>2 DEF Gate

LEMMA CountType ==
    ASSUME TypeOK, NEW m \in Messages, NEW e \in Effects, Count(m, e)
    PROVE  done' \in [Messages -> [Effects -> Nat]]
  BY DEF TypeOK, Count

LEMMA NextType == TypeOK /\ [Next]_vars => TypeOK'
<1> SUFFICES ASSUME TypeOK, [Next]_vars PROVE TypeOK'
  OBVIOUS
<1> USE DEF history, bounds
<1>0. \A h \in Handlers : /\ handler[h] \in Handler /\ handler[h].msg \in Messages
                          /\ handler[h].now \in Nat /\ handler[h].conv \in Convs \cup {NoConv}
  BY DEF TypeOK, Handler
<1>1. ASSUME NEW h \in Handlers, NEW m \in Messages, Deliver(h, m) PROVE TypeOK'
  <2>1. [pc |-> "register", msg |-> m, conv |-> NoConv, now |-> 0,
         human |-> {c \in Convs : conv[c].mode = "human"}] \in Handler
    BY DEF Handler, Stages
  <2>2. handler' \in [Handlers -> Handler]
    BY <1>1, <2>1, HandlerType DEF Deliver
  <2> QED BY <1>1, <2>2 DEF Deliver, TypeOK
<1>2. ASSUME NEW h \in Handlers, Claim(h) PROVE TypeOK'
  <2>1. handler' \in [Handlers -> Handler]
    BY <1>2, GotoType DEF Claim, Stages
  <2> QED BY <1>0, <1>2, <2>1, IdleTypes DEF Claim, TypeOK
<1>3. ASSUME NEW h \in Handlers, Refuse(h) PROVE TypeOK'
  BY <1>0, <1>3, IdleTypes DEF Refuse, TypeOK
<1>4. ASSUME NEW h \in Handlers, Route(h) \/ CheckQuota(h) PROVE TypeOK'
  <2>1. handler' \in [Handlers -> Handler] /\ declined' \in SUBSET Messages
    BY <1>4, DeclineType, GotoType DEF Route, CheckQuota, TypeOK, Stages
  <2> QED BY <1>4, <2>1 DEF Route, CheckQuota, TypeOK
<1>5. ASSUME NEW h \in Handlers, Find(h) PROVE TypeOK'
  <2>1. handler' \in [Handlers -> Handler] /\ declined' \in SUBSET Messages
    <3>1. CASE handler' = [handler EXCEPT ![h].pc = "create", ![h].now = clock]
               /\ UNCHANGED declined
      BY <3>1, FieldsType DEF TypeOK, Stages
    <3>2. ASSUME NEW c \in Convs, Gate(h, c)
          PROVE  handler' \in [Handlers -> Handler] /\ declined' \in SUBSET Messages
      BY <3>2, GateType
    <3>3. ASSUME NEW c \in Convs,
                 handler' = [handler EXCEPT ![h].pc = "close", ![h].conv = c, ![h].now = clock],
                 UNCHANGED declined
          PROVE  handler' \in [Handlers -> Handler] /\ declined' \in SUBSET Messages
      BY <3>3, FieldsType DEF TypeOK, Stages
    <3> QED BY <1>5, <3>1, <3>2, <3>3 DEF Find, OpenConvs
  <2> QED BY <1>5, <2>1 DEF Find, TypeOK
<1>6. ASSUME NEW h \in Handlers, Close(h) PROVE TypeOK'
  <2>1. handler' \in [Handlers -> Handler]
    BY <1>6, FieldsType DEF Close, Stages
  <2>2. conv' \in [Convs -> Conv]
    <3>1. conv \in [Convs -> Conv] /\ conv' = [conv EXCEPT ![handler[h].conv].status = "closed"]
      BY <1>6 DEF Close, TypeOK
    <3> QED BY <3>1 DEF Conv
  <2> QED BY <1>6, <2>1, <2>2 DEF Close, TypeOK
<1>7. ASSUME NEW h \in Handlers, Create(h) PROVE TypeOK'
  <2>1. NewConversation(Thread(handler[h].msg), handler[h].now) \in Conv
    BY <1>0, IdleTypes DEF NewConversation, Conv
  <2>2. handler' \in [Handlers -> Handler]
    <3>1. "user" \in Stages /\ "refind" \in Stages
      BY DEF Stages
    <3>2. ASSUME NEW c \in Convs,
                 handler' = [handler EXCEPT ![h].pc = "user", ![h].conv = c, ![h].now = 0]
          PROVE  handler' \in [Handlers -> Handler]
      <4>1. c \in Convs \cup {NoConv} /\ 0 \in Nat
        OBVIOUS
      <4>2. [handler EXCEPT ![h].pc = "user", ![h].conv = c, ![h].now = 0]
               \in [Handlers -> Handler]
        BY <3>1, <4>1, FieldsType
      <4> QED BY <3>2, <4>2
    <3>3. CASE handler' = [handler EXCEPT ![h].pc = "refind", ![h].now = 0]
      BY <3>1, <3>3, FieldsType
    <3> QED BY <1>7, <3>2, <3>3 DEF Create
  <2>3. conv' \in [Convs -> Conv]
    BY <1>7, <2>1 DEF Create, TypeOK
  <2> QED BY <1>7, <2>2, <2>3 DEF Create, TypeOK
<1>8. ASSUME NEW h \in Handlers, Refind(h) PROVE TypeOK'
  <2>1. handler' \in [Handlers -> Handler] /\ declined' \in SUBSET Messages
    <3>1. ASSUME NEW c \in Convs, Gate(h, c)
          PROVE  handler' \in [Handlers -> Handler] /\ declined' \in SUBSET Messages
      BY <3>1, GateType
    <3>2. CASE handler' = [handler EXCEPT ![h] = IdleHandler] /\ UNCHANGED declined
      BY <3>2, IdleTypes DEF TypeOK
    <3> QED BY <1>8, <3>1, <3>2 DEF Refind, OpenConvs
  <2> QED BY <1>8, <2>1 DEF Refind, TypeOK
<1>9. ASSUME NEW h \in Handlers, StoreUser(h) PROVE TypeOK'
  <2>1. done' \in [Messages -> [Effects -> Nat]]
    BY <1>0, <1>9, CountType DEF StoreUser, Effects
  <2>2. handler' \in [Handlers -> Handler]
    <3>1. handler' = [handler EXCEPT ![h].pc = "touchUser", ![h].now = clock]
      BY <1>9 DEF StoreUser
    <3>2. "touchUser" \in Stages /\ clock \in Nat
      BY DEF Stages, TypeOK
    <3> QED BY <3>1, <3>2, FieldsType
  <2>3. stored' \in [Channels -> Nat]
    <3>1. stored \in [Channels -> Nat] /\ handler[h].msg.channel \in Channels
      BY <1>0, IdleTypes DEF TypeOK
    <3> QED BY <1>9, <3>1 DEF StoreUser
  <2> QED BY <1>9, <2>1, <2>2, <2>3 DEF StoreUser, TypeOK
<1>10. ASSUME NEW h \in Handlers, Answer(h) PROVE TypeOK'
  <2>1. done' \in [Messages -> [Effects -> Nat]]
    BY <1>0, <1>10, CountType DEF Answer, Effects, TypeOK
  <2>2. handler' \in [Handlers -> Handler]
    <3>1. CASE handler' = [handler EXCEPT ![h].pc = "touchAgent", ![h].now = clock]
      <4>1. "touchAgent" \in Stages /\ clock \in Nat
        BY DEF Stages, TypeOK
      <4> QED BY <3>1, <4>1, FieldsType
    <3> QED BY <1>10, <3>1, GotoType DEF Answer, Stages
  <2> QED BY <1>10, <2>1, <2>2 DEF Answer, TypeOK
<1>11. ASSUME NEW h \in Handlers, Touch(h) PROVE TypeOK'
  <2> DEFINE next == [touchUser |-> "answer", touchAgent |-> "touch", touch |-> "send"]
  <2>1. next[handler[h].pc] \in {"answer", "touch", "send"}
    BY <1>11 DEF Touch
  <2>2. handler' = [handler EXCEPT ![h] = [handler[h] EXCEPT !.pc = next[handler[h].pc],
                                                             !.now = 0]]
    BY <1>11 DEF Touch, TypeOK
  <2> HIDE DEF next
  <2>3. [handler[h] EXCEPT !.pc = next[handler[h].pc], !.now = 0] \in Handler
    BY <1>0, <2>1 DEF Handler, Stages
  <2>4. handler' \in [Handlers -> Handler]
    BY <2>2, <2>3, HandlerType
  <2>5. conv' \in [Convs -> Conv]
    <3>1. (IF handler[h].pc = "touch" THEN clock ELSE handler[h].now) \in Nat
      BY <1>0 DEF TypeOK
    <3>2. conv' = [conv EXCEPT ![handler[h].conv].last =
                     IF handler[h].pc = "touch" THEN clock ELSE handler[h].now]
      BY <1>11 DEF Touch
    <3>3. conv \in [Convs -> Conv]
      BY DEF TypeOK
    <3> DEFINE n == IF handler[h].pc = "touch" THEN clock ELSE handler[h].now
    <3>4. n \in Nat /\ conv' = [conv EXCEPT ![handler[h].conv].last = n]
      BY <3>1, <3>2
    <3> HIDE DEF n
    <3> QED BY <3>3, <3>4 DEF Conv
  <2> QED BY <1>11, <2>4, <2>5 DEF Touch, TypeOK
<1>12. ASSUME NEW h \in Handlers, Send(h) PROVE TypeOK'
  <2>1. done' \in [Messages -> [Effects -> Nat]]
    BY <1>0, <1>12, CountType DEF Send, Effects
  <2> QED BY <1>12, <2>1, IdleTypes DEF Send, TypeOK
<1>13. ASSUME NEW h \in Handlers, Fail(h) \/ Crash(h) PROVE TypeOK'
  <2>1. handler' \in [Handlers -> Handler]
    BY <1>13, IdleTypes, GotoType DEF Fail, Crash, TypeOK, Stages
  <2>2. faults' \in Nat /\ changes' = changes
    BY <1>13 DEF Fail, Crash, Fault, TypeOK
  <2> QED BY <1>13, <2>1, <2>2 DEF Fail, Crash, TypeOK
<1>14. ASSUME NEW c \in Convs, NEW mode \in {"bot", "human"}, SetControlMode(c, mode)
       PROVE  TypeOK'
  <2>1. handler' \in [Handlers -> Handler]
    <3>1. \A h \in Handlers : [handler[h] EXCEPT !.human = @ \ {c}] \in Handler
      BY <1>0 DEF Handler
    <3> QED BY <1>14, <3>1 DEF SetControlMode
  <2>2. conv' \in [Convs -> Conv]
    <3>1. conv \in [Convs -> Conv] /\ conv' = [conv EXCEPT ![c].mode = mode]
      BY <1>14 DEF SetControlMode, TypeOK
    <3> QED BY <3>1 DEF Conv
  <2> QED BY <1>14, <2>1, <2>2 DEF SetControlMode, TypeOK
<1>15. ASSUME NEW c \in Convs, NEW status \in {"open", "closed", "archived"},
              ChangeStatus(c, status)
       PROVE  TypeOK'
  <2>1. conv' \in [Convs -> Conv]
    <3>1. conv \in [Convs -> Conv] /\ conv' = [conv EXCEPT ![c].status = status]
      BY <1>15 DEF ChangeStatus, TypeOK
    <3> QED BY <3>1 DEF Conv
  <2> QED BY <1>15, <2>1 DEF ChangeStatus, TypeOK
<1>16. ASSUME NEW c \in Convs, OperatorTouch(c) PROVE TypeOK'
  <2>1. conv' \in [Convs -> Conv]
    <3>1. conv \in [Convs -> Conv] /\ conv' = [conv EXCEPT ![c].last = clock] /\ clock \in Nat
      BY <1>16 DEF OperatorTouch, TypeOK
    <3> QED BY <3>1 DEF Conv
  <2> QED BY <1>16, <2>1 DEF OperatorTouch, TypeOK
<1>17. CASE Tick
  BY <1>17 DEF Tick, TypeOK
<1>18. CASE UNCHANGED vars
  BY <1>18 DEF vars, TypeOK
<1> QED
  BY <1>1, <1>2, <1>3, <1>4, <1>5, <1>6, <1>7, <1>8, <1>9, <1>10, <1>11, <1>12, <1>13,
     <1>14, <1>15, <1>16, <1>17, <1>18 DEF Next

\* Every reachable state is well typed: runs, conversations and counters keep to their
\* types whatever interleaves.
THEOREM TypeCorrect == Spec => []TypeOK
  BY InitType, NextType, PTL DEF Spec

------------------------------------------------------------------------------
(* One open conversation per thread *)

\* A step after which no other conversation is open, and the open ones have the
\* thread they had.
LEMMA NoneOpened ==
    ASSUME OneOpenConversation,
           \A c \in Convs : conv'[c].status = "open" =>
             conv[c].status = "open" /\ conv'[c].thread = conv[c].thread
    PROVE  OneOpenConversation'
  BY DEF OneOpenConversation

\* A step that opens conversation d, which the unique index allows.
LEMMA OneOpened ==
    ASSUME OneOpenConversation, NEW d \in Convs, IndexAllows(conv'[d].thread),
           \A c \in Convs \ {d} : conv'[c] = conv[c]
    PROVE  OneOpenConversation'
  BY DEF OneOpenConversation, IndexAllows, OpenConvs

LEMMA NextOneOpen ==
    TypeOK /\ OneOpenConversation /\ [Next]_vars => OneOpenConversation'
<1> SUFFICES ASSUME TypeOK, OneOpenConversation, [Next]_vars PROVE OneOpenConversation'
  OBVIOUS
<1>0. conv \in [Convs -> Conv]
  BY DEF TypeOK
<1>1. CASE UNCHANGED conv
  BY <1>1, NoneOpened
<1>2. ASSUME NEW h \in Handlers, Close(h) PROVE OneOpenConversation'
  <2>1. \A c \in Convs : conv'[c].status = "open" =>
             conv[c].status = "open" /\ conv'[c].thread = conv[c].thread
    BY <1>0, <1>2 DEF Close, Conv
  <2> QED BY <2>1, NoneOpened
<1>3. ASSUME NEW h \in Handlers, Create(h) PROVE OneOpenConversation'
  <2> DEFINE t == Thread(handler[h].msg)
  <2>1. CASE UNCHANGED conv
    BY <2>1, NoneOpened
  <2>2. ASSUME NEW d \in Convs, IndexAllows(t),
               conv' = [conv EXCEPT ![d] = NewConversation(t, handler[h].now)]
        PROVE  OneOpenConversation'
    <3>1. conv'[d].thread = t /\ \A c \in Convs \ {d} : conv'[c] = conv[c]
      BY <1>0, <2>2 DEF NewConversation
    <3> QED BY <2>2, <3>1, OneOpened
  <2> QED BY <1>3, <2>1, <2>2 DEF Create
<1>4. ASSUME NEW h \in Handlers, Touch(h) PROVE OneOpenConversation'
  <2>1. \A c \in Convs : conv'[c].status = conv[c].status /\ conv'[c].thread = conv[c].thread
    <3> DEFINE n == IF handler[h].pc = "touch" THEN clock ELSE handler[h].now
    <3>1. conv' = [conv EXCEPT ![handler[h].conv].last = n]
      BY <1>4 DEF Touch
    <3> HIDE DEF n
    <3> QED BY <1>0, <3>1 DEF Conv
  <2> QED BY <2>1, NoneOpened
<1>5. ASSUME NEW c \in Convs, NEW mode \in {"bot", "human"}, SetControlMode(c, mode)
      PROVE  OneOpenConversation'
  <2>1. \A d \in Convs : conv'[d].status = conv[d].status /\ conv'[d].thread = conv[d].thread
    BY <1>0, <1>5 DEF SetControlMode, Conv
  <2> QED BY <2>1, NoneOpened
<1>6. ASSUME NEW c \in Convs, NEW status \in {"open", "closed", "archived"},
             ChangeStatus(c, status)
      PROVE  OneOpenConversation'
  <2>1. \A d \in Convs \ {c} : conv'[d] = conv[d]
    BY <1>0, <1>6 DEF ChangeStatus
  <2>2. conv'[c].status = status /\ conv'[c].thread = conv[c].thread
    BY <1>0, <1>6 DEF ChangeStatus, Conv
  <2>3. CASE status = "open"
    BY <1>6, <2>1, <2>2, <2>3, OneOpened DEF ChangeStatus
  <2>4. CASE status # "open"
    BY <2>1, <2>2, <2>4, NoneOpened
  <2> QED BY <2>3, <2>4
<1>7. ASSUME NEW c \in Convs, OperatorTouch(c) PROVE OneOpenConversation'
  <2>1. \A d \in Convs : conv'[d].status = conv[d].status /\ conv'[d].thread = conv[d].thread
    BY <1>0, <1>7 DEF OperatorTouch, Conv
  <2> QED BY <2>1, NoneOpened
<1> QED
  BY <1>1, <1>2, <1>3, <1>4, <1>5, <1>6, <1>7
  DEF Next, vars, Deliver, Claim, Refuse, Route, CheckQuota, Find, Refind, StoreUser,
      Answer, Send, Fail, Crash, Tick

\* A thread never has two open conversations: a run that finds a conversation too old
\* closes and creates, an operator may reopen in between, and the index arbitrates.
THEOREM OneOpenPerThread == Spec => []OneOpenConversation
<1>1. Init => OneOpenConversation
  BY DEF Init, OneOpenConversation, NoConversation
<1> QED
  BY <1>1, NextOneOpen, TypeCorrect, PTL DEF Spec

------------------------------------------------------------------------------
(* The course of a run *)

\* The step of run h leaves the other runs alone and takes h to one of the stages S,
\* with the message it had.
Becomes(h, S) ==
    /\ \A g \in Handlers \ {h} : handler'[g] = handler[g]
    /\ handler'[h].pc \in S
    /\ handler'[h].pc = "idle" \/ handler'[h].msg = handler[h].msg

LEMMA GotoBecomes ==
    ASSUME TypeOK, NEW h \in Handlers, NEW S, NEW pc \in S, Goto(h, pc)
    PROVE  Becomes(h, S)
<1>1. handler \in [Handlers -> Handler]
  BY DEF TypeOK
<1> QED BY <1>1 DEF Goto, Becomes, Handler

LEMMA IdleBecomes ==
    ASSUME TypeOK, NEW h \in Handlers, NEW S, "idle" \in S,
           handler' = [handler EXCEPT ![h] = IdleHandler]
    PROVE  Becomes(h, S)
<1>1. handler \in [Handlers -> Handler]
  BY DEF TypeOK
<1> QED BY <1>1 DEF IdleHandler, Becomes

LEMMA FieldsBecome ==
    ASSUME TypeOK, NEW h \in Handlers, NEW S, NEW pc \in S, NEW c, NEW n
    PROVE  /\ handler' = [handler EXCEPT ![h].pc = pc, ![h].now = n] => Becomes(h, S)
           /\ handler' = [handler EXCEPT ![h].pc = pc, ![h].conv = c] => Becomes(h, S)
           /\ handler' = [handler EXCEPT ![h].pc = pc, ![h].conv = c, ![h].now = n]
                => Becomes(h, S)
<1>1. handler \in [Handlers -> Handler]
  BY DEF TypeOK
<1>2. ASSUME handler' = [handler EXCEPT ![h].pc = pc, ![h].now = n] PROVE Becomes(h, S)
  BY <1>1, <1>2 DEF Becomes, Handler
<1>3. ASSUME handler' = [handler EXCEPT ![h].pc = pc, ![h].conv = c] PROVE Becomes(h, S)
  BY <1>1, <1>3 DEF Becomes, Handler
<1>4. ASSUME handler' = [handler EXCEPT ![h].pc = pc, ![h].conv = c, ![h].now = n]
      PROVE  Becomes(h, S)
  BY <1>1, <1>4 DEF Becomes, Handler
<1> QED BY <1>2, <1>3, <1>4

LEMMA Course ==
    ASSUME TypeOK, NEW h \in Handlers
    PROVE  /\ Claim(h) => Becomes(h, {"route"})
           /\ Refuse(h) => Becomes(h, {"idle"})
           /\ Route(h) => Becomes(h, {"idle", "quota", "send"})
           /\ CheckQuota(h) => Becomes(h, {"idle"}) \/
                 (Becomes(h, {"find"}) /\ WithinQuota(handler[h].msg.channel))
           /\ Find(h) => Becomes(h, {"idle", "close", "create", "user"})
           /\ Close(h) => Becomes(h, {"create"})
           /\ Create(h) => Becomes(h, {"refind", "user"})
           /\ Refind(h) => Becomes(h, {"idle", "user"})
           /\ StoreUser(h) => Becomes(h, {"touchUser"})
           /\ Answer(h) => Becomes(h, {"touchAgent", "touch"})
           /\ Touch(h) => \/ handler[h].pc = "touchUser" /\ Becomes(h, {"answer"})
                          \/ handler[h].pc = "touchAgent" /\ Becomes(h, {"touch"})
                          \/ handler[h].pc = "touch" /\ Becomes(h, {"send"})
           /\ Send(h) => Becomes(h, {"idle"})
           /\ Fail(h) => \/ Becomes(h, {"idle"})
                         \/ /\ handler[h].pc \in {"user", "touchUser", "answer", "touchAgent"}
                            /\ Becomes(h, {"touch"})
           /\ Crash(h) => Becomes(h, {"idle"})
<1>1. Claim(h) => Becomes(h, {"route"})
  BY GotoBecomes DEF Claim
<1>2. Refuse(h) => Becomes(h, {"idle"})
  BY IdleBecomes DEF Refuse
<1>3. ASSUME Route(h) PROVE Becomes(h, {"idle", "quota", "send"})
  <2> DEFINE S == {"idle", "quota", "send"}
  <2>1. "idle" \in S /\ "quota" \in S /\ "send" \in S
    OBVIOUS
  <2> HIDE DEF S
  <2>2. CASE handler' = [handler EXCEPT ![h] = IdleHandler]
    BY <2>1, <2>2, IdleBecomes
  <2>3. CASE Goto(h, "quota") \/ Goto(h, "send")
    BY <2>1, <2>3, GotoBecomes
  <2> QED BY <1>3, <2>2, <2>3 DEF Route, Decline, S
<1>4. CheckQuota(h) => Becomes(h, {"idle"}) \/
         (Becomes(h, {"find"}) /\ WithinQuota(handler[h].msg.channel))
  BY GotoBecomes, IdleBecomes DEF CheckQuota, Decline
<1>5. ASSUME NEW c, NEW S, "idle" \in S, "user" \in S, Gate(h, c) PROVE Becomes(h, S)
  <2>1. CASE handler' = [handler EXCEPT ![h] = IdleHandler]
    BY <1>5, <2>1, IdleBecomes
  <2>2. CASE handler' = [handler EXCEPT ![h].pc = "user", ![h].conv = c]
    BY <1>5, <2>2, FieldsBecome
  <2> QED BY <1>5, <2>1, <2>2 DEF Gate, Decline
<1>6. ASSUME Find(h) PROVE Becomes(h, {"idle", "close", "create", "user"})
  <2> DEFINE S == {"idle", "close", "create", "user"}
  <2>1. "idle" \in S /\ "close" \in S /\ "create" \in S /\ "user" \in S
    OBVIOUS
  <2> HIDE DEF S
  <2>2. ASSUME NEW c, Gate(h, c) PROVE Becomes(h, S)
    BY <1>5, <2>1, <2>2
  <2>3. CASE handler' = [handler EXCEPT ![h].pc = "create", ![h].now = clock]
    BY <2>1, <2>3, FieldsBecome
  <2>4. ASSUME NEW c, handler' = [handler EXCEPT ![h].pc = "close", ![h].conv = c, ![h].now = clock]
        PROVE  Becomes(h, S)
    BY <2>1, <2>4, FieldsBecome
  <2> QED BY <1>6, <2>2, <2>3, <2>4 DEF Find, S
<1>7. Close(h) => Becomes(h, {"create"})
  BY FieldsBecome DEF Close
<1>8. ASSUME Create(h) PROVE Becomes(h, {"refind", "user"})
  <2> DEFINE S == {"refind", "user"}
  <2>1. "refind" \in S /\ "user" \in S
    OBVIOUS
  <2> HIDE DEF S
  <2>2. ASSUME NEW c, handler' = [handler EXCEPT ![h].pc = "user", ![h].conv = c, ![h].now = 0]
        PROVE  Becomes(h, S)
    BY <2>1, <2>2, FieldsBecome
  <2>3. CASE handler' = [handler EXCEPT ![h].pc = "refind", ![h].now = 0]
    BY <2>1, <2>3, FieldsBecome
  <2> QED BY <1>8, <2>2, <2>3 DEF Create, S
<1>9. ASSUME Refind(h) PROVE Becomes(h, {"idle", "user"})
  <2> DEFINE S == {"idle", "user"}
  <2>1. "idle" \in S /\ "user" \in S
    OBVIOUS
  <2> HIDE DEF S
  <2>2. ASSUME NEW c, Gate(h, c) PROVE Becomes(h, S)
    BY <1>5, <2>1, <2>2
  <2>3. CASE handler' = [handler EXCEPT ![h] = IdleHandler]
    BY <2>1, <2>3, IdleBecomes
  <2> QED BY <1>9, <2>2, <2>3 DEF Refind, S
<1>10. StoreUser(h) => Becomes(h, {"touchUser"})
  BY FieldsBecome DEF StoreUser
<1>11. ASSUME Answer(h) PROVE Becomes(h, {"touchAgent", "touch"})
  <2> DEFINE S == {"touchAgent", "touch"}
  <2>1. "touchAgent" \in S /\ "touch" \in S
    OBVIOUS
  <2> HIDE DEF S
  <2>2. CASE handler' = [handler EXCEPT ![h].pc = "touchAgent", ![h].now = clock]
    BY <2>1, <2>2, FieldsBecome
  <2>3. CASE Goto(h, "touch")
    BY <2>1, <2>3, GotoBecomes
  <2> QED BY <1>11, <2>2, <2>3 DEF Answer, S
<1>12. ASSUME Touch(h)
       PROVE  \/ handler[h].pc = "touchUser" /\ Becomes(h, {"answer"})
              \/ handler[h].pc = "touchAgent" /\ Becomes(h, {"touch"})
              \/ handler[h].pc = "touch" /\ Becomes(h, {"send"})
  <2> DEFINE next == [touchUser |-> "answer", touchAgent |-> "touch", touch |-> "send"]
  <2>1. \/ handler[h].pc = "touchUser" /\ next[handler[h].pc] \in {"answer"}
        \/ handler[h].pc = "touchAgent" /\ next[handler[h].pc] \in {"touch"}
        \/ handler[h].pc = "touch" /\ next[handler[h].pc] \in {"send"}
    BY <1>12 DEF Touch
  <2>2. handler' = [handler EXCEPT ![h] = [handler[h] EXCEPT !.pc = next[handler[h].pc],
                                                             !.now = 0]]
    BY <1>12 DEF Touch, TypeOK
  <2> HIDE DEF next
  <2>3. handler \in [Handlers -> Handler]
    BY DEF TypeOK
  <2>4. ASSUME NEW S, next[handler[h].pc] \in S PROVE Becomes(h, S)
    BY <2>2, <2>3, <2>4 DEF Becomes, Handler
  <2> QED BY <2>1, <2>4
<1>13. Send(h) => Becomes(h, {"idle"})
  BY IdleBecomes DEF Send
<1>14. ASSUME Fail(h)
       PROVE  \/ Becomes(h, {"idle"})
              \/ /\ handler[h].pc \in {"user", "touchUser", "answer", "touchAgent"}
                 /\ Becomes(h, {"touch"})
  BY <1>14, IdleBecomes, GotoBecomes DEF Fail
<1>15. Crash(h) => Becomes(h, {"idle"})
  BY IdleBecomes DEF Crash
<1> QED BY <1>1, <1>2, <1>3, <1>4, <1>6, <1>7, <1>8, <1>9, <1>10, <1>11, <1>12, <1>13,
           <1>14, <1>15

------------------------------------------------------------------------------
(* The quota *)

PassedQuota == {"find", "close", "create", "refind", "user"}

\* Runs in flight are handlers: there are finitely many of them.
LEMMA InFlightFinite ==
    ASSUME NEW ch
    PROVE  /\ IsFiniteSet(InFlight(ch)) /\ Cardinality(InFlight(ch)) \in Nat
           /\ Cardinality(InFlight(ch)) <= Cardinality(Handlers)
           /\ Cardinality(Handlers) \in Nat /\ Cardinality(Handlers) >= 1
           /\ IsFiniteSet(InFlight(ch)') /\ Cardinality(InFlight(ch)') \in Nat
           /\ Cardinality(InFlight(ch)') <= Cardinality(Handlers)
<1>1. InFlight(ch) \subseteq Handlers /\ InFlight(ch)' \subseteq Handlers
  BY DEF InFlight
<1>2. IsFiniteSet(Handlers) /\ Handlers # {}
  BY InboundAssumption
<1>3. Cardinality(Handlers) \in Nat /\ Cardinality(Handlers) # 0
  BY <1>2, FS_CardinalityType, FS_EmptySet
<1>4. IsFiniteSet(InFlight(ch)) /\ Cardinality(InFlight(ch)) <= Cardinality(Handlers)
  BY <1>1, <1>2, FS_Subset
<1>5. IsFiniteSet(InFlight(ch)') /\ Cardinality(InFlight(ch)') <= Cardinality(Handlers)
  BY <1>1, <1>2, FS_Subset
<1>6. Cardinality(InFlight(ch)) \in Nat /\ Cardinality(InFlight(ch)') \in Nat
  BY <1>4, <1>5, FS_CardinalityType
<1> QED BY <1>3, <1>4, <1>5, <1>6

\* A step that stores no message and lets no run pass the check keeps the bound.
LEMMA QuotaKept ==
    ASSUME TypeOK, QuotaOvershootBounded, stored' = stored,
           \A g \in Handlers : handler'[g].pc \in PassedQuota =>
             handler[g].pc \in PassedQuota /\ handler'[g].msg = handler[g].msg
    PROVE  QuotaOvershootBounded'
<1> SUFFICES ASSUME NEW ch \in Channels
             PROVE  stored'[ch] + Cardinality(InFlight(ch)') <= Quota - 1 + Cardinality(Handlers)
  BY DEF QuotaOvershootBounded
<1>1. InFlight(ch)' \subseteq InFlight(ch)
  BY DEF InFlight, PassedQuota
<1>2. Cardinality(InFlight(ch)') <= Cardinality(InFlight(ch))
  BY <1>1, InFlightFinite, FS_Subset
<1>3. stored[ch] \in Nat /\ stored'[ch] = stored[ch]
  BY DEF TypeOK
<1>4. stored[ch] + Cardinality(InFlight(ch)) <= Quota - 1 + Cardinality(Handlers)
  BY DEF QuotaOvershootBounded
<1> QED BY <1>2, <1>3, <1>4, InFlightFinite, InboundAssumption

LEMMA NextQuota ==
    TypeOK /\ QuotaOvershootBounded /\ [Next]_vars => QuotaOvershootBounded'
<1> SUFFICES ASSUME TypeOK, QuotaOvershootBounded, [Next]_vars PROVE QuotaOvershootBounded'
  OBVIOUS
<1>0. handler \in [Handlers -> Handler] /\ stored \in [Channels -> Nat]
  BY DEF TypeOK
\* Run h takes a step to a stage outside PassedQuota, or between such stages.
<1>1. ASSUME NEW h \in Handlers, NEW S, Becomes(h, S), stored' = stored,
             S \cap PassedQuota = {} \/ handler[h].pc \in PassedQuota
      PROVE  QuotaOvershootBounded'
  <2>1. "idle" \notin PassedQuota
    BY DEF PassedQuota
  <2>2. \A g \in Handlers : handler'[g].pc \in PassedQuota =>
             handler[g].pc \in PassedQuota /\ handler'[g].msg = handler[g].msg
    BY <1>1, <2>1 DEF Becomes
  <2> QED BY <1>1, <2>2, QuotaKept
<1>2. ASSUME NEW h \in Handlers, Becomes(h, {"find"}), stored' = stored,
             WithinQuota(handler[h].msg.channel), handler[h].pc = "quota"
      PROVE  QuotaOvershootBounded'
  <2> SUFFICES ASSUME NEW ch \in Channels
               PROVE  stored'[ch] + Cardinality(InFlight(ch)')
                        <= Quota - 1 + Cardinality(Handlers)
    BY DEF QuotaOvershootBounded
  <2>1. stored[ch] \in Nat /\ stored'[ch] = stored[ch]
    BY <1>0, <1>2
  <2>2. CASE ch = handler[h].msg.channel
    <3>1. stored[ch] <= Quota - 1
      BY <1>2, <2>1, <2>2, InboundAssumption DEF WithinQuota
    <3> QED BY <2>1, <3>1, InFlightFinite, InboundAssumption
  <2>3. CASE ch # handler[h].msg.channel
    <3>1. InFlight(ch)' \subseteq InFlight(ch)
      BY <1>2, <2>3 DEF InFlight, Becomes
    <3>2. Cardinality(InFlight(ch)') <= Cardinality(InFlight(ch))
      BY <3>1, InFlightFinite, FS_Subset
    <3>3. stored[ch] + Cardinality(InFlight(ch)) <= Quota - 1 + Cardinality(Handlers)
      BY DEF QuotaOvershootBounded
    <3> QED BY <2>1, <3>2, <3>3, InFlightFinite, InboundAssumption
  <2> QED BY <2>2, <2>3
\* The message leaves the flight as it is counted.
<1>3. ASSUME NEW h \in Handlers, StoreUser(h) PROVE QuotaOvershootBounded'
  <2> SUFFICES ASSUME NEW ch \in Channels
               PROVE  stored'[ch] + Cardinality(InFlight(ch)')
                        <= Quota - 1 + Cardinality(Handlers)
    BY DEF QuotaOvershootBounded
  <2>1. Becomes(h, {"touchUser"})
    BY <1>3, Course
  <2>2. stored[ch] \in Nat
    BY <1>0
  <2>3. stored[ch] + Cardinality(InFlight(ch)) <= Quota - 1 + Cardinality(Handlers)
    BY DEF QuotaOvershootBounded
  <2>4. CASE ch = handler[h].msg.channel
    <3>1. stored'[ch] = stored[ch] + 1
      BY <1>0, <1>3, <2>4 DEF StoreUser
    <3>2. h \in InFlight(ch)
      BY <1>3, <2>4 DEF StoreUser, InFlight
    <3>3. InFlight(ch)' \subseteq InFlight(ch) \ {h}
      BY <2>1 DEF InFlight, Becomes
    <3>4. /\ IsFiniteSet(InFlight(ch) \ {h})
          /\ Cardinality(InFlight(ch) \ {h}) = Cardinality(InFlight(ch)) - 1
      BY <3>2, InFlightFinite, FS_RemoveElement
    <3>5. Cardinality(InFlight(ch)') <= Cardinality(InFlight(ch)) - 1
      BY <3>3, <3>4, FS_Subset
    <3> QED BY <2>2, <2>3, <3>1, <3>5, InFlightFinite, InboundAssumption
  <2>5. CASE ch # handler[h].msg.channel
    <3>1. stored'[ch] = stored[ch]
      BY <1>0, <1>3, <2>5 DEF StoreUser
    <3>2. InFlight(ch)' \subseteq InFlight(ch)
      BY <2>1 DEF InFlight, Becomes
    <3>3. Cardinality(InFlight(ch)') <= Cardinality(InFlight(ch))
      BY <3>2, InFlightFinite, FS_Subset
    <3> QED BY <2>2, <2>3, <3>1, <3>3, InFlightFinite, InboundAssumption
  <2> QED BY <2>4, <2>5
<1>4. ASSUME NEW h \in Handlers, Claim(h) \/ Refuse(h) \/ Route(h) \/ Find(h) \/ Close(h)
               \/ Create(h) \/ Refind(h)
      PROVE  QuotaOvershootBounded'
  <2>1. stored' = stored
    BY <1>4 DEF Claim, Refuse, Route, Find, Close, Create, Refind
  <2>2. CASE Claim(h) \/ Refuse(h) \/ Route(h)
    BY <1>1, <2>1, <2>2, Course DEF PassedQuota
  <2>3. CASE Find(h) \/ Close(h) \/ Create(h) \/ Refind(h)
    <3>1. handler[h].pc \in PassedQuota
      BY <2>3 DEF Find, Close, Create, Refind, PassedQuota
    <3> QED BY <1>1, <2>1, <2>3, <3>1, Course
  <2> QED BY <1>4, <2>2, <2>3
<1>5. ASSUME NEW h \in Handlers, CheckQuota(h) PROVE QuotaOvershootBounded'
  <2>1. stored' = stored /\ handler[h].pc = "quota"
    BY <1>5 DEF CheckQuota
  <2>2. CASE Becomes(h, {"idle"})
    BY <1>1, <2>1, <2>2 DEF PassedQuota
  <2> QED BY <1>2, <1>5, <2>1, <2>2, Course
<1>6. ASSUME NEW h \in Handlers, Answer(h) \/ Touch(h) \/ Send(h) \/ Fail(h) \/ Crash(h)
      PROVE  QuotaOvershootBounded'
  <2>1. stored' = stored
    BY <1>6 DEF Answer, Touch, Send, Fail, Crash
  <2> QED BY <1>1, <1>6, <2>1, Course DEF PassedQuota
<1>7. ASSUME NEW h \in Handlers, NEW m \in Messages, Deliver(h, m)
      PROVE  QuotaOvershootBounded'
  <2>1. \A g \in Handlers : handler'[g].pc \in PassedQuota =>
             handler[g].pc \in PassedQuota /\ handler'[g].msg = handler[g].msg
    BY <1>0, <1>7 DEF Deliver, PassedQuota
  <2> QED BY <1>7, <2>1, QuotaKept DEF Deliver
<1>8. ASSUME NEW c \in Convs, NEW mode, SetControlMode(c, mode) PROVE QuotaOvershootBounded'
  <2>1. \A g \in Handlers : handler'[g].pc = handler[g].pc /\ handler'[g].msg = handler[g].msg
    BY <1>0, <1>8 DEF SetControlMode, Handler
  <2> QED BY <1>8, <2>1, QuotaKept DEF SetControlMode
<1>9. CASE UNCHANGED <<stored, handler>>
  BY <1>9, QuotaKept
<1> QED
  BY <1>3, <1>4, <1>5, <1>6, <1>7, <1>8, <1>9
  DEF Next, vars, ChangeStatus, OperatorTouch, Tick

\* A channel never has more active messages in a period than its quota and the runs
\* that passed the check together: the overshoot is bounded by the concurrency.
THEOREM OvershootBounded == Spec => []QuotaOvershootBounded
<1>1. Init => QuotaOvershootBounded
  <2> SUFFICES ASSUME Init, NEW ch \in Channels
               PROVE  stored[ch] + Cardinality(InFlight(ch)) <= Quota - 1 + Cardinality(Handlers)
    BY DEF QuotaOvershootBounded
  <2>1. InFlight(ch) = {}
    BY DEF Init, InFlight, IdleHandler
  <2>2. Cardinality(InFlight(ch)) = 0
    BY <2>1, FS_EmptySet
  <2>3. stored[ch] \in 0 .. Quota
    BY DEF Init
  <2> QED BY <2>2, <2>3, InFlightFinite, InboundAssumption
<1> QED
  BY <1>1, NextQuota, TypeCorrect, PTL DEF Spec

------------------------------------------------------------------------------
(* At most once *)

Working(h) == handler[h].pc \notin {"idle", "register"}

\* The stages of a run before which its message cannot have had the effect.
Ahead == [user  |-> {"route", "quota", "find", "close", "create", "refind", "user"},
          agent |-> {"route", "quota", "find", "close", "create", "refind", "user",
                     "touchUser", "answer"},
          reply |-> Stages \ {"idle", "register"}]

\* A claimed message is worked on by one run at most, and what that run is still to do
\* has not been done: this is why a redelivery repeats nothing.
OnceInv ==
    /\ \A m \in claimed : Key(m) \in processed
    /\ \A h \in Handlers : Working(h) => handler[h].msg \in claimed
    /\ \A g, h \in Handlers :
         Working(g) /\ Working(h) /\ handler[g].msg = handler[h].msg => g = h
    /\ \A h \in Handlers : \A e \in Effects :
         handler[h].pc \in Ahead[e] => done[handler[h].msg][e] = 0
    /\ \A m \in Messages \ claimed : \A e \in Effects : done[m][e] = 0

\* What Ahead says of the stages.
LEMMA AheadFacts ==
    /\ \A e \in Effects : "idle" \notin Ahead[e] /\ "register" \notin Ahead[e]
    /\ \A e \in Effects : Ahead[e] \subseteq Stages
    /\ "user" \in Ahead["user"] /\ "answer" \in Ahead["agent"] /\ "send" \in Ahead["reply"]
    /\ "touchUser" \notin Ahead["user"] /\ "touchAgent" \notin Ahead["agent"]
    /\ "touch" \notin Ahead["agent"]
  BY DEF Ahead, Effects, Stages

\* Going from one stage to another uncovers no effect.
Forward(from, to) ==
    to = "idle" \/ (from \notin {"idle", "register"}
                    /\ \A e \in Effects : to \in Ahead[e] => from \in Ahead[e])

LEMMA ForwardFacts ==
    /\ \A to \in {"quota", "send"} : Forward("route", to)
    /\ Forward("quota", "find")
    /\ \A to \in {"close", "create", "user"} : Forward("find", to)
    /\ Forward("close", "create") /\ Forward("create", "refind") /\ Forward("create", "user")
    /\ Forward("refind", "user") /\ Forward("user", "touchUser")
    /\ Forward("touchUser", "answer") /\ Forward("answer", "touchAgent")
    /\ Forward("touchAgent", "touch") /\ Forward("touch", "send")
    /\ \A from \in {"user", "touchUser", "answer", "touchAgent"} : Forward(from, "touch")
    /\ \A from : Forward(from, "idle")
  BY DEF Forward, Ahead, Effects, Stages

\* A run goes on, and nothing is done for a message.
LEMMA OnceMoved ==
    ASSUME TypeOK, OnceInv, NEW h \in Handlers, NEW S, Becomes(h, S),
           \A to \in S : Forward(handler[h].pc, to),
           UNCHANGED <<processed, claimed, done>>
    PROVE  OnceInv'
<1>1. handler'[h].pc = "idle" \/ /\ Working(h) /\ handler'[h].msg = handler[h].msg
                                 /\ \A e \in Effects : handler'[h].pc \in Ahead[e] =>
                                                         handler[h].pc \in Ahead[e]
  BY DEF Becomes, Forward, Working
<1>2. \A g \in Handlers \ {h} : handler'[g] = handler[g]
  BY DEF Becomes
<1>3. UNCHANGED <<processed, claimed, done>>
  OBVIOUS
<1>4. (\A m \in claimed : Key(m) \in processed)'
  BY <1>3 DEF OnceInv, Key
<1>5. (\A g \in Handlers : Working(g) => handler[g].msg \in claimed)'
  BY <1>1, <1>2, <1>3 DEF OnceInv, Working
<1>6. (\A f, g \in Handlers :
         Working(f) /\ Working(g) /\ handler[f].msg = handler[g].msg => f = g)'
  BY <1>1, <1>2 DEF OnceInv, Working
<1>7. (\A g \in Handlers : \A e \in Effects :
         handler[g].pc \in Ahead[e] => done[handler[g].msg][e] = 0)'
  BY <1>1, <1>2, <1>3, AheadFacts DEF OnceInv
<1>8. (\A m \in Messages \ claimed : \A e \in Effects : done[m][e] = 0)'
  BY <1>3 DEF OnceInv
<1> QED BY <1>4, <1>5, <1>6, <1>7, <1>8 DEF OnceInv

\* A run does what was ahead of it, and goes on past it.
LEMMA OnceDone ==
    ASSUME TypeOK, OnceInv, NEW h \in Handlers, NEW S, Becomes(h, S),
           \A to \in S : Forward(handler[h].pc, to),
           NEW e \in Effects, Count(handler[h].msg, e),
           handler[h].pc \in Ahead[e], S \cap Ahead[e] = {},
           UNCHANGED <<processed, claimed>>
    PROVE  OnceInv' /\ Abstract!Do(handler[h].msg, e)
<1> DEFINE m == handler[h].msg
<1>0. m \in Messages /\ done \in [Messages -> [Effects -> Nat]]
  BY DEF TypeOK, Handler
<1>1. handler'[h].pc = "idle" \/ /\ Working(h) /\ handler'[h].msg = handler[h].msg
                                 /\ \A f \in Effects : handler'[h].pc \in Ahead[f] =>
                                                         handler[h].pc \in Ahead[f]
  BY DEF Becomes, Forward, Working
<1>2. /\ \A g \in Handlers \ {h} : handler'[g] = handler[g]
      /\ handler'[h].pc \notin Ahead[e]
  BY DEF Becomes
<1>3. UNCHANGED <<processed, claimed>>
  OBVIOUS
<1>4. Working(h)
  BY AheadFacts DEF Working
<1>5. m \in claimed /\ done[m][e] = 0
  BY <1>4 DEF OnceInv
<1>6. done' = [done EXCEPT ![m][e] = 1]
  BY <1>0, <1>5 DEF Count
<1>7. \A n \in Messages : \A f \in Effects : n # m \/ f # e => done'[n][f] = done[n][f]
  BY <1>0, <1>6
<1>8. (\A n \in claimed : Key(n) \in processed)'
  BY <1>3 DEF OnceInv, Key
<1>9. (\A g \in Handlers : Working(g) => handler[g].msg \in claimed)'
  BY <1>1, <1>2, <1>3 DEF OnceInv, Working
<1>10. (\A f, g \in Handlers :
         Working(f) /\ Working(g) /\ handler[f].msg = handler[g].msg => f = g)'
  BY <1>1, <1>2 DEF OnceInv, Working
<1>11. ASSUME NEW g \in Handlers, NEW f \in Effects, handler'[g].pc \in Ahead[f]
       PROVE  done'[handler'[g].msg][f] = 0
  <2>1. CASE g = h
    <3>1. f # e /\ handler[h].pc \in Ahead[f] /\ handler'[h].msg = m
      BY <1>1, <1>2, <1>11, <2>1, AheadFacts
    <3> QED BY <1>0, <1>7, <2>1, <3>1 DEF OnceInv
  <2>2. CASE g # h
    <3>1. handler'[g] = handler[g] /\ Working(g) /\ handler[g].msg \in Messages
      BY <1>2, <1>11, <2>2, AheadFacts DEF Working, TypeOK, Handler
    <3>2. handler[g].msg # m
      BY <1>4, <2>2, <3>1 DEF OnceInv
    <3> QED BY <1>7, <1>11, <3>1, <3>2 DEF OnceInv
  <2> QED BY <2>1, <2>2
<1>12. (\A n \in Messages \ claimed : \A f \in Effects : done[n][f] = 0)'
  BY <1>3, <1>5, <1>7 DEF OnceInv
<1>13. Abstract!Do(m, e)
  BY <1>3, <1>5, <1>6 DEF Abstract!Do
<1> QED BY <1>8, <1>9, <1>10, <1>11, <1>12, <1>13 DEF OnceInv

\* A step in which no run works on a message it did not work on.
LEMMA OnceKept ==
    ASSUME OnceInv, UNCHANGED <<processed, claimed, done>>,
           \A g \in Handlers : \/ handler'[g].pc \in {"idle", "register"}
                               \/ /\ handler'[g].pc = handler[g].pc
                                  /\ handler'[g].msg = handler[g].msg
    PROVE  OnceInv'
  BY AheadFacts DEF OnceInv, Working, Key

LEMMA OnceClaim ==
    ASSUME TypeOK, OnceInv, NEW h \in Handlers, Claim(h)
    PROVE  OnceInv' /\ Abstract!Claim(handler[h].msg)
<1> DEFINE m == handler[h].msg
<1>0. m \in Messages
  BY DEF TypeOK, Handler
<1>1. /\ m \notin claimed /\ claimed' = claimed \cup {m} /\ done' = done
      /\ processed' = processed \cup {Key(m)}
  BY DEF Claim, Registered, OnceInv
<1>2. Becomes(h, {"route"}) /\ ~Working(h)
  BY Course DEF Claim, Working
<1>3. \A g \in Handlers \ {h} : handler'[g] = handler[g]
  BY <1>2 DEF Becomes
<1>4. handler'[h].msg = m
  BY <1>2 DEF Becomes
<1>5. \A g \in Handlers \ {h} : Working(g) => handler[g].msg # m
  BY <1>1 DEF OnceInv
<1>6. (\A n \in claimed : Key(n) \in processed)'
  BY <1>1 DEF OnceInv, Key
<1>7. (\A g \in Handlers : Working(g) => handler[g].msg \in claimed)'
  BY <1>1, <1>3, <1>4 DEF OnceInv, Working
<1>8. (\A f, g \in Handlers :
         Working(f) /\ Working(g) /\ handler[f].msg = handler[g].msg => f = g)'
  BY <1>3, <1>4, <1>5 DEF OnceInv, Working
<1>9. (\A g \in Handlers : \A e \in Effects :
         handler[g].pc \in Ahead[e] => done[handler[g].msg][e] = 0)'
  BY <1>0, <1>1, <1>3, <1>4 DEF OnceInv
<1>10. (\A n \in Messages \ claimed : \A e \in Effects : done[n][e] = 0)'
  BY <1>1 DEF OnceInv
<1>11. Abstract!Claim(m)
  BY <1>1 DEF Abstract!Claim
<1> QED BY <1>6, <1>7, <1>8, <1>9, <1>10, <1>11 DEF OnceInv

LEMMA NextOnce ==
    TypeOK /\ OnceInv /\ [Next]_vars => OnceInv' /\ [Abstract!Next]_<<claimed, done>>
<1> SUFFICES ASSUME TypeOK, OnceInv, [Next]_vars
             PROVE  OnceInv' /\ [Abstract!Next]_<<claimed, done>>
  OBVIOUS
<1> USE DEF history, bounds
<1>0. \A h \in Handlers : handler[h].msg \in Messages
  BY DEF TypeOK, Handler
<1>1. ASSUME NEW h \in Handlers, Claim(h)
      PROVE  OnceInv' /\ [Abstract!Next]_<<claimed, done>>
  BY <1>0, <1>1, OnceClaim DEF Abstract!Next
<1>2. ASSUME NEW h \in Handlers, StoreUser(h)
      PROVE  OnceInv' /\ [Abstract!Next]_<<claimed, done>>
  <2>1. Becomes(h, {"touchUser"}) /\ handler[h].pc = "user" /\ Count(handler[h].msg, "user")
        /\ UNCHANGED <<processed, claimed>>
    BY <1>2, Course DEF StoreUser
  <2>2. OnceInv' /\ Abstract!Do(handler[h].msg, "user")
    BY <2>1, AheadFacts, ForwardFacts, OnceDone DEF Effects
  <2> QED BY <1>0, <2>2 DEF Abstract!Next, Effects
<1>3. ASSUME NEW h \in Handlers, Answer(h)
      PROVE  OnceInv' /\ [Abstract!Next]_<<claimed, done>>
  <2>1. Becomes(h, {"touchAgent", "touch"}) /\ handler[h].pc = "answer"
        /\ UNCHANGED <<processed, claimed>>
    BY <1>3, Course DEF Answer
  <2>2. \A to \in {"touchAgent", "touch"} : Forward(handler[h].pc, to)
    BY <2>1, ForwardFacts
  <2>3. CASE Count(handler[h].msg, "agent")
    <3>1. OnceInv' /\ Abstract!Do(handler[h].msg, "agent")
      BY <2>1, <2>2, <2>3, AheadFacts, OnceDone DEF Effects
    <3> QED BY <1>0, <3>1 DEF Abstract!Next, Effects
  <2>4. CASE UNCHANGED done
    BY <2>1, <2>2, <2>4, OnceMoved
  <2> QED BY <1>3, <2>3, <2>4 DEF Answer
<1>4. ASSUME NEW h \in Handlers, Send(h)
      PROVE  OnceInv' /\ [Abstract!Next]_<<claimed, done>>
  <2>1. Becomes(h, {"idle"}) /\ handler[h].pc = "send" /\ Count(handler[h].msg, "reply")
        /\ UNCHANGED <<processed, claimed>>
    BY <1>4, Course DEF Send
  <2>2. OnceInv' /\ Abstract!Do(handler[h].msg, "reply")
    BY <2>1, AheadFacts, ForwardFacts, OnceDone DEF Effects
  <2> QED BY <1>0, <2>2 DEF Abstract!Next, Effects
<1>5. ASSUME NEW h \in Handlers, Refuse(h) \/ Route(h) \/ CheckQuota(h) \/ Find(h) \/ Close(h)
               \/ Create(h) \/ Refind(h) \/ Touch(h) \/ Fail(h) \/ Crash(h)
      PROVE  OnceInv' /\ [Abstract!Next]_<<claimed, done>>
  <2>1. UNCHANGED <<processed, claimed, done>>
    BY <1>5 DEF Refuse, Route, CheckQuota, Find, Close, Create, Refind, Touch, Fail, Crash
  <2> SUFFICES OnceInv'
    BY <2>1
  <2>2. ASSUME NEW S, Becomes(h, S), \A to \in S : Forward(handler[h].pc, to)
        PROVE  OnceInv'
    BY <2>1, <2>2, OnceMoved
  <2>3. CASE Becomes(h, {"idle"})
    <3>1. \A to \in {"idle"} : Forward(handler[h].pc, to)
      BY ForwardFacts
    <3> QED BY <2>2, <2>3, <3>1
  <2>4. CASE Route(h)
    <3>1. Becomes(h, {"idle", "quota", "send"})
      BY <2>4, Course
    <3>2. \A to \in {"idle", "quota", "send"} : Forward(handler[h].pc, to)
      BY <2>4, ForwardFacts DEF Route
    <3> QED BY <2>2, <3>1, <3>2
  <2>5. CASE CheckQuota(h)
    <3>1. \A to \in {"find"} : Forward(handler[h].pc, to)
      BY <2>5, ForwardFacts DEF CheckQuota
    <3>2. Becomes(h, {"idle"}) \/ Becomes(h, {"find"})
      BY <2>5, Course
    <3> QED BY <2>2, <2>3, <3>1, <3>2
  <2>6. CASE Find(h)
    <3>1. Becomes(h, {"idle", "close", "create", "user"})
      BY <2>6, Course
    <3>2. \A to \in {"idle", "close", "create", "user"} : Forward(handler[h].pc, to)
      BY <2>6, ForwardFacts DEF Find
    <3> QED BY <2>2, <3>1, <3>2
  <2>7. CASE Close(h)
    <3>1. Becomes(h, {"create"})
      BY <2>7, Course
    <3>2. \A to \in {"create"} : Forward(handler[h].pc, to)
      BY <2>7, ForwardFacts DEF Close
    <3> QED BY <2>2, <3>1, <3>2
  <2>8. CASE Create(h)
    <3>1. Becomes(h, {"refind", "user"})
      BY <2>8, Course
    <3>2. \A to \in {"refind", "user"} : Forward(handler[h].pc, to)
      BY <2>8, ForwardFacts DEF Create
    <3> QED BY <2>2, <3>1, <3>2
  <2>9. CASE Refind(h)
    <3>1. Becomes(h, {"idle", "user"})
      BY <2>9, Course
    <3>2. \A to \in {"idle", "user"} : Forward(handler[h].pc, to)
      BY <2>9, ForwardFacts DEF Refind
    <3> QED BY <2>2, <3>1, <3>2
  <2>10. CASE Touch(h)
    <3>1. PICK to \in Stages : Becomes(h, {to}) /\ Forward(handler[h].pc, to)
      BY <2>10, Course, ForwardFacts DEF Stages
    <3>2. \A x \in {to} : Forward(handler[h].pc, x)
      BY <3>1
    <3> QED BY <2>2, <3>1, <3>2
  <2>11. CASE Fail(h)
    <3>1. PICK to \in Stages : Becomes(h, {to}) /\ Forward(handler[h].pc, to)
      BY <2>11, Course, ForwardFacts DEF Stages
    <3>2. \A x \in {to} : Forward(handler[h].pc, x)
      BY <3>1
    <3> QED BY <2>2, <3>1, <3>2
  <2>12. CASE Refuse(h) \/ Crash(h)
    BY <2>3, <2>12, Course
  <2> QED BY <1>5, <2>4, <2>5, <2>6, <2>7, <2>8, <2>9, <2>10, <2>11, <2>12
<1>6. ASSUME NEW h \in Handlers, NEW m \in Messages, Deliver(h, m)
      PROVE  OnceInv' /\ [Abstract!Next]_<<claimed, done>>
  <2>1. UNCHANGED <<processed, claimed, done>>
    BY <1>6 DEF Deliver
  <2>2. \A g \in Handlers : \/ handler'[g].pc \in {"idle", "register"}
                            \/ handler'[g].pc = handler[g].pc /\ handler'[g].msg = handler[g].msg
    BY <1>6 DEF Deliver, TypeOK
  <2> QED BY <2>1, <2>2, OnceKept
<1>7. ASSUME NEW c \in Convs, NEW mode, SetControlMode(c, mode)
      PROVE  OnceInv' /\ [Abstract!Next]_<<claimed, done>>
  <2>1. UNCHANGED <<processed, claimed, done>>
    BY <1>7 DEF SetControlMode
  <2>2. \A g \in Handlers : handler'[g].pc = handler[g].pc /\ handler'[g].msg = handler[g].msg
    BY <1>7 DEF SetControlMode, TypeOK, Handler
  <2> QED BY <2>1, <2>2, OnceKept
<1>8. CASE UNCHANGED <<processed, claimed, done, handler>>
  BY <1>8, OnceKept
<1> QED
  BY <1>1, <1>2, <1>3, <1>4, <1>5, <1>6, <1>7, <1>8
  DEF Next, vars, ChangeStatus, OperatorTouch, Tick

LEMMA InitOnce == Init => OnceInv /\ Abstract!Init
<1> SUFFICES ASSUME Init PROVE OnceInv /\ Abstract!Init
  OBVIOUS
<1>1. \A h \in Handlers : handler[h].pc = "idle"
  BY DEF Init, IdleHandler
<1>2. \A m \in Messages : \A e \in Effects : done[m][e] = 0
  BY DEF Init
<1> QED BY <1>1, <1>2, AheadFacts DEF OnceInv, Init, Working, Abstract!Init

\* Inbound processing implements AtMostOnce: whatever is redelivered, fails or crashes,
\* a message is stored, answered and replied to at most once, and only once claimed.
THEOREM Refinement == Spec => ImplementsAtMostOnce
<1>1. Spec => [](TypeOK /\ OnceInv)
  BY InitType, InitOnce, NextType, NextOnce, PTL DEF Spec
<1> QED
  BY <1>1, InitOnce, NextOnce, PTL DEF Spec, ImplementsAtMostOnce, Abstract!Spec

------------------------------------------------------------------------------
(* Duplicates *)

\* What was registered was claimed, and what was refused had been claimed.
KeysInv == processed \subseteq {Key(m) : m \in claimed} /\ refused \subseteq claimed

\* If the key tells the messages apart, only duplicates are dropped.  For a user who
\* writes to two bots it does not, and a first message is lost: see the run refuting
\* OnlyDuplicatesRefused.
THEOREM KeysDecide ==
    ASSUME \A m, n \in Messages : Key(m) = Key(n) => m = n
    PROVE  Spec => []OnlyDuplicatesRefused
<1>1. Init => KeysInv
  BY DEF Init, KeysInv
<1>2. TypeOK /\ KeysInv /\ [Next]_vars => KeysInv'
  <2> SUFFICES ASSUME TypeOK, KeysInv, [Next]_vars PROVE KeysInv'
    OBVIOUS
  <2> USE DEF history, bounds
  <2>0. \A m : Key(m)' = Key(m)
    BY DEF Key
  <2>1. ASSUME NEW h \in Handlers, Claim(h) PROVE KeysInv'
    BY <2>0, <2>1 DEF Claim, KeysInv
  <2>2. ASSUME NEW h \in Handlers, Refuse(h) PROVE KeysInv'
    <3>1. handler[h].msg \in Messages /\ claimed \subseteq Messages
      BY DEF TypeOK, Handler
    <3>2. PICK m \in claimed : Key(handler[h].msg) = Key(m)
      BY <2>2 DEF Refuse, Registered, KeysInv
    <3>3. handler[h].msg \in claimed
      BY <3>1, <3>2
    <3> QED BY <2>0, <2>2, <3>3 DEF Refuse, KeysInv
  <2>3. CASE UNCHANGED <<processed, claimed, refused>>
    BY <2>0, <2>3 DEF KeysInv
  <2> QED
    BY <2>1, <2>2, <2>3
    DEF Next, vars, Deliver, Route, CheckQuota, Find, Close, Create, Refind, StoreUser,
        Answer, Touch, Send, Fail, Crash, SetControlMode, ChangeStatus, OperatorTouch, Tick
<1>3. KeysInv => OnlyDuplicatesRefused
  BY DEF KeysInv, OnlyDuplicatesRefused
<1> QED
  BY <1>1, <1>2, <1>3, TypeCorrect, PTL DEF Spec

------------------------------------------------------------------------------
(* Conversations in human mode *)

\* The stages at which a run works on the conversation it has.
InConversation == {"user", "touchUser", "answer", "touchAgent", "touch"}

\* A run that works on a conversation has seen it, or made it, in bot mode since the
\* run began.
HumanInv ==
    /\ \A h \in Handlers : \A c \in handler[h].human : conv[c].mode = "human"
    /\ \A c \in Convs : conv[c].status = "none" => conv[c].mode = "bot"
    /\ \A h \in Handlers : handler[h].pc \in InConversation =>
                             handler[h].conv \notin handler[h].human

\* What HumanConversationStaysSilent says of a step.
SilentStep ==
    \A h \in Handlers : handler'[h] # handler[h] =>
      \A c \in handler[h].human :
        /\ conv'[c].last = conv[c].last
        /\ handler[h].pc = "user" => handler[h].conv # c

\* The step of run h leaves the other runs alone; h remembers no new conversation in
\* human mode and works on the conversation it worked on, or on none.
StaysIn(h) ==
    /\ \A g \in Handlers \ {h} : handler'[g] = handler[g]
    /\ handler'[h].human \subseteq handler[h].human
    /\ handler'[h].pc \in InConversation =>
         handler[h].pc \in InConversation /\ handler'[h].conv = handler[h].conv

\* The step of run h leaves the other runs alone and h goes to conversation c.
Enters(h, c) ==
    /\ \A g \in Handlers \ {h} : handler'[g] = handler[g]
    /\ handler'[h].human \subseteq handler[h].human
    /\ handler'[h].conv = c

LEMMA StaysInFacts ==
    ASSUME TypeOK, NEW h \in Handlers, NEW pc, NEW c, NEW n
    PROVE  /\ handler' = [handler EXCEPT ![h] = IdleHandler] => StaysIn(h)
           /\ pc \notin InConversation \/ handler[h].pc \in InConversation =>
                /\ Goto(h, pc) => StaysIn(h)
                /\ handler' = [handler EXCEPT ![h].pc = pc, ![h].now = n] => StaysIn(h)
           /\ pc \notin InConversation =>
                (handler' = [handler EXCEPT ![h].pc = pc, ![h].conv = c, ![h].now = n]
                   => StaysIn(h))
           /\ handler' = [handler EXCEPT ![h].pc = pc, ![h].conv = c] => Enters(h, c)
           /\ handler' = [handler EXCEPT ![h].pc = pc, ![h].conv = c, ![h].now = n]
                => Enters(h, c)
<1>0. handler \in [Handlers -> Handler]
  BY DEF TypeOK
<1>1. handler' = [handler EXCEPT ![h] = IdleHandler] => StaysIn(h)
  BY <1>0 DEF StaysIn, IdleHandler, InConversation
<1>2. ASSUME pc \notin InConversation \/ handler[h].pc \in InConversation, Goto(h, pc)
      PROVE  StaysIn(h)
  BY <1>0, <1>2 DEF StaysIn, Goto, Handler
<1>3. ASSUME pc \notin InConversation \/ handler[h].pc \in InConversation,
             handler' = [handler EXCEPT ![h].pc = pc, ![h].now = n]
      PROVE  StaysIn(h)
  BY <1>0, <1>3 DEF StaysIn, Handler
<1>4. ASSUME pc \notin InConversation,
             handler' = [handler EXCEPT ![h].pc = pc, ![h].conv = c, ![h].now = n]
      PROVE  StaysIn(h)
  BY <1>0, <1>4 DEF StaysIn, Handler
<1>5. ASSUME handler' = [handler EXCEPT ![h].pc = pc, ![h].conv = c]
      PROVE  Enters(h, c)
  BY <1>0, <1>5 DEF Enters, Handler
<1>6. ASSUME handler' = [handler EXCEPT ![h].pc = pc, ![h].conv = c, ![h].now = n]
      PROVE  Enters(h, c)
  BY <1>0, <1>6 DEF Enters, Handler
<1> QED BY <1>1, <1>2, <1>3, <1>4, <1>5, <1>6

\* Run h stays where it is, and no conversation loses human mode or appears.
LEMMA SilentStays ==
    ASSUME TypeOK, HumanInv, NEW h \in Handlers, StaysIn(h),
           \A c \in Convs : conv'[c].mode = conv[c].mode /\
             (conv'[c].status = "none" => conv[c].status = "none"),
           \A c \in handler[h].human : conv'[c].last = conv[c].last
    PROVE  HumanInv' /\ SilentStep
<1>0. \A g \in Handlers : handler[g].human \subseteq Convs
  BY DEF TypeOK, Handler
<1>1. (\A g \in Handlers : \A c \in handler[g].human : conv[c].mode = "human")'
  BY <1>0 DEF HumanInv, StaysIn
<1>2. (\A c \in Convs : conv[c].status = "none" => conv[c].mode = "bot")'
  BY DEF HumanInv
<1>3. (\A g \in Handlers : handler[g].pc \in InConversation =>
                             handler[g].conv \notin handler[g].human)'
  BY DEF HumanInv, StaysIn
<1>4. SilentStep
  BY DEF SilentStep, StaysIn, HumanInv, InConversation
<1> QED BY <1>1, <1>2, <1>3, <1>4 DEF HumanInv

\* Run h goes to a conversation in bot mode.
LEMMA SilentEnters ==
    ASSUME TypeOK, HumanInv, NEW h \in Handlers, NEW c \in Convs, Enters(h, c),
           conv[c].mode # "human", handler[h].pc \notin InConversation,
           \A d \in Convs \ {c} : conv'[d] = conv[d],
           conv'[c] = conv[c] \/ conv'[c].status # "none"
    PROVE  HumanInv' /\ SilentStep
<1>0. \A g \in Handlers : handler[g].human \subseteq Convs /\ c \notin handler[g].human
  BY DEF TypeOK, Handler, HumanInv
<1>1. (\A g \in Handlers : \A d \in handler[g].human : conv[d].mode = "human")'
  BY <1>0 DEF HumanInv, Enters
<1>2. (\A d \in Convs : conv[d].status = "none" => conv[d].mode = "bot")'
  BY DEF HumanInv
<1>3. (\A g \in Handlers : handler[g].pc \in InConversation =>
                             handler[g].conv \notin handler[g].human)'
  BY <1>0 DEF HumanInv, Enters
<1>4. SilentStep
  BY <1>0 DEF SilentStep, Enters, InConversation
<1> QED BY <1>1, <1>2, <1>3, <1>4 DEF HumanInv

\* The gate lets no run into a conversation in human mode.
LEMMA SilentGate ==
    ASSUME TypeOK, HumanInv, NEW h \in Handlers, NEW c \in Convs, Gate(h, c),
           handler[h].pc \notin InConversation, UNCHANGED conv
    PROVE  HumanInv' /\ SilentStep
<1>1. CASE Decline(h)
  BY <1>1, StaysInFacts, SilentStays DEF Decline
<1>2. CASE conv[c].mode # "human" /\ handler' = [handler EXCEPT ![h].pc = "user", ![h].conv = c]
  <2>1. Enters(h, c)
    BY <1>2, StaysInFacts
  <2> QED BY <1>2, <2>1, SilentEnters
<1> QED BY <1>1, <1>2 DEF Gate

LEMMA NextHuman ==
    TypeOK /\ HumanInv /\ [Next]_vars => HumanInv' /\ (SilentStep \/ UNCHANGED vars)
<1> SUFFICES ASSUME TypeOK, HumanInv, [Next]_vars
             PROVE  HumanInv' /\ (SilentStep \/ UNCHANGED vars)
  OBVIOUS
<1> USE DEF history, bounds
<1>0. /\ conv \in [Convs -> Conv] /\ handler \in [Handlers -> Handler]
      /\ \A h \in Handlers : handler[h].human \subseteq Convs
  BY DEF TypeOK, Handler
\* Steps of a run that change no conversation.
<1>1. ASSUME NEW h \in Handlers, StaysIn(h), UNCHANGED conv
      PROVE  HumanInv' /\ SilentStep
  BY <1>1, SilentStays
<1>2. ASSUME NEW h \in Handlers, Claim(h) \/ Refuse(h) \/ Route(h) \/ CheckQuota(h)
               \/ StoreUser(h) \/ Answer(h) \/ Send(h) \/ Fail(h) \/ Crash(h)
      PROVE  HumanInv' /\ SilentStep
  <2>1. UNCHANGED conv
    BY <1>2 DEF Claim, Refuse, Route, CheckQuota, StoreUser, Answer, Send, Fail, Crash
  <2>2. CASE handler' = [handler EXCEPT ![h] = IdleHandler]
    BY <1>1, <2>1, <2>2, StaysInFacts
  <2>3. ASSUME NEW pc, Goto(h, pc), pc \notin InConversation \/ handler[h].pc \in InConversation
        PROVE  HumanInv' /\ SilentStep
    BY <1>1, <2>1, <2>3, StaysInFacts
  <2>4. ASSUME NEW pc, NEW n, handler[h].pc \in InConversation,
               handler' = [handler EXCEPT ![h].pc = pc, ![h].now = n]
        PROVE  HumanInv' /\ SilentStep
    BY <1>1, <2>1, <2>4, StaysInFacts
  <2>5. CASE Claim(h)
    BY <2>3, <2>5 DEF Claim, InConversation
  <2>6. CASE Refuse(h) \/ Send(h) \/ Crash(h)
    BY <2>2, <2>6 DEF Refuse, Send, Crash
  <2>7. CASE Route(h) \/ CheckQuota(h)
    <3>1. "send" \notin InConversation /\ "quota" \notin InConversation
          /\ "find" \notin InConversation
      BY DEF InConversation
    <3>2. CASE Goto(h, "send") \/ Goto(h, "quota") \/ Goto(h, "find")
      BY <2>3, <3>1, <3>2
    <3> QED BY <2>2, <2>7, <3>2 DEF Route, CheckQuota, Decline
  <2>8. CASE StoreUser(h)
    <3>1. handler[h].pc \in InConversation
             /\ handler' = [handler EXCEPT ![h].pc = "touchUser", ![h].now = clock]
      BY <2>8 DEF StoreUser, InConversation
    <3> QED BY <2>4, <3>1
  <2>9. CASE Answer(h)
    BY <2>3, <2>4, <2>9 DEF Answer, InConversation
  <2>10. CASE Fail(h)
    BY <2>2, <2>3, <2>10 DEF Fail, InConversation
  <2> QED BY <1>2, <2>5, <2>6, <2>7, <2>8, <2>9, <2>10
<1>3. ASSUME NEW h \in Handlers, NEW m \in Messages, Deliver(h, m)
      PROVE  HumanInv' /\ SilentStep
  <2>1. /\ \A g \in Handlers \ {h} : handler'[g] = handler[g]
        /\ handler'[h].pc = "register" /\ handler[h].pc = "idle"
        /\ handler'[h].human = {c \in Convs : conv[c].mode = "human"} /\ conv' = conv
    BY <1>0, <1>3 DEF Deliver
  <2>2. HumanInv'
    BY <2>1 DEF HumanInv, InConversation
  <2>3. SilentStep
    BY <2>1 DEF SilentStep
  <2> QED BY <2>2, <2>3
<1>4. ASSUME NEW h \in Handlers, Find(h) PROVE HumanInv' /\ SilentStep
  <2>1. conv' = conv /\ handler[h].pc \notin InConversation
    BY <1>4 DEF Find, InConversation
  <2>2. ASSUME NEW c \in Convs, Gate(h, c) PROVE HumanInv' /\ SilentStep
    BY <2>1, <2>2, SilentGate
  <2>3. "create" \notin InConversation /\ "close" \notin InConversation
    BY DEF InConversation
  <2>4. CASE handler' = [handler EXCEPT ![h].pc = "create", ![h].now = clock]
    BY <1>1, <2>1, <2>3, <2>4, StaysInFacts
  <2>5. ASSUME NEW c, handler' = [handler EXCEPT ![h].pc = "close", ![h].conv = c,
                                                 ![h].now = clock]
        PROVE  HumanInv' /\ SilentStep
    BY <1>1, <2>1, <2>3, <2>5, StaysInFacts
  <2> QED BY <1>4, <2>2, <2>4, <2>5 DEF Find, OpenConvs
<1>5. ASSUME NEW h \in Handlers, Close(h) PROVE HumanInv' /\ SilentStep
  <2>1. StaysIn(h)
    BY <1>0, <1>5 DEF Close, StaysIn, InConversation, Handler
  <2>2. \A c \in Convs : /\ conv'[c].mode = conv[c].mode /\ conv'[c].last = conv[c].last
                         /\ conv'[c].status = "none" => conv[c].status = "none"
    BY <1>0, <1>5 DEF Close, Conv
  <2> QED BY <1>0, <2>1, <2>2, SilentStays
<1>6. ASSUME NEW h \in Handlers, Create(h) PROVE HumanInv' /\ SilentStep
  <2> DEFINE new == NewConversation(Thread(handler[h].msg), handler[h].now)
  <2>1. handler[h].pc \notin InConversation /\ "refind" \notin InConversation
    BY <1>6 DEF Create, InConversation
  <2>2. ASSUME NEW c \in Convs, conv[c].status = "none", conv' = [conv EXCEPT ![c] = new],
               handler' = [handler EXCEPT ![h].pc = "user", ![h].conv = c, ![h].now = 0]
        PROVE  HumanInv' /\ SilentStep
    <3>1. Enters(h, c)
      BY <2>2, StaysInFacts
    <3>2. conv[c].mode # "human"
      BY <2>2 DEF HumanInv
    <3>3. (\A d \in Convs \ {c} : conv'[d] = conv[d]) /\ conv'[c].status # "none"
      BY <1>0, <2>2 DEF NewConversation
    <3> QED BY <2>1, <3>1, <3>2, <3>3, SilentEnters
  <2>3. CASE UNCHANGED conv /\ handler' = [handler EXCEPT ![h].pc = "refind", ![h].now = 0]
    BY <1>1, <2>1, <2>3, StaysInFacts
  <2> QED BY <1>6, <2>2, <2>3 DEF Create
<1>7. ASSUME NEW h \in Handlers, Refind(h) PROVE HumanInv' /\ SilentStep
  <2>1. conv' = conv /\ handler[h].pc \notin InConversation
    BY <1>7 DEF Refind, InConversation
  <2>2. ASSUME NEW c \in Convs, Gate(h, c) PROVE HumanInv' /\ SilentStep
    BY <2>1, <2>2, SilentGate
  <2>3. CASE handler' = [handler EXCEPT ![h] = IdleHandler]
    BY <1>1, <2>1, <2>3, StaysInFacts
  <2> QED BY <1>7, <2>2, <2>3 DEF Refind, OpenConvs
<1>8. ASSUME NEW h \in Handlers, Touch(h) PROVE HumanInv' /\ SilentStep
  <2> DEFINE next == [touchUser |-> "answer", touchAgent |-> "touch", touch |-> "send"]
             n == IF handler[h].pc = "touch" THEN clock ELSE handler[h].now
  <2>1. handler[h].pc \in InConversation
    BY <1>8 DEF Touch, InConversation
  <2>2. handler' = [handler EXCEPT ![h] = [handler[h] EXCEPT !.pc = next[handler[h].pc],
                                                             !.now = 0]]
    BY <1>8 DEF Touch, TypeOK
  <2>3. conv' = [conv EXCEPT ![handler[h].conv].last = n]
    BY <1>8 DEF Touch
  <2> HIDE DEF next, n
  <2>4. StaysIn(h)
    BY <1>0, <2>1, <2>2 DEF StaysIn, Handler
  <2>5. \A c \in Convs : conv'[c].mode = conv[c].mode /\ conv'[c].status = conv[c].status
    BY <1>0, <2>3 DEF Conv
  <2>6. \A c \in handler[h].human : conv'[c].last = conv[c].last
    BY <1>0, <2>1, <2>3 DEF HumanInv
  <2> QED BY <2>4, <2>5, <2>6, SilentStays
\* Steps of the operators: no run moves.
<1>9. ASSUME NEW c \in Convs, NEW mode \in {"bot", "human"}, SetControlMode(c, mode)
      PROVE  HumanInv' /\ SilentStep
  <2>1. \A d \in Convs : conv'[d].last = conv[d].last /\ conv'[d].status = conv[d].status
                         /\ (d # c => conv'[d] = conv[d])
    BY <1>0, <1>9 DEF SetControlMode, Conv
  <2>2. \A h \in Handlers : /\ handler'[h].human = handler[h].human \ {c}
                            /\ handler'[h].pc = handler[h].pc
                            /\ handler'[h].conv = handler[h].conv
    BY <1>0, <1>9 DEF SetControlMode, Handler
  <2>3. conv[c].status # "none"
    BY <1>9 DEF SetControlMode
  <2>4. HumanInv'
    <3>1. (\A h \in Handlers : \A d \in handler[h].human : conv[d].mode = "human")'
      BY <1>0, <2>1, <2>2 DEF HumanInv
    <3>2. (\A d \in Convs : conv[d].status = "none" => conv[d].mode = "bot")'
      BY <2>1, <2>3 DEF HumanInv
    <3>3. (\A h \in Handlers : handler[h].pc \in InConversation =>
                                 handler[h].conv \notin handler[h].human)'
      BY <2>2 DEF HumanInv
    <3> QED BY <3>1, <3>2, <3>3 DEF HumanInv
  <2>5. SilentStep
    BY <1>0, <2>1 DEF SilentStep, HumanInv, InConversation
  <2> QED BY <2>4, <2>5
<1>10. ASSUME UNCHANGED handler,
              \A c \in Convs : /\ conv'[c].mode = conv[c].mode
                               /\ conv'[c].status = "none" => conv[c].status = "none"
       PROVE  HumanInv' /\ SilentStep
  BY <1>0, <1>10 DEF HumanInv, SilentStep
<1>11. ASSUME NEW c \in Convs, NEW status \in {"open", "closed", "archived"},
              ChangeStatus(c, status)
       PROVE  HumanInv' /\ SilentStep
  <2>1. \A d \in Convs : /\ conv'[d].mode = conv[d].mode
                         /\ conv'[d].status = "none" => conv[d].status = "none"
    BY <1>0, <1>11 DEF ChangeStatus, Conv
  <2> QED BY <1>10, <1>11, <2>1 DEF ChangeStatus
<1>12. ASSUME NEW c \in Convs, OperatorTouch(c) PROVE HumanInv' /\ SilentStep
  <2>1. \A d \in Convs : conv'[d].mode = conv[d].mode /\ conv'[d].status = conv[d].status
    BY <1>0, <1>12 DEF OperatorTouch, Conv
  <2> QED BY <1>10, <1>12, <2>1 DEF OperatorTouch
<1>13. CASE Tick
  BY <1>10, <1>13 DEF Tick
<1>14. CASE UNCHANGED vars
  BY <1>10, <1>14 DEF vars
<1> QED
  BY <1>2, <1>3, <1>4, <1>5, <1>6, <1>7, <1>8, <1>9, <1>11, <1>12, <1>13, <1>14 DEF Next

\* A conversation in human mode stays as the operator left it: no run that began after
\* the switch stores a message in it or moves its last activity, not even a run that
\* lost the race to create it.
THEOREM HumanStaysSilent == Spec => HumanConversationStaysSilent
<1>1. Init => HumanInv
  BY DEF Init, HumanInv, IdleHandler, NoConversation, InConversation
<1>2. TypeOK /\ HumanInv /\ [Next]_vars => [SilentStep]_vars
  BY NextHuman
<1>3. [][SilentStep]_vars => HumanConversationStaysSilent
  BY DEF SilentStep, HumanConversationStaysSilent
<1> QED
  BY <1>1, <1>2, <1>3, NextHuman, TypeCorrect, PTL DEF Spec
================================================================================
