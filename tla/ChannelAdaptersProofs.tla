------------------------- MODULE ChannelAdaptersProofs -------------------------
(***************************************************************************)
(* Duplicates and losses of messages, for any number of servers, providers *)
(* and calls.                                                              *)
(***************************************************************************)
EXTENDS ChannelAdapters, TLAPS

------------------------------------------------------------------------------
(* The inductive invariant *)

DeliveryPcs == {"take", "register", "answer", "send"}
ActiveRun == [pc : DeliveryPcs, server : Servers, hook : Webhooks, at : Nat \ {0}]
AnyRun == {[pc |-> "idle"]} \cup ActiveRun

RunTypes == delivery \in [Deliveries -> AnyRun]

\* A message is registered, or a run is about to, or a run of its webhook failed or died.
Handled(m) ==
    \/ m \in registered \cup {NotText}
    \/ \E w \in troubled : \E i \in DOMAIN EventsOf[w] : EventsOf[w][i] = m
    \/ \E e \in Deliveries : delivery[e].pc = "register" /\ Message(e) = m

\* What a run has passed is handled, and a message is in the hands of one run at a time.
RunFits(d) ==
    LET q == delivery[d] IN
    q.pc # "idle" =>
    /\ q.pc # "take" => q.at \in Considered(q.hook) /\ Message(d) # NotText
    /\ \A i \in Considered(q.hook) : i < q.at => Handled(EventsOf[q.hook][i])
    /\ q.pc \in {"answer", "send"} =>
         /\ Message(d) \in registered /\ replies[Message(d)] = 0
         /\ \A e \in Deliveries \ {d} :
              delivery[e].pc \in {"answer", "send"} => Message(e) # Message(d)
RunsFit == \A d \in Deliveries : RunFits(d)

RememberedHandled == \A s \in Servers : \A m \in remembered[s] : Handled(m)
RegisteredFirst == \A m \in Texting \ registered : replies[m] = 0

AdaptersInv ==
    /\ AdaptersTypeOK /\ RunTypes /\ RunsFit /\ RememberedHandled /\ RegisteredFirst
    /\ LossExplained

------------------------------------------------------------------------------
(* Webhooks *)

LEMMA ConsideredFacts ==
    ASSUME NEW w \in Webhooks
    PROVE  /\ DOMAIN EventsOf[w] = 1 .. Len(EventsOf[w]) /\ Len(EventsOf[w]) \in Nat
           /\ Considered(w) \subseteq DOMAIN EventsOf[w]
           /\ \A n \in Nat \ {0} : n \notin Considered(w) => \A i \in Considered(w) : i < n
           /\ \A i \in DOMAIN EventsOf[w] : i \in Considered(w) \/ (WhatsApp(w) /\ i > 1)
<1>1. /\ EventsOf[w] \in Seq(STRING \cup {NotText})
      /\ ProviderOf[w] = "tiktok" => Len(EventsOf[w]) <= 1
  BY AdaptersAssumption
<1>2. DOMAIN EventsOf[w] = 1 .. Len(EventsOf[w]) /\ Len(EventsOf[w]) \in Nat
  BY <1>1
<1>3. ProviderOf[w] \in {"meta", "dialog360", "twilio", "instagram", "tiktok"}
  <2>1. ProviderOf \in [Webhooks -> DOMAIN Needs]
    BY AdaptersAssumption
  <2>2. DOMAIN Needs = {"meta", "dialog360", "twilio", "instagram", "tiktok"}
    BY DEF Needs
  <2> QED BY <2>1, <2>2
<1> QED BY <1>1, <1>2, <1>3 DEF Considered, WhatsApp

LEMMA RunType ==
    ASSUME AdaptersTypeOK, RunTypes, NEW d \in Deliveries, delivery[d].pc # "idle"
    PROVE  delivery[d] \in ActiveRun
  BY DEF RunTypes, AnyRun

LEMMA MessageType ==
    ASSUME AdaptersInv, NEW d \in Deliveries, delivery[d].pc \notin {"idle", "take"}
    PROVE  /\ delivery[d] \in ActiveRun /\ RunFits(d) /\ Message(d) \in Texting
           /\ delivery[d].at \in DOMAIN EventsOf[delivery[d].hook]
           /\ Message(d) = EventsOf[delivery[d].hook][delivery[d].at]
<1>1. delivery[d] \in ActiveRun /\ RunFits(d)
  BY RunType DEF AdaptersInv, RunsFit
<1>2. delivery[d].hook \in Webhooks /\ delivery[d].at \in Considered(delivery[d].hook) /\ Message(d) # NotText
  BY <1>1 DEF ActiveRun, RunFits
<1> QED BY <1>1, <1>2, ConsideredFacts DEF Texting, Message

\* What is handled stays so.
LEMMA HandledKept ==
    ASSUME registered \subseteq registered', troubled \subseteq troubled',
           \A e \in Deliveries : delivery[e].pc = "register" =>
             \/ delivery'[e] = delivery[e]
             \/ Message(e) \in registered'
             \/ /\ delivery[e].hook \in troubled'
                /\ delivery[e].at \in DOMAIN EventsOf[delivery[e].hook]
    PROVE  \A m : Handled(m) => Handled(m)'
<1> SUFFICES ASSUME NEW m, Handled(m) PROVE Handled(m)'
  OBVIOUS
<1>1. ASSUME NEW e \in Deliveries, delivery[e].pc = "register", Message(e) = m PROVE Handled(m)'
  BY <1>1 DEF Handled, Message
<1> QED BY <1>1 DEF Handled

------------------------------------------------------------------------------
(* Steps *)

\* What a step of run d leaves of the others, and of what is explained.
LEMMA RunStep ==
    ASSUME AdaptersInv, NEW d \in Deliveries, RunTypes', AdaptersTypeOK', RegisteredFirst',
           \A e \in Deliveries \ {d} : delivery'[e] = delivery[e],
           registered \subseteq registered', troubled \subseteq troubled',
           delivery[d].pc = "register" =>
             \/ delivery'[d] = delivery[d]
             \/ Message(d) \in registered'
             \/ delivery[d].hook \in troubled',
           \A e \in Deliveries \ {d} : delivery[e].pc \in {"answer", "send"} =>
             /\ replies'[Message(e)] = replies[Message(e)]
             /\ delivery'[d].pc \in {"answer", "send"} => EventsOf[delivery'[d].hook][delivery'[d].at] # Message(e),
           RunFits(d)', RememberedHandled',
           \A w \in acknowledged' \ acknowledged :
             \/ delivery[d].pc # "idle" /\ delivery[d].hook = w
             \/ delivery'[d].pc # "idle" /\ delivery'[d].hook = w,
           delivery[d].pc # "idle" =>
             \/ delivery'[d].pc # "idle" /\ delivery'[d].hook = delivery[d].hook
             \/ delivery[d].hook \in troubled'
             \/ \A i \in Considered(delivery[d].hook) : Handled(EventsOf[delivery[d].hook][i])
    PROVE  AdaptersInv'
<1>1. \A e \in Deliveries : delivery[e].pc = "register" => delivery[e].at \in DOMAIN EventsOf[delivery[e].hook]
  BY MessageType
<1>2. \A m : Handled(m) => Handled(m)'
  BY <1>1, HandledKept
<1>3. \A e \in Deliveries : delivery'[e].pc = "register" => delivery'[e].at \in DOMAIN EventsOf[delivery'[e].hook]
  <2>1. CASE delivery'[d].pc = "register"
    <3>1. delivery'[d] \in ActiveRun /\ delivery'[d].at \in Considered(delivery'[d].hook)
      BY <2>1 DEF RunTypes, AnyRun, RunFits
    <3>2. delivery'[d].hook \in Webhooks
      BY <3>1 DEF ActiveRun
    <3>3. delivery'[d].at \in DOMAIN EventsOf[delivery'[d].hook]
      BY <3>1, <3>2, ConsideredFacts
    <3> QED BY <1>1, <3>3
  <2> QED BY <1>1, <2>1
<1>4. ASSUME NEW e \in Deliveries \ {d}, delivery[e].pc # "idle" PROVE RunFits(e)'
  <2>1. delivery'[e] = delivery[e] /\ RunFits(e) /\ Message(e)' = Message(e)
    BY DEF AdaptersInv, RunsFit, Message
  <2>2. \A i \in Considered(delivery[e].hook) : i < delivery[e].at => Handled(EventsOf[delivery[e].hook][i])'
    BY <1>2, <1>4, <2>1 DEF RunFits
  <2>3. delivery[e].pc \in {"answer", "send"} =>
          /\ Message(e) \in registered' /\ replies'[Message(e)] = 0
          /\ \A f \in Deliveries \ {e} : delivery'[f].pc \in {"answer", "send"} => Message(f)' # Message(e)
    <3> SUFFICES ASSUME delivery[e].pc \in {"answer", "send"}
                 PROVE  /\ Message(e) \in registered' /\ replies'[Message(e)] = 0
                        /\ \A f \in Deliveries \ {e} : delivery'[f].pc \in {"answer", "send"} => Message(f)' # Message(e)
      OBVIOUS
    <3>1. \A f \in Deliveries \ {e, d} : delivery'[f].pc \in {"answer", "send"} => Message(f)' # Message(e)
      BY <1>4, <2>1 DEF RunFits, Message
    <3>2. delivery'[d].pc \in {"answer", "send"} => Message(d)' # Message(e)
      BY DEF Message
    <3> QED BY <1>4, <2>1, <3>1, <3>2 DEF RunFits
  <2> QED BY <1>4, <2>1, <2>2, <2>3 DEF RunFits
<1>5. RunsFit'
  BY <1>4 DEF RunsFit, RunFits
<1>6. LossExplained'
  <2> SUFFICES ASSUME NEW w \in acknowledged', NEW i \in DOMAIN EventsOf[w]
               PROVE  \/ EventsOf[w][i] \in registered' \cup {NotText}
                      \/ \E e \in Deliveries : delivery'[e].pc # "idle" /\ delivery'[e].hook = w
                      \/ w \in troubled'
                      \/ WhatsApp(w) /\ i > 1
    BY DEF LossExplained
  <2>1. w \in Webhooks
    BY DEF AdaptersTypeOK
  <2>2. CASE delivery[d].pc # "idle" /\ delivery[d].hook = w
    <3>1. CASE \A j \in Considered(w) : Handled(EventsOf[w][j])
      <4>1. CASE i \in Considered(w)
        <5>1. Handled(EventsOf[w][i])'
          BY <1>2, <3>1, <4>1
        <5>2. AdaptersTypeOK /\ RunTypes
          BY DEF AdaptersInv
        <5>3. /\ \A v \in troubled' : \A j \in DOMAIN EventsOf[v] : EventsOf[v][j] = EventsOf[w][i] =>
                   v = w \/ EventsOf[w][i] = NotText
              /\ \A e \in Deliveries : delivery'[e].pc = "register" /\ Message(e)' = EventsOf[w][i] =>
                   EventsOf[w][i] = NotText \/ delivery'[e].hook = w
          <6>1. \A v \in troubled' : v \in Webhooks
            BY DEF AdaptersTypeOK
          <6>2. ASSUME NEW e \in Deliveries, delivery'[e].pc = "register"
                PROVE  delivery'[e].hook \in Webhooks /\ delivery'[e].at \in DOMAIN EventsOf[delivery'[e].hook]
            BY <1>3, <6>2 DEF RunTypes, AnyRun, ActiveRun
          <6> QED BY <2>1, <6>1, <6>2, AdaptersAssumption DEF Message
        <5> QED BY <5>1, <5>3 DEF Handled
      <4>2. CASE i \notin Considered(w)
        BY <2>1, <4>2, ConsideredFacts
      <4> QED BY <4>1, <4>2
    <3> QED BY <2>2, <3>1
  <2>3. CASE ~(delivery[d].pc # "idle" /\ delivery[d].hook = w)
    <3>1. CASE w \in acknowledged
      <4>1. \/ EventsOf[w][i] \in registered \cup {NotText}
            \/ \E e \in Deliveries : delivery[e].pc # "idle" /\ delivery[e].hook = w
            \/ w \in troubled
            \/ WhatsApp(w) /\ i > 1
        BY <3>1 DEF AdaptersInv, LossExplained
      <4> QED BY <2>3, <4>1
    <3>2. CASE w \notin acknowledged
      BY <2>3, <3>2
    <3> QED BY <3>1, <3>2
  <2> QED BY <2>2, <2>3
<1> QED BY <1>5, <1>6 DEF AdaptersInv

\* The step that ends run d.
LEMMA FinishStep ==
    ASSUME AdaptersInv, NEW d \in Deliveries, delivery[d].pc # "idle", delivery'[d].pc = "idle",
           RunTypes', AdaptersTypeOK', RegisteredFirst', RememberedHandled',
           \A e \in Deliveries \ {d} : delivery'[e] = delivery[e],
           registered \subseteq registered', troubled \subseteq troubled',
           acknowledged' = acknowledged \cup {delivery[d].hook},
           \A e \in Deliveries \ {d} : delivery[e].pc \in {"answer", "send"} =>
             replies'[Message(e)] = replies[Message(e)],
           \/ delivery[d].hook \in troubled'
           \/ /\ delivery[d].pc # "register"
              /\ \A i \in Considered(delivery[d].hook) : Handled(EventsOf[delivery[d].hook][i])
    PROVE  AdaptersInv'
<1>1. RunFits(d)'
  BY DEF RunFits
<1>2. \A v \in acknowledged' \ acknowledged :
        \/ delivery[d].pc # "idle" /\ delivery[d].hook = v
        \/ delivery'[d].pc # "idle" /\ delivery'[d].hook = v
  OBVIOUS
<1>3. ~(delivery'[d].pc \in {"answer", "send"})
  OBVIOUS
<1>4. \A e \in Deliveries \ {d} : delivery[e].pc \in {"answer", "send"} =>
        /\ replies'[Message(e)] = replies[Message(e)]
        /\ delivery'[d].pc \in {"answer", "send"} => EventsOf[delivery'[d].hook][delivery'[d].at] # Message(e)
  BY <1>3
<1>5. delivery[d].pc = "register" =>
        \/ delivery'[d] = delivery[d]
        \/ Message(d) \in registered'
        \/ delivery[d].hook \in troubled'
  OBVIOUS
<1>6. delivery[d].pc # "idle" =>
        \/ delivery'[d].pc # "idle" /\ delivery'[d].hook = delivery[d].hook
        \/ delivery[d].hook \in troubled'
        \/ \A i \in Considered(delivery[d].hook) : Handled(EventsOf[delivery[d].hook][i])
  OBVIOUS
<1> QED BY <1>1, <1>2, <1>4, <1>5, <1>6, RunStep

LEMMA ProceedType ==
    ASSUME RunTypes, NEW d \in Deliveries, delivery[d] \in ActiveRun, NEW pc \in DeliveryPcs, Proceed(d, pc)
    PROVE  /\ RunTypes' /\ \A e \in Deliveries \ {d} : delivery'[e] = delivery[e]
           /\ delivery'[d].pc = pc /\ delivery'[d].hook = delivery[d].hook
           /\ delivery'[d].at = delivery[d].at /\ delivery'[d].server = delivery[d].server
           /\ Message(d)' = Message(d)
<1>1. [delivery[d] EXCEPT !.pc = pc] \in ActiveRun
  BY DEF ActiveRun
<1>2. delivery' = [delivery EXCEPT ![d] = [delivery[d] EXCEPT !.pc = pc]]
  BY DEF Proceed, RunTypes
<1>3. RunTypes' /\ delivery'[d] = [delivery[d] EXCEPT !.pc = pc]
      /\ \A e \in Deliveries \ {d} : delivery'[e] = delivery[e]
  BY <1>1, <1>2 DEF RunTypes, AnyRun
<1> QED BY <1>3 DEF ActiveRun, Message

LEMMA NextEventType ==
    ASSUME RunTypes, NEW d \in Deliveries, delivery[d] \in ActiveRun, NextEvent(d)
    PROVE  /\ RunTypes' /\ \A e \in Deliveries \ {d} : delivery'[e] = delivery[e]
           /\ delivery'[d].pc = "take" /\ delivery'[d].hook = delivery[d].hook
           /\ delivery'[d].at = delivery[d].at + 1
<1> DEFINE n == [delivery[d] EXCEPT !.pc = "take", !.at = @ + 1]
<1>1. n \in ActiveRun /\ n.pc = "take" /\ n.hook = delivery[d].hook /\ n.at = delivery[d].at + 1
  <2>1. delivery[d].at + 1 \in Nat \ {0}
    BY DEF ActiveRun
  <2> QED BY <2>1 DEF ActiveRun, DeliveryPcs
<1>2. delivery' = [delivery EXCEPT ![d] = n]
  BY DEF NextEvent, RunTypes
<1> HIDE DEF n
<1> QED BY <1>1, <1>2 DEF RunTypes, AnyRun

\* A run passes on once what it passes is handled.
LEMMA NextEventFits ==
    ASSUME AdaptersInv, NEW d \in Deliveries, delivery[d] \in ActiveRun, NextEvent(d),
           \A m : Handled(m) => Handled(m)',
           \A m : m = Message(d) => Handled(m)'
    PROVE  RunFits(d)'
<1> PICK w : w = delivery[d].hook
  OBVIOUS
<1>1. /\ delivery'[d].pc = "take" /\ delivery'[d].hook = w /\ delivery'[d].at = delivery[d].at + 1
  BY NextEventType DEF AdaptersInv
<1>2. w \in Webhooks /\ delivery[d].at \in Nat /\ RunFits(d) /\ delivery[d].pc # "idle"
  BY DEF AdaptersInv, RunsFit, ActiveRun, DeliveryPcs
<1>3. ASSUME NEW i \in Considered(w), i < delivery[d].at + 1 PROVE Handled(EventsOf[w][i])'
  <2>1. i \in Nat
    BY <1>2, ConsideredFacts
  <2>2. CASE i < delivery[d].at
    BY <1>2, <2>2 DEF RunFits
  <2>3. CASE i = delivery[d].at
    BY <2>3 DEF Message
  <2> QED BY <1>2, <1>3, <2>1, <2>2, <2>3
<1> QED BY <1>1, <1>3 DEF RunFits

LEMMA RegisteredKept ==
    ASSUME AdaptersInv, NEW d \in Deliveries,
           \A e \in Deliveries \ {d} : delivery'[e] = delivery[e],
           registered \subseteq registered', troubled \subseteq troubled',
           delivery[d].pc = "register" =>
             \/ delivery'[d] = delivery[d]
             \/ Message(d) \in registered'
             \/ delivery[d].hook \in troubled'
    PROVE  \A m : Handled(m) => Handled(m)'
<1>1. \A e \in Deliveries : delivery[e].pc = "register" => delivery[e].at \in DOMAIN EventsOf[delivery[e].hook]
  BY MessageType
<1> QED BY <1>1, HandledKept

LEMMA PostStep ==
    ASSUME AdaptersInv, NEW d \in Deliveries, NEW s \in Servers, NEW w \in Webhooks, Post(d, s, w)
    PROVE  AdaptersInv'
<1> DEFINE n == [pc |-> "take", server |-> s, hook |-> w, at |-> 1]
<1>1. /\ delivery[d].pc = "idle" /\ delivery' = [delivery EXCEPT ![d] = n]
      /\ UNCHANGED <<remembered, registered, replies, troubles, troubled>>
      /\ acknowledged' \in {acknowledged, acknowledged \cup {w}}
  BY DEF Post
<1>2. n \in ActiveRun /\ n.pc = "take" /\ n.hook = w /\ n.at = 1
  BY DEF ActiveRun, DeliveryPcs
<1> HIDE DEF n
<1>3. RunTypes' /\ delivery'[d] = n /\ \A e \in Deliveries \ {d} : delivery'[e] = delivery[e]
  BY <1>1, <1>2 DEF AdaptersInv, RunTypes, AnyRun
<1>4. AdaptersTypeOK' /\ RegisteredFirst'
  BY AdaptersAssumption DEF Post, AdaptersInv, AdaptersTypeOK, RegisteredFirst
<1>5. \A m : Handled(m) => Handled(m)'
  BY <1>1, <1>3, RegisteredKept
<1>6. RememberedHandled'
  BY <1>1, <1>5 DEF AdaptersInv, RememberedHandled
<1>7. RunFits(d)'
  <2>1. \A i \in Considered(w) : ~(i < 1)
    BY ConsideredFacts
  <2> QED BY <1>2, <1>3, <2>1 DEF RunFits
<1>8. \A e \in Deliveries \ {d} : delivery[e].pc \in {"answer", "send"} =>
        /\ replies'[Message(e)] = replies[Message(e)]
        /\ ~(delivery'[d].pc \in {"answer", "send"})
  BY <1>1, <1>2, <1>3
<1> QED BY <1>1, <1>2, <1>3, <1>4, <1>6, <1>7, <1>8, RunStep

LEMMA TakeStep == ASSUME AdaptersInv, NEW d \in Deliveries, Take(d) PROVE AdaptersInv'
<1> PICK w, s : w = delivery[d].hook /\ s = delivery[d].server
  OBVIOUS
<1>1. /\ delivery[d].pc = "take" /\ delivery[d] \in ActiveRun /\ RunFits(d)
      /\ UNCHANGED <<registered, replies, posts, troubles, troubled>>
      /\ w \in Webhooks /\ s \in Servers /\ delivery[d].at \in Nat \ {0}
  <2>1. delivery[d].pc = "take"
    BY DEF Take
  <2> QED BY <2>1, RunType DEF AdaptersInv, RunsFit, Take, ActiveRun
<1>2. RegisteredFirst'
  BY <1>1 DEF AdaptersInv, RegisteredFirst
<1>3. \A e \in Deliveries : replies'[Message(e)] = replies[Message(e)]
  BY <1>1
<1>4. CASE delivery[d].at \notin Considered(w) /\ Finish(d) /\ UNCHANGED remembered
  <2>1. /\ RunTypes' /\ delivery'[d] = [pc |-> "idle"] /\ \A e \in Deliveries \ {d} : delivery'[e] = delivery[e]
        /\ acknowledged' = acknowledged \cup {w}
    BY <1>4 DEF Finish, AdaptersInv, RunTypes, AnyRun
  <2>2. \A m : Handled(m) => Handled(m)'
    BY <1>1, <2>1, RegisteredKept
  <2>3. AdaptersTypeOK' /\ RememberedHandled' /\ RunFits(d)'
    BY <1>1, <1>4, <2>1, <2>2 DEF AdaptersInv, AdaptersTypeOK, RememberedHandled, RunFits
  <2>4. \A i \in Considered(w) : Handled(EventsOf[w][i])
    BY <1>1, <1>4, ConsideredFacts DEF RunFits
  <2>5. /\ delivery'[d].pc = "idle" /\ delivery[d].pc # "idle" /\ delivery[d].pc # "register"
        /\ registered \subseteq registered' /\ troubled \subseteq troubled'
        /\ \A v \in acknowledged' \ acknowledged : delivery[d].hook = v
        /\ \A i \in Considered(delivery[d].hook) : Handled(EventsOf[delivery[d].hook][i])
    BY <1>1, <2>1, <2>4
  <2> QED BY <1>1, <1>2, <1>3, <2>1, <2>3, <2>5, FinishStep
<1>5. CASE /\ delivery[d].at \in Considered(w) /\ UNCHANGED <<acknowledged, remembered>> /\ NextEvent(d)
           /\ ~IsText(Message(d)) \/ (WhatsApp(w) /\ Message(d) \in remembered[s])
  <2>1. /\ RunTypes' /\ \A e \in Deliveries \ {d} : delivery'[e] = delivery[e]
        /\ delivery'[d].pc = "take" /\ delivery'[d].hook = w
    BY <1>1, <1>5, NextEventType DEF AdaptersInv
  <2>2. \A m : Handled(m) => Handled(m)'
    BY <1>1, <2>1, RegisteredKept
  <2>3. Handled(Message(d))
    BY <1>1, <1>5 DEF IsText, Handled, AdaptersInv, RememberedHandled
  <2>4. RunFits(d)'
    <3>1. \A m : m = Message(d) => Handled(m)'
      BY <2>2, <2>3
    <3> QED BY <1>1, <1>5, <2>2, <3>1, NextEventFits
  <2>5. AdaptersTypeOK' /\ RememberedHandled'
    BY <1>1, <1>5, <2>2 DEF AdaptersInv, AdaptersTypeOK, RememberedHandled
  <2> QED BY <1>1, <1>2, <1>3, <1>5, <2>1, <2>4, <2>5, RunStep
<1>6. CASE /\ delivery[d].at \in Considered(w) /\ UNCHANGED acknowledged /\ IsText(Message(d))
           /\ Proceed(d, "register")
           /\ remembered' = [remembered EXCEPT ![s] = IF WhatsApp(w) THEN @ \cup {Message(d)} ELSE @]
  <2>1. /\ RunTypes' /\ \A e \in Deliveries \ {d} : delivery'[e] = delivery[e]
        /\ delivery'[d].pc = "register" /\ delivery'[d].hook = w /\ delivery'[d].at = delivery[d].at
        /\ Message(d)' = Message(d)
    <3>1. "register" \in DeliveryPcs
      BY DEF DeliveryPcs
    <3> QED BY <1>1, <1>6, <3>1, ProceedType DEF AdaptersInv
  <2>2. \A m : Handled(m) => Handled(m)'
    BY <1>1, <2>1, RegisteredKept
  <2>3. Message(d) \in Texting /\ (\A m : m = Message(d) => Handled(m)')
    <3>1. delivery[d].at \in DOMAIN EventsOf[w]
      BY <1>1, <1>6, ConsideredFacts
    <3>2. Message(d) \in Texting
      BY <1>1, <1>6, <3>1 DEF Message, Texting, IsText
    <3>3. \A m : m = Message(d) => Handled(m)'
      BY <2>1 DEF Handled
    <3> QED BY <3>2, <3>3
  <2>4. RunFits(d)'
    <3>1. \A i \in Considered(w) : i < delivery[d].at => Handled(EventsOf[w][i])'
      BY <1>1, <2>2 DEF RunFits
    <3> QED BY <1>1, <1>6, <2>1, <3>1 DEF RunFits, IsText
  <2>5. remembered' \in [Servers -> SUBSET Texting]
    BY <1>1, <1>6, <2>3 DEF AdaptersInv, AdaptersTypeOK
  <2>6. AdaptersTypeOK'
    BY <1>1, <1>6, <2>5 DEF AdaptersInv, AdaptersTypeOK
  <2>7. RememberedHandled'
    <3> SUFFICES ASSUME NEW t \in Servers, NEW m \in remembered'[t] PROVE Handled(m)'
      BY DEF RememberedHandled
    <3>1. m \in remembered[t] \/ m = Message(d)
      BY <1>6, <2>5 DEF AdaptersInv, AdaptersTypeOK
    <3> QED BY <2>2, <2>3, <3>1 DEF AdaptersInv, RememberedHandled
  <2> QED BY <1>1, <1>2, <1>3, <1>6, <2>1, <2>4, <2>6, <2>7, RunStep
<1> QED BY <1>1, <1>4, <1>5, <1>6 DEF Take

\* A message that was not registered is in nobody's hands.
LEMMA RegisterStep == ASSUME AdaptersInv, NEW d \in Deliveries, RegisterEvent(d) PROVE AdaptersInv'
<1> PICK w, m : w = delivery[d].hook /\ m = Message(d)
  OBVIOUS
<1>1. /\ delivery[d].pc = "register" /\ delivery[d] \in ActiveRun /\ RunFits(d) /\ m \in Texting
      /\ registered' = registered \cup {m}
      /\ UNCHANGED <<remembered, acknowledged, replies, posts, troubles, troubled>>
  <2>1. delivery[d].pc = "register"
    BY DEF RegisterEvent
  <2> QED BY <2>1, MessageType DEF RegisterEvent
<1>2. AdaptersTypeOK' /\ RegisteredFirst'
  BY <1>1 DEF AdaptersInv, AdaptersTypeOK, RegisteredFirst
<1>3. \A x : x = m => Handled(x)'
  BY <1>1 DEF Handled
<1>4. CASE m \in registered /\ NextEvent(d)
  <2>1. /\ RunTypes' /\ \A e \in Deliveries \ {d} : delivery'[e] = delivery[e]
        /\ delivery'[d].pc = "take" /\ delivery'[d].hook = w
    BY <1>1, <1>4, NextEventType DEF AdaptersInv
  <2>2. \A x : Handled(x) => Handled(x)'
    BY <1>1, <2>1, RegisteredKept
  <2>3. RunFits(d)' /\ RememberedHandled'
    <3>1. RunFits(d)'
      BY <1>1, <1>3, <1>4, <2>2, NextEventFits
    <3> QED BY <1>1, <2>2, <3>1 DEF AdaptersInv, RememberedHandled
  <2> QED BY <1>1, <1>2, <2>1, <2>3, RunStep
<1>5. CASE m \notin registered /\ Proceed(d, "answer")
  <2>1. /\ RunTypes' /\ \A e \in Deliveries \ {d} : delivery'[e] = delivery[e]
        /\ delivery'[d].pc = "answer" /\ delivery'[d].hook = w /\ delivery'[d].at = delivery[d].at
        /\ Message(d)' = m
    <3>1. "answer" \in DeliveryPcs
      BY DEF DeliveryPcs
    <3> QED BY <1>1, <1>5, <3>1, ProceedType DEF AdaptersInv
  <2>2. \A x : Handled(x) => Handled(x)'
    BY <1>1, <2>1, RegisteredKept
  <2>3. \A e \in Deliveries \ {d} : delivery[e].pc \in {"answer", "send"} => Message(e) # m
    BY <1>5 DEF AdaptersInv, RunsFit, RunFits
  <2>4. RunFits(d)'
    <3>1. \A i \in Considered(w) : i < delivery[d].at => Handled(EventsOf[w][i])'
      BY <1>1, <2>2 DEF RunFits
    <3>2. replies'[m] = 0
      BY <1>1, <1>5 DEF AdaptersInv, RegisteredFirst
    <3>3. \A e \in Deliveries \ {d} : delivery'[e].pc \in {"answer", "send"} => Message(e)' # m
      BY <2>1, <2>3 DEF Message
    <3> QED BY <1>1, <2>1, <3>1, <3>2, <3>3 DEF RunFits
  <2>5. RememberedHandled'
    BY <1>1, <2>2 DEF AdaptersInv, RememberedHandled
  <2>6. EventsOf[delivery'[d].hook][delivery'[d].at] = m
    BY <2>1 DEF Message
  <2> QED BY <1>1, <1>2, <2>1, <2>3, <2>4, <2>5, <2>6, RunStep
<1> QED BY <1>4, <1>5 DEF RegisterEvent

LEMMA DecideStep == ASSUME AdaptersInv, NEW d \in Deliveries, Decide(d) PROVE AdaptersInv'
<1> PICK w, m : w = delivery[d].hook /\ m = Message(d)
  OBVIOUS
<1>1. /\ delivery[d].pc = "answer" /\ delivery[d] \in ActiveRun /\ RunFits(d) /\ m \in registered
      /\ UNCHANGED <<remembered, registered, acknowledged, replies, posts, troubles, troubled>>
  <2>1. delivery[d].pc = "answer"
    BY DEF Decide
  <2> QED BY <2>1, MessageType DEF Decide, RunFits
<1>2. AdaptersTypeOK' /\ RegisteredFirst'
  BY <1>1 DEF AdaptersInv, AdaptersTypeOK, RegisteredFirst
<1>3. CASE NextEvent(d)
  <2>1. /\ RunTypes' /\ \A e \in Deliveries \ {d} : delivery'[e] = delivery[e]
        /\ delivery'[d].pc = "take" /\ delivery'[d].hook = w
    BY <1>1, <1>3, NextEventType DEF AdaptersInv
  <2>2. \A x : Handled(x) => Handled(x)'
    BY <1>1, <2>1, RegisteredKept
  <2>3. \A x : x = m => Handled(x)'
    BY <1>1 DEF Handled
  <2>4. RunFits(d)' /\ RememberedHandled'
    <3>1. RunFits(d)'
      BY <1>1, <1>3, <2>2, <2>3, NextEventFits
    <3> QED BY <1>1, <2>2, <3>1 DEF AdaptersInv, RememberedHandled
  <2> QED BY <1>1, <1>2, <2>1, <2>4, RunStep
<1>4. CASE Proceed(d, "send")
  <2>1. /\ RunTypes' /\ \A e \in Deliveries \ {d} : delivery'[e] = delivery[e]
        /\ delivery'[d].pc = "send" /\ delivery'[d].hook = w /\ delivery'[d].at = delivery[d].at
        /\ Message(d)' = m
    <3>1. "send" \in DeliveryPcs
      BY DEF DeliveryPcs
    <3> QED BY <1>1, <1>4, <3>1, ProceedType DEF AdaptersInv
  <2>2. \A x : Handled(x) => Handled(x)'
    BY <1>1, <2>1, RegisteredKept
  <2>3. \A e \in Deliveries \ {d} : delivery[e].pc \in {"answer", "send"} => Message(e) # m
    BY <1>1 DEF RunFits
  <2>4. RunFits(d)'
    <3>1. \A i \in Considered(w) : i < delivery[d].at => Handled(EventsOf[w][i])'
      BY <1>1, <2>2 DEF RunFits
    <3>2. \A e \in Deliveries \ {d} : delivery'[e].pc \in {"answer", "send"} => Message(e)' # m
      BY <2>1, <2>3 DEF Message
    <3> QED BY <1>1, <2>1, <3>1, <3>2 DEF RunFits
  <2>5. RememberedHandled'
    BY <1>1, <2>2 DEF AdaptersInv, RememberedHandled
  <2>6. EventsOf[delivery'[d].hook][delivery'[d].at] = m
    BY <2>1 DEF Message
  <2> QED BY <1>1, <1>2, <2>1, <2>3, <2>4, <2>5, <2>6, RunStep
<1> QED BY <1>3, <1>4 DEF Decide

\* The reply is taken, or not, or nobody knows.
LEMMA ReplyStep ==
    ASSUME AdaptersInv, NEW d \in Deliveries, SendReply(d) \/ ReplyFails(d) PROVE AdaptersInv'
<1> PICK w, m : w = delivery[d].hook /\ m = Message(d)
  OBVIOUS
<1>1. /\ delivery[d].pc = "send" /\ delivery[d] \in ActiveRun /\ RunFits(d) /\ m \in registered
      /\ m \in Texting /\ replies[m] = 0 /\ w \in Webhooks
      /\ \A e \in Deliveries \ {d} : delivery[e].pc \in {"answer", "send"} => Message(e) # m
      /\ UNCHANGED <<remembered, registered, posts>>
  <2>1. delivery[d].pc = "send"
    BY DEF SendReply, ReplyFails
  <2> QED BY <2>1, MessageType DEF SendReply, ReplyFails, RunFits, ActiveRun
<1>2. /\ replies' \in [Texting -> 0 .. 1] /\ \A x \in Texting \ {m} : replies'[x] = replies[x]
  <2>1. replies' \in {replies, [replies EXCEPT ![m] = @ + 1]}
    BY DEF SendReply, ReplyFails
  <2> QED BY <1>1, <2>1 DEF AdaptersInv, AdaptersTypeOK
<1>3. /\ troubled \subseteq troubled' /\ troubled' \subseteq Webhooks /\ troubles' \in 0 .. MaxTroubles
  <2>1. CASE SendReply(d)
    BY <2>1 DEF SendReply, AdaptersInv, AdaptersTypeOK
  <2>2. CASE ReplyFails(d)
    <3>1. /\ troubles < MaxTroubles /\ troubles' = troubles + 1
          /\ troubled' \in {troubled, troubled \cup {w}}
      BY <2>2 DEF ReplyFails, Trouble
    <3> QED BY <1>1, <3>1, AdaptersAssumption DEF AdaptersInv, AdaptersTypeOK
  <2> QED BY <2>1, <2>2
<1>4. RegisteredFirst'
  BY <1>1, <1>2 DEF AdaptersInv, RegisteredFirst
<1>5. ASSUME NEW e \in Deliveries \ {d}, delivery[e].pc \in {"answer", "send"}
      PROVE  replies'[Message(e)] = replies[Message(e)]
  <2>1. Message(e) \in Texting
    BY <1>5, MessageType
  <2> QED BY <1>1, <1>2, <1>5, <2>1
<1>6. CASE NextEvent(d) /\ UNCHANGED acknowledged
  <2>1. /\ RunTypes' /\ \A e \in Deliveries \ {d} : delivery'[e] = delivery[e]
        /\ delivery'[d].pc = "take" /\ delivery'[d].hook = w
    BY <1>1, <1>6, NextEventType DEF AdaptersInv
  <2>2. \A x : Handled(x) => Handled(x)'
    BY <1>1, <1>3, <2>1, RegisteredKept
  <2>3. \A x : x = m => Handled(x)'
    BY <1>1 DEF Handled
  <2>4. RunFits(d)'
    BY <1>1, <1>6, <2>2, <2>3, NextEventFits
  <2>5. RememberedHandled' /\ AdaptersTypeOK'
    BY <1>1, <1>2, <1>3, <1>6, <2>2 DEF AdaptersInv, RememberedHandled, AdaptersTypeOK
  <2> QED BY <1>1, <1>3, <1>4, <1>5, <1>6, <2>1, <2>4, <2>5, RunStep
<1>7. CASE Finish(d) /\ w \in troubled'
  <2>1. /\ RunTypes' /\ delivery'[d].pc = "idle" /\ \A e \in Deliveries \ {d} : delivery'[e] = delivery[e]
        /\ acknowledged' = acknowledged \cup {w}
    BY <1>7 DEF Finish, AdaptersInv, RunTypes, AnyRun
  <2>2. \A x : Handled(x) => Handled(x)'
    BY <1>1, <1>3, <2>1, RegisteredKept
  <2>3. RunFits(d)' /\ RememberedHandled' /\ AdaptersTypeOK'
    BY <1>1, <1>2, <1>3, <2>1, <2>2 DEF RunFits, AdaptersInv, RememberedHandled, AdaptersTypeOK
  <2>4. delivery[d].pc # "idle" /\ registered \subseteq registered' /\ delivery[d].hook \in troubled'
    BY <1>1, <1>7
  <2> QED BY <1>3, <1>4, <1>5, <2>1, <2>3, <2>4, FinishStep
<1>8. CASE SendReply(d)
  BY <1>6, <1>8 DEF SendReply
<1>9. CASE ReplyFails(d)
  <2>1. ProviderOf[w] = "instagram" => w \in troubled'
    BY <1>9 DEF ReplyFails, Trouble
  <2> QED BY <1>6, <1>7, <1>9, <2>1 DEF ReplyFails
<1> QED BY <1>8, <1>9

LEMMA ThrowStep == ASSUME AdaptersInv, NEW d \in Deliveries, Throw(d) PROVE AdaptersInv'
<1> PICK w : w = delivery[d].hook
  OBVIOUS
<1>1. /\ delivery[d].pc \in {"register", "answer"} /\ delivery[d] \in ActiveRun /\ w \in Webhooks
      /\ troubled' = troubled \cup {w} /\ Finish(d)
      /\ troubles < MaxTroubles /\ troubles' = troubles + 1
      /\ UNCHANGED <<remembered, registered, replies, posts>>
  <2>1. delivery[d].pc \in {"register", "answer"}
    BY DEF Throw
  <2> QED BY <2>1, RunType DEF Throw, Trouble, AdaptersInv, ActiveRun
<1>2. /\ RunTypes' /\ delivery'[d].pc = "idle" /\ \A e \in Deliveries \ {d} : delivery'[e] = delivery[e]
      /\ acknowledged' = acknowledged \cup {w}
  BY <1>1 DEF Finish, AdaptersInv, RunTypes, AnyRun
<1>3. \A x : Handled(x) => Handled(x)'
  BY <1>1, <1>2, RegisteredKept
<1>4. RunFits(d)' /\ RememberedHandled' /\ AdaptersTypeOK' /\ RegisteredFirst'
  BY <1>1, <1>2, <1>3, AdaptersAssumption
     DEF RunFits, AdaptersInv, RememberedHandled, AdaptersTypeOK, RegisteredFirst
<1>5. /\ delivery[d].pc # "idle" /\ delivery[d].hook \in troubled'
      /\ registered \subseteq registered' /\ troubled \subseteq troubled'
      /\ acknowledged' = acknowledged \cup {delivery[d].hook}
      /\ \A e \in Deliveries \ {d} : replies'[Message(e)] = replies[Message(e)]
  BY <1>1, <1>2
<1> QED BY <1>2, <1>4, <1>5, FinishStep

\* A server that dies takes its runs with it: their webhooks are troubled.
LEMMA RestartStep == ASSUME AdaptersInv, NEW s \in Servers, Restart(s) PROVE AdaptersInv'
<1> DEFINE mine == {d \in Deliveries : delivery[d].pc # "idle" /\ delivery[d].server = s}
<1>1. /\ troubled' = troubled \cup {delivery[d].hook : d \in mine}
      /\ troubles < MaxTroubles /\ troubles' = troubles + 1
      /\ delivery' = [d \in Deliveries |-> IF d \in mine THEN [pc |-> "idle"] ELSE delivery[d]]
      /\ remembered' = [remembered EXCEPT ![s] = {}]
      /\ UNCHANGED <<registered, acknowledged, replies, posts>>
  BY DEF Restart, Trouble
<1>2. \A d \in mine : d \in Deliveries /\ delivery[d].pc # "idle" /\ delivery[d].hook \in Webhooks /\ delivery[d].hook \in troubled'
  BY <1>1, RunType DEF AdaptersInv, ActiveRun
<1> HIDE DEF mine
<1>3. \A d \in Deliveries : \/ d \in mine /\ delivery'[d] = [pc |-> "idle"]
                            \/ d \notin mine /\ delivery'[d] = delivery[d]
  BY <1>1
<1>4. RunTypes' /\ AdaptersTypeOK' /\ RegisteredFirst'
  <2>1. RunTypes'
    BY <1>1 DEF AdaptersInv, RunTypes, AnyRun
  <2>2. troubled' \subseteq Webhooks
    BY <1>1, <1>2 DEF AdaptersInv, AdaptersTypeOK
  <2> QED BY <1>1, <2>1, <2>2, AdaptersAssumption DEF AdaptersInv, AdaptersTypeOK, RegisteredFirst
<1>5. \A m : Handled(m) => Handled(m)'
  <2>1. \A e \in Deliveries : delivery[e].pc = "register" => delivery[e].at \in DOMAIN EventsOf[delivery[e].hook]
    BY MessageType
  <2>2. registered \subseteq registered' /\ troubled \subseteq troubled'
    BY <1>1
  <2> QED BY <1>2, <1>3, <2>1, <2>2, HandledKept
<1>6. RememberedHandled'
  BY <1>1, <1>5 DEF AdaptersInv, AdaptersTypeOK, RememberedHandled
<1>7. ASSUME NEW d \in Deliveries, delivery'[d].pc # "idle" PROVE RunFits(d)'
  <2>1. delivery'[d] = delivery[d] /\ RunFits(d) /\ Message(d)' = Message(d)
    BY <1>3, <1>7 DEF AdaptersInv, RunsFit, Message
  <2>2. \A i \in Considered(delivery[d].hook) : i < delivery[d].at => Handled(EventsOf[delivery[d].hook][i])'
    BY <1>5, <1>7, <2>1 DEF RunFits
  <2>3. \A e \in Deliveries : delivery'[e].pc \in {"answer", "send"} => delivery'[e] = delivery[e] /\ Message(e)' = Message(e)
    BY <1>3 DEF Message
  <2>4. delivery[d].pc \in {"answer", "send"} =>
          \A e \in Deliveries \ {d} : delivery'[e].pc \in {"answer", "send"} => Message(e)' # Message(d)
    BY <1>7, <2>1, <2>3 DEF RunFits
  <2> QED BY <1>1, <1>7, <2>1, <2>2, <2>4 DEF RunFits
<1>8. RunsFit'
  BY <1>7 DEF RunsFit, RunFits
<1>9. LossExplained'
  <2> SUFFICES ASSUME NEW w \in acknowledged, NEW i \in DOMAIN EventsOf[w]
               PROVE  \/ EventsOf[w][i] \in registered' \cup {NotText}
                      \/ \E d \in Deliveries : delivery'[d].pc # "idle" /\ delivery'[d].hook = w
                      \/ w \in troubled'
                      \/ WhatsApp(w) /\ i > 1
    BY <1>1 DEF LossExplained
  <2>1. ASSUME NEW d \in Deliveries, delivery[d].pc # "idle", delivery[d].hook = w
        PROVE  w \in troubled' \/ (delivery'[d].pc # "idle" /\ delivery'[d].hook = w)
    BY <1>2, <1>3, <2>1
  <2>2. \/ EventsOf[w][i] \in registered \cup {NotText}
        \/ \E d \in Deliveries : delivery[d].pc # "idle" /\ delivery[d].hook = w
        \/ w \in troubled
        \/ WhatsApp(w) /\ i > 1
    BY DEF AdaptersInv, LossExplained
  <2> QED BY <1>1, <2>1, <2>2
<1> QED BY <1>4, <1>6, <1>8, <1>9 DEF AdaptersInv

\* What changes none of the runs and forgets at most.
LEMMA ForgetStep ==
    ASSUME AdaptersInv, remembered' \in [Servers -> SUBSET Texting],
           \A s \in Servers : remembered'[s] \subseteq remembered[s],
           UNCHANGED <<registered, acknowledged, delivery, replies, posts, troubles, troubled>>
    PROVE  AdaptersInv'
<1>1. \A m : Handled(m)' <=> Handled(m)
  BY DEF Handled, Message
<1>2. AdaptersTypeOK' /\ RunTypes' /\ RegisteredFirst'
  BY DEF AdaptersInv, AdaptersTypeOK, RunTypes, RegisteredFirst
<1>3. RememberedHandled'
  BY <1>1 DEF AdaptersInv, RememberedHandled
<1>4. ASSUME NEW d \in Deliveries PROVE RunFits(d)'
  <2>1. RunFits(d) /\ delivery' = delivery /\ replies' = replies /\ registered' = registered
    BY DEF AdaptersInv, RunsFit
  <2>2. \A e \in Deliveries : Message(e)' = Message(e)
    BY DEF Message
  <2> QED BY <1>1, <2>1, <2>2 DEF RunFits
<1>5. LossExplained'
  BY DEF AdaptersInv, LossExplained
<1> QED BY <1>2, <1>3, <1>4, <1>5 DEF AdaptersInv, RunsFit

LEMMA AdaptersInitInv == AdaptersInit => AdaptersInv
<1> SUFFICES ASSUME AdaptersInit PROVE AdaptersInv
  OBVIOUS
<1>1. AdaptersTypeOK /\ RunTypes
  BY AdaptersAssumption DEF AdaptersInit, AdaptersTypeOK, RunTypes, AnyRun
<1>2. RunsFit /\ RememberedHandled /\ RegisteredFirst /\ LossExplained
  BY DEF AdaptersInit, RunsFit, RunFits, RememberedHandled, RegisteredFirst, LossExplained
<1> QED BY <1>1, <1>2 DEF AdaptersInv

LEMMA AdaptersNextInv == AdaptersInv /\ [AdaptersNext]_adaptersVars => AdaptersInv'
<1> SUFFICES ASSUME AdaptersInv, [AdaptersNext]_adaptersVars PROVE AdaptersInv'
  OBVIOUS
<1>1. ASSUME NEW d \in Deliveries, NEW s \in Servers, NEW w \in Webhooks, Post(d, s, w) PROVE AdaptersInv'
  BY <1>1, PostStep
<1>2. ASSUME NEW d \in Deliveries, Take(d) PROVE AdaptersInv'
  BY <1>2, TakeStep
<1>3. ASSUME NEW d \in Deliveries, RegisterEvent(d) PROVE AdaptersInv'
  BY <1>3, RegisterStep
<1>4. ASSUME NEW d \in Deliveries, Decide(d) PROVE AdaptersInv'
  BY <1>4, DecideStep
<1>5. ASSUME NEW d \in Deliveries, SendReply(d) \/ ReplyFails(d) PROVE AdaptersInv'
  BY <1>5, ReplyStep
<1>6. ASSUME NEW d \in Deliveries, Throw(d) PROVE AdaptersInv'
  BY <1>6, ThrowStep
<1>7. ASSUME NEW s \in Servers, Restart(s) PROVE AdaptersInv'
  BY <1>7, RestartStep
<1>8. ASSUME NEW s \in Servers, NEW m \in Texting, Forget(s, m) PROVE AdaptersInv'
  <2>1. /\ remembered' = [remembered EXCEPT ![s] = @ \ {m}]
        /\ UNCHANGED <<registered, acknowledged, delivery, replies, posts, troubles, troubled>>
    BY <1>8 DEF Forget
  <2>2. remembered' \in [Servers -> SUBSET Texting] /\ \A t \in Servers : remembered'[t] \subseteq remembered[t]
    BY <2>1 DEF AdaptersInv, AdaptersTypeOK
  <2> QED BY <2>1, <2>2, ForgetStep
<1>9. CASE UNCHANGED adaptersVars
  <2>1. UNCHANGED <<registered, acknowledged, delivery, replies, posts, troubles, troubled>>
    BY <1>9 DEF adaptersVars
  <2>2. remembered' \in [Servers -> SUBSET Texting] /\ \A t \in Servers : remembered'[t] \subseteq remembered[t]
    BY <1>9 DEF adaptersVars, AdaptersInv, AdaptersTypeOK
  <2> QED BY <2>1, <2>2, ForgetStep
<1> QED BY <1>1, <1>2, <1>3, <1>4, <1>5, <1>6, <1>7, <1>8, <1>9 DEF AdaptersNext

LEMMA AdaptersInductive == AdaptersSpec => []AdaptersInv
  BY AdaptersInitInv, AdaptersNextInv, PTL DEF AdaptersSpec

------------------------------------------------------------------------------
(* Theorems *)

\* A message is replied to at most once, however often its webhook is delivered, to whichever
\* servers, whatever they forget (isDuplicate, evictExpiredEntries) and whenever they die: the
\* registration in processed_events is what the replies hang on.
THEOREM AdaptersTypeCorrect == AdaptersSpec => []AdaptersTypeOK
<1>1. AdaptersInv => AdaptersTypeOK
  BY DEF AdaptersInv
<1> QED BY <1>1, AdaptersInductive, PTL

\* The controllers answer 200 come what may, so the provider does not call again: a message of
\* an answered webhook is nevertheless registered or being worked on, unless a run of that
\* webhook failed or died, or WhatsApp's parser never looked at it.
THEOREM LossesExplained == AdaptersSpec => []LossExplained
<1>1. AdaptersInv => LossExplained
  BY DEF AdaptersInv
<1> QED BY <1>1, AdaptersInductive, PTL
================================================================================
