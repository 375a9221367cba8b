--------------------------- MODULE QueryPubSubProofs ---------------------------
(***************************************************************************)
(* For any number of subscribers: nothing panics in a pubSub, a poller     *)
(* sends only to channels it keeps locked, the locks do not wait for each  *)
(* other, and nothing stays registered for a query nobody is interested in.*)
(***************************************************************************)
EXTENDS QueryPubSub, TLAPS

\* The pubSub a goroutine works on is one that was made.
InHand ==
  /\ \A s \in Subs : sub[s] \in {"register", "subscribe", "unsubscribe", "active", "close"}
                      => held[s] \in Subs
  /\ \A s \in Subs : sub[s] = "register" => held[s] = s
  /\ \A q \in Subs : poller[q] \in {"locking", "sending"} => target[q] \in Subs

\* A channel that is not made yet is nowhere.
ChannelsFresh ==
  \A s \in Subs : sub[s] \in {"lookup", "register", "subscribe"} =>
    s \notin closed /\ \A p \in Subs : s \notin subscriberCache[p]

\* A pubSub that is not registered yet is known to its maker alone.
PubSubsFresh ==
  \A p \in Subs : sub[p] \in {"lookup", "register"} =>
    /\ registered # p /\ subscriberCache[p] = {}
    /\ \A s \in Subs \ {p} : held[s] # p

\* The channels of the registered pubSub belong to subscribers that will remove them.
OwnersStay ==
  \A s \in Subs : registered # None /\ s \in subscriberCache[registered] =>
    \/ sub[s] \in {"watching", "leaving"}
    \/ sub[s] = "unsubscribe" /\ held[s] = registered

\* Who keeps queryPubSubs locked is about to close a pubSub and to unlock it.
AccessHeld == ~AccessFree => access \in Subs /\ poller[access] = "closing"

\* The subscriber s will see to it that the registered pubSub is deleted, or leave
\* that to one that is still subscribed.
Responsible(s) ==
  \/ sub[s] = "subscribe" /\ held[s] = registered
  \/ s \in subscriberCache[registered]
  \/ sub[s] = "active" /\ held[s] = registered
  \/ sub[s] \in {"close", "delete"}

SomeoneResponsible == registered # None => \E s \in Subs : Responsible(s)


\* Every step keeps the types.
LEMMA TypeStep ==
  ASSUME TypeOK, InHand, [Next]_vars
  PROVE  TypeOK'
<1> USE SubsAssumption, CapAssumption DEF TypeOK, InHand, cache, pubSubs, subscribers,
     pollers, Goto, Return, Continue, ClosePubSub
<1>1. CASE UNCHANGED vars
  BY <1>1 DEF vars, cache, pubSubs, subscribers, pollers
<1>2. ASSUME NEW s \in Subs, Subscriber(s)
      PROVE  TypeOK'
  <2>1. CASE SubscribeLookup(s)
    BY <2>1 DEF SubscribeLookup
  <2>2. CASE Register(s)
    BY <2>2 DEF Register
  <2>3. CASE Subscribe(s)
    BY <2>3 DEF Subscribe
  <2>4. CASE TakeValue(s)
    BY <2>4 DEF TakeValue
  <2>5. CASE StopWatching(s)
    BY <2>5 DEF StopWatching
  <2>6. CASE UnsubscribeLookup(s)
    BY <2>6 DEF UnsubscribeLookup
  <2>7. CASE Unsubscribe(s)
    BY <2>7 DEF Unsubscribe
  <2>8. CASE CheckActive(s)
    BY <2>8 DEF CheckActive
  <2>9. CASE CloseInactive(s)
    BY <2>9 DEF CloseInactive
  <2>10. CASE Delete(s)
    BY <2>10 DEF Delete
  <2>11. QED BY <1>2, <2>1, <2>2, <2>3, <2>4, <2>5, <2>6, <2>7, <2>8, <2>9,
       <2>10 DEF Subscriber
<1>3. ASSUME NEW q \in Subs, Poller(q)
      PROVE  TypeOK'
  <2>1. CASE Tick(q)
    BY <2>1 DEF Tick
  <2>2. CASE QueryFails(q)
    BY <2>2 DEF QueryFails
  <2>3. CASE NotifySubscribers(q)
    BY <2>3 DEF NotifySubscribers
  <2>4. CASE Publish(q)
    BY <2>4 DEF Publish
  <2>5. CASE Published(q)
    BY <2>5 DEF Published
  <2>6. CASE LockToExit(q)
    BY <2>6 DEF LockToExit
  <2>7. CASE ClosePoller(q)
    BY <2>7 DEF ClosePoller
  <2>8. ASSUME NEW s \in Subs, Send(q, s) PROVE TypeOK'
    BY <2>8 DEF Send
  <2>9. QED BY <1>3, <2>1, <2>2, <2>3, <2>4, <2>5, <2>6, <2>7, <2>8 DEF Poller
<1>4. QED BY <1>1, <1>2, <1>3 DEF Next

\* Every step keeps the pubSubs in hand.
LEMMA InHandStep ==
  ASSUME TypeOK, InHand, [Next]_vars
  PROVE  InHand'
<1> USE SubsAssumption, CapAssumption DEF TypeOK, InHand, cache, pubSubs, subscribers,
     pollers, Goto, Return, Continue, ClosePubSub
<1>1. CASE UNCHANGED vars
  BY <1>1 DEF vars, cache, pubSubs, subscribers, pollers
<1>2. ASSUME NEW s \in Subs, Subscriber(s)
      PROVE  InHand'
  <2>1. CASE SubscribeLookup(s)
    BY <2>1 DEF SubscribeLookup
  <2>2. CASE Register(s)
    BY <2>2 DEF Register
  <2>3. CASE Subscribe(s)
    BY <2>3 DEF Subscribe
  <2>4. CASE TakeValue(s)
    BY <2>4 DEF TakeValue
  <2>5. CASE StopWatching(s)
    BY <2>5 DEF StopWatching
  <2>6. CASE UnsubscribeLookup(s)
    BY <2>6 DEF UnsubscribeLookup
  <2>7. CASE Unsubscribe(s)
    BY <2>7 DEF Unsubscribe
  <2>8. CASE CheckActive(s)
    BY <2>8 DEF CheckActive
  <2>9. CASE CloseInactive(s)
    BY <2>9 DEF CloseInactive
  <2>10. CASE Delete(s)
    BY <2>10 DEF Delete
  <2>11. QED BY <1>2, <2>1, <2>2, <2>3, <2>4, <2>5, <2>6, <2>7, <2>8, <2>9,
       <2>10 DEF Subscriber
<1>3. ASSUME NEW q \in Subs, Poller(q)
      PROVE  InHand'
  <2>1. CASE Tick(q)
    BY <2>1 DEF Tick
  <2>2. CASE QueryFails(q)
    BY <2>2 DEF QueryFails
  <2>3. CASE NotifySubscribers(q)
    BY <2>3 DEF NotifySubscribers
  <2>4. CASE Publish(q)
    BY <2>4 DEF Publish
  <2>5. CASE Published(q)
    BY <2>5 DEF Published
  <2>6. CASE LockToExit(q)
    BY <2>6 DEF LockToExit
  <2>7. CASE ClosePoller(q)
    BY <2>7 DEF ClosePoller
  <2>8. ASSUME NEW s \in Subs, Send(q, s) PROVE InHand'
    BY <2>8 DEF Send
  <2>9. QED BY <1>3, <2>1, <2>2, <2>3, <2>4, <2>5, <2>6, <2>7, <2>8 DEF Poller
<1>4. QED BY <1>1, <1>2, <1>3 DEF Next

\* No step makes a channel twice, or lets two pubSubs have it.
LEMMA ChannelsStep ==
  ASSUME TypeOK, InHand, ChannelsFresh, CachedChannelsOpen, [Next]_vars
  PROVE  (ChannelsFresh /\ CachedChannelsOpen)'
<1> USE SubsAssumption, CapAssumption DEF TypeOK, InHand, ChannelsFresh,
     CachedChannelsOpen, cache, pubSubs, subscribers, pollers, Goto, Return, Continue,
     ClosePubSub
<1>1. CASE UNCHANGED vars
  BY <1>1 DEF vars, cache, pubSubs, subscribers, pollers
<1>2. ASSUME NEW s \in Subs, Subscriber(s)
      PROVE  (ChannelsFresh /\ CachedChannelsOpen)'
  <2>1. CASE SubscribeLookup(s)
    BY <2>1 DEF SubscribeLookup
  <2>2. CASE Register(s)
    BY <2>2 DEF Register
  <2>3. CASE Subscribe(s)
    <3> DEFINE h == held[s]
    <3>1. h \in Subs /\ s \notin closed /\ \A p \in Subs : s \notin subscriberCache[p]
      BY <2>3 DEF Subscribe
    <3>2. /\ subscriberCache' = [subscriberCache EXCEPT ![h] = @ \cup {s}]
          /\ closeChannels' = [closeChannels EXCEPT ![h] = @ \cup {s}]
          /\ sub' = [sub EXCEPT ![s] = "watching"] /\ closed' = closed
      BY <2>3 DEF Subscribe
    <3> HIDE DEF h
    <3>3. ChannelsFresh'
      BY <3>1, <3>2
    <3>4. CachedChannelsOpen'
      <4>1. \A p \in Subs :
              /\ subscriberCache'[p] = subscriberCache[p] \cup (IF p = h THEN {s} ELSE {})
              /\ closeChannels'[p] = closeChannels[p] \cup (IF p = h THEN {s} ELSE {})
        BY <3>1, <3>2
      <4> SUFFICES ASSUME NEW p \in Subs
                   PROVE  /\ subscriberCache'[p] \cap closed' = {}
                          /\ closeChannels'[p] = subscriberCache'[p]
                          /\ \A o \in Subs \ {p} :
                               subscriberCache'[p] \cap subscriberCache'[o] = {}
        OBVIOUS
      <4>2. subscriberCache[p] \cap closed = {} /\ closeChannels[p] = subscriberCache[p]
        OBVIOUS
      <4>3. ASSUME NEW o \in Subs \ {p}
            PROVE  subscriberCache'[p] \cap subscriberCache'[o] = {}
        <5>1. subscriberCache[p] \cap subscriberCache[o] = {}
          OBVIOUS
        <5>2. \A x : x \in subscriberCache'[p] =>
                     x \in subscriberCache[p] \/ (x = s /\ p = h)
          BY <4>1
        <5>3. \A x : x \in subscriberCache'[o] =>
                     x \in subscriberCache[o] \/ (x = s /\ o = h)
          BY <4>1
        <5>4. s \notin subscriberCache[p] /\ s \notin subscriberCache[o]
          BY <3>1
        <5>5. ASSUME NEW x, x \in subscriberCache'[p], x \in subscriberCache'[o]
              PROVE  FALSE
          <6>1. CASE x = s
            BY <6>1, <5>2, <5>3, <5>4, <5>5, <4>3
          <6>2. CASE x # s
            BY <6>2, <5>1, <5>2, <5>3, <5>5
          <6>3. QED BY <6>1, <6>2
        <5>6. QED BY <5>5
      <4>4. closeChannels'[p] = subscriberCache'[p]
        BY <4>1, <4>2
      <4>5. subscriberCache'[p] \cap closed' = {}
        <5>1. \A x : x \in subscriberCache'[p] => x \in subscriberCache[p] \/ x = s
          BY <4>1
        <5>2. QED BY <3>1, <3>2, <4>2, <5>1
      <4>6. QED BY <4>3, <4>4, <4>5
    <3>5. QED BY <3>3, <3>4
  <2>4. CASE TakeValue(s)
    BY <2>4 DEF TakeValue
  <2>5. CASE StopWatching(s)
    BY <2>5 DEF StopWatching
  <2>6. CASE UnsubscribeLookup(s)
    BY <2>6 DEF UnsubscribeLookup
  <2>7. CASE Unsubscribe(s)
    <3> DEFINE h == held[s]
    <3>1. h \in Subs /\ closeChannels[h] = subscriberCache[h]
      BY <2>7 DEF Unsubscribe
    <3>2. /\ subscriberCache' = [subscriberCache EXCEPT ![h] = @ \ {s}]
          /\ closeChannels' = [closeChannels EXCEPT ![h] = @ \ {s}]
          /\ sub' = [sub EXCEPT ![s] = "active"] /\ closed' = closed
      BY <2>7, <3>1 DEF Unsubscribe
    <3> HIDE DEF h
    <3>3. ChannelsFresh'
      BY <3>1, <3>2
    <3>4. CachedChannelsOpen'
      BY <3>1, <3>2
    <3>5. QED BY <3>3, <3>4
  <2>8. CASE CheckActive(s)
    BY <2>8 DEF CheckActive
  <2>9. CASE CloseInactive(s)
    BY <2>9 DEF CloseInactive
  <2>10. CASE Delete(s)
    BY <2>10 DEF Delete
  <2>11. QED BY <1>2, <2>1, <2>2, <2>3, <2>4, <2>5, <2>6, <2>7, <2>8, <2>9,
       <2>10 DEF Subscriber
<1>3. ASSUME NEW q \in Subs, Poller(q)
      PROVE  (ChannelsFresh /\ CachedChannelsOpen)'
  <2>1. CASE Tick(q)
    BY <2>1 DEF Tick
  <2>2. CASE QueryFails(q)
    BY <2>2 DEF QueryFails
  <2>3. CASE NotifySubscribers(q)
    BY <2>3 DEF NotifySubscribers
  <2>4. CASE Publish(q)
    BY <2>4 DEF Publish
  <2>5. CASE Published(q)
    BY <2>5 DEF Published
  <2>6. CASE LockToExit(q)
    BY <2>6 DEF LockToExit
  <2>7. CASE ClosePoller(q)
    <3>1. CASE registered = None
      BY <2>7, <3>1 DEF ClosePoller
    <3>2. CASE registered # None
      <4> DEFINE p == registered
      <4>1. /\ p \in Subs /\ sub' = sub /\ closed' = closed \cup subscriberCache[p]
            /\ subscriberCache' = [subscriberCache EXCEPT ![p] = {}]
            /\ closeChannels' = [closeChannels EXCEPT ![p] = {}]
        BY <2>7, <3>2 DEF ClosePoller
      <4> HIDE DEF p
      <4>2. ChannelsFresh'
        BY <4>1
      <4>3. CachedChannelsOpen'
        BY <4>1
      <4>4. QED BY <4>2, <4>3
    <3>3. QED BY <3>1, <3>2
  <2>8. ASSUME NEW s \in Subs, Send(q, s) PROVE (ChannelsFresh /\ CachedChannelsOpen)'
    BY <2>8 DEF Send
  <2>9. QED BY <1>3, <2>1, <2>2, <2>3, <2>4, <2>5, <2>6, <2>7, <2>8 DEF Poller
<1>4. QED BY <1>1, <1>2, <1>3 DEF Next

\* A poller that sends keeps writers out of the pubSub.
LEMMA LockStep ==
  ASSUME TypeOK, InHand, SendsUnderLock, [Next]_vars
  PROVE  SendsUnderLock'
<1> USE SubsAssumption, CapAssumption DEF TypeOK, InHand, SendsUnderLock, LockFree, cache,
     pubSubs, subscribers, pollers, Goto, Return, Continue, ClosePubSub
<1>1. CASE UNCHANGED vars
  BY <1>1 DEF vars, cache, pubSubs, subscribers, pollers
<1>2. ASSUME NEW s \in Subs, Subscriber(s)
      PROVE  SendsUnderLock'
  <2>1. CASE SubscribeLookup(s)
    BY <2>1 DEF SubscribeLookup
  <2>2. CASE Register(s)
    BY <2>2 DEF Register
  <2>3. CASE Subscribe(s)
    BY <2>3 DEF Subscribe
  <2>4. CASE TakeValue(s)
    BY <2>4 DEF TakeValue
  <2>5. CASE StopWatching(s)
    BY <2>5 DEF StopWatching
  <2>6. CASE UnsubscribeLookup(s)
    BY <2>6 DEF UnsubscribeLookup
  <2>7. CASE Unsubscribe(s)
    BY <2>7 DEF Unsubscribe
  <2>8. CASE CheckActive(s)
    BY <2>8 DEF CheckActive
  <2>9. CASE CloseInactive(s)
    BY <2>9 DEF CloseInactive
  <2>10. CASE Delete(s)
    BY <2>10 DEF Delete
  <2>11. QED BY <1>2, <2>1, <2>2, <2>3, <2>4, <2>5, <2>6, <2>7, <2>8, <2>9,
       <2>10 DEF Subscriber
<1>3. ASSUME NEW q \in Subs, Poller(q)
      PROVE  SendsUnderLock'
  <2>1. CASE Tick(q)
    BY <2>1 DEF Tick
  <2>2. CASE QueryFails(q)
    BY <2>2 DEF QueryFails
  <2>3. CASE NotifySubscribers(q)
    BY <2>3 DEF NotifySubscribers
  <2>4. CASE Publish(q)
    BY <2>4 DEF Publish
  <2>5. CASE Published(q)
    BY <2>5 DEF Published
  <2>6. CASE LockToExit(q)
    BY <2>6 DEF LockToExit
  <2>7. CASE ClosePoller(q)
    BY <2>7 DEF ClosePoller
  <2>8. ASSUME NEW s \in Subs, Send(q, s) PROVE SendsUnderLock'
    BY <2>8 DEF Send
  <2>9. QED BY <1>3, <2>1, <2>2, <2>3, <2>4, <2>5, <2>6, <2>7, <2>8 DEF Poller
<1>4. QED BY <1>1, <1>2, <1>3 DEF Next

\* Only a poller that closes keeps the map of pubSubs locked.
LEMMA AccessStep ==
  ASSUME TypeOK, InHand, AccessHeld, [Next]_vars
  PROVE  AccessHeld'
<1> USE SubsAssumption, CapAssumption DEF TypeOK, InHand, AccessHeld, AccessFree, cache,
     pubSubs, subscribers, pollers, Goto, Return, Continue, ClosePubSub
<1>1. CASE UNCHANGED vars
  BY <1>1 DEF vars, cache, pubSubs, subscribers, pollers
<1>2. ASSUME NEW s \in Subs, Subscriber(s)
      PROVE  AccessHeld'
  <2>1. CASE SubscribeLookup(s)
    BY <2>1 DEF SubscribeLookup
  <2>2. CASE Register(s)
    BY <2>2 DEF Register
  <2>3. CASE Subscribe(s)
    BY <2>3 DEF Subscribe
  <2>4. CASE TakeValue(s)
    BY <2>4 DEF TakeValue
  <2>5. CASE StopWatching(s)
    BY <2>5 DEF StopWatching
  <2>6. CASE UnsubscribeLookup(s)
    BY <2>6 DEF UnsubscribeLookup
  <2>7. CASE Unsubscribe(s)
    BY <2>7 DEF Unsubscribe
  <2>8. CASE CheckActive(s)
    BY <2>8 DEF CheckActive
  <2>9. CASE CloseInactive(s)
    BY <2>9 DEF CloseInactive
  <2>10. CASE Delete(s)
    BY <2>10 DEF Delete
  <2>11. QED BY <1>2, <2>1, <2>2, <2>3, <2>4, <2>5, <2>6, <2>7, <2>8, <2>9,
       <2>10 DEF Subscriber
<1>3. ASSUME NEW q \in Subs, Poller(q)
      PROVE  AccessHeld'
  <2>1. CASE Tick(q)
    BY <2>1 DEF Tick
  <2>2. CASE QueryFails(q)
    BY <2>2 DEF QueryFails
  <2>3. CASE NotifySubscribers(q)
    BY <2>3 DEF NotifySubscribers
  <2>4. CASE Publish(q)
    BY <2>4 DEF Publish
  <2>5. CASE Published(q)
    BY <2>5 DEF Published
  <2>6. CASE LockToExit(q)
    BY <2>6 DEF LockToExit
  <2>7. CASE ClosePoller(q)
    BY <2>7 DEF ClosePoller
  <2>8. ASSUME NEW s \in Subs, Send(q, s) PROVE AccessHeld'
    BY <2>8 DEF Send
  <2>9. QED BY <1>3, <2>1, <2>2, <2>3, <2>4, <2>5, <2>6, <2>7, <2>8 DEF Poller
<1>4. QED BY <1>1, <1>2, <1>3 DEF Next

\* A pubSub is registered before anyone but its maker can get it.
LEMMA PubSubsStep ==
  ASSUME TypeOK, InHand, PubSubsFresh, [Next]_vars
  PROVE  PubSubsFresh'
<1> USE SubsAssumption, CapAssumption DEF TypeOK, InHand, PubSubsFresh, cache, pubSubs,
     subscribers, pollers, Goto, Return, Continue, ClosePubSub
<1>1. CASE UNCHANGED vars
  BY <1>1 DEF vars, cache, pubSubs, subscribers, pollers
<1>2. ASSUME NEW s \in Subs, Subscriber(s)
      PROVE  PubSubsFresh'
  <2>1. CASE SubscribeLookup(s)
    BY <2>1 DEF SubscribeLookup
  <2>2. CASE Register(s)
    BY <2>2 DEF Register
  <2>3. CASE Subscribe(s)
    BY <2>3 DEF Subscribe
  <2>4. CASE TakeValue(s)
    BY <2>4 DEF TakeValue
  <2>5. CASE StopWatching(s)
    BY <2>5 DEF StopWatching
  <2>6. CASE UnsubscribeLookup(s)
    BY <2>6 DEF UnsubscribeLookup
  <2>7. CASE Unsubscribe(s)
    BY <2>7 DEF Unsubscribe
  <2>8. CASE CheckActive(s)
    BY <2>8 DEF CheckActive
  <2>9. CASE CloseInactive(s)
    BY <2>9 DEF CloseInactive
  <2>10. CASE Delete(s)
    BY <2>10 DEF Delete
  <2>11. QED BY <1>2, <2>1, <2>2, <2>3, <2>4, <2>5, <2>6, <2>7, <2>8, <2>9,
       <2>10 DEF Subscriber
<1>3. ASSUME NEW q \in Subs, Poller(q)
      PROVE  PubSubsFresh'
  <2>1. CASE Tick(q)
    BY <2>1 DEF Tick
  <2>2. CASE QueryFails(q)
    BY <2>2 DEF QueryFails
  <2>3. CASE NotifySubscribers(q)
    BY <2>3 DEF NotifySubscribers
  <2>4. CASE Publish(q)
    BY <2>4 DEF Publish
  <2>5. CASE Published(q)
    BY <2>5 DEF Published
  <2>6. CASE LockToExit(q)
    BY <2>6 DEF LockToExit
  <2>7. CASE ClosePoller(q)
    BY <2>7 DEF ClosePoller
  <2>8. ASSUME NEW s \in Subs, Send(q, s) PROVE PubSubsFresh'
    BY <2>8 DEF Send
  <2>9. QED BY <1>3, <2>1, <2>2, <2>3, <2>4, <2>5, <2>6, <2>7, <2>8 DEF Poller
<1>4. QED BY <1>1, <1>2, <1>3 DEF Next

\* A subscriber of the registered pubSub finds it when it leaves.
LEMMA OwnersStep ==
  ASSUME TypeOK, InHand, PubSubsFresh, CachedChannelsOpen, OwnersStay, [Next]_vars
  PROVE  OwnersStay'
<1> USE SubsAssumption, CapAssumption DEF TypeOK, InHand, PubSubsFresh, CachedChannelsOpen,
     OwnersStay, cache, pubSubs, subscribers, pollers, Goto, Return, Continue, ClosePubSub
<1>1. CASE UNCHANGED vars
  BY <1>1 DEF vars, cache, pubSubs, subscribers, pollers
<1>2. ASSUME NEW s \in Subs, Subscriber(s)
      PROVE  OwnersStay'
  <2>1. CASE SubscribeLookup(s)
    BY <2>1 DEF SubscribeLookup
  <2>2. CASE Register(s)
    BY <2>2 DEF Register
  <2>3. CASE Subscribe(s)
    BY <2>3 DEF Subscribe
  <2>4. CASE TakeValue(s)
    BY <2>4 DEF TakeValue
  <2>5. CASE StopWatching(s)
    BY <2>5 DEF StopWatching
  <2>6. CASE UnsubscribeLookup(s)
    BY <2>6 DEF UnsubscribeLookup
  <2>7. CASE Unsubscribe(s)
    BY <2>7 DEF Unsubscribe
  <2>8. CASE CheckActive(s)
    BY <2>8 DEF CheckActive
  <2>9. CASE CloseInactive(s)
    BY <2>9 DEF CloseInactive
  <2>10. CASE Delete(s)
    BY <2>10 DEF Delete
  <2>11. QED BY <1>2, <2>1, <2>2, <2>3, <2>4, <2>5, <2>6, <2>7, <2>8, <2>9,
       <2>10 DEF Subscriber
<1>3. ASSUME NEW q \in Subs, Poller(q)
      PROVE  OwnersStay'
  <2>1. CASE Tick(q)
    BY <2>1 DEF Tick
  <2>2. CASE QueryFails(q)
    BY <2>2 DEF QueryFails
  <2>3. CASE NotifySubscribers(q)
    BY <2>3 DEF NotifySubscribers
  <2>4. CASE Publish(q)
    BY <2>4 DEF Publish
  <2>5. CASE Published(q)
    BY <2>5 DEF Published
  <2>6. CASE LockToExit(q)
    BY <2>6 DEF LockToExit
  <2>7. CASE ClosePoller(q)
    BY <2>7 DEF ClosePoller
  <2>8. ASSUME NEW s \in Subs, Send(q, s) PROVE OwnersStay'
    BY <2>8 DEF Send
  <2>9. QED BY <1>3, <2>1, <2>2, <2>3, <2>4, <2>5, <2>6, <2>7, <2>8 DEF Poller
<1>4. QED BY <1>1, <1>2, <1>3 DEF Next

\* The responsibility for the registered pubSub is handed over, never dropped.
LEMMA ResponsibleStep ==
  ASSUME TypeOK, InHand, CachedChannelsOpen, OwnersStay, SomeoneResponsible, [Next]_vars
  PROVE  SomeoneResponsible'
<1> USE SubsAssumption, CapAssumption DEF TypeOK, InHand, CachedChannelsOpen, OwnersStay,
     SomeoneResponsible, Responsible, Active, cache, pubSubs, subscribers, pollers, Goto,
     Return, Continue, ClosePubSub
<1>1. CASE UNCHANGED vars
  BY <1>1 DEF vars, cache, pubSubs, subscribers, pollers
<1>2. ASSUME NEW s \in Subs, Subscriber(s)
      PROVE  SomeoneResponsible'
  <2>1. CASE SubscribeLookup(s)
    BY <2>1 DEF SubscribeLookup
  <2>2. CASE Register(s)
    BY <2>2 DEF Register
  <2>3. CASE Subscribe(s)
    BY <2>3 DEF Subscribe
  <2>4. CASE TakeValue(s)
    BY <2>4 DEF TakeValue
  <2>5. CASE StopWatching(s)
    BY <2>5 DEF StopWatching
  <2>6. CASE UnsubscribeLookup(s)
    BY <2>6 DEF UnsubscribeLookup
  <2>7. CASE Unsubscribe(s)
    BY <2>7 DEF Unsubscribe
  <2>8. CASE CheckActive(s)
    BY <2>8 DEF CheckActive
  <2>9. CASE CloseInactive(s)
    BY <2>9 DEF CloseInactive
  <2>10. CASE Delete(s)
    BY <2>10 DEF Delete
  <2>11. QED BY <1>2, <2>1, <2>2, <2>3, <2>4, <2>5, <2>6, <2>7, <2>8, <2>9,
       <2>10 DEF Subscriber
<1>3. ASSUME NEW q \in Subs, Poller(q)
      PROVE  SomeoneResponsible'
  <2>1. CASE Tick(q)
    BY <2>1 DEF Tick
  <2>2. CASE QueryFails(q)
    BY <2>2 DEF QueryFails
  <2>3. CASE NotifySubscribers(q)
    BY <2>3 DEF NotifySubscribers
  <2>4. CASE Publish(q)
    BY <2>4 DEF Publish
  <2>5. CASE Published(q)
    BY <2>5 DEF Published
  <2>6. CASE LockToExit(q)
    BY <2>6 DEF LockToExit
  <2>7. CASE ClosePoller(q)
    BY <2>7 DEF ClosePoller
  <2>8. ASSUME NEW s \in Subs, Send(q, s) PROVE SomeoneResponsible'
    BY <2>8 DEF Send
  <2>9. QED BY <1>3, <2>1, <2>2, <2>3, <2>4, <2>5, <2>6, <2>7, <2>8 DEF Poller
<1>4. QED BY <1>1, <1>2, <1>3 DEF Next

-----------------------------------------------------------------------------

PubSubInv ==
  /\ TypeOK /\ InHand /\ ChannelsFresh /\ CachedChannelsOpen /\ SendsUnderLock
  /\ AccessHeld /\ PubSubsFresh /\ OwnersStay /\ SomeoneResponsible

\* The invariant holds when there are no subscribers yet.
LEMMA PubSubInit == Init => PubSubInv
BY SubsAssumption, CapAssumption
   DEF Init, PubSubInv, TypeOK, InHand, ChannelsFresh, CachedChannelsOpen, SendsUnderLock,
       AccessHeld, AccessFree, PubSubsFresh, OwnersStay, SomeoneResponsible

\* Every step keeps it.
LEMMA PubSubNext == PubSubInv /\ [Next]_vars => PubSubInv'
BY TypeStep, InHandStep, ChannelsStep, LockStep, AccessStep, PubSubsStep, OwnersStep,
   ResponsibleStep
   DEF PubSubInv

\* So it is an invariant.
LEMMA PubSubInvariant == Spec => []PubSubInv
BY PubSubInit, PubSubNext, PTL DEF Spec

\* Every variable keeps its type; no channel holds more than its buffer.
THEOREM PubSubTypeCorrect == Spec => []TypeOK
BY PubSubInvariant, PTL DEF PubSubInv

\* No pubSub sends to a closed channel or closes one twice, and no channel is removed or
\* closed under a poller that is about to send to it.
THEOREM NothingPanics == Spec => []ChannelsAreSafe
BY PubSubInvariant, PTL DEF PubSubInv, ChannelsAreSafe

\* Whoever waits for a lock waits for a poller that can close, or for one that sends: the
\* locks of the map and of the pubSubs are never in each other's way.
THEOREM LocksDoNotDeadlock == Spec => []OnlySendersBlock
<1>1. ASSUME PubSubInv, NEW s \in Subs, WaitsForLock(s)
      PROVE  \E q \in Subs : poller[q] = "sending" \/ (poller[q] = "closing" /\ CanClose)
  <2>1. CASE \E p : ~LockFree(p)
    BY <2>1 DEF LockFree
  <2>2. CASE ~AccessFree
    <3>1. access \in Subs /\ poller[access] = "closing"
      BY <1>1, <2>2 DEF PubSubInv, AccessHeld
    <3>2. QED BY <2>1, <3>1 DEF CanClose
  <2>3. QED BY <1>1, <2>1, <2>2 DEF WaitsForLock, CanClose
<1>2. PubSubInv => OnlySendersBlock
  BY <1>1 DEF OnlySendersBlock
<1>3. QED BY <1>2, PubSubInvariant, PTL

\* When the last subscriber is gone, so is the registration: the pollers will stop.
THEOREM NothingIsLeft == Spec => []NothingRegistered
<1>1. PubSubInv => NothingRegistered
  BY DEF PubSubInv, TypeOK, OwnersStay, SomeoneResponsible, Responsible, NothingRegistered
<1>2. QED BY <1>1, PubSubInvariant, PTL
=============================================================================
