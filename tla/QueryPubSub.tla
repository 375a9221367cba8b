------------------------------ MODULE QueryPubSub ------------------------------
(***************************************************************************)
(* The cache of Prometheus queries for one query: the subscribers, each a  *)
(* call of pollUntilFailure in a goroutine of its own, the pollers that    *)
(* Subscribe starts, and the two levels of locks between them.  A          *)
(* subscriber gives its name to the channel it is given, and to the pubSub *)
(* and the poller it makes when it finds none registered for the query.    *)
(***************************************************************************)
EXTENDS Naturals

CONSTANTS
  Subs,      \* the subscribers
  None,      \* no pubSub
  Cap,       \* the buffer of a channel, 10 in the code
  MaxValues  \* bound on the queries Prometheus answers

ASSUME SubsAssumption == None \notin Subs
ASSUME CapAssumption == Cap \in Nat /\ MaxValues \in Nat

VARIABLES
  registered,       \* queryPubSubs[query]
  access,           \* the poller that holds the write lock of queryPubSubs for long, if any
  subscriberCache,  \* for each pubSub, the channels it sends to
  closeChannels,    \* for each pubSub, the channels it knows how to close
  buffered,         \* for each channel, the values in its buffer
  closed,           \* the closed channels
  sub,              \* where each subscriber is
  held,             \* the pubSub a subscriber got from the cache or made
  poller,           \* where each poller is
  target,           \* the pubSub a poller got from the cache
  unsent,           \* the channels a poller has yet to send its value to
  answers           \* queries answered so far

cache == <<registered, access>>
pubSubs == <<subscriberCache, closeChannels, closed>>
subscribers == <<sub, held>>
pollers == <<poller, target, unsent>>
vars == <<cache, pubSubs, buffered, subscribers, pollers, answers>>

TypeOK ==
  /\ registered \in Subs \cup {None} /\ access \in Subs \cup {None}
  /\ subscriberCache \in [Subs -> SUBSET Subs] /\ closeChannels \in [Subs -> SUBSET Subs]
  /\ buffered \in [Subs -> 0 .. Cap] /\ closed \subseteq Subs
  /\ sub \in [Subs -> {"lookup", "register", "subscribe", "watching", "leaving",
                       "unsubscribe", "active", "close", "delete", "done"}]
  /\ held \in [Subs -> Subs \cup {None}]
  /\ poller \in [Subs -> {"none", "waiting", "querying", "locking",
                          "sending", "exiting", "closing", "done"}]
  /\ target \in [Subs -> Subs \cup {None}]
  /\ unsent \in [Subs -> SUBSET Subs]
  /\ answers \in 0 .. MaxValues

Init ==
  /\ registered = None /\ access = None
  /\ subscriberCache = [p \in Subs |-> {}] /\ closeChannels = [p \in Subs |-> {}]
  /\ buffered = [s \in Subs |-> 0] /\ closed = {}
  /\ sub = [s \in Subs |-> "lookup"] /\ held = [s \in Subs |-> None]
  /\ poller = [q \in Subs |-> "none"] /\ target = [q \in Subs |-> None]
  /\ unsent = [q \in Subs |-> {}]
  /\ answers = 0

-----------------------------------------------------------------------------
(* The locks and what is done under them.                                  *)

\* Nobody keeps queryPubSubs locked.
AccessFree == access = None

\* The write lock of pubSub p can be had: no poller is in the middle of a publish.
LockFree(p) == \A q \in Subs : ~(poller[q] = "sending" /\ target[q] = p)

Goto(s, place) == sub' = [sub EXCEPT ![s] = place]
Return(s) == Goto(s, "done") /\ held' = [held EXCEPT ![s] = None]
Continue(q, place) == poller' = [poller EXCEPT ![q] = place]

ClosePubSub(p) ==
  /\ closed' = closed \cup subscriberCache[p]
  /\ subscriberCache' = [subscriberCache EXCEPT ![p] = {}]
  /\ closeChannels' = [closeChannels EXCEPT ![p] = {}]

-----------------------------------------------------------------------------
(* Subscribers.                                                            *)

\* Subscribe: a query that is not registered gets a poller first, a pubSub then.
SubscribeLookup(s) ==
  /\ sub[s] = "lookup" /\ AccessFree
  /\ IF registered = None
     THEN Goto(s, "register") /\ held' = [held EXCEPT ![s] = s] /\ Continue(s, "waiting")
     ELSE Goto(s, "subscribe") /\ held' = [held EXCEPT ![s] = registered] /\ UNCHANGED poller
  /\ UNCHANGED <<cache, pubSubs, buffered, target, unsent, answers>>

\* Another pubSub registered since the lookup is replaced.
Register(s) ==
  /\ sub[s] = "register" /\ AccessFree
  /\ registered' = s
  /\ Goto(s, "subscribe")
  /\ UNCHANGED <<access, pubSubs, buffered, held, pollers, answers>>

Subscribe(s) ==
  /\ sub[s] = "subscribe" /\ LockFree(held[s])
  /\ subscriberCache' = [subscriberCache EXCEPT ![held[s]] = @ \cup {s}]
  /\ closeChannels' = [closeChannels EXCEPT ![held[s]] = @ \cup {s}]
  /\ Goto(s, "watching")
  /\ UNCHANGED <<cache, closed, buffered, held, pollers, answers>>

\* Slip: what comes from a channel is a value even when the channel is closed.
TakeAnything(s) ==
  /\ sub[s] = "watching" /\ (buffered[s] > 0 \/ s \in closed)
  /\ buffered' = [buffered EXCEPT ![s] = @ - 1]
  /\ UNCHANGED sub \/ Goto(s, "leaving")
  /\ UNCHANGED <<cache, pubSubs, held, pollers, answers>>

\* A value is taken from the channel; one beyond the threshold ends the watch.
TakeValue(s) ==
  /\ sub[s] = "watching" /\ buffered[s] > 0
  /\ buffered' = [buffered EXCEPT ![s] = @ - 1]
  /\ UNCHANGED sub \/ Goto(s, "leaving")
  /\ UNCHANGED <<cache, pubSubs, held, pollers, answers>>

\* The context is cancelled, or the channel is found closed and empty.
StopWatching(s) ==
  /\ sub[s] = "watching"
  /\ Goto(s, "leaving")
  /\ UNCHANGED <<cache, pubSubs, buffered, held, pollers, answers>>

UnsubscribeLookup(s) ==
  /\ sub[s] = "leaving" /\ AccessFree
  /\ IF registered = None
     THEN Return(s)
     ELSE Goto(s, "unsubscribe") /\ held' = [held EXCEPT ![s] = registered]
  /\ UNCHANGED <<cache, pubSubs, buffered, pollers, answers>>

\* Slip: the channel is removed without the lock.
UnsubscribeUnlocked(s) ==
  /\ sub[s] = "unsubscribe"
  /\ closeChannels' = [closeChannels EXCEPT ![held[s]] = @ \ {s}]
  /\ subscriberCache' = [subscriberCache EXCEPT ![held[s]] = @ \ {s}]
  /\ Goto(s, "active")
  /\ UNCHANGED <<cache, closed, buffered, held, pollers, answers>>

Unsubscribe(s) ==
  /\ sub[s] = "unsubscribe" /\ LockFree(held[s])
  /\ IF s \in closeChannels[held[s]]
     THEN /\ closeChannels' = [closeChannels EXCEPT ![held[s]] = @ \ {s}]
          /\ subscriberCache' = [subscriberCache EXCEPT ![held[s]] = @ \ {s}]
     ELSE UNCHANGED <<closeChannels, subscriberCache>>
  /\ Goto(s, "active")
  /\ UNCHANGED <<cache, closed, buffered, held, pollers, answers>>

Active(p) == subscriberCache[p] # {}

CheckActive(s) ==
  /\ sub[s] = "active"
  /\ IF Active(held[s]) THEN Return(s) ELSE Goto(s, "close") /\ UNCHANGED held
  /\ UNCHANGED <<cache, pubSubs, buffered, pollers, answers>>

CloseInactive(s) ==
  /\ sub[s] = "close" /\ LockFree(held[s])
  /\ ClosePubSub(held[s])
  /\ Goto(s, "delete")
  /\ UNCHANGED <<cache, buffered, held, pollers, answers>>

\* Slip: only the subscriber that registered the pubSub deletes it.
DeleteOwn(s) ==
  /\ sub[s] = "delete" /\ AccessFree
  /\ registered' = IF registered = s THEN None ELSE registered
  /\ Return(s)
  /\ UNCHANGED <<access, pubSubs, buffered, pollers, answers>>

\* Whatever pubSub is registered for the query by now is deleted.
Delete(s) ==
  /\ sub[s] = "delete" /\ AccessFree
  /\ registered' = None
  /\ Return(s)
  /\ UNCHANGED <<access, pubSubs, buffered, pollers, answers>>

-----------------------------------------------------------------------------
(* Pollers.  The root context lives as long as the process.                *)

\* Slip: the poller does not look whether anybody still wants the query.
TickAlways(q) ==
  /\ poller[q] = "waiting" /\ AccessFree
  /\ Continue(q, "querying")
  /\ UNCHANGED <<cache, pubSubs, buffered, subscribers, target, unsent, answers>>

Tick(q) ==
  /\ poller[q] = "waiting" /\ AccessFree
  /\ Continue(q, IF registered = None THEN "exiting" ELSE "querying")
  /\ UNCHANGED <<cache, pubSubs, buffered, subscribers, target, unsent, answers>>

QueryFails(q) ==
  /\ poller[q] = "querying"
  /\ Continue(q, "waiting")
  /\ UNCHANGED <<cache, pubSubs, buffered, subscribers, target, unsent, answers>>

\* An answer goes to the pubSub that is registered when it arrives.
NotifySubscribers(q) ==
  /\ poller[q] = "querying" /\ AccessFree
  /\ answers < MaxValues
  /\ answers' = answers + 1
  /\ IF registered = None
     THEN Continue(q, "waiting") /\ UNCHANGED target
     ELSE Continue(q, "locking") /\ target' = [target EXCEPT ![q] = registered]
  /\ UNCHANGED <<cache, pubSubs, buffered, subscribers, unsent>>

\* publish takes the read lock.
Publish(q) ==
  /\ poller[q] = "locking"
  /\ Continue(q, "sending")
  /\ unsent' = [unsent EXCEPT ![q] = subscriberCache[target[q]]]
  /\ UNCHANGED <<cache, pubSubs, buffered, subscribers, target, answers>>

\* A send waits for room in the channel, with the read lock held.
Send(q, s) ==
  /\ poller[q] = "sending" /\ s \in unsent[q]
  /\ buffered[s] < Cap
  /\ buffered' = [buffered EXCEPT ![s] = @ + 1]
  /\ unsent' = [unsent EXCEPT ![q] = @ \ {s}]
  /\ UNCHANGED <<cache, pubSubs, subscribers, poller, target, answers>>

Published(q) ==
  /\ poller[q] = "sending" /\ unsent[q] = {}
  /\ Continue(q, "waiting")
  /\ target' = [target EXCEPT ![q] = None]
  /\ UNCHANGED <<cache, pubSubs, buffered, subscribers, unsent, answers>>

\* The deferred function locks queryPubSubs, and keeps it locked until it can close.
LockToExit(q) ==
  /\ poller[q] = "exiting" /\ AccessFree
  /\ Continue(q, "closing")
  /\ access' = q
  /\ UNCHANGED <<registered, pubSubs, buffered, subscribers, target, unsent, answers>>

\* Slip: it returns without unlocking when nothing is registered.
CloseAndUnlockIfRegistered(q) ==
  /\ poller[q] = "closing"
  /\ IF registered = None
     THEN UNCHANGED <<pubSubs, access>>
     ELSE LockFree(registered) /\ ClosePubSub(registered) /\ access' = None
  /\ registered' = None
  /\ Continue(q, "done")
  /\ UNCHANGED <<buffered, subscribers, target, unsent, answers>>

ClosePoller(q) ==
  /\ poller[q] = "closing"
  /\ IF registered = None THEN UNCHANGED pubSubs
                          ELSE LockFree(registered) /\ ClosePubSub(registered)
  /\ registered' = None /\ access' = None
  /\ Continue(q, "done")
  /\ UNCHANGED <<buffered, subscribers, target, unsent, answers>>

-----------------------------------------------------------------------------

Subscriber(s) ==
  \/ SubscribeLookup(s) \/ Register(s) \/ Subscribe(s) \/ TakeValue(s) \/ StopWatching(s)
  \/ UnsubscribeLookup(s) \/ Unsubscribe(s) \/ CheckActive(s) \/ CloseInactive(s) \/ Delete(s)

Poller(q) ==
  \/ Tick(q) \/ QueryFails(q) \/ NotifySubscribers(q) \/ Publish(q)
  \/ (\E s \in Subs : Send(q, s)) \/ Published(q) \/ LockToExit(q) \/ ClosePoller(q)

Next == \E s \in Subs : Subscriber(s) \/ Poller(s)

Spec == Init /\ [][Next]_vars

\* Every goroutine that can run is run, its turn at a lock comes, the ticker ticks,
\* and the contexts of all subscribers are cancelled in the end.
Fairness ==
  \A s \in Subs :
    /\ SF_vars(Subscriber(s)) /\ SF_vars(Poller(s))
    /\ WF_vars(StopWatching(s))

FairSpec == Spec /\ Fairness

-----------------------------------------------------------------------------
(* Properties.                                                             *)

\* The channels of a pubSub are open, and no two pubSubs share one; it finds every one of
\* them when it is asked to unsubscribe it.
CachedChannelsOpen ==
  \A p \in Subs :
    /\ subscriberCache[p] \cap closed = {}
    /\ closeChannels[p] = subscriberCache[p]
    /\ \A o \in Subs \ {p} : subscriberCache[p] \cap subscriberCache[o] = {}

\* What a poller has yet to send goes to channels of the pubSub whose lock it holds.
SendsUnderLock ==
  \A q \in Subs : poller[q] = "sending" => unsent[q] \subseteq subscriberCache[target[q]]

\* Neither a send nor a close panics: pubSubs close open channels only, and none is closed
\* or given up while a poller is about to send to it (publish, close, unsubscribe).
ChannelsAreSafe == CachedChannelsOpen /\ SendsUnderLock

\* Once every subscriber has left nothing is registered for the query, however their
\* subscriptions, their departures and the ends of the pollers interleaved (Unsubscribe).
NothingRegistered ==
  (\A s \in Subs : sub[s] = "done") => registered = None

CanClose == registered = None \/ LockFree(registered)

\* The subscriber or the poller of this name waits for a lock.
WaitsForLock(s) ==
  \/ /\ ~AccessFree
     /\ \/ sub[s] \in {"lookup", "register", "leaving", "delete"}
        \/ poller[s] \in {"waiting", "querying", "exiting"}
  \/ sub[s] \in {"subscribe", "unsubscribe", "close"} /\ ~LockFree(held[s])
  \/ poller[s] = "closing" /\ ~CanClose

\* The locks of the two levels never wait for each other: while anybody waits for one, a
\* poller has what it needs to close and to unlock, or one is sending.  So nothing but a
\* full channel can stop the cache for good (publish, beginPolling).
OnlySendersBlock ==
  (\E s \in Subs : WaitsForLock(s)) =>
    \E q \in Subs : poller[q] = "sending" \/ (poller[q] = "closing" /\ CanClose)

AllEnded == \A s \in Subs : sub[s] = "done" /\ poller[s] \in {"none", "done"}

\* The poller q waits for room in a channel that nobody reads any more.
SendsToNobody(q) ==
  poller[q] = "sending" /\ \E s \in unsent[q] : buffered[s] = Cap /\ sub[s] # "watching"

\* All goroutines end: the subscribers whose contexts are cancelled get the locks they
\* need to unsubscribe, and the pollers notice that they are not wanted.
NoGoroutineLeaks == <>[]AllEnded

\* They all end unless one waits to send to a full channel whose reader is leaving: no
\* other order of subscriptions, departures and answers keeps any of them.
OnlyFullChannelsLeak == <>[](AllEnded \/ \E q \in Subs : SendsToNobody(q))

\* Subscribers who are watching the query are notified on every tick: a poller that
\* has an answer finds a pubSub that sends to all of them (notifySubscribers).
WatchersNotified ==
  [][\A q \in Subs : Publish(q) =>
       \A s \in Subs : sub[s] = "watching" => s \in unsent'[q]]_vars
=============================================================================
