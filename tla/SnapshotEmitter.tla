----------------------------- MODULE SnapshotEmitter -----------------------------
(***************************************************************************)
(* The emitter of whole snapshots and the event loop on it: one watch of   *)
(* experiments and one of reports for each namespace, each relayed by a    *)
(* goroutine of the typed client, merged by a goroutine per namespace and  *)
(* the goroutine of the emitter; the goroutines that collect errors; and   *)
(* how all of them end when the context is cancelled.                      *)
(*                                                                         *)
(* A list of resources is the number of the change that made it, 0 before  *)
(* the first, so that a later list of a feed has a larger number; what is  *)
(* in it is another matter, and what was in a list may come back.          *)
(***************************************************************************)
EXTENDS Integers, Sequences, FiniteSets

CONSTANTS
  Given,          \* the namespaces the caller wants watched
  AllNamespaces,  \* the namespace ""
  Kinds,          \* experiments and reports
  Contents,       \* what may be in a list
  Empty,          \* nothing
  MaxChanges,     \* bound on the changes to the API
  MaxForced,      \* bound on the snapshots that a caller forces out
  MaxErrors       \* bound on the errors of watches that wait to be taken

ASSUME BoundsAssumption == MaxChanges \in Nat /\ MaxForced \in Nat /\ MaxErrors \in Nat

ASSUME ContentsAssumption == Empty \in Contents

ASSUME FinitenessAssumption == IsFiniteSet(Given) /\ IsFiniteSet(Kinds)

Namespaces == IF Given = {} THEN {AllNamespaces} ELSE Given

\* All namespaces cannot be watched along with one of them.
Mixed == AllNamespaces \in Namespaces /\ Namespaces # {AllNamespaces}

\* A call of Watch on a typed client.
Feeds == Namespaces \X Kinds

VARIABLES
  api,         \* the list of each feed in the API
  contents,    \* what is in each list
  sent,        \* the last list the base client has handed to the relay of the feed
  ctx,         \* the context of the caller
  changes, forced,
  watched,     \* feeds whose watch has been started
  relay,       \* the list the relay of a feed is sending, if any
  closed,      \* feeds whose relay has returned
  forward,     \* the list the goroutine of a namespace is sending, with its feed
  left,        \* namespaces whose goroutine has returned
  emitter,     \* where the goroutine of the emitter is
  lists,       \* the lists merged: the current snapshot
  original,    \* the last snapshot the ticker sent
  snapshots,   \* the snapshot being sent, if any
  aggregating, \* goroutines that wait for an error of a watch
  reporting,   \* goroutines that wait for an error to be taken
  done,        \* the wait group
  errs,        \* the channel of errors
  loop,        \* where the goroutine of the event loop is
  synced,      \* the snapshot it received last
  contexts     \* contexts it made and has not cancelled

external == <<api, contents, sent, ctx, changes, forced>>
clients  == <<relay, closed>>
merging  == <<lists, original, snapshots>>
collecting  == <<aggregating, reporting, done, errs>>
looping  == <<loop, synced, contexts>>
vars     == <<external, watched, clients, forward, left, emitter, merging, collecting, looping>>

Snapshots == [Feeds -> Nat]

NoLists == [f \in Feeds |-> 0]

Unread == -1

\* Snapshots are compared by what is in their lists, less the resource versions.
Hash(snapshot) == [f \in Feeds |-> contents[snapshot[f]]]

TypeOK ==
  /\ api \in Snapshots /\ contents \in [0 .. MaxChanges -> Contents]
  /\ sent \in [Feeds -> Nat \cup {Unread}]
  /\ ctx \in {"alive", "cancelled"}
  /\ changes \in Nat /\ forced \in Nat
  /\ watched \subseteq Feeds
  /\ relay \in [Feeds -> Seq(Nat)] /\ closed \subseteq Feeds
  /\ forward \in [Namespaces -> Seq([feed : Feeds, list : Nat])] /\ left \subseteq Namespaces
  /\ emitter \in {"starting", "refused", "selecting", "sending", "waiting", "returned"}
  /\ lists \in Snapshots /\ original \in Snapshots /\ snapshots \in Seq(Snapshots)
  /\ aggregating \in Nat /\ reporting \in Nat /\ done \in Nat
  /\ errs \in {"open", "closed"}
  /\ loop \in {"starting", "refused", "receiving", "syncing", "returned"}
  /\ synced \in Snapshots /\ contexts \in Nat

Init ==
  /\ api = NoLists /\ contents = [l \in 0 .. MaxChanges |-> Empty]
  /\ sent = [f \in Feeds |-> Unread] /\ ctx = "alive"
  /\ changes = 0 /\ forced = 0
  /\ watched = {}
  /\ relay = [f \in Feeds |-> <<>>] /\ closed = {}
  /\ forward = [n \in Namespaces |-> <<>>] /\ left = {}
  /\ emitter = "starting"
  /\ lists = NoLists /\ original = NoLists /\ snapshots = <<>>
  /\ aggregating = 0 /\ reporting = 0 /\ done = 0 /\ errs = "open"
  /\ loop = "starting" /\ synced = NoLists /\ contexts = 0

-----------------------------------------------------------------------------
(* The API, its client, and the caller.                                    *)

\* What was there before may come back; a change of resource versions alone is left out.
\* What changes after the cancellation is not seen.
Change(f, content) ==
  /\ ctx = "alive"
  /\ content # contents[api[f]]
  /\ changes < MaxChanges
  /\ changes' = changes + 1
  /\ api' = [api EXCEPT ![f] = changes + 1]
  /\ contents' = [contents EXCEPT ![changes + 1] = content]
  /\ UNCHANGED <<sent, ctx, forced, watched, clients, forward, left, emitter,
                 merging, collecting, looping>>

\* The base clients have nothing more to hand over.
Cancel ==
  /\ ctx = "alive"
  /\ ctx' = "cancelled"
  /\ sent' = api
  /\ UNCHANGED <<api, contents, changes, forced, watched, clients, forward, left,
                 emitter, merging, collecting, looping>>

-----------------------------------------------------------------------------
(* Snapshots and Run: the watches are started one after the other.         *)

WatchStarts(f) ==
  /\ emitter = "starting" /\ ~Mixed
  /\ f \in Feeds \ watched
  /\ watched' = watched \cup {f}
  /\ aggregating' = aggregating + 1
  /\ done' = done + 1
  /\ UNCHANGED <<external, clients, forward, left, emitter, merging, reporting, errs, looping>>

\* The namespaces are refused, or a watch cannot be started: those that were go on.
Refused ==
  /\ emitter = "starting"
  /\ Mixed \/ watched # Feeds
  /\ emitter' = "refused" /\ loop' = "refused"
  /\ UNCHANGED <<external, watched, clients, forward, left, merging, collecting, synced, contexts>>

Started ==
  /\ emitter = "starting" /\ ~Mixed /\ watched = Feeds
  /\ emitter' = "selecting" /\ loop' = "receiving"
  /\ UNCHANGED <<external, watched, clients, forward, left, merging, collecting, synced, contexts>>

-----------------------------------------------------------------------------
(* Client.Watch: the relay of a feed.                                      *)

Relaying(f) == f \in watched \ closed /\ relay[f] = <<>>

\* Slip: a list that the goroutine of the namespace does not wait for is dropped.
RelayTakesOrDrops(f) ==
  /\ Relaying(f)
  /\ sent[f] # api[f]
  /\ sent' = [sent EXCEPT ![f] = api[f]]
  /\ relay' = [relay EXCEPT ![f] = IF forward[f[1]] = <<>> THEN <<api[f]>> ELSE <<>>]
  /\ UNCHANGED <<api, contents, ctx, changes, forced, watched, closed, forward, left, emitter,
                  merging, collecting, looping>>

\* The base client refreshes its list until the context is cancelled; a list that it
\* sends again unchanged is left out.
RelayTakes(f) ==
  /\ Relaying(f)
  /\ sent[f] # api[f]
  /\ sent' = [sent EXCEPT ![f] = api[f]]
  /\ relay' = [relay EXCEPT ![f] = <<api[f]>>]
  /\ UNCHANGED <<api, contents, ctx, changes, forced, watched, closed, forward, left, emitter,
                  merging, collecting, looping>>

\* The base client has closed its channel: the relay reads a nil list.
RelayTakesNil(f) ==
  /\ Relaying(f) /\ ctx = "cancelled"
  /\ relay' = [relay EXCEPT ![f] = <<0>>]
  /\ UNCHANGED <<external, watched, closed, forward, left, emitter, merging, collecting, looping>>

RelayReturns(f) ==
  /\ Relaying(f) /\ ctx = "cancelled"
  /\ closed' = closed \cup {f}
  /\ UNCHANGED <<external, watched, relay, forward, left, emitter, merging, collecting, looping>>

-----------------------------------------------------------------------------
(* The goroutine of a namespace, there once both its watches are started.  *)

Forwards(n) == n \notin left /\ \A k \in Kinds : <<n, k>> \in watched

ForwardTakes(n, k) ==
  /\ Forwards(n) /\ forward[n] = <<>>
  /\ relay[<<n, k>>] # <<>>
  /\ forward' = [forward EXCEPT ![n] = <<[feed |-> <<n, k>>, list |-> Head(relay[<<n, k>>])]>>]
  /\ relay' = [relay EXCEPT ![<<n, k>>] = <<>>]
  /\ UNCHANGED <<external, watched, closed, left, emitter, merging, collecting, looping>>

\* The relay has returned and closed its channel: the goroutine reads a nil list.
ForwardTakesNil(n, k) ==
  /\ Forwards(n) /\ forward[n] = <<>>
  /\ <<n, k>> \in closed
  /\ forward' = [forward EXCEPT ![n] = <<[feed |-> <<n, k>>, list |-> 0]>>]
  /\ UNCHANGED <<external, watched, clients, left, emitter, merging, collecting, looping>>

ForwardReturns(n) ==
  /\ Forwards(n) /\ ctx = "cancelled"
  /\ left' = left \cup {n}
  /\ forward' = [forward EXCEPT ![n] = <<>>]
  /\ UNCHANGED <<external, watched, clients, emitter, merging, collecting, looping>>

-----------------------------------------------------------------------------
(* The goroutine of the emitter.                                           *)

\* Slip: the list is kept under the namespace of the last watch started.
MergeAsLast(n) ==
  /\ emitter = "selecting" /\ forward[n] # <<>>
  /\ \E last \in Namespaces :
       lists' = [lists EXCEPT ![<<last, Head(forward[n]).feed[2]>>] = Head(forward[n]).list]
  /\ forward' = [forward EXCEPT ![n] = <<>>]
  /\ UNCHANGED <<external, watched, clients, left, emitter, original, snapshots, collecting, looping>>

Merge(n) ==
  /\ emitter = "selecting" /\ forward[n] # <<>>
  /\ lists' = [lists EXCEPT ![Head(forward[n]).feed] = Head(forward[n]).list]
  /\ forward' = [forward EXCEPT ![n] = <<>>]
  /\ UNCHANGED <<external, watched, clients, left, emitter, original, snapshots, collecting, looping>>

\* Slip: a snapshot that nobody waits for is dropped.
TickOrDrop ==
  /\ emitter = "selecting"
  /\ Hash(original) # Hash(lists)
  /\ original' = lists
  /\ IF loop = "receiving"
     THEN emitter' = "sending" /\ snapshots' = <<lists>>
     ELSE UNCHANGED <<emitter, snapshots>>
  /\ UNCHANGED <<external, watched, clients, forward, left, lists, collecting, looping>>

\* The ticker fires, and the snapshot differs from the last one it sent.
Tick ==
  /\ emitter = "selecting"
  /\ Hash(original) # Hash(lists)
  /\ original' = lists
  /\ emitter' = "sending" /\ snapshots' = <<lists>>
  /\ UNCHANGED <<external, watched, clients, forward, left, lists, collecting, looping>>

\* A forced snapshot is not remembered as the last one.
ForceEmit ==
  /\ emitter = "selecting"
  /\ forced < MaxForced
  /\ forced' = forced + 1
  /\ emitter' = "sending" /\ snapshots' = <<lists>>
  /\ UNCHANGED <<api, contents, sent, ctx, changes, watched, clients, forward, left, lists,
                  original, collecting, looping>>

\* It closes the channel of snapshots, has no more use for its lists, and waits.
EmitterCancelled ==
  /\ emitter = "selecting" /\ ctx = "cancelled"
  /\ emitter' = "waiting"
  /\ lists' = NoLists /\ original' = NoLists
  /\ UNCHANGED <<external, watched, clients, forward, left, snapshots, collecting, looping>>

\* Slip: it does not wait.
CloseErrsAtOnce ==
  /\ emitter = "waiting"
  /\ emitter' = "returned" /\ errs' = "closed"
  /\ UNCHANGED <<external, watched, clients, forward, left, merging, aggregating, reporting,
                 done, looping>>

CloseErrs ==
  /\ emitter = "waiting" /\ done = 0
  /\ emitter' = "returned" /\ errs' = "closed"
  /\ UNCHANGED <<external, watched, clients, forward, left, merging, aggregating, reporting,
                 done, looping>>

-----------------------------------------------------------------------------
(* AggregateErrs, once for each feed.                                      *)

WatchErrs ==
  /\ aggregating > 0
  /\ reporting < MaxErrors
  /\ aggregating' = aggregating - 1 /\ reporting' = reporting + 1
  /\ UNCHANGED <<external, watched, clients, forward, left, emitter, merging, done, errs, looping>>

\* Slip: the wait group is told after every error.
ErrorTakenAndDone ==
  /\ reporting > 0 /\ loop \notin {"starting", "refused"}
  /\ aggregating' = aggregating + 1 /\ reporting' = reporting - 1
  /\ done' = done - 1
  /\ UNCHANGED <<external, watched, clients, forward, left, emitter, merging, errs, looping>>

\* The event loop takes the error.
ErrorTaken ==
  /\ reporting > 0 /\ loop \notin {"starting", "refused"}
  /\ aggregating' = aggregating + 1 /\ reporting' = reporting - 1
  /\ UNCHANGED <<external, watched, clients, forward, left, emitter, merging, done, errs, looping>>

\* The context is cancelled, or the watch has closed its channel of errors.
AggregationEnds ==
  /\ aggregating > 0 /\ ctx = "cancelled"
  /\ aggregating' = aggregating - 1
  /\ done' = done - 1
  /\ UNCHANGED <<external, watched, clients, forward, left, emitter, merging, reporting, errs,
                 looping>>

\* Slip: the wait group is not told.
ReportAbandonedSilently ==
  /\ reporting > 0 /\ ctx = "cancelled"
  /\ reporting' = reporting - 1
  /\ UNCHANGED <<external, watched, clients, forward, left, emitter, merging, aggregating, done,
                 errs, looping>>

ReportAbandoned ==
  /\ reporting > 0 /\ ctx = "cancelled"
  /\ reporting' = reporting - 1
  /\ done' = done - 1
  /\ UNCHANGED <<external, watched, clients, forward, left, emitter, merging, aggregating, errs,
                 looping>>

-----------------------------------------------------------------------------
(* The event loop.                                                         *)

\* The last context is cancelled and a new one is made for the snapshot.
Receive ==
  /\ loop = "receiving" /\ snapshots # <<>>
  /\ loop' = "syncing"
  /\ synced' = Head(snapshots)
  /\ contexts' = 1
  /\ snapshots' = <<>> /\ emitter' = "selecting"
  /\ UNCHANGED <<external, watched, clients, forward, left, lists, original, collecting>>

\* The syncers have run; an error nobody reads is dropped.
Synced ==
  /\ loop = "syncing"
  /\ loop' = "receiving"
  /\ UNCHANGED <<external, watched, clients, forward, left, emitter, merging, collecting, synced,
                 contexts>>

\* The context is cancelled or the channel of snapshots is closed: no snapshot is of use.
LoopReturns ==
  /\ loop = "receiving"
  /\ ctx = "cancelled" \/ emitter \in {"waiting", "returned"}
  /\ loop' = "returned" /\ contexts' = 0
  /\ synced' = NoLists
  /\ UNCHANGED <<external, watched, clients, forward, left, emitter, merging, collecting>>

-----------------------------------------------------------------------------

Starting == (\E f \in Feeds : WatchStarts(f)) \/ Refused \/ Started

Relay == \E f \in Feeds : RelayTakes(f) \/ RelayTakesNil(f)

Forward == \E n \in Namespaces : \E k \in Kinds : ForwardTakes(n, k) \/ ForwardTakesNil(n, k)

Emitter == (\E n \in Namespaces : Merge(n)) \/ Tick \/ CloseErrs

Loop == Receive \/ Synced

\* The branches of a select on a context that is cancelled.
Returns ==
  \/ (\E f \in Feeds : RelayReturns(f)) \/ (\E n \in Namespaces : ForwardReturns(n))
  \/ EmitterCancelled \/ LoopReturns \/ AggregationEnds \/ ReportAbandoned

Next ==
  \/ (\E f \in Feeds : \E content \in Contents : Change(f, content))
  \/ Cancel \/ ForceEmit \/ WatchErrs \/ ErrorTaken
  \/ Starting \/ Relay \/ Forward \/ Emitter \/ Loop \/ Returns

Spec == Init /\ [][Next]_vars

\* The goroutines go on when they can, and a select that is run again and again does not
\* pass over a cancelled context for ever.
Fairness == WF_vars(Starting \/ Relay \/ Forward \/ Emitter \/ Loop) /\ WF_vars(Returns)

FairSpec == Spec /\ Fairness

-----------------------------------------------------------------------------
(* Properties.                                                             *)

\* Nobody is left who may send on the channel of errors once it is closed (done.Wait).
ErrsClosedLast == errs = "closed" => aggregating = 0 /\ reporting = 0

\* A syncer runs with the only context that is open, and no context is left open when
\* the loop has returned.
ContextsEnd == contexts <= 1 /\ (loop = "returned" => contexts = 0)

\* Things end in order: a watch that fails while everything is being cancelled does not
\* panic, and what an earlier Sync started is always cancelled (Snapshots, Run).
EndsInOrder == ErrsClosedLast /\ ContextsEnd

\* As long as the context is alive the event loop is never given an older list of a
\* namespace than before, nor the list of another namespace in its place, though the
\* lists come through three goroutines each (Snapshots, Watch).
SnapshotsGoForward == [][ctx = "alive" => \A f \in Feeds : synced'[f] \in synced[f] .. api[f]]_vars

\* No list is on its way, and the emitter sees no reason to send.
AtRest ==
  /\ ctx = "alive" /\ emitter = "selecting" /\ Hash(original) = Hash(lists)
  /\ sent = api
  /\ \A f \in Feeds : relay[f] = <<>>
  /\ \A n \in Namespaces : forward[n] = <<>>

\* The snapshot the loop has is a forced one, newer than what the emitter remembers.
Overtaken == \E f \in Feeds : original[f] < synced[f]

\* Where the emitter comes to rest the event loop has been given what is in the API: no
\* list is lost between the goroutines, and no snapshot that differs from the last one the
\* ticker sent.  What the code does not promise is left out: when a snapshot has been
\* forced out and the lists then come back to what was sent before it, nothing is sent,
\* and the loop rests with the forced one (Snapshots, Watch).
RestIsSynced == AtRest => Hash(synced) = Hash(api) \/ Overtaken

\* As long as the context is alive and the watches could be started, the loop ends up
\* with what is in the API, whatever comes back and however slow the loop is, but for that
\* same case of a forced snapshot (Snapshots).
SyncedInTheEnd ==
  <>[](ctx = "alive" /\ emitter # "refused" => Hash(synced) = Hash(api) \/ Overtaken)

\* Nothing goes on but what waits to send to a goroutine that has returned already.
Ended ==
  /\ loop \in {"returned", "refused"}
  /\ done = 0
  /\ emitter \in {"returned", "refused"} \/ (emitter = "sending" /\ loop = "returned")
  /\ \A n \in Namespaces : ~Forwards(n)
  /\ \A f \in watched : f \in closed \/ relay[f] # <<>>

\* Once the context is cancelled the loop returns, and every goroutine of the emitter with
\* it, but for the relay of a typed client and the emitter itself, whose sends do not heed
\* the context and may find nobody to receive (Watch, sync).
CancellationEnds == <>[](ctx = "cancelled" => Ended)
=============================================================================
