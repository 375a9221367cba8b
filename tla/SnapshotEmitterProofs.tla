------------------------- MODULE SnapshotEmitterProofs -------------------------
(***************************************************************************)
(* The emitter of whole snapshots, for any number of namespaces, changes   *)
(* and errors: types, the end of the error channel and of the contexts,    *)
(* the order in which lists come through its goroutines, and that none of  *)
(* them is lost.                                                           *)
(***************************************************************************)
EXTENDS SnapshotEmitter, SequenceTheorems, TLAPS

-----------------------------------------------------------------------------
(* Types.                                                                  *)

\* The wait group counts the goroutines that collect errors; the emitter holds a snapshot
\* out exactly while it is sending, and closes errors when nobody is left to report one; it
\* stops selecting only when the context is cancelled.
CountInv ==
  /\ done = aggregating + reporting
  /\ snapshots # <<>> => emitter = "sending"
  /\ errs = "closed" => done = 0 /\ emitter = "returned"
  /\ emitter \in {"waiting", "returned"} => ctx = "cancelled"

\* The types of what is on its way, and the other types.
WayOK ==
  /\ sent \in [Feeds -> Nat \cup {Unread}]
  /\ relay \in [Feeds -> Seq(Nat)]
  /\ forward \in [Namespaces -> Seq([feed : Feeds, list : Nat])]
  /\ snapshots \in Seq(Snapshots)

RestOK ==
  /\ api \in Snapshots /\ contents \in [0 .. MaxChanges -> Contents]
  /\ ctx \in {"alive", "cancelled"}
  /\ changes \in Nat /\ forced \in Nat
  /\ watched \subseteq Feeds /\ closed \subseteq Feeds /\ left \subseteq Namespaces
  /\ emitter \in {"starting", "refused", "selecting", "sending", "waiting", "returned"}
  /\ lists \in Snapshots /\ original \in Snapshots
  /\ aggregating \in Nat /\ reporting \in Nat /\ done \in Nat
  /\ errs \in {"open", "closed"}
  /\ loop \in {"starting", "refused", "receiving", "syncing", "returned"}
  /\ synced \in Snapshots /\ contexts \in Nat

TypeInv == WayOK /\ RestOK /\ CountInv

\* Together they are the type invariant.
LEMMA Types == TypeOK <=> WayOK /\ RestOK
BY DEF TypeOK, WayOK, RestOK

\* Most steps leave what is on its way alone.
LEMMA WayUnchanged == WayOK /\ UNCHANGED <<sent, relay, forward, snapshots>> => WayOK'
BY DEF WayOK

\* The empty lists are lists.
LEMMA NoListsType == NoLists \in Snapshots
BY DEF NoLists, Snapshots

\* At first nothing is on its way.
LEMMA InitType == Init => TypeInv
<1> SUFFICES ASSUME Init PROVE TypeInv
  OBVIOUS
<1>1. NoLists \in Snapshots
  BY NoListsType
<1>2. /\ relay \in [Feeds -> Seq(Nat)]
      /\ forward \in [Namespaces -> Seq([feed : Feeds, list : Nat])]
      /\ snapshots \in Seq(Snapshots)
  BY EmptySeq DEF Init
<1>3. sent \in [Feeds -> Nat \cup {Unread}]
  BY DEF Init
<1>4. contents \in [0 .. MaxChanges -> Contents]
  BY ContentsAssumption DEF Init
<1>5. WayOK /\ RestOK
  BY <1>1, <1>2, <1>3, <1>4 DEF Init, WayOK, RestOK
<1>6. QED BY <1>5 DEF Init, TypeInv, CountInv

\* A list on its way is a sequence of one.
LEMMA OneIsSeq == ASSUME NEW S, NEW x \in S PROVE <<x>> \in Seq(S)
OBVIOUS

\* The API, the context and the starts keep the types.
LEMMA OutsideType ==
  ASSUME TypeInv, (\E f \in Feeds : \E c \in Contents : Change(f, c)) \/ Cancel \/ Starting PROVE TypeInv'
<1> USE DEF TypeInv, RestOK, CountInv, external, clients, merging, collecting, looping
<1>1. ASSUME NEW f \in Feeds, NEW c \in Contents, Change(f, c) PROVE TypeInv'
  <2>1. api' \in Snapshots
    BY <1>1 DEF Change, Snapshots
  <2>2. contents' \in [0 .. MaxChanges -> Contents]
    BY <1>1 DEF Change
  <2>3. QED BY <1>1, <2>1, <2>2, WayUnchanged DEF Change
<1>2. CASE Cancel
  <2>1. sent' \in [Feeds -> Nat \cup {Unread}]
    BY <1>2 DEF Cancel, Snapshots
  <2>2. WayOK'
    BY <1>2, <2>1 DEF Cancel, WayOK
  <2>3. QED BY <1>2, <2>2 DEF Cancel
<1>3. ASSUME NEW f \in Feeds, WatchStarts(f) PROVE TypeInv'
  BY <1>3, WayUnchanged DEF WatchStarts
<1>4. CASE Refused \/ Started
  BY <1>4, WayUnchanged DEF Refused, Started
<1>5. QED BY <1>1, <1>2, <1>3, <1>4 DEF Starting

\* So do the relays and the goroutines of the namespaces.
LEMMA ForwardType ==
  ASSUME TypeInv,
         \/ Relay \/ Forward
         \/ \E f \in Feeds : RelayReturns(f)
         \/ \E n \in Namespaces : ForwardReturns(n)
  PROVE  TypeInv'
<1>0. /\ api \in Snapshots /\ sent \in [Feeds -> Nat \cup {Unread}]
      /\ relay \in [Feeds -> Seq(Nat)]
      /\ forward \in [Namespaces -> Seq([feed : Feeds, list : Nat])]
      /\ snapshots \in Seq(Snapshots)
  BY DEF TypeInv, WayOK, RestOK
<1>1. RestOK' /\ CountInv' /\ UNCHANGED snapshots
  <2> DEFINE rest == <<api, contents, ctx, changes, forced, watched, emitter, lists, original, snapshots,
                       aggregating, reporting, done, errs, loop, synced, contexts>>
  <2> USE DEF external, clients, merging, collecting, looping
  <2>1. ASSUME NEW f \in Feeds, RelayTakes(f) \/ RelayTakesNil(f) \/ RelayReturns(f)
        PROVE  UNCHANGED <<rest, left>> /\ closed' \subseteq closed \cup {f}
    BY <2>1 DEF RelayTakes, RelayTakesNil, RelayReturns
  <2>2. ASSUME NEW n \in Namespaces, NEW k \in Kinds, ForwardTakes(n, k) \/ ForwardTakesNil(n, k)
        PROVE  UNCHANGED <<rest, left, closed>>
    BY <2>2 DEF ForwardTakes, ForwardTakesNil
  <2>3. ASSUME NEW n \in Namespaces, ForwardReturns(n)
        PROVE  UNCHANGED <<rest, closed>> /\ left' \subseteq left \cup {n}
    BY <2>3 DEF ForwardReturns
  <2>4. UNCHANGED rest /\ closed' \subseteq closed \cup Feeds /\ left' \subseteq left \cup Namespaces
    BY <2>1, <2>2, <2>3 DEF Relay, Forward
  <2>5. QED BY <2>4 DEF TypeInv, RestOK, CountInv
<1>2. ASSUME NEW f \in Feeds, RelayTakes(f) PROVE WayOK'
  <2>1. api[f] \in Nat /\ <<api[f]>> \in Seq(Nat)
    BY <1>0, OneIsSeq DEF Snapshots
  <2>2. sent' \in [Feeds -> Nat \cup {Unread}] /\ relay' \in [Feeds -> Seq(Nat)]
    BY <1>0, <1>2, <2>1 DEF RelayTakes
  <2>3. QED BY <1>0, <1>1, <1>2, <2>2 DEF RelayTakes, WayOK
<1>3. ASSUME NEW f \in Feeds, RelayTakesNil(f) PROVE WayOK'
  <2>1. <<0>> \in Seq(Nat)
    BY OneIsSeq
  <2>2. relay' \in [Feeds -> Seq(Nat)]
    BY <1>0, <1>3, <2>1 DEF RelayTakesNil
  <2>3. QED BY <1>0, <1>1, <1>3, <2>2 DEF RelayTakesNil, WayOK, external
<1>4. ASSUME NEW n \in Namespaces, NEW r \in [feed : Feeds, list : Nat],
             forward' = [forward EXCEPT ![n] = <<r>>]
      PROVE  forward' \in [Namespaces -> Seq([feed : Feeds, list : Nat])]
  <2>1. <<r>> \in Seq([feed : Feeds, list : Nat])
    BY OneIsSeq
  <2>2. QED BY <1>0, <1>4, <2>1
<1>5. ASSUME NEW n \in Namespaces, NEW k \in Kinds, ForwardTakes(n, k) PROVE WayOK'
  <2>1. <<n, k>> \in Feeds /\ relay[<<n, k>>] \in Seq(Nat) /\ relay[<<n, k>>] # <<>>
    BY <1>0, <1>5 DEF ForwardTakes, Feeds
  <2>2. Head(relay[<<n, k>>]) \in Nat /\ <<>> \in Seq(Nat)
    BY <2>1, HeadTailProperties, EmptySeq
  <2>3. relay' \in [Feeds -> Seq(Nat)]
    BY <1>0, <1>5, <2>2 DEF ForwardTakes
  <2>4. forward' \in [Namespaces -> Seq([feed : Feeds, list : Nat])]
    BY <1>4, <1>5, <2>1, <2>2 DEF ForwardTakes
  <2>5. QED BY <1>0, <1>1, <1>5, <2>3, <2>4 DEF ForwardTakes, WayOK, external
<1>6. ASSUME NEW n \in Namespaces, NEW k \in Kinds, ForwardTakesNil(n, k) PROVE WayOK'
  <2>1. forward' \in [Namespaces -> Seq([feed : Feeds, list : Nat])]
    BY <1>4, <1>6 DEF ForwardTakesNil, Feeds
  <2>2. QED BY <1>0, <1>1, <1>6, <2>1 DEF ForwardTakesNil, WayOK, external, clients
<1>7. ASSUME NEW f \in Feeds, RelayReturns(f) PROVE WayOK'
  BY <1>1, <1>7, WayUnchanged DEF RelayReturns, TypeInv, external
<1>8. ASSUME NEW n \in Namespaces, ForwardReturns(n) PROVE WayOK'
  <2>1. forward' \in [Namespaces -> Seq([feed : Feeds, list : Nat])]
    BY <1>0, <1>8, EmptySeq DEF ForwardReturns
  <2>2. QED BY <1>0, <1>1, <1>8, <2>1 DEF ForwardReturns, WayOK, external, clients
<1>9. QED BY <1>1, <1>2, <1>3, <1>5, <1>6, <1>7, <1>8 DEF Relay, Forward, TypeInv

\* What a goroutine of a namespace holds is a list of a feed.
LEMMA HeldType ==
  ASSUME WayOK, NEW n \in Namespaces, forward[n] # <<>>
  PROVE  Head(forward[n]).feed \in Feeds /\ Head(forward[n]).list \in Nat
<1>1. Head(forward[n]) \in [feed : Feeds, list : Nat]
  BY HeadTailProperties DEF WayOK
<1>2. QED BY <1>1

\* So do the emitter, the collectors of errors and the event loop.
LEMMA EmitterType ==
  ASSUME TypeInv,
         \/ Emitter \/ ForceEmit \/ EmitterCancelled \/ Loop \/ LoopReturns
         \/ WatchErrs \/ ErrorTaken \/ AggregationEnds \/ ReportAbandoned
  PROVE  TypeInv'
<1> USE DEF TypeInv, RestOK, CountInv, external, clients, merging, collecting, looping
<1>1. ASSUME NEW n \in Namespaces, Merge(n) PROVE TypeInv'
  <2>1. Head(forward[n]).feed \in Feeds /\ Head(forward[n]).list \in Nat
    BY <1>1, HeldType DEF Merge
  <2>2. lists' \in Snapshots
    BY <1>1, <2>1 DEF Merge, Snapshots
  <2>3. WayOK'
    BY <1>1, EmptySeq DEF Merge, WayOK
  <2>4. QED BY <1>1, <2>2, <2>3 DEF Merge
<1>2. CASE Tick \/ ForceEmit
  <2>1. snapshots' = <<lists>> /\ UNCHANGED <<sent, relay, forward>>
    BY <1>2 DEF Tick, ForceEmit
  <2>2. WayOK'
    BY <2>1, OneIsSeq DEF WayOK
  <2>3. QED BY <1>2, <2>2 DEF Tick, ForceEmit
<1>3. CASE EmitterCancelled \/ CloseErrs
  BY <1>3, WayUnchanged, NoListsType DEF EmitterCancelled, CloseErrs
<1>4. CASE Receive
  <2>1. Head(snapshots) \in Snapshots
    BY <1>4, HeadTailProperties DEF Receive, WayOK
  <2>2. WayOK'
    BY <1>4, EmptySeq DEF Receive, WayOK
  <2>3. QED BY <1>4, <2>1, <2>2 DEF Receive
<1>5. CASE Synced \/ LoopReturns
  BY <1>5, WayUnchanged, NoListsType DEF Synced, LoopReturns
<1>6. CASE WatchErrs \/ ErrorTaken \/ AggregationEnds \/ ReportAbandoned
  BY <1>6, WayUnchanged DEF WatchErrs, ErrorTaken, AggregationEnds, ReportAbandoned
<1>7. QED BY <1>1, <1>2, <1>3, <1>4, <1>5, <1>6 DEF Emitter, Loop

\* Every step keeps the types.
LEMMA NextType == TypeInv /\ [Next]_vars => TypeInv'
<1> SUFFICES ASSUME TypeInv, [Next]_vars PROVE TypeInv'
  OBVIOUS
<1>1. CASE UNCHANGED vars
  BY <1>1, WayUnchanged DEF vars, TypeInv, RestOK, CountInv, external, clients, merging,
                            collecting, looping
<1>2. CASE Next
  BY <1>2, OutsideType, ForwardType, EmitterType DEF Next, Returns
<1>3. QED BY <1>1, <1>2

\* Every variable keeps its type: the wait group of the emitter never goes below zero,
\* which would panic, whatever watches fail and whenever the context is cancelled.
THEOREM EmitterTypeCorrect == Spec => []TypeOK
<1>1. TypeInv => TypeOK
  BY Types DEF TypeInv
<1>2. QED BY <1>1, InitType, NextType, PTL DEF Spec

\* The channel of errors is closed when nobody is left to send on it.
LEMMA ErrsAreClosedLast == Spec => []ErrsClosedLast
<1>1. TypeInv => ErrsClosedLast
  BY DEF TypeInv, RestOK, CountInv, ErrsClosedLast
<1>2. QED BY <1>1, InitType, NextType, PTL DEF Spec

\* The loop leaves one context open at most, and none when it has returned.
LEMMA ContextsAreCancelled == Spec => []ContextsEnd
<1> DEFINE Inv == ContextsEnd /\ contexts \in Nat
<1>1. Init => Inv
  BY DEF Init, ContextsEnd
<1>2. Inv /\ [Next]_vars => Inv'
  <2> SUFFICES ASSUME Inv, [Next]_vars PROVE Inv'
    OBVIOUS
  <2> USE DEF ContextsEnd
  <2>1. CASE Receive \/ LoopReturns \/ Synced \/ Refused \/ Started
    BY <2>1 DEF Receive, LoopReturns, Synced, Refused, Started
  <2>2. CASE \/ \E f \in Feeds : \E c \in Contents : Change(f, c)
             \/ \E f \in Feeds : WatchStarts(f) \/ RelayReturns(f)
             \/ Cancel \/ ForceEmit \/ WatchErrs \/ ErrorTaken \/ Relay \/ Forward \/ Emitter
             \/ \E n \in Namespaces : ForwardReturns(n)
             \/ EmitterCancelled \/ AggregationEnds \/ ReportAbandoned \/ UNCHANGED vars
    <3>1. UNCHANGED <<loop, contexts>>
      BY <2>2 DEF Change, Cancel, ForceEmit, WatchErrs, ErrorTaken, WatchStarts, Relay, RelayTakes,
         RelayTakesNil, Forward, ForwardTakes, ForwardTakesNil, Emitter, Merge, Tick, CloseErrs,
         RelayReturns, ForwardReturns, EmitterCancelled, AggregationEnds, ReportAbandoned, vars, looping
    <3>2. QED BY <3>1
  <2>3. QED BY <2>1, <2>2 DEF Next, Starting, Loop, Returns
<1>3. QED BY <1>1, <1>2, PTL DEF Spec

\* Nobody sends on the channel of errors once it is closed, and no context is left open.
THEOREM EndsAreInOrder == Spec => []EndsInOrder
<1>1. ErrsClosedLast /\ ContextsEnd => EndsInOrder
  BY DEF EndsInOrder
<1>2. QED BY <1>1, ErrsAreClosedLast, ContextsAreCancelled, PTL

-----------------------------------------------------------------------------
(* The order of lists.                                                     *)

\* The goroutine of the namespace of f holds a list of f.
Holds(f) == forward[f[1]] # <<>> /\ Head(forward[f[1]]).feed = f

\* The lists of a feed are the newer the closer to the API they are.
Ordered(f) ==
  /\ api[f] <= changes
  /\ synced[f] <= lists[f] /\ lists[f] <= api[f]
  /\ Holds(f) => lists[f] <= Head(forward[f[1]]).list /\ Head(forward[f[1]]).list <= api[f]
  /\ relay[f] # <<>> => /\ lists[f] <= Head(relay[f]) /\ Head(relay[f]) <= api[f]
                        /\ Holds(f) => Head(forward[f[1]]).list <= Head(relay[f])

\* As long as the context is alive no channel is closed, so that every list is a real one;
\* a goroutine holds lists of its own namespace, and what is sent is what was merged.
OrderInv ==
  /\ TypeInv
  /\ ctx = "alive" =>
       /\ closed = {}
       /\ snapshots # <<>> => Head(snapshots) = lists
       /\ \A n \in Namespaces : forward[n] # <<>> => Head(forward[n]).feed[1] = n
       /\ \A f \in Feeds : Ordered(f)

\* The numbers there are.
LEMMA Numbers ==
  ASSUME TypeInv, NEW f \in Feeds
  PROVE  /\ f[1] \in Namespaces
         /\ api[f] \in Nat /\ lists[f] \in Nat /\ synced[f] \in Nat /\ changes \in Nat
         /\ relay[f] # <<>> => Head(relay[f]) \in Nat
         /\ forward[f[1]] # <<>> => Head(forward[f[1]]).list \in Nat
<1>1. f[1] \in Namespaces
  BY DEF Feeds
<1>2. api[f] \in Nat /\ lists[f] \in Nat /\ synced[f] \in Nat /\ changes \in Nat
  BY DEF TypeInv, RestOK, Snapshots
<1>3. relay[f] # <<>> => Head(relay[f]) \in Nat
  BY HeadTailProperties DEF TypeInv, WayOK
<1>4. QED BY <1>1, <1>2, <1>3, HeldType DEF TypeInv

\* Lists stay in order when the API changes.
LEMMA ChangeOrdered == OrderInv /\ (\E f \in Feeds : \E c \in Contents : Change(f, c)) => OrderInv'
<1> SUFFICES ASSUME OrderInv, NEW g \in Feeds, NEW c \in Contents, Change(g, c) PROVE OrderInv'
  OBVIOUS
<1>1. /\ TypeInv' /\ ctx = "alive" /\ ctx' = "alive"
      /\ UNCHANGED <<closed, snapshots, lists, forward, relay, synced>>
      /\ api' = [api EXCEPT ![g] = changes + 1] /\ changes' = changes + 1
      /\ api \in [Feeds -> Nat]
  BY OutsideType DEF OrderInv, Change, clients, merging, looping, TypeInv, RestOK, Snapshots
<1>2. ASSUME NEW f \in Feeds PROVE Ordered(f)'
  <2>1. /\ api[f] \in Nat /\ lists[f] \in Nat /\ synced[f] \in Nat /\ changes \in Nat
        /\ relay[f] # <<>> => Head(relay[f]) \in Nat
        /\ forward[f[1]] # <<>> => Head(forward[f[1]]).list \in Nat
    BY Numbers DEF OrderInv
  <2>2. Ordered(f)
    BY <1>1 DEF OrderInv
  <2>3. api[f] <= api'[f] /\ api'[f] <= changes' /\ api'[f] \in Nat
    BY <1>1, <2>1, <2>2 DEF Ordered
  <2>4. QED BY <1>1, <2>1, <2>2, <2>3 DEF Ordered, Holds
<1>3. QED BY <1>1, <1>2 DEF OrderInv

\* And when a relay takes one.
LEMMA RelayOrdered == OrderInv /\ ctx = "alive" /\ (\E f \in Feeds : RelayTakes(f)) => OrderInv'
<1> SUFFICES ASSUME OrderInv, ctx = "alive", NEW g \in Feeds, RelayTakes(g) PROVE OrderInv'
  OBVIOUS
<1>1. /\ TypeInv' /\ ctx' = "alive"
      /\ UNCHANGED <<api, changes, closed, snapshots, lists, forward, synced>>
      /\ relay' = [relay EXCEPT ![g] = <<api[g]>>] /\ relay \in [Feeds -> Seq(Nat)]
  BY ForwardType DEF OrderInv, RelayTakes, clients, merging, looping, TypeInv, WayOK, Relay
<1>2. ASSUME NEW f \in Feeds PROVE Ordered(f)'
  <2>1. Ordered(f) /\ relay'[f] = IF f = g THEN <<api[f]>> ELSE relay[f]
    BY <1>1 DEF OrderInv
  <2>2. api[f] \in Nat /\ lists[f] \in Nat
    BY Numbers DEF OrderInv
  <2>3. CASE f = g
    <3>1. relay'[f] # <<>> /\ Head(relay'[f]) = api[f]
      BY <2>1, <2>3
    <3>2. QED BY <1>1, <2>1, <2>2, <3>1 DEF Ordered, Holds
  <2>4. CASE f # g
    BY <1>1, <2>1, <2>4 DEF Ordered, Holds
  <2>5. QED BY <2>3, <2>4
<1>3. QED BY <1>1, <1>2 DEF OrderInv

\* And when the goroutine of a namespace does.
LEMMA ForwardOrdered ==
  ASSUME OrderInv, ctx = "alive", NEW n \in Namespaces, NEW k \in Kinds, ForwardTakes(n, k)
  PROVE  OrderInv'
<1> DEFINE g == <<n, k>>
<1> DEFINE r == [feed |-> g, list |-> Head(relay[g])]
<1>1. /\ TypeInv' /\ ctx' = "alive" /\ g \in Feeds /\ relay[g] # <<>>
      /\ UNCHANGED <<api, changes, closed, snapshots, lists, synced>>
      /\ relay \in [Feeds -> Seq(Nat)] /\ DOMAIN forward = Namespaces
  BY ForwardType DEF OrderInv, ForwardTakes, external, merging, looping, TypeInv, WayOK, Feeds, Forward
<1>2. relay' = [relay EXCEPT ![g] = <<>>] /\ forward' = [forward EXCEPT ![n] = <<r>>]
  BY DEF ForwardTakes
<1>3. r.feed = g /\ r.list = Head(relay[g]) /\ g[1] = n
  OBVIOUS
<1> HIDE DEF r
<1>4. \A f \in Feeds : /\ relay'[f] = IF f = g THEN <<>> ELSE relay[f]
                       /\ forward'[f[1]] = IF f[1] = n THEN <<r>> ELSE forward[f[1]]
  BY <1>1, <1>2 DEF Feeds
<1>5. Head(<<r>>) = r /\ <<r>> # <<>>
  OBVIOUS
<1>6. ASSUME NEW f \in Feeds PROVE Ordered(f)'
  <2>1. Ordered(f) /\ Ordered(g)
    BY <1>1 DEF OrderInv
  <2>2. /\ relay'[f] = IF f = g THEN <<>> ELSE relay[f]
        /\ forward'[f[1]] = IF f[1] = n THEN <<r>> ELSE forward[f[1]]
    BY <1>4
  <2>3. CASE f = g
    BY <1>1, <1>3, <1>5, <2>1, <2>2, <2>3 DEF Ordered, Holds
  <2>4. CASE f # g
    <3>1. Holds(f)' => Holds(f) /\ forward'[f[1]] = forward[f[1]]
      BY <1>3, <1>5, <2>2, <2>4 DEF Holds
    <3>2. QED BY <1>1, <2>1, <2>2, <2>4, <3>1 DEF Ordered
  <2>5. QED BY <2>3, <2>4
<1>7. ASSUME NEW j \in Namespaces, forward'[j] # <<>> PROVE Head(forward'[j]).feed[1] = j
  <2>1. forward'[j] = IF j = n THEN <<r>> ELSE forward[j]
    BY <1>1, <1>2
  <2>2. QED BY <1>1, <1>3, <1>5, <1>7, <2>1 DEF OrderInv
<1>8. QED BY <1>1, <1>6, <1>7 DEF OrderInv

\* And when the emitter merges one.
LEMMA MergeOrdered ==
  ASSUME OrderInv, ctx = "alive", NEW n \in Namespaces, Merge(n)
  PROVE  OrderInv'
<1> DEFINE g == Head(forward[n]).feed
<1>1. /\ TypeInv' /\ ctx' = "alive" /\ g \in Feeds /\ g[1] = n /\ forward[n] # <<>>
      /\ UNCHANGED <<api, changes, closed, snapshots, relay, synced>> /\ snapshots = <<>>
      /\ lists' = [lists EXCEPT ![g] = Head(forward[n]).list] /\ lists \in [Feeds -> Nat]
      /\ forward' = [forward EXCEPT ![n] = <<>>] /\ DOMAIN forward = Namespaces
  BY EmitterType, HeldType
     DEF OrderInv, Merge, external, clients, looping, TypeInv, WayOK, RestOK, CountInv, Emitter, Snapshots
<1> HIDE DEF g
<1>2. ASSUME NEW f \in Feeds PROVE Ordered(f)'
  <2>1. Ordered(f) /\ f[1] \in Namespaces /\ synced[f] \in Nat /\ lists[f] \in Nat
        /\ (forward[f[1]] # <<>> => Head(forward[f[1]]).list \in Nat)
    BY <1>1, Numbers DEF OrderInv
  <2>2. /\ lists'[f] = IF f = g THEN Head(forward[n]).list ELSE lists[f]
        /\ forward'[f[1]] = IF f[1] = n THEN <<>> ELSE forward[f[1]]
    BY <1>1, <2>1
  <2>3. CASE f = g
    <3>1. Holds(f) /\ ~Holds(f)'
      BY <1>1, <2>2, <2>3 DEF Holds, g
    <3>2. QED BY <1>1, <2>1, <2>2, <2>3, <3>1 DEF Ordered
  <2>4. CASE f # g
    <3>1. Holds(f)' => Holds(f) /\ forward'[f[1]] = forward[f[1]]
      BY <2>2 DEF Holds
    <3>2. QED BY <1>1, <2>1, <2>2, <2>4, <3>1 DEF Ordered
  <2>5. QED BY <2>3, <2>4
<1>3. \A j \in Namespaces : forward'[j] # <<>> => forward'[j] = forward[j]
  BY <1>1
<1>4. QED BY <1>1, <1>2, <1>3 DEF OrderInv

\* And when a snapshot is sent and received.
LEMMA SendOrdered == OrderInv /\ ctx = "alive" /\ (Tick \/ ForceEmit \/ Receive) => OrderInv'
<1> SUFFICES ASSUME OrderInv, ctx = "alive", Tick \/ ForceEmit \/ Receive PROVE OrderInv'
  OBVIOUS
<1>1. /\ TypeInv' /\ ctx' = "alive"
      /\ UNCHANGED <<api, changes, closed, lists, forward, relay>>
  BY EmitterType DEF OrderInv, Tick, ForceEmit, Receive, Emitter, Loop, external, clients
<1>2. snapshots' # <<>> => Head(snapshots') = lists
  BY DEF Tick, ForceEmit, Receive
<1>3. synced' \in {synced, lists}
  BY DEF OrderInv, Tick, ForceEmit, Receive, looping
<1>4. ASSUME NEW f \in Feeds PROVE Ordered(f)'
  <2>1. Ordered(f) /\ synced'[f] <= lists[f] /\ Holds(f)' = Holds(f)
    BY <1>1, <1>3, Numbers DEF OrderInv, Ordered, Holds
  <2>2. QED BY <1>1, <2>1 DEF Ordered
<1>5. QED BY <1>1, <1>2, <1>4 DEF OrderInv

\* As long as the context is alive no select takes the branch that returns.
LEMMA NoReturnsAlive == TypeInv /\ ctx = "alive" => ~Returns
BY DEF TypeInv, CountInv, Returns, RelayReturns, ForwardReturns, EmitterCancelled, LoopReturns,
       AggregationEnds, ReportAbandoned

\* Every other step leaves the lists alone, as long as the context is alive after it.
LEMMA OthersOrdered ==
  ASSUME OrderInv, ctx' = "alive", TypeInv',
         \/ Starting \/ WatchErrs \/ ErrorTaken \/ CloseErrs \/ Synced \/ Returns
         \/ UNCHANGED vars
  PROVE  OrderInv'
<1>1. ctx = "alive"
  BY DEF Starting, WatchStarts, Refused, Started, WatchErrs, ErrorTaken, CloseErrs, Synced, Returns,
     RelayReturns, ForwardReturns, EmitterCancelled, LoopReturns, AggregationEnds, ReportAbandoned,
     external, vars
<1>2. ~Returns
  BY <1>1, NoReturnsAlive DEF OrderInv
<1>3. UNCHANGED <<api, changes, snapshots, lists, synced, closed, forward, relay>>
  BY <1>2 DEF Starting, WatchStarts, Refused, Started, WatchErrs, ErrorTaken, CloseErrs, Synced,
     external, clients, merging, looping, vars
<1>4. \A f \in Feeds : Ordered(f) => Ordered(f)'
  BY <1>3 DEF Ordered, Holds
<1>5. QED BY <1>1, <1>3, <1>4 DEF OrderInv

\* Every step keeps the order.
LEMMA OrderNext == OrderInv /\ [Next]_vars => OrderInv'
<1> SUFFICES ASSUME OrderInv, [Next]_vars, ctx' = "alive" PROVE OrderInv'
  BY NextType DEF OrderInv
<1>1. TypeInv'
  BY NextType DEF OrderInv
<1>2. CASE (\E f \in Feeds : \E c \in Contents : Change(f, c)) \/ Cancel
  BY <1>2, ChangeOrdered DEF Cancel
<1>3. CASE Relay \/ Forward \/ ForceEmit \/ (\E n \in Namespaces : Merge(n)) \/ Tick \/ Receive
  <2>1. ctx = "alive"
    BY <1>3 DEF Relay, RelayTakes, RelayTakesNil, Forward, ForwardTakes, ForwardTakesNil, ForceEmit,
                Merge, Tick, Receive, external
  <2>2. CASE Relay
    BY <2>1, <2>2, RelayOrdered DEF Relay, RelayTakesNil
  <2>3. CASE Forward
    BY <2>1, <2>3, ForwardOrdered DEF Forward, ForwardTakesNil, OrderInv
  <2>4. QED BY <1>3, <2>1, <2>2, <2>3, MergeOrdered, SendOrdered
<1>4. CASE \/ Starting \/ WatchErrs \/ ErrorTaken \/ CloseErrs \/ Synced \/ Returns
           \/ UNCHANGED vars
  BY <1>1, <1>4, OthersOrdered
<1>5. QED BY <1>2, <1>3, <1>4 DEF Next, Emitter, Loop

\* As long as the context is alive the event loop is never given an older list of a
\* namespace than before, nor one that the API never had.
THEOREM SnapshotsAreNewer == Spec => SnapshotsGoForward
<1>1. Init => OrderInv
  <2> SUFFICES ASSUME Init PROVE OrderInv
    OBVIOUS
  <2>1. \A f \in Feeds : Ordered(f)
    BY DEF Init, NoLists, Ordered, Holds, Feeds
  <2>2. QED BY <2>1, InitType DEF Init, OrderInv
<1>2. OrderInv /\ [Next]_vars =>
        [ctx = "alive" => \A f \in Feeds : synced'[f] \in synced[f] .. api[f]]_vars
  <2> SUFFICES ASSUME OrderInv, Next, ctx = "alive", NEW f \in Feeds
               PROVE  synced'[f] \in synced[f] .. api[f]
    OBVIOUS
  <2>1. /\ synced[f] \in Nat /\ lists[f] \in Nat /\ api[f] \in Nat
        /\ synced[f] <= lists[f] /\ lists[f] <= api[f]
    BY Numbers DEF OrderInv, Ordered
  <2>2. CASE Receive
    <3>1. synced' = lists
      BY <2>2 DEF Receive, OrderInv
    <3>2. QED BY <2>1, <3>1
  <2>3. CASE ~Receive
    <3>0. ~Returns
      BY NoReturnsAlive DEF OrderInv
    <3>1. UNCHANGED synced
      BY <2>3, <3>0 DEF Next, Change, Cancel, ForceEmit, WatchErrs, ErrorTaken, Starting, WatchStarts, Refused,
         Started, Relay, RelayTakes, RelayTakesNil, Forward, ForwardTakes, ForwardTakesNil, Emitter, Merge,
         Tick, CloseErrs, Loop, Synced, looping
    <3>2. QED BY <2>1, <3>1
  <2>4. QED BY <2>2, <2>3
<1>3. QED BY <1>1, <1>2, OrderNext, PTL DEF Spec, SnapshotsGoForward

-----------------------------------------------------------------------------
(* No list is lost.                                                        *)

\* The last list of the feed f that its relay took.
Taken(f) == IF sent[f] = Unread THEN 0 ELSE sent[f]

\* The last list taken is the last one on its way, or has been merged; what was sent last
\* is not newer than what the loop has, unless a snapshot waits for it.
OnItsWay(f) ==
  /\ relay[f] # <<>> => Head(relay[f]) = Taken(f)
  /\ relay[f] = <<>> /\ Holds(f) => Head(forward[f[1]]).list = Taken(f)
  /\ relay[f] = <<>> /\ ~Holds(f) => lists[f] = Taken(f)
  /\ original[f] <= lists[f]
  /\ snapshots = <<>> => original[f] <= synced[f]

WayInv == OrderInv /\ (ctx = "alive" => \A f \in Feeds : OnItsWay(f))

\* The steps of the goroutines before the emitter hand a list on.
LEMMA ListsHandedOn ==
  ASSUME WayInv, OrderInv', ctx = "alive", ctx' = "alive", NEW f \in Feeds,
         Relay \/ Forward \/ \E n \in Namespaces : Merge(n)
  PROVE  OnItsWay(f)'
<1>0. /\ OnItsWay(f) /\ Ordered(f) /\ Ordered(f)' /\ TypeInv /\ f[1] \in Namespaces
      /\ lists[f] \in Nat /\ lists'[f] \in Nat /\ original[f] \in Nat /\ synced[f] \in Nat
      /\ forward[f[1]] # <<>> => Head(forward[f[1]]).list \in Nat
  BY Numbers DEF WayInv, OrderInv, TypeInv, RestOK, Snapshots
<1>1. /\ relay \in [Feeds -> Seq(Nat)] /\ sent \in [Feeds -> Nat \cup {Unread}]
      /\ DOMAIN forward = Namespaces /\ lists \in [Feeds -> Nat]
  BY <1>0 DEF TypeInv, WayOK, RestOK, Snapshots
<1>2. ASSUME NEW g \in Feeds, RelayTakes(g) PROVE OnItsWay(f)'
  <2>1. /\ sent' = [sent EXCEPT ![g] = api[g]] /\ relay' = [relay EXCEPT ![g] = <<api[g]>>]
        /\ UNCHANGED <<forward, lists, original, snapshots, synced>>
    BY <1>2 DEF RelayTakes, merging, looping
  <2>2. CASE f = g
    <3>1. relay'[f] = <<api[f]>> /\ sent'[f] = api[f] /\ api[f] # Unread
      BY <1>0, <1>1, <2>1, <2>2, Numbers DEF Unread
    <3>2. relay'[f] # <<>> /\ Head(relay'[f]) = api[f]
      BY <3>1
    <3>3. QED BY <1>0, <2>1, <3>1, <3>2 DEF OnItsWay, Taken
  <2>3. CASE f # g
    BY <1>0, <1>1, <2>1, <2>3 DEF OnItsWay, Taken, Holds
  <2>4. QED BY <2>2, <2>3
<1>3. ASSUME NEW n \in Namespaces, NEW k \in Kinds, ForwardTakes(n, k) PROVE OnItsWay(f)'
  <2> DEFINE g == <<n, k>>
             r == [feed |-> g, list |-> Head(relay[g])]
  <2>1. /\ relay' = [relay EXCEPT ![g] = <<>>] /\ forward' = [forward EXCEPT ![n] = <<r>>]
        /\ forward[n] = <<>> /\ relay[g] # <<>> /\ g \in Feeds
        /\ UNCHANGED <<sent, lists, original, snapshots, synced>>
    BY <1>3 DEF ForwardTakes, Feeds, external, merging, looping
  <2>2. r.feed = g /\ r.list = Head(relay[g]) /\ g[1] = n /\ Head(<<r>>) = r /\ <<r>> # <<>>
    OBVIOUS
  <2> HIDE DEF r
  <2>3. /\ relay'[f] = IF f = g THEN <<>> ELSE relay[f]
        /\ forward'[f[1]] = IF f[1] = n THEN <<r>> ELSE forward[f[1]]
    BY <1>0, <1>1, <2>1
  <2>4. CASE f = g
    BY <1>0, <2>1, <2>2, <2>3, <2>4 DEF OnItsWay, Taken, Holds
  <2>5. CASE f # g
    <3>1. Holds(f)' <=> Holds(f)
      BY <2>1, <2>2, <2>3, <2>5 DEF Holds
    <3>2. Holds(f) => forward'[f[1]] = forward[f[1]]
      BY <2>1, <2>3 DEF Holds
    <3>3. QED BY <1>0, <2>1, <2>3, <2>5, <3>1, <3>2 DEF OnItsWay, Taken
  <2>6. QED BY <2>4, <2>5
<1>4. ASSUME NEW n \in Namespaces, Merge(n) PROVE OnItsWay(f)'
  <2> DEFINE g == Head(forward[n]).feed
  <2>1. /\ lists' = [lists EXCEPT ![g] = Head(forward[n]).list]
        /\ forward' = [forward EXCEPT ![n] = <<>>]
        /\ forward[n] # <<>> /\ g \in Feeds /\ g[1] = n
        /\ UNCHANGED <<sent, relay, original, snapshots, synced>>
    BY <1>0, <1>4, HeldType DEF Merge, external, clients, looping, WayInv, OrderInv, TypeInv
  <2> HIDE DEF g
  <2>2. /\ lists'[f] = IF f = g THEN Head(forward[n]).list ELSE lists[f]
        /\ forward'[f[1]] = IF f[1] = n THEN <<>> ELSE forward[f[1]]
    BY <1>0, <1>1, <2>1
  <2>3. CASE f = g
    <3>1. Holds(f) /\ ~Holds(f)'
      BY <2>1, <2>2, <2>3 DEF Holds, g
    <3>2. lists[f] <= lists'[f] /\ (relay[f] = <<>> => lists'[f] = Taken(f))
      BY <1>0, <2>1, <2>2, <2>3, <3>1 DEF OnItsWay, Ordered
    <3>3. original[f] <= lists'[f]
      BY <1>0, <3>2 DEF OnItsWay
    <3>4. QED BY <1>0, <2>1, <3>1, <3>2, <3>3 DEF OnItsWay, Taken
  <2>4. CASE f # g
    <3>1. ~Holds(f) \/ f[1] # n
      BY <2>1, <2>4 DEF Holds, g
    <3>2. (Holds(f)' <=> Holds(f)) /\ (Holds(f) => forward'[f[1]] = forward[f[1]])
      BY <2>2, <3>1 DEF Holds
    <3>3. QED BY <1>0, <2>1, <2>2, <2>4, <3>2 DEF OnItsWay, Taken
  <2>5. QED BY <2>3, <2>4
<1>5. QED BY <1>2, <1>3, <1>4 DEF Relay, RelayTakesNil, Forward, ForwardTakesNil, WayInv, OrderInv

\* So do the emitter and the loop with snapshots.
LEMMA SnapshotsHandedOn ==
  ASSUME WayInv, ctx = "alive", Tick \/ ForceEmit \/ Receive, NEW f \in Feeds
  PROVE  OnItsWay(f)'
<1>1. /\ OnItsWay(f) /\ lists[f] \in Nat /\ original[f] \in Nat
      /\ UNCHANGED <<sent, relay, forward, lists>>
  BY DEF WayInv, OrderInv, TypeInv, RestOK, Snapshots, Tick, ForceEmit, Receive, external, clients
<1>2. original' \in {original, lists}
  BY DEF Tick, ForceEmit, Receive
<1>3. snapshots' # <<>> \/ (synced' = lists /\ original' = original)
  BY DEF Tick, ForceEmit, Receive, WayInv, OrderInv
<1>4. original'[f] <= lists[f]
  BY <1>1, <1>2 DEF OnItsWay
<1>5. QED BY <1>1, <1>3, <1>4 DEF OnItsWay, Taken, Holds

\* And no other step loses one.
LEMMA WayNext == WayInv /\ [Next]_vars => WayInv'
<1> SUFFICES ASSUME WayInv, [Next]_vars, ctx' = "alive", NEW f \in Feeds PROVE OnItsWay(f)'
  BY OrderNext DEF WayInv
<1>1. OrderInv' /\ TypeInv'
  BY OrderNext DEF WayInv, OrderInv
<1>2. ctx = "alive"
  BY DEF Next, Change, Cancel, ForceEmit, WatchErrs, ErrorTaken, Starting, WatchStarts, Refused,
     Started, Relay, RelayTakes, RelayTakesNil, Forward, ForwardTakes, ForwardTakesNil, Emitter, Merge,
     Tick, CloseErrs, Loop, Receive, Synced, Returns, RelayReturns, ForwardReturns, EmitterCancelled,
     LoopReturns, AggregationEnds, ReportAbandoned, external, vars
<1>3. CASE Relay \/ Forward \/ \E n \in Namespaces : Merge(n)
  BY <1>1, <1>2, <1>3, ListsHandedOn
<1>4. CASE Tick \/ ForceEmit \/ Receive
  BY <1>2, <1>4, SnapshotsHandedOn
<1>5. CASE \/ (\E g \in Feeds : \E c \in Contents : Change(g, c)) \/ Cancel \/ WatchErrs \/ ErrorTaken \/ Starting
           \/ CloseErrs \/ Synced \/ Returns \/ UNCHANGED vars
  <2>0. ~Returns
    BY <1>2, NoReturnsAlive DEF WayInv, OrderInv
  <2>1. UNCHANGED <<sent, relay, forward, lists, original, snapshots, synced>>
    BY <1>2, <1>5, <2>0 DEF Change, Cancel, WatchErrs, ErrorTaken, Starting, WatchStarts, Refused,
       Started, CloseErrs, Synced, external, clients, merging, looping, vars
  <2>2. QED BY <1>2, <2>1 DEF WayInv, OnItsWay, Taken, Holds
<1>6. QED BY <1>3, <1>4, <1>5 DEF Next, Emitter, Loop

\* Where the emitter comes to rest the event loop has been given what is in the API, or
\* else a snapshot forced out after the last one of the ticker, which then stands: what is
\* in the API has come back to what the ticker sent last.
THEOREM NothingIsLost == Spec => []RestIsSynced
<1>1. Init => WayInv
  <2> SUFFICES ASSUME Init PROVE WayInv
    OBVIOUS
  <2>1. \A f \in Feeds : Ordered(f) /\ OnItsWay(f)
    BY DEF Init, NoLists, Ordered, OnItsWay, Taken, Holds, Feeds
  <2>2. QED BY <2>1, InitType DEF Init, OrderInv, WayInv
<1>2. ASSUME WayInv, AtRest PROVE Hash(synced) = Hash(api) \/ Overtaken
  <2>1. /\ synced \in [Feeds -> Nat] /\ api \in [Feeds -> Nat]
        /\ original \in [Feeds -> Nat] /\ lists \in [Feeds -> Nat]
        /\ ctx = "alive" /\ snapshots = <<>>
    BY <1>2 DEF WayInv, OrderInv, TypeInv, RestOK, CountInv, Snapshots, AtRest
  <2>2. ASSUME NEW f \in Feeds PROVE lists[f] = api[f] /\ original[f] <= synced[f]
    <3>1. OnItsWay(f) /\ f[1] \in Namespaces
      BY <1>2, <2>1 DEF WayInv, OrderInv, Feeds
    <3>2. relay[f] = <<>> /\ ~Holds(f)
      BY <1>2, <3>1 DEF AtRest, Holds
    <3>3. lists[f] = api[f]
      BY <1>2, <2>1, <3>1, <3>2 DEF OnItsWay, Taken, AtRest, Unread
    <3>4. QED BY <2>1, <3>1, <3>3 DEF OnItsWay
  <2>3. lists = api
    BY <2>1, <2>2
  <2>4. CASE ~Overtaken
    <3>1. \A f \in Feeds : original[f] = synced[f]
      BY <2>1, <2>2, <2>4 DEF Overtaken
    <3>2. original = synced
      BY <2>1, <3>1
    <3>3. QED BY <1>2, <2>3, <3>2 DEF AtRest
  <2>5. QED BY <2>4
<1>3. WayInv => RestIsSynced
  BY <1>2 DEF RestIsSynced
<1>4. QED BY <1>1, <1>3, WayNext, PTL DEF Spec
=============================================================================
