------------------------ MODULE DiscoveryWatchProofs ------------------------
(***************************************************************************)
(* The events of a discovery watch add up, for every set of instances and  *)
(* versions: the invariant of the channel and what follows from it.        *)
(***************************************************************************)
EXTENDS DiscoveryWatch, TLAPS

\* Applying the differences between two states to the first gives the second.
LEMMA DiffApplied ==
  ASSUME NEW prev \in Instances, NEW cur \in Instances
  PROVE  Applied(prev, Diff(prev, cur)) = cur
<1>1. \A k \in Keys : Applied(prev, Diff(prev, cur))[k] = cur[k]
  BY DEF Applied, Diff, Instances
<1>. QED  BY <1>1 DEF Applied, Instances

\* The difference of two states is an event.
LEMMA DiffTyped ==
  ASSUME NEW prev \in Instances, NEW cur \in Instances
  PROVE  Diff(prev, cur) \in Events
  BY DEF Diff, Events

\* The values that go through the channel are states of the service.
StatesOK ==
  /\ {catalog, fetched, current, lastSent, delivered, view} \subseteq Instances
  /\ step \in Steps

\* A watch that has just been created has sent nothing.
LEMMA ChannelInit == Init => StatesOK /\ ChannelInv
  BY DEF Init, StatesOK, ChannelInv, Instances, None, Steps

\* Every step of the watch, its consumer and Consul keeps the channel's invariant.
LEMMA ChannelStep ==
  ASSUME StatesOK, ChannelInv, [Next]_vars
  PROVE  StatesOK' /\ ChannelInv'
<1>. USE DEF StatesOK, ChannelInv, Steps
<1>1. CASE CatalogChanges
  BY <1>1 DEF CatalogChanges, watchVars
<1>2. CASE IndexGoesBack
  BY <1>2 DEF IndexGoesBack, watchVars
<1>3. CASE Request \/ RequestFails \/ Resync \/ Exit
  BY <1>3 DEF Request, RequestFails, Resync, Exit, consulVars
<1>4. CASE Answer
  BY <1>4 DEF Answer
<1>5. CASE Store
  BY <1>5 DEF Store, consulVars
<1>6. CASE Coalesce
  BY <1>6 DEF Coalesce, consulVars
<1>7. CASE Send
  <2>1. event' = Diff(delivered, fetched) /\ lastSent' = fetched /\ event' # NoEvent
    BY <1>7, DiffTyped, ValuesAssumption DEF Send
  <2>. QED  BY <1>7, <2>1 DEF Send, consulVars
<1>8. CASE Receive
  <2>1. view' = lastSent
    BY <1>8, DiffApplied DEF Receive
  <2>. QED  BY <1>8, <2>1 DEF Receive, consulVars, watchVars
<1>9. CASE ReceiveError \/ Cancel \/ UNCHANGED vars
  BY <1>9 DEF ReceiveError, Cancel, vars, consulVars, watchVars
<1>. QED
  BY <1>1, <1>2, <1>3, <1>4, <1>5, <1>6, <1>7, <1>8, <1>9 DEF Next, WatchStep

\* Every variable keeps its type: the indexes that the watch takes from Consul's
\* answers, the events and the counters.
THEOREM TypeCorrect == Spec => []TypeOK
<1>1. Init => TypeOK
  <2>. SUFFICES ASSUME Init PROVE TypeOK
    OBVIOUS
  <2>1. None \in Instances
    BY DEF None, Instances
  <2>2. MaxIndex \in Nat /\ 0 \in 0..MaxIndex /\ 1 \in 0..MaxIndex
    BY BoundsAssumption
  <2>3. 0 \in 0..MaxFailures /\ 0 \in 0..MaxRestores
    BY BoundsAssumption
  <2>. QED  BY <2>1, <2>2, <2>3 DEF Init, TypeOK, Steps
<1>2. TypeOK /\ [Next]_vars => TypeOK'
  <2>. SUFFICES ASSUME TypeOK, [Next]_vars PROVE TypeOK'
    OBVIOUS
  <2>. USE BoundsAssumption DEF TypeOK, Steps
  <2>1. CASE CatalogChanges
    BY <2>1 DEF CatalogChanges, watchVars
  <2>2. CASE IndexGoesBack
    BY <2>2 DEF IndexGoesBack, watchVars
  <2>3. CASE Answer
    <3>1. index' \in 0..MaxIndex
      BY <2>3 DEF Answer, NextIndex
    <3>. QED  BY <2>3, <3>1 DEF Answer
  <2>4. CASE Send
    <3>1. event' \in Events
      BY <2>4, DiffTyped DEF Send
    <3>. QED  BY <2>4, <3>1 DEF Send, consulVars
  <2>5. CASE Receive
    <3>1. view' \in Instances
      BY <2>5 DEF Receive, Applied, Instances, Events
    <3>. QED  BY <2>5, <3>1 DEF Receive, consulVars, watchVars
  <2>6. CASE Request \/ Store \/ Coalesce \/ Exit
    BY <2>6 DEF Request, Store, Coalesce, Exit, consulVars
  <2>7. CASE RequestFails
    <3>1. failures' \in 0..MaxFailures
      BY <2>7 DEF RequestFails
    <3>. QED  BY <2>7, <3>1 DEF RequestFails, consulVars
  <2>8. CASE Resync
    <3>1. index' \in 0..MaxIndex
      BY <2>8 DEF Resync
    <3>. QED  BY <2>8, <3>1 DEF Resync, consulVars
  <2>9. CASE ReceiveError \/ Cancel \/ UNCHANGED vars
    BY <2>9 DEF ReceiveError, Cancel, vars, consulVars, watchVars
  <2>. QED  BY <2>1, <2>2, <2>3, <2>4, <2>5, <2>6, <2>7, <2>8, <2>9
          DEF Next, WatchStep
<1>. QED  BY <1>1, <1>2, PTL DEF Spec

\* Every step keeps the wait index behind what Consul has and the watch has not.
LEMMA IndexStep ==
  ASSUME TypeOK, IndexInv, [Next]_vars
  PROVE  IndexInv'
<1>. USE BoundsAssumption DEF TypeOK, IndexInv, Steps
<1>1. CASE CatalogChanges
  BY <1>1 DEF CatalogChanges, watchVars
<1>2. CASE IndexGoesBack
  BY <1>2 DEF IndexGoesBack, watchVars
<1>3. CASE Request
  BY <1>3 DEF Request, consulVars
<1>4. CASE Answer
  BY <1>4 DEF Answer, NextIndex
<1>5. CASE RequestFails
  BY <1>5 DEF RequestFails, consulVars
<1>6. CASE Resync
  BY <1>6 DEF Resync, consulVars
<1>7. CASE Store
  BY <1>7 DEF Store, consulVars
<1>8. CASE Coalesce
  BY <1>8 DEF Coalesce, consulVars
<1>9. CASE Send
  BY <1>9 DEF Send, consulVars
<1>10. CASE Exit
  BY <1>10 DEF Exit, consulVars
<1>11. CASE Receive \/ ReceiveError \/ Cancel \/ UNCHANGED vars
  BY <1>11 DEF Receive, ReceiveError, Cancel, vars, consulVars, watchVars
<1>. QED
  BY <1>1, <1>2, <1>3, <1>4, <1>5, <1>6, <1>7, <1>8, <1>9, <1>10, <1>11
  DEF Next, WatchStep

\* A blocking query never sleeps over a change, whatever the indexes of Consul.
THEOREM NeverSleepsOverChange == Spec => []WakesOnChange
<1>1. Init => IndexInv
  BY DEF Init, IndexInv
<1>2. TypeOK /\ IndexInv /\ [Next]_vars => IndexInv'
  BY IndexStep
<1>3. TypeOK /\ IndexInv => WakesOnChange
  BY DEF TypeOK, IndexInv, WakesOnChange
<1>. QED  BY <1>1, <1>2, <1>3, TypeCorrect, PTL DEF Spec

\* In every reachable state, an unread event is the difference between what the
\* consumer has and the last state sent, and without one they are the same.
THEOREM ChannelInvariance == Spec => [](StatesOK /\ ChannelInv)
<1>1. StatesOK /\ ChannelInv /\ [Next]_vars => (StatesOK /\ ChannelInv)'
  BY ChannelStep
<1>. QED  BY ChannelInit, <1>1, PTL DEF Spec

\* Added, Changed and Removed are relative to what the consumer received.
THEOREM DiffsAddUpAlways == Spec => []DiffsAddUp
<1>1. StatesOK /\ ChannelInv => DiffsAddUp
  <2>1. ASSUME StatesOK, ChannelInv, event # NoEvent
        PROVE  Applied(view, event) = event.instances
    <3>1. event = Diff(view, lastSent)
      BY <2>1 DEF ChannelInv
    <3>2. event.instances = lastSent
      BY <3>1 DEF Diff
    <3>. QED  BY <2>1, <3>1, <3>2, DiffApplied DEF StatesOK
  <2>. QED  BY <2>1 DEF DiffsAddUp
<1>. QED  BY <1>1, ChannelInvariance, PTL

\* There is no backlog: an emptied channel means an up-to-date consumer.
THEOREM NeverBehind == Spec => []NoBacklog
<1>1. StatesOK /\ ChannelInv => NoBacklog
  BY DEF StatesOK, ChannelInv, NoBacklog
<1>. QED  BY <1>1, ChannelInvariance, PTL

\* The watch finds room in the channel whenever it sends.
THEOREM SendsAtOnce == Spec => []NeverBlocksOnConsumer
<1>1. StatesOK /\ ChannelInv => NeverBlocksOnConsumer
  BY DEF ChannelInv, NeverBlocksOnConsumer
<1>. QED  BY <1>1, ChannelInvariance, PTL

\* The events channel implements the conflated channel: a delivery takes the
\* consumer to the latest state sent.
THEOREM ChannelImplemented == Spec => ImplementsChannel
<1>1. Init => Channel!ChannelInit
  BY DEF Init, Channel!ChannelInit
<1>2. StatesOK /\ ChannelInv /\ [Next]_vars => [Channel!ChannelNext]_(Channel!channelVars)
  <2>. SUFFICES ASSUME StatesOK, ChannelInv, [Next]_vars
                PROVE  [Channel!ChannelNext]_(Channel!channelVars)
    OBVIOUS
  <2>1. CASE Send
    <3>1. fetched \in Instances /\ Channel!Publish(fetched)
      BY <2>1 DEF Send, StatesOK, Channel!Publish
    <3>. QED  BY <3>1 DEF Channel!ChannelNext
  <2>2. CASE Receive
    <3>1. view' = lastSent
      BY <2>2, DiffApplied DEF Receive, StatesOK, ChannelInv
    <3>. QED  BY <2>2, <3>1 DEF Receive, watchVars, Channel!ChannelNext, Channel!Deliver
  <2>3. CASE ~Send /\ ~Receive
    BY <2>3 DEF Next, CatalogChanges, IndexGoesBack, WatchStep, Request, Answer,
       RequestFails, Resync, Store, Coalesce, Exit, ReceiveError, Cancel, vars, consulVars,
       watchVars, Channel!channelVars
  <2>. QED  BY <2>1, <2>2, <2>3
<1>. QED
  BY <1>1, <1>2, ChannelInvariance, PTL DEF Spec, ImplementsChannel, Channel!ChannelSpec

=============================================================================
