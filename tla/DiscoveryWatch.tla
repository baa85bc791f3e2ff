--------------------------- MODULE DiscoveryWatch ---------------------------
(***************************************************************************)
(* discovery.Watch: the goroutine that follows one service with blocking   *)
(* queries, and the consumer of its Events channel.                        *)
(*                                                                         *)
(* The state of a service maps the key of each instance (node and ID) to   *)
(* the version of its fields, or to Absent.  The events channel holds one  *)
(* event; when the consumer is slow, the goroutine takes the unread event  *)
(* back and sends one that replaces it, computed against what the consumer *)
(* has really received.                                                    *)
(***************************************************************************)
EXTENDS Naturals

CONSTANTS
  Keys,         \* instanceKey: node name and instance ID
  Versions,     \* what equalInstance tells apart
  Absent,       \* the instance is not in the result
  NoEvent,      \* the events channel is empty
  MaxIndex,     \* bound: the Consul index
  MaxFailures,  \* bound: failed requests
  MaxRestores   \* bound: times the index goes back

ASSUME BoundsAssumption ==
  MaxIndex \in Nat \ {0, 1} /\ MaxFailures \in Nat /\ MaxRestores \in Nat

VARIABLES
  catalog,      \* the matching instances in Consul
  consulIndex,  \* X-Consul-Index of the catalog
  restored,     \* the index went back since the last answer
  step,         \* where Watch.run is
  cancelled,    \* the watch context is done
  index,        \* the wait index
  fetched,      \* the answer being published
  haveState,    \* a first answer was published; Ready is closed
  current,      \* the snapshot behind Current, Pick and Instances
  lastSent,     \* what is (or was) in the channel
  delivered,    \* what the consumer has seen, as the goroutine believes
  event,        \* the events channel
  view,         \* what the consumer has, applying each event's differences
  errs,         \* the errors channel holds a failure
  failures,     \* failed requests so far
  restores      \* times the index went back so far

consulVars == <<catalog, consulIndex, restored, restores>>
watchVars  == <<step, index, fetched, haveState, current, lastSent, delivered, failures>>

vars == <<consulVars, watchVars, cancelled, event, errs, view>>

Instances == [Keys -> Versions \union {Absent}]
None      == [k \in Keys |-> Absent]

Steps == {"limiting", "querying", "backoff", "store", "coalesce", "send", "closed"}

(***************************************************************************)
(* The difference from the consumer's last view to the new state, and what *)
(* a consumer makes of it.                                                 *)
(***************************************************************************)

\* Variant of Diff that forgets the instances that are gone.
DiffWithoutRemoved(prev, cur) ==
  [instances |-> cur,
   added     |-> {k \in Keys : prev[k] = Absent /\ cur[k] # Absent},
   changed   |-> {k \in Keys : Absent \notin {prev[k], cur[k]} /\ prev[k] # cur[k]},
   removed   |-> {}]

Diff(prev, cur) ==
  [instances |-> cur,
   added     |-> {k \in Keys : prev[k] = Absent /\ cur[k] # Absent},
   changed   |-> {k \in Keys : Absent \notin {prev[k], cur[k]} /\ prev[k] # cur[k]},
   removed   |-> {k \in Keys : prev[k] # Absent /\ cur[k] = Absent}]

Applied(v, e) ==
  [k \in Keys |-> IF k \in e.removed THEN Absent
                  ELSE IF k \in e.added \union e.changed THEN e.instances[k]
                  ELSE v[k]]

Events == [instances: Instances, added: SUBSET Keys, changed: SUBSET Keys,
           removed: SUBSET Keys]

ASSUME ValuesAssumption == Absent \notin Versions /\ NoEvent \notin Events

\* Variant of NextIndex that never goes back.
NextIndexMonotonic(prev, got) ==
  IF got < prev THEN prev ELSE IF got = 0 THEN 1 ELSE got

\* Variant of NextIndex that waits for the index after the next.
NextIndexPast(prev, got) == got + 1

\* blocking.NextIndex
NextIndex(prev, got) ==
  IF got < prev THEN 0 ELSE IF got = 0 THEN 1 ELSE got

Init ==
  /\ catalog \in Instances
  /\ consulIndex \in {0, 1}
  /\ restored = FALSE
  /\ step = "limiting"
  /\ cancelled = FALSE
  /\ index = 0
  /\ fetched = None
  /\ haveState = FALSE
  /\ current = None
  /\ lastSent = None
  /\ delivered = None
  /\ event = NoEvent
  /\ errs = FALSE
  /\ view = None
  /\ failures = 0
  /\ restores = 0

-----------------------------------------------------------------------------
(***************************************************************************)
(* Consul.  A change raises the index above 1; a snapshot restore or a new *)
(* leader may put it back, with other instances.                           *)
(***************************************************************************)

CatalogChanges ==
  /\ consulIndex < MaxIndex
  /\ consulIndex' = IF consulIndex = 0 THEN 2 ELSE consulIndex + 1
  /\ catalog' \in Instances \ {catalog}
  /\ UNCHANGED <<restored, restores, watchVars, cancelled, event, errs, view>>

IndexGoesBack ==
  /\ restores < MaxRestores
  /\ restores' = restores + 1
  /\ restored' = TRUE
  /\ consulIndex' \in 0..consulIndex
  /\ catalog' \in Instances
  /\ UNCHANGED <<watchVars, cancelled, event, errs, view>>

-----------------------------------------------------------------------------
(***************************************************************************)
(* Watch.run.                                                              *)
(***************************************************************************)

\* The limiter lets the next request out.
Request ==
  /\ step = "limiting"
  /\ ~cancelled
  /\ step' = "querying"
  /\ UNCHANGED <<consulVars, cancelled, index, fetched, haveState, current, lastSent,
                 delivered, event, errs, view, failures>>

\* Consul answers at once when its index is past the wait index, and otherwise
\* after WaitTime at the latest. An answer that changes nothing is skipped.
Answer ==
  /\ step = "querying"
  /\ ~cancelled
  /\ restored' = FALSE
  /\ index' = NextIndex(index, consulIndex)
  /\ \/ /\ haveState /\ catalog = lastSent
        /\ step' = "limiting"
        /\ UNCHANGED fetched
     \/ /\ ~haveState \/ catalog # lastSent
        /\ step' = "store"
        /\ fetched' = catalog
  /\ UNCHANGED <<catalog, consulIndex, restores, cancelled, haveState, current,
                 lastSent, delivered, event, errs, view, failures>>

\* The failure replaces an unread one on Errors; the watch backs off.
RequestFails ==
  /\ step = "querying"
  /\ ~cancelled
  /\ failures < MaxFailures
  /\ failures' = failures + 1
  /\ errs' = TRUE
  /\ step' = "backoff"
  /\ UNCHANGED <<consulVars, cancelled, index, fetched, haveState, current, lastSent,
                 delivered, event, view>>

\* After an outage the watch resyncs from scratch.
Resync ==
  /\ step = "backoff"
  /\ ~cancelled
  /\ index' = 0
  /\ step' = "limiting"
  /\ UNCHANGED <<consulVars, cancelled, fetched, haveState, current, lastSent,
                 delivered, event, errs, view, failures>>

\* The snapshot is published first, then Ready is closed.
Store ==
  /\ step = "store"
  /\ current' = fetched
  /\ haveState' = TRUE
  /\ step' = "coalesce"
  /\ UNCHANGED <<consulVars, cancelled, index, fetched, lastSent, delivered, event, errs,
                 view, failures>>

\* Variant of Coalesce that diffs against the last event even if it was unread.
CoalesceUnread ==
  /\ step = "coalesce"
  /\ event' = NoEvent
  /\ delivered' = lastSent
  /\ step' = "send"
  /\ UNCHANGED <<consulVars, cancelled, index, fetched, haveState, current, lastSent,
                 errs, view, failures>>

\* The unread event is taken back; an empty channel means it was received.
Coalesce ==
  /\ step = "coalesce"
  /\ \/ /\ event # NoEvent
        /\ event' = NoEvent
        /\ UNCHANGED delivered
     \/ /\ event = NoEvent
        /\ delivered' = lastSent
        /\ UNCHANGED event
  /\ step' = "send"
  /\ UNCHANGED <<consulVars, cancelled, index, fetched, haveState, current, lastSent,
                 errs, view, failures>>

\* The send waits for room in the channel.
Send ==
  /\ step = "send"
  /\ event = NoEvent
  /\ event' = Diff(delivered, fetched)
  /\ lastSent' = fetched
  /\ step' = "limiting"
  /\ UNCHANGED <<consulVars, cancelled, index, fetched, haveState, current, delivered, errs,
                 view, failures>>

\* Variant of Exit: the backoff delay does not look at the context.
ExitNotFromBackoff ==
  /\ step \in {"limiting", "querying"}
  /\ cancelled
  /\ step' = "closed"
  /\ UNCHANGED <<consulVars, cancelled, index, fetched, haveState, current, lastSent,
                 delivered, event, errs, view, failures>>

\* The places where the goroutine looks at its context.
Exit ==
  /\ step \in {"limiting", "querying", "backoff"}
  /\ cancelled
  /\ step' = "closed"
  /\ UNCHANGED <<consulVars, cancelled, index, fetched, haveState, current, lastSent,
                 delivered, event, errs, view, failures>>

-----------------------------------------------------------------------------
(***************************************************************************)
(* The application.                                                        *)
(***************************************************************************)

\* The consumer receives an event; a closed channel still yields the last one.
Receive ==
  /\ event # NoEvent
  /\ view' = Applied(view, event)
  /\ event' = NoEvent
  /\ UNCHANGED <<consulVars, watchVars, cancelled, errs>>

ReceiveError ==
  /\ errs
  /\ errs' = FALSE
  /\ UNCHANGED <<consulVars, watchVars, cancelled, event, view>>

\* Close, or the end of the context given to Query.Watch.
Cancel ==
  /\ ~cancelled
  /\ cancelled' = TRUE
  /\ UNCHANGED <<consulVars, watchVars, event, errs, view>>

-----------------------------------------------------------------------------

WatchStep ==
  \/ Request \/ Answer \/ RequestFails \/ Resync
  \/ Store \/ Coalesce \/ Send \/ Exit

Next == CatalogChanges \/ IndexGoesBack \/ WatchStep \/ Receive \/ ReceiveError \/ Cancel

Spec == Init /\ [][Next]_vars

(***************************************************************************)
(* Fairness: the goroutine runs, Consul answers every blocking query after *)
(* WaitTime at the latest, and a consumer that listens receives what is in *)
(* the channel.  Nothing makes the application close the watch.            *)
(***************************************************************************)
FairSpec == Spec /\ WF_vars(WatchStep) /\ WF_vars(Receive)

-----------------------------------------------------------------------------
(***************************************************************************)
(* Properties.                                                             *)
(***************************************************************************)

\* Type correctness of every variable, within the named bounds.
TypeOK ==
  /\ catalog \in Instances
  /\ consulIndex \in 0..MaxIndex
  /\ restored \in BOOLEAN
  /\ step \in Steps
  /\ cancelled \in BOOLEAN
  /\ index \in 0..MaxIndex
  /\ {fetched, current, lastSent, delivered, view} \subseteq Instances
  /\ haveState \in BOOLEAN
  /\ event \in Events \union {NoEvent}
  /\ errs \in BOOLEAN
  /\ failures \in 0..MaxFailures
  /\ restores \in 0..MaxRestores

\* A consumer that only applies Added, Changed and Removed ends up with
\* exactly the Instances of the event, however many states it missed.
DiffsAddUp == event # NoEvent => Applied(view, event) = event.instances

\* A consumer that has emptied the channel has the state that Current
\* returns, unless a newer one is being published this instant.
NoBacklog ==
  event = NoEvent /\ step \notin {"store", "coalesce", "send"} => view = current

\* The watch never waits for its consumer: whenever it sends, there is room.
NeverBlocksOnConsumer == step = "send" => event = NoEvent

\* A blocking query never sleeps over a change: when the catalog differs from
\* what the watch last saw, the wait index is one that Consul answers at once
\* (unless Consul's own index went back behind the watch).
WakesOnChange ==
  step = "querying" /\ ~restored /\ (~haveState \/ catalog # lastSent)
    => index = 0 \/ consulIndex > index

\* The event handed to the consumer brings it to the latest state sent,
\* whatever it has missed: the watch is a conflated channel.
Channel == INSTANCE ConflatedChannel
  WITH Values <- Instances, Nothing <- None, latest <- lastSent

\* The events channel implements the conflated channel.
ImplementsChannel == Channel!ChannelSpec

\* While the watch is open, the snapshot and a consumer that listens converge
\* to what Consul has, also after failures and when the index went back.
Converges == <>[]~cancelled => <>[](haveState /\ current = catalog /\ view = catalog)

\* Close waits for the goroutine: it always ends.
Closes == cancelled ~> step = "closed"

\* The inductive invariant behind DiffsAddUp, NoBacklog and ImplementsChannel.
ChannelInv ==
  /\ event # NoEvent => event = Diff(delivered, lastSent) /\ view = delivered
  /\ event = NoEvent /\ step # "send" => view = lastSent
  /\ step = "send" => event = NoEvent /\ view = delivered
  /\ step \in {"coalesce", "send"} => current = fetched
  /\ step \notin {"coalesce", "send"} => current = lastSent

\* The inductive invariant behind WakesOnChange: unless Consul's index went
\* back unseen, the watch is not ahead of it, and what it will have sent when it
\* asks again is what Consul has, or Consul answers that request at once.
IndexInv ==
  LET known == IF step \in {"store", "coalesce", "send"} THEN fetched ELSE lastSent
  IN  /\ step \in {"limiting", "querying"} /\ ~haveState => index = 0
      /\ step \in {"coalesce", "send"} => haveState
      /\ ~restored => /\ index <= consulIndex \/ (index = 1 /\ consulIndex = 0)
                      /\ step \notin {"backoff", "closed"} /\ (haveState \/ step = "store")
                           => catalog = known \/ index = 0 \/ consulIndex > index

=============================================================================
