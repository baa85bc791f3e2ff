------------------------------ MODULE Balancer ------------------------------
(***************************************************************************)
(* balancer.Balancer: concurrent calls of Next and ReportFailure, the      *)
(* janitor that releases idle watches, and Close.                          *)
(*                                                                         *)
(* Next takes no lock: it reads an immutable map of entries and stores     *)
(* into the atomics of the entry it found, while the janitor and other     *)
(* callers replace the map under mu. Each atomic access that another       *)
(* goroutine can tell apart is a step of its own.                          *)
(*                                                                         *)
(* The unit of the clock is the period of the janitor's ticker, half the   *)
(* idle timeout. A discovery watch (module DiscoveryWatch) is reduced to   *)
(* its snapshot, Ready and Done.                                           *)
(***************************************************************************)
EXTENDS Naturals, FiniteSets

CONSTANTS
  Services,
  Instances,
  Callers,    \* goroutines that call Next and ReportFailure
  Closers,    \* goroutines that call Close
  Janitor,    \* the goroutine of releaseIdle
  NoOne,      \* mu is free
  MaxWatches, \* bound: the watches that can be started
  NoWatch,    \* the map has no entry for the service
  Options,    \* the options tried
  MaxClock    \* bound: the time

Watches == 1..MaxWatches

\* The idle timeout, when there is one: two periods of the ticker.
Idle == 2

(***************************************************************************)
(* WithIdleTimeout (on or off), WithStaleGrace and WithEjection (0 is off),*)
(* and the instances the services may have.                                *)
(***************************************************************************)
OptionsType == [idle: BOOLEAN, grace: Nat, eject: Nat, catalog: SUBSET Instances]

ASSUME NamesAssumption ==
  /\ Services # {}
  /\ NoWatch \notin Watches
  /\ Callers \intersect Closers = {}
  /\ Janitor \notin Callers \union Closers
  /\ NoOne \notin Closers \union {Janitor}

ASSUME BoundsAssumption ==
  /\ MaxWatches \in Nat
  /\ \A o \in Options : o \in OptionsType
  /\ MaxClock \in Nat

VARIABLES
  options,    \* the options given to New
  clock,
  closed,     \* Balancer.closed
  ctxDone,    \* Balancer.ctx is done
  mu,         \* the holder of Balancer.mu
  services,   \* Balancer.services: the watch of each service's entry
  watch,      \* the discovery watches
  entry,      \* the entry that owns each watch
  janitor,    \* releaseIdle
  pc,         \* where each caller and closer is
  call,       \* the locals of each call of Next and ReportFailure
  closing     \* the watches each Close still has to close

sharedVars == <<options, clock, closed, ctxDone>>

vars == <<sharedVars, mu, services, watch, entry, janitor, pc, call, closing>>

(***************************************************************************)
(* emptied is history, for the grace period only: when the list of the     *)
(* watch became empty.                                                     *)
(***************************************************************************)
WatchType ==
  [status: {"free", "open", "closing", "ended"}, ready: BOOLEAN,
   list: SUBSET Instances, emptied: 0..MaxClock]

\* last is {} while no snapshot is kept; ejected is 0 outside the set.
EntryType ==
  [lastUsed: 0..MaxClock, last: SUBSET Instances, lastSeen: 0..MaxClock,
   ejected: [Instances -> Nat]]

\* Variant of NewEntry that counts a new entry as used in the future.
NewEntryAhead(now) ==
  [lastUsed |-> now + Idle, last |-> {}, lastSeen |-> 0,
   ejected |-> [i \in Instances |-> 0]]

NewWatch == [status |-> "open", ready |-> FALSE, list |-> {}, emptied |-> 0]

NewEntry(now) ==
  [lastUsed |-> now, last |-> {}, lastSeen |-> 0,
   ejected |-> [i \in Instances |-> 0]]

\* got is the instance the last call returned, refused that it returned
\* ErrClosed; neither for ErrServiceNotFound and an error of the context.
CallType ==
  [service: Services, now: 0..MaxClock, again: BOOLEAN,
   watch: Watches \union {NoWatch}, list: SUBSET Instances,
   got: SUBSET Instances, refused: BOOLEAN]

CallerSteps == {"ready", "again", "create", "touch", "wait", "load", "seen", "keep",
                "grace", "pick", "record"}
JanitorSteps == {"off", "waiting", "locking", "swapping", "closing", "exited"}
CloserSteps == {"ready", "closing", "joining", "returned"}

Init ==
  /\ options \in Options
  /\ clock = 0
  /\ closed = FALSE
  /\ ctxDone = FALSE
  /\ mu = NoOne
  /\ services = [s \in Services |-> NoWatch]
  /\ watch = [w \in Watches |-> [NewWatch EXCEPT !.status = "free"]]
  /\ entry = [w \in Watches |-> NewEntry(0)]
  /\ janitor = [step |-> "off", tick |-> FALSE, now |-> 0, idle |-> {}]
  /\ pc = [p \in Callers \union Closers |-> "ready"]
  /\ call = [c \in Callers |->
               [service |-> CHOOSE s \in Services : TRUE, now |-> 0, again |-> FALSE,
                watch |-> NoWatch, list |-> {}, got |-> {}, refused |-> FALSE]]
  /\ closing = [c \in Closers |-> {}]

-----------------------------------------------------------------------------
(***************************************************************************)
(* Next.                                                                   *)
(***************************************************************************)

\* isClosed
IsClosed == closed \/ ctxDone

At(p, step) == pc[p] = step
Go(p, step) == pc' = [pc EXCEPT ![p] = step]

\* Next returns; only its outcome is kept.
Return(c, got, refused) ==
  /\ Go(c, "ready")
  /\ call' = [call EXCEPT ![c] = [service |-> @.service, now |-> 0, again |-> FALSE,
                                   watch |-> NoWatch, list |-> {},
                                   got |-> got, refused |-> refused]]

\* The lock-free part of entry, for a call with its clock reading.
Lookup(c, s, now) ==
  \/ /\ IsClosed
     /\ Return(c, {}, TRUE)
  \/ /\ ~IsClosed
     /\ call' = [call EXCEPT ![c] = [service |-> s, now |-> now, again |-> @.again,
                                      watch |-> services[s], list |-> {},
                                      got |-> {}, refused |-> FALSE]]
     /\ Go(c, IF services[s] = NoWatch THEN "create" ELSE "touch")

\* One clock reading serves the whole call, whatever it waits for.
NextBegins(c, s) ==
  /\ At(c, "ready")
  /\ Lookup(c, s, clock)
  /\ UNCHANGED <<sharedVars, mu, services, watch, entry, janitor, closing>>

NextAgain(c) ==
  /\ At(c, "again")
  /\ Lookup(c, call[c].service, call[c].now)
  /\ UNCHANGED <<sharedVars, mu, services, watch, entry, janitor, closing>>

Touch(c) ==
  /\ At(c, "touch")
  /\ entry' = [entry EXCEPT ![call[c].watch].lastUsed = call[c].now]
  /\ Go(c, "wait")
  /\ UNCHANGED <<sharedVars, mu, services, watch, janitor, call, closing>>

\* The janitor starts with the first entry (janitor.Do), if there is a timeout.
StartJanitor ==
  janitor' = IF options.idle /\ janitor.step = "off"
             THEN [janitor EXCEPT !.step = "waiting"] ELSE janitor

StartWatch(c) ==
  /\ \E w \in Watches :
       /\ \A v \in Watches : watch[v].status = "free" <=> w <= v
       /\ watch' = [watch EXCEPT ![w] = NewWatch]
       /\ entry' = [entry EXCEPT ![w] = NewEntry(call[c].now)]
       /\ services' = [services EXCEPT ![call[c].service] = w]
       /\ call' = [call EXCEPT ![c].watch = w]
  /\ StartJanitor
  /\ Go(c, "wait")

\* Variant of Create that does not look for an entry under the lock.
CreateWithoutRecheck(c) ==
  /\ At(c, "create")
  /\ mu = NoOne
  /\ \/ /\ IsClosed
        /\ Return(c, {}, TRUE)
        /\ UNCHANGED <<services, watch, entry, janitor>>
     \/ /\ ~IsClosed
        /\ StartWatch(c)
  /\ UNCHANGED <<sharedVars, mu, closing>>

\* Variant of Create that trusts the check made before the lock.
CreateWithoutClosedCheck(c) ==
  /\ At(c, "create")
  /\ mu = NoOne
  /\ services[call[c].service] = NoWatch
  /\ StartWatch(c)
  /\ UNCHANGED <<sharedVars, mu, closing>>

\* The locked part of entry: it checks again, then starts the watch and swaps
\* the map.
Create(c) ==
  /\ At(c, "create")
  /\ mu = NoOne
  /\ \/ /\ IsClosed
        /\ Return(c, {}, TRUE)
        /\ UNCHANGED <<services, watch, entry, janitor>>
     \/ /\ ~IsClosed
        /\ LET w == services[call[c].service] IN
             /\ w # NoWatch
             /\ call' = [call EXCEPT ![c].watch = w]
             /\ entry' = [entry EXCEPT ![w].lastUsed = call[c].now]
        /\ Go(c, "wait")
        /\ UNCHANGED <<services, watch, janitor>>
     \/ /\ ~IsClosed
        /\ services[call[c].service] = NoWatch
        /\ StartWatch(c)
  /\ UNCHANGED <<sharedVars, mu, closing>>

\* The select of current, when several cases are ready: any of them.
WatchReady(c) ==
  /\ At(c, "wait")
  /\ watch[call[c].watch].ready
  /\ Go(c, "load")
  /\ UNCHANGED <<sharedVars, mu, services, watch, entry, janitor, call, closing>>

CallerGivesUp(c) ==
  /\ At(c, "wait")
  /\ Return(c, {}, FALSE)
  /\ UNCHANGED <<sharedVars, mu, services, watch, entry, janitor, closing>>

\* The watch was released under the call: it is tried once more, with the
\* clock reading of the first attempt.
WatchDone(c) ==
  /\ At(c, "wait")
  /\ watch[call[c].watch].status = "ended"
  /\ \/ /\ ~call[c].again /\ ~IsClosed
        /\ call' = [call EXCEPT ![c].again = TRUE, ![c].watch = NoWatch]
        /\ Go(c, "again")
     \/ /\ call[c].again \/ IsClosed
        /\ Return(c, {}, TRUE)
  /\ UNCHANGED <<sharedVars, mu, services, watch, entry, janitor, closing>>

\* ejectNow: the clock is read again once the list is known.
ListKnown(c, list) ==
  /\ Go(c, "pick")
  /\ call' = [call EXCEPT ![c].list = list, ![c].now = clock]

\* withGrace
Load(c) ==
  /\ At(c, "load")
  /\ LET list == watch[call[c].watch].list IN
       \/ /\ options.grace = 0
          /\ ListKnown(c, list)
       \/ /\ options.grace > 0
          /\ call' = [call EXCEPT ![c].list = list]
          /\ Go(c, IF list = {} THEN "grace" ELSE "seen")
  /\ UNCHANGED <<sharedVars, mu, services, watch, entry, janitor, closing>>

Seen(c) ==
  /\ At(c, "seen")
  /\ entry' = [entry EXCEPT ![call[c].watch].lastSeen = call[c].now]
  /\ Go(c, "keep")
  /\ UNCHANGED <<sharedVars, mu, services, watch, janitor, call, closing>>

Keep(c) ==
  /\ At(c, "keep")
  /\ entry' = [entry EXCEPT ![call[c].watch].last = call[c].list]
  /\ ListKnown(c, call[c].list)
  /\ UNCHANGED <<sharedVars, mu, services, watch, janitor, closing>>

GraceList(c) ==
  /\ At(c, "grace")
  /\ LET e == entry[call[c].watch] IN
       ListKnown(c, IF call[c].now > e.lastSeen + options.grace THEN {} ELSE e.last)
  /\ UNCHANGED <<sharedVars, mu, services, watch, entry, janitor, closing>>

\* Every ejected instance is skipped, unless that leaves none (fail open). The
\* strategy may choose any of the rest.
Available(c) ==
  LET kept == {i \in call[c].list : entry[call[c].watch].ejected[i] <= call[c].now}
  IN IF kept = {} THEN call[c].list ELSE kept

Pick(c) ==
  /\ At(c, "pick")
  /\ \/ /\ call[c].list = {}
        /\ Return(c, {}, FALSE)
     \/ \E i \in Available(c) : Return(c, {i}, FALSE)
  /\ UNCHANGED <<sharedVars, mu, services, watch, entry, janitor, closing>>

-----------------------------------------------------------------------------
(***************************************************************************)
(* ReportFailure of the instance the last call returned. A report about a  *)
(* service without an entry is ignored.                                    *)
(***************************************************************************)

ReportBegins(c) ==
  /\ At(c, "ready")
  /\ options.eject > 0
  /\ call[c].got # {}
  /\ services[call[c].service] # NoWatch
  /\ call' = [call EXCEPT ![c].watch = services[call[c].service], ![c].now = clock]
  /\ Go(c, "record")
  /\ UNCHANGED <<sharedVars, mu, services, watch, entry, janitor, closing>>

\* Variant of Ejections that builds the new set from nothing.
EjectionsReplaced(old, i, now) ==
  [j \in Instances |-> IF j = i THEN now + options.eject ELSE 0]

\* The new set: the reported instance and the old ones that have not expired.
Ejections(old, i, now) ==
  [j \in Instances |-> IF j = i THEN now + options.eject
                       ELSE IF old[j] > now THEN old[j] ELSE 0]

ReportRecords(c) ==
  /\ At(c, "record")
  /\ \E i \in call[c].got :
       entry' = [entry EXCEPT
                   ![call[c].watch].ejected = Ejections(@, i, call[c].now)]
  /\ Return(c, {}, FALSE)
  /\ UNCHANGED <<sharedVars, mu, services, watch, janitor, closing>>

-----------------------------------------------------------------------------
(***************************************************************************)
(* The janitor.                                                            *)
(***************************************************************************)

Entries == {services[s] : s \in Services} \ {NoWatch}

JanitorTicks ==
  /\ janitor.step = "waiting"
  /\ janitor.tick
  /\ janitor' = [janitor EXCEPT !.step = "locking", !.tick = FALSE, !.now = clock]
  /\ UNCHANGED <<sharedVars, mu, services, watch, entry, pc, call, closing>>

\* Under mu it reads the last use of every entry, then swaps the map; callers
\* that found an entry in the old map still write to it in between.
JanitorScans ==
  /\ janitor.step = "locking"
  /\ mu = NoOne
  /\ mu' = Janitor
  /\ janitor' = [janitor EXCEPT !.step = "swapping",
                                !.idle = {w \in Entries :
                                            janitor.now >= entry[w].lastUsed + Idle}]
  /\ UNCHANGED <<sharedVars, services, watch, entry, pc, call, closing>>

JanitorSwaps ==
  /\ janitor.step = "swapping"
  /\ services' = [s \in Services |-> IF services[s] \in janitor.idle THEN NoWatch
                                     ELSE services[s]]
  /\ mu' = NoOne
  /\ janitor' = [janitor EXCEPT !.step = "closing", !.now = 0]
  /\ UNCHANGED <<sharedVars, watch, entry, pc, call, closing>>

\* Watch.Close cancels the watch and waits until its goroutine has ended,
\* before the next one is closed.
CancelWatch(w) ==
  /\ watch[w].status = "open"
  /\ \A v \in janitor.idle : watch[v].status # "closing"
  /\ watch' = [watch EXCEPT ![w].status = "closing"]

JanitorCloses ==
  /\ janitor.step = "closing"
  /\ \/ \E w \in janitor.idle : CancelWatch(w) /\ UNCHANGED janitor
     \/ \E w \in janitor.idle :
          /\ watch[w].status = "ended"
          /\ janitor' = [janitor EXCEPT !.idle = @ \ {w}]
          /\ UNCHANGED watch
     \/ /\ janitor.idle = {}
        /\ janitor' = [janitor EXCEPT !.step = "waiting"]
        /\ UNCHANGED watch
  /\ UNCHANGED <<sharedVars, mu, services, entry, pc, call, closing>>

JanitorExits ==
  /\ janitor.step = "waiting"
  /\ ctxDone
  /\ janitor' = [janitor EXCEPT !.step = "exited", !.tick = FALSE]
  /\ UNCHANGED <<sharedVars, mu, services, watch, entry, pc, call, closing>>

-----------------------------------------------------------------------------
(***************************************************************************)
(* Close.                                                                  *)
(***************************************************************************)

\* Variant of CloseBegins that keeps mu until Close returns.
CloseBeginsLocked(c) ==
  /\ c \in Closers
  /\ At(c, "ready")
  /\ mu = NoOne
  /\ mu' = c
  /\ closed' = TRUE
  /\ ctxDone' = TRUE
  /\ closing' = [closing EXCEPT ![c] = Entries]
  /\ Go(c, "closing")
  /\ UNCHANGED <<options, clock, services, watch, entry, janitor, call>>

CloseBegins(c) ==
  /\ c \in Closers
  /\ At(c, "ready")
  /\ mu = NoOne
  /\ closed' = TRUE
  /\ ctxDone' = TRUE
  /\ closing' = [closing EXCEPT ![c] = Entries]
  /\ Go(c, "closing")
  /\ UNCHANGED <<options, clock, mu, services, watch, entry, janitor, call>>

CloseWatches(c) ==
  /\ At(c, "closing")
  /\ \/ \E w \in closing[c] :
          /\ watch[w].status = "ended"
          /\ closing' = [closing EXCEPT ![c] = @ \ {w}]
          /\ UNCHANGED pc
     \/ /\ closing[c] = {}
        /\ Go(c, "joining")
        /\ UNCHANGED closing
  /\ UNCHANGED <<sharedVars, mu, services, watch, entry, janitor, call>>

\* wg.Wait
CloseReturns(c) ==
  /\ At(c, "joining")
  /\ janitor.step \in {"off", "exited"}
  /\ Go(c, "returned")
  /\ UNCHANGED <<sharedVars, mu, services, watch, entry, janitor, call, closing>>

-----------------------------------------------------------------------------
(***************************************************************************)
(* The clock, the watches and the owner of the balancer's context.         *)
(***************************************************************************)

Tick ==
  /\ clock < MaxClock
  /\ clock' = clock + 1
  /\ janitor' = [janitor EXCEPT !.tick = janitor.step \notin {"off", "exited"}]
  /\ UNCHANGED <<options, closed, ctxDone, mu, services, watch, entry, pc, call,
                 closing>>

\* A watch publishes a snapshot; the first one makes it ready.
WatchPublishes(w) ==
  /\ watch[w].status = "open"
  /\ \E list \in SUBSET options.catalog :
       /\ ~watch[w].ready \/ list # watch[w].list
       /\ watch' = [watch EXCEPT ![w].ready = TRUE, ![w].list = list,
                                 ![w].emptied = IF list = {} /\ options.grace > 0
                                                     THEN clock ELSE 0]
  /\ UNCHANGED <<sharedVars, mu, services, entry, janitor, pc, call, closing>>

WatchEnds(w) ==
  /\ watch[w].status = "closing" \/ (watch[w].status = "open" /\ ctxDone)
  /\ watch' = [watch EXCEPT ![w].status = "ended"]
  /\ UNCHANGED <<sharedVars, mu, services, entry, janitor, pc, call, closing>>

\* The context given to New ends (Client.closeServices cancels it first).
ParentDone ==
  /\ ~ctxDone
  /\ ctxDone' = TRUE
  /\ UNCHANGED <<options, clock, closed, mu, services, watch, entry, janitor, pc, call,
                 closing>>

-----------------------------------------------------------------------------

CallerStep(c) ==
  \/ \E s \in Services : NextBegins(c, s)
  \/ NextAgain(c) \/ Touch(c) \/ Create(c)
  \/ WatchReady(c) \/ CallerGivesUp(c) \/ WatchDone(c)
  \/ Load(c) \/ Seen(c) \/ Keep(c) \/ GraceList(c) \/ Pick(c)
  \/ ReportBegins(c) \/ ReportRecords(c)

JanitorStep ==
  JanitorTicks \/ JanitorScans \/ JanitorSwaps \/ JanitorCloses \/ JanitorExits

CloseStep(c) == CloseWatches(c) \/ CloseReturns(c)

Next ==
  \/ \E c \in Callers : CallerStep(c)
  \/ JanitorStep
  \/ \E c \in Closers : CloseBegins(c) \/ CloseStep(c)
  \/ Tick
  \/ \E w \in Watches : WatchPublishes(w) \/ WatchEnds(w)
  \/ ParentDone

Spec == Init /\ [][Next]_vars

(***************************************************************************)
(* Fairness: goroutines run, and a cancelled watch ends. A select with     *)
(* several ready cases chooses at random, so the janitor does not prefer   *)
(* its ticker for ever (here the clock stops at MaxClock). Nothing makes   *)
(* the application call Next, ReportFailure or Close.                      *)
(***************************************************************************)
FairSpec ==
  /\ Spec
  /\ WF_vars(JanitorStep)
  /\ \A c \in Closers : WF_vars(CloseStep(c))
  /\ \A w \in Watches : WF_vars(WatchEnds(w))

-----------------------------------------------------------------------------
(***************************************************************************)
(* Properties.                                                             *)
(***************************************************************************)

\* Type correctness of every variable, within the named bounds.
TypeOK ==
  /\ options \in Options
  /\ clock \in 0..MaxClock
  /\ closed \in BOOLEAN
  /\ ctxDone \in BOOLEAN
  /\ mu \in Closers \union {NoOne, Janitor}
  /\ services \in [Services -> Watches \union {NoWatch}]
  /\ watch \in [Watches -> WatchType]
  /\ entry \in [Watches -> EntryType]
  /\ janitor \in [step: JanitorSteps, tick: BOOLEAN, now: 0..MaxClock,
                  idle: SUBSET Watches]
  /\ pc \in [Callers \union Closers -> CallerSteps \union CloserSteps]
  /\ \A c \in Callers : pc[c] \in CallerSteps
  /\ call \in [Callers -> CallType]
  /\ closing \in [Closers -> SUBSET Watches]

\* The watch runs.
Live(w) == watch[w].status \in {"open", "closing"}

\* No watch is lost: a running watch is the one the map holds for its service,
\* or the janitor is about to close it, whatever calls race to start one.
NoWatchIsLost == \A w \in Watches : Live(w) => w \in Entries \union janitor.idle

\* When Close has returned, every watch has ended, also those the janitor was
\* releasing and those of calls that raced with Close, and the janitor has
\* returned; nothing is started afterwards.
ClosedIsQuiet ==
  \A c \in Closers :
    pc[c] = "returned" =>
      /\ \A w \in Watches : ~Live(w)
      /\ janitor.step \in {"off", "exited"}

\* How the callers and the owner of the balancer see its watches.
Pool == INSTANCE WatchPool WITH
  pool    <- services,
  started <- {w \in Watches : watch[w].status # "free"},
  running <- {w \in Watches : Live(w)},
  shut    <- ctxDone,
  over    <- \E c \in Closers : pc[c] = "returned"

\* The watches of the balancer are a pool as it is promised: while the balancer is
\* open a watch in the map runs, whatever the janitor and the callers do, and
\* Close returns after the last one has ended.
ImplementsPool == Pool!PoolSpec

\* While the balancer is open, the watch that the map gives to a call runs: what
\* a call waits for can only end under it after it has been found.
MapIsLive == ~ctxDone => \A w \in Entries : Live(w)

\* Concurrent reports do not undo each other: an ejection that is still active
\* is only ever replaced by a report about the same instance.
EjectionsSurvive ==
  [][ \A w \in Watches : \A i \in Instances :
        /\ entry[w].ejected[i] > clock
        /\ entry'[w].ejected[i] < entry[w].ejected[i]
        => \E c \in Callers : pc[c] = "record" /\ call[c].got = {i} ]_vars

\* Close always returns, whatever the janitor and the callers are doing.
CloseFinishes == \A c \in Closers : pc[c] = "closing" ~> pc[c] = "returned"

\* The inductive invariant behind the safety properties: the janitor knows
\* every watch that has left the map, a Close every watch that was left in it.
JanitorInv ==
  /\ janitor.step \notin {"swapping", "closing"} => janitor.idle = {}
  /\ mu = Janitor <=> janitor.step = "swapping"

CloseInv ==
  \A c \in Closers : pc[c] # "ready" =>
    /\ closed
    /\ \A w \in Watches : Live(w) => w \in closing[c] \union janitor.idle
    /\ pc[c] \in {"joining", "returned"} => closing[c] = {}
    /\ pc[c] = "returned" => janitor.step \in {"off", "exited"}

\* A call that is past entry refers to a watch.
WatchKnown ==
  \A c \in Callers :
    pc[c] \notin {"ready", "again", "create"} => call[c].watch \in Watches

-----------------------------------------------------------------------------
(***************************************************************************)
(* Claims of the documentation that the code does not keep.                *)
(***************************************************************************)

\* "ErrClosed is returned by Next after Close": not while the balancer is open.
ErrClosedOnlyAfterClose ==
  \A c \in Callers : call[c].refused => IsClosed

\* Within the grace period "an empty list is replaced by the last non-empty
\* one": so in every call made at most that long after the list became empty.
GraceBridgesGaps ==
  [][ \A c \in Callers :
        /\ pc[c] = "grace" /\ pc'[c] = "pick"
        /\ entry[call[c].watch].last # {}
        /\ call[c].now <= watch[call[c].watch].emptied + options.grace
        => call'[c].list # {} ]_vars

=============================================================================
