# TLA+ models of consulx

consulx is a Go client that manages a service's life in Consul: it registers
the service and keeps it registered, answers health probes, follows other
services and configuration with blocking queries, and balances calls over the
instances it finds. This directory models its concurrent parts, the way a Client
is set up, and the fake agent its tests run against, in TLA+; checks them with
TLC on small instances; and proves the main safety properties with TLAPS for
every value of the constants.

Paths are relative to the repository. `PROJECT.json` maps every definition that
stands for code to the lines it stands for, and lists the runs, the hazards the
properties are aimed at, the findings and the theorems.

## 1. Inventory

| Component | Source | State it keeps | Operations | Module |
|---|---|---|---|---|
| Client runtime | `lifecycle.go`, `registration.go`, `reliability.go` | lifecycle state (an atomic), `opMu`, the runtime context, the errors and done channels, the `Registration` record | `Start`, `Stop`, `Run`, `Register`, `Deregister`; the tasks `runRegistrar` and `runHeartbeat` | `ClientRuntime` |
| Discovery watch | `discovery/watch.go`, `internal/blocking` | wait index, previous and current state, what the consumer received, the events channel | the watch goroutine, `Events`, `Current`, `Close` | `DiscoveryWatch` |
| Load balancer | `balancer/*.go` | an immutable map of entries behind a pointer, atomics in each entry, `mu`, the janitor | `Next`, `ReportFailure`, `Close`, the janitor | `Balancer` |
| Configuration watch | `kvconfig/*.go` | one wait index per folder, the last tree, the current value, the changes channel | the folder watchers, the reload loop, `Changes`, `Current`, `Close` | `ConfigWatch` |
| Health registry and TTL reporting | `health/*.go`, `registration.go`, `reliability.go` | component states, the execution of each Checker in flight, draining, the wake-up token of the heartbeat | `Set`, `SetDraining`, `Ready`, the heartbeat | `HealthReporting` |
| Configuration sources and validation | `config.go`, `options.go`, `env.go`, `file.go` | the settings being built; slices and maps that the application may share | the arguments of `New` in order, defaults, `validate` | `Settings` |
| Endpoint resolution, service identity, agent detection | `endpoint.go`, `resolver.go`, `internal/netaddr`, `internal/serviceid`, `internal/compat`, `client.go`, `registration.go` | the generated ID, the cached version of the agent, the `Registration` record | one attempt of `register`, `Stop`, the loss of the service | `Registration` |
| KV loader and struct binding | `kvconfig/kvconfig.go`, `internal/bind`, `kv.go` | the merged tree, the destination struct | `Loader.LoadInto` | `ConfigTree` |
| Discovery queries | `discovery/discovery.go`, `discover.go` | slices and maps shared between queries | `Service`, `Tag`, `Meta`, `Filter`, `Passing`, `AnyStatus` | `Queries` |
| Rate limiter | `internal/blocking` | token bucket with a clock | `Limiter.Wait` | `Pacing` |
| Fake Consul server | `internal/fakeconsul` | services, maintenance, KV index, injected failures, the channel that announces a change | every handler that a test can wait for, and what a test injects | `FakeConsul` |
| Retry policy, errors, observability, redaction of secrets, integrations, examples | the rest | none that changes concurrently | | not modelled |

How they interact:

- `Start` launches the registrar and, for a TTL check, the heartbeat, and hands
  both the runtime context; `Stop` cancels it, joins both, deregisters and closes
  the channels. `Register` and `Deregister` may be called by the application at
  any time and share the `Registration` record with the tasks.
- The registry calls back into the client when a component is pushed; the
  callback leaves a token for the heartbeat. The registrar, the heartbeat and
  every HTTP probe run the same `Registry.Ready`, and share the executions of
  hung Checkers.
- The balancer owns one discovery watch per service in use. `Client.Stop` ends
  the balancer's context.
- Both kinds of watch speak to Consul with blocking queries and to the
  application through a channel that holds one value.
- `New` builds the configuration; the registrar and the KV loader go on with it and
  share nothing else. `ClientSetup` composes the three.
- The callers of a discovery client are paced by a limiter, ask with queries that
  were derived from each other, and block at the agent. `AgentSession` composes the
  three.

What is hard, and what makes each part correct:

- **Runtime.** Calls race: a Stop overtakes a Start, two Stops meet, the
  registrar changes the state in two steps without the lock. Requests are
  abandoned and may be applied later. Correct: the Client starts once and closes
  once; after `Done` nothing is left; nothing of this Client registers the
  service after its deregistration; Stopped is final; every call returns; a
  runtime that stays started registers again after any fault.
- **Watches.** A slow consumer must get differences against what it really
  received; a query must not sleep over a change; failures and indexes that go
  back must be repaired; `Close` waits for a goroutine that sends without a
  default case.
- **Balancer.** `Next` takes no lock; first calls, the janitor and `Close` race to
  add and remove watches. Correct: no watch is lost, `Close` ends all and returns,
  concurrent reports keep each other's ejections.
- **Configuration.** Several folders signal while a reload reads them one by one.
  Correct: no change is overlooked, a rejected state is reported once, the value
  converges.
- **Health.** A hung Checker must not pile up goroutines; an answer must not be
  older than its probe; a push must reach Consul without waiting for a tick; the
  TTL check must converge to the readiness whatever is lost.
- **Set-up.** Config values, files and With functions are mixed in any order, and
  every one may carry the application's slices and maps. Correct: the last setter
  wins, and nothing is shared.
- **Registration.** The network, the agent's version and the process change between
  two attempts, and answers are lost. Correct: one instance per process, the old
  place after a restart where the ID does not depend on the process, and no state
  that only a restart would mend.
- **Loading.** Folders override each other key by key, are written meanwhile, and a
  struct is loaded again. Correct: the last context that gives a value decides.
- **Queries, limiter, fake agent.** Queries derived from one base share memory; a
  waiting caller moves the clock of the bucket into the future; a blocking request
  may look and park around a change. Correct: a query asks for what was built, the
  rate is kept, nobody waits in vain.

`PROJECT.json` lists each hazard at the line where it bites, with the property
that would catch it or the reason why none does.

## 2. Modules

### ClientRuntime

One process per caller of `Start`, `Run`, `Stop` and `Register`/`Deregister` (`pc`),
one per task (`task`), and the agent. `opMu` is a variable: `Start` and `Stop` are
sequences of steps under it. `setState` is one step, as its atomic Swap is;
`setDegraded` and `setRunning` load and then swap, so each is two.

A request is in `call` from the moment it is sent until its caller receives an
answer or gives up. The two are separate from its being processed by the agent: a
caller that gives up moves the request to `stray`, and the agent may process it at
any later time, or never. The agent may refuse requests, stop (with or without
losing the service) and start, and reap a service, `MaxFaults` times in all.

The switches of the configuration that select a path (`autoRegister`, `failFast`,
`deregister`, a limited policy, a TTL check) are one variable that never changes,
so one run covers several configurations.

### DiscoveryWatch and ConflatedChannel

A state of the service maps each instance key to a version or to `Absent`; `Diff`
is the code's `diff`. The goroutine goes through query, answer, store, coalesce and
send, as in `Watch.run`; the wait index follows
`blocking.NextIndex` (1 for an index of 0, and 0 when the index goes down). Consul answers a blocking query when its index has
passed, or with the old state at the timeout; its index may go back by a snapshot
restore. `view` is history: what a consumer has that only applies the differences.

`ConflatedChannel` is the abstract promise: each delivery takes the consumer to the
latest published value.

### Balancer and WatchPool

Every atomic access of `Next` that another goroutine can tell apart is a step: the
lookup, the store of the last use, the select, the load of the snapshot, the two
stores of the grace period. The janitor reads the entries and swaps the map in two
steps under `mu`, and closes the watches outside it. `watch` is a discovery watch
reduced to its snapshot, Ready and Done; `status` is free until it is started.

The clock's unit is the janitor's period. A call reads it once (`call.now`), which
is what the two findings about it rest on. `emptied` is history, for one property.

`WatchPool` is the abstract promise, without callers, janitor, lock or clock: a service
is given at most one watch, the watch it is given runs until it is released or the
pool is shut, a watch never starts twice, and the pool is over after the last has ended.
The map is the pool, and the balancer's context is its end.

### ConfigWatch

A folder holds no keys or one of a few contents: valid, rejected by the validator,
or not decodable. A tree maps folders to contents; the folders contribute different
fields, so merged trees are equal exactly when trees are. Each folder watcher has
its own index; a signal is the token in `changed`; a reload reads the folders in
order, one per step, and a write may come between two reads. The tree is then
compared with the current and the last rejected one, as in `Watcher.run`. `told` and
`unseen` are history: the trees reported since the last write, and the folders whose
keys a reload read although their watcher never saw them.

### HealthReporting and SharedCall

A pushed component, a component with a Checker, and the callers of `Registry.Ready`:
HTTP probes, the heartbeat, the registrar. A call of the Checker runs, publishes its
result, and closes its done channel, as `runCheck` does; a probe joins
the call in flight or starts one, and ends with its result, its deadline or its own
cancellation. The listener leaves a token in `woken`; the heartbeat takes it,
probes, and updates the check if the service is registered. `owed` is history: a
state was pushed while registered and no report that could carry it has begun.
Calls that nobody refers to any more return to the pool, so a few numbers stand for
any number of executions.

`SharedCall` is the abstract promise to those who ask the Checker: one execution at a
time, which answers all who are waiting at once and nobody who comes later, and a report
that is as bad as the answer or worse, DOWN where there is none. A probe is waiting as
long as the execution it refers to is running.

### Settings, Registration, ConfigTree, and ClientSetup

`Settings` is `New` up to the validated configuration. The arguments are applied one
per step; a layer (a Config value, a With function that overlays one) sets what is
not zero, an assignment sets its field whatever the value is, a file is overlaid
by the environment first. Of fields that are treated alike one stands for all.
Slices and maps are references into `mem`, of which the application holds some: a
clone, a merged map or the write in place of `WithMetadata` is what it does there.

`Registration` is the content of an attempt that `ClientRuntime` leaves out: the
version is refreshed, the address is found, the ID is generated once, the definition
is checked against the cached version and sent. The agent of this module refuses
fields it does not know; answers are lost, the process crashes, the network and the
agent change, `MaxChanges` times in all. A step of the registrar that fails ends the
attempt: that it makes another is `ClientRuntime`'s.

`ConfigTree` is one `LoadInto` after another into the same struct: a folder is read
per step, with writes in between; it is decoded, merged and bound as `Decode`,
`Merge` and `BindField` say. A name is a pair of what `SameKey` compares and the
spelling, because `lookup` prefers the exact one.

`ClientSetup` runs `Settings`, then either of the others from the configuration that
came out. Registration and loading share nothing that changes, so a behaviour
goes on with one of them; at the hand-over the locals of `newSettings` are
dropped, as they are when `New` returns.

### FakeConsul, Pacing, Queries, and AgentSession

`FakeConsul` is the agent of the repository's tests, one step per locked section.
`notifyLocked` closes the channel that the parked requests hold, which is the flag
`changed` here. A test that injects failures sets the flag first and closes the
connections in a second step (`StartFailing`, `BreakConnections`); a handler that is
still at work on a closed connection has either finished or not begun.

`Pacing` counts in ticks what the code counts in floating-point tokens, so it is
exact. In the repository every watch has a limiter of its own; the module lets any
number of callers share one, which the comment of `Limiter` promises.

`Queries` gives every slice its array with the capacity that `append` leaves, so that
two queries derived from one base write into the same array where the code does not
clone.

`AgentSession` builds the queries, then lets the callers ask: each waits for the
limiter, sends, blocks and goes on from the index of the answer, beside a registrar
that watches its service by the hash of its definition. How a query was built no
longer matters when it is asked, so the two phases follow each other.

### RuntimeContract

What the lifecycle promises: it opens once, launches each goroutine at most once and
only while it is open, closes after all have returned, and never opens again.

### Definitions named "Variant of ..."

Some modules hold a second, mistaken version of an operation next to the right one:
a dropped check, a swapped order, a missing reset. No specification uses them. Each
replaces its original once to show that the property it belongs to detects the
mistake; `PROJECT.json` lists the pairs under "mutants".

## 3. Runs

Times and counts are of one small machine with two workers.

| Run | Bounds | States | Shows |
|---|---|---|---|
| `runtime` | one Run, one Stop, one user call, six configurations, one fault, an errors buffer of 1 | 340 k, 1.5 min | `QuietAfterDone`, `DeregistrationIsLast`, `StoppedIsTerminal`, `OnlyAbandonedRegistersAfterStop`; the contract is implemented; `CallsReturn`, `SelfHealing` |
| `runtime_override` | one Start, one Stop, the default configuration | violated | finding 1 |
| `runtime_orphan` | the same | violated | finding 2 |
| `watch` | 2 instances of 2 versions, 2 changes, one failure, one restore | 612 k, 40 s | `DiffsAddUp`, `WakesOnChange`; the abstract channel is implemented; `Converges`, `Closes` |
| `balancer` | 1 service, 2 instances, 2 callers, one Close, 2 watches, clock up to 2 | 1.5 M, 2 min | `NoWatchIsLost`, `ClosedIsQuiet`, `EjectionsSurvive`, `CloseFinishes` |
| `balancer_errclosed` | 1 caller, clock up to 3, idle timeout only | violated | finding 3 |
| `balancer_grace` | 1 caller, 1 watch, grace period only | violated | finding 4 |
| `config_watch` | 2 folders, 2 writes, one of them may empty a folder, one failed query, one failed read | 693 k, 50 s | `NothingOverlooked`, `ReportedOnce`, `Converges`, `Closes` |
| `config_lost_reload` | the same without failed queries and emptied folders | violated | finding 5 |
| `health_reporting` | one HTTP probe, heartbeat, registrar; UP and DOWN; one change, one fault | 267 k, 1 min | `OneExecution`, `PushIsReported`; the shared call is implemented; `ProbesEnd`, `CheckConverges` |
| `setup` | 3 environments, up to 3 of 12 arguments; 2 changes of the world; 2 loads and one write, 6 contents of a folder | 426 k, 1 min | `LastSetterWins`, `SharesNothing`, `OneInstance`, `FixedWithoutRestart`, `HighestContextWins` |
| `agent` | 5 calls on 2 queries; 2 callers (health, KV) and a registrar; burst of 1, 3 grants; one write, one fault | 4.2 M, 2.5 min | `NobodyWaitsInVain`, `Paced`, `AskedAsBuilt` |

Why the bounds are enough for the interesting cases:

- *Runtime.* A Run (which starts, and stops at the end) and a Stop are the smallest set
  with a Stop that waits for the mutex while another is inside, and with a Stop that
  comes first. One fault suffices to lose the service or an answer at any point,
  and one user call to disturb the registrar at any point. The errors buffer of 1
  is full after one error. `Manual`, `NoDeregister` and the rest take each branch
  once. A second Start and a third Stop add callers to the same lock; the proofs
  cover any number of them.
- *Discovery watch.* Two keys of two versions give added, changed and removed
  instances in one event; four index values let three changes be coalesced.
- *Balancer.* Two watches let a service be released and used again while the
  first watch is still ending. Two clock units are the idle timeout, so a call
  that began at 0 is idle at 2. Options are tried one at a time because idle
  release, grace and ejection do not read each other's fields; the instances are
  empty where only the life of watches matters.
- *Configuration.* Two folders are the smallest tree read in two steps; two
  writes and a failure let a write fall before, between and after the reads.
- *Health.* One HTTP probe besides the heartbeat and the registrar gives three
  concurrent callers; four numbers are one call for each and one that closes its
  channel, so a number is always free (`HealthAssumption`).
- *Set-up.* Three arguments are a value, one that overrides it and one that must not
  undo either; each kind of argument is among the twelve. Two changes of the world
  are a loss and what it coincides with: a restart on another network, an upgrade
  during an outage. The six contents of a folder override, misspell, contradict,
  convert wrongly and truncate; the two loads make the struct of the second not zero.
- *Agent.* Five calls derive a query from one whose array has spare capacity
  (which takes three) and once more from it and from its sibling. Two callers with a
  burst of 1 are the smallest set in which one finds the clock of the bucket in the
  future. One write and one fault meet at any step of three requests.

Deadlock is checked in the balancer's runs: `WatchPublishes`, new calls or the end
of the clock always leave a step. Elsewhere the system may really stop (a stopped
Client, a closed watch, a bound that is used up), and `CHECK_DEADLOCK` is off.

### Fairness

Each `FairSpec` assumes weak fairness of what the code's goroutines do by
themselves: the Go scheduler runs a goroutine that can run, a mutex is starvation
free for finitely many calls, every request has a deadline, a blocking query is
answered at its wait time at the latest, a cancelled watch ends, tickers tick, and a
Checker that does not hang returns. `ClientRuntime` assumes besides that an agent that
stopped is restarted, without which nothing can heal. The two watches assume that
the application receives from the channel while the watch is open, for `Converges`;
that `Closes` does not need a receiver is `ConfigWatch`'s run, where the fairness of
`Receive` ends with the cancellation, and the theorem `SendsAtOnce` for the
discovery watch. `ClientSetup` assumes weak fairness of the registrar's steps only, which
`ClientRuntime` justifies: its registrar retries for as long as the runtime is
started. Nothing is assumed of the application's calls: nothing makes it start,
stop, close, push, write or probe. `Converges`, `SelfHealing` and
`FixedWithoutRestart` are conditional: on a watch that stays open, on a runtime that is
not stopped and whose policy has no limit, on a world that comes to allow a
registration and goes on to.

`CheckConverges` and the other eventual properties say `<>[]`: because changes and
faults are bounded, they end, and what is asked is the state after the last one.

## 4. Findings

Each is a run that TLC finds violated; the property is a sentence of the
documentation or of a comment. `PROJECT.json` has the quotations.

1. `reliability.go:209` `setDegraded` and `setRunning` load the state and swap it
   later; a Stop in between is overwritten. `Stopped` is not affected
   (`StoppedIsTerminal`, proved): Stop joins the tasks before it writes it.
2. `lifecycle.go:231` A registration whose answer was lost leaves no ServiceID, and
   Stop skips the deregistration of a service that Consul has.
3. `balancer/balancer.go:350` A call that waits longer than the idle timeout is
   released twice, because its retry records the old time, and returns `ErrClosed`
   from an open balancer.
4. `balancer/balancer.go:227` The grace period counts from the beginning of the call
   that saw a list, so a list that became empty a moment ago may not be replaced.
5. `kvconfig/watch.go:172` A reload that fails is not tried again until the next
   write.

Met while modelling, without a run of their own:

- The keys of an empty folder that come, are read by a reload that another folder
  caused, and go again between two answers of the folder's watcher stay in the
  current value. `CameAndWent` names the case; the properties of `ConfigWatch` hold
  besides it.
- A reload during writes to two folders may publish a mixture for a moment; a
  folder that does not decode is reported again for every folder that signals.
- A push during a registration, or between the registration of `Start` and the
  moment the heartbeat listens, is repaired by the next tick only;
  `SetDraining` does not wake the heartbeat.
- A hung Checker whose timeout is longer than the request's uses up the deadline
  of the registration.
- The environment cannot turn off what a file turns on: `CONSULX_FAIL_FAST=false` looks
  like an unset variable to the overlay, although variables are said to win over the
  file (`file.go`, `README.md:966`). `Says` of `Settings` has the rule of the code. The
  documentation of `Config` puts the With functions above Config values; the code
  applies all arguments in their order, as that of `New` says.
- The comment of `mergeMap` says that its result never aliases its source: the slices
  that are the values of `Health.Header` are shared all the same, and `EffectiveConfig`
  shares the pointers it returns. A negative `DrainDelay` is refused by
  `WithDrainDelay` only, and a `MaxDelay` below 500 ms on its own by the validation.
- A token that may not read the agent (403) leaves the version of an earlier agent
  in the cache: the feature gate is then not permissive, as the comment in
  `registration.go` says. `FixedWithoutRestart` asks for a readable agent therefore.
- A generated `hostname-port` ID is the same after a restart only with a configured
  port; `OneInstance` says so.
- A key that two folders spell differently is found by the exact name or else by the
  smallest spelling, so the earlier folder may win; `HighestContextWins` is about keys
  that the folders spell alike. Zero-padded numbers as the keys of a slice lose
  values, and a null in a document panics when it is bound to an `any`.
- `Client.Balancer`, called for the first time after `closeServices`, returns a balancer that
  the Client never closes; its context has ended.

## 5. Proofs

The theorems hold for any number of callers, services, watches, folders, probes,
keys and versions, and for any bounds. They rest on the named assumptions only:

- `ClientRuntime`: the kinds of callers and the two tasks are different, the
  configurations are records of switches, the bounds are numbers.
- `DiscoveryWatch`: `Absent` is no version and `NoEvent` no event; bounds.
- `Balancer`: there is a service, the names of goroutines differ, `NoWatch` is no
  watch (`NamesAssumption`); the options have their types (`BoundsAssumption`).
- `ConfigWatch`: the initial tree is valid, `NoTree` is no tree, an empty folder is
  not a content (`ConfigAssumption`).
- `HealthReporting`: UP and DOWN are statuses, names differ, there are more call
  numbers than callers (`HealthAssumption`).
- `Pacing`: the interval and the burst are positive (`PacingAssumption`).
- `FakeConsul` and `AgentSession`: the bounds are numbers (`AgentAssumption`); the
  clients are the callers and a registrar that is none of them (`SessionAssumption`).
- `ClientSetup`: an option is of a known kind, a layer is a whole Config, an
  assignment is of plain fields or of the tags, and the application's references are
  not those of the Client (`SetupAssumption`);
  what says something of a field says it in the field's type, as Go has it
  (`SourcesAssumption`); the bounds are numbers (`BoundsAssumption`);
  paths have one or two names with numbered spellings, and only a section is behind a
  pointer (`TreeAssumption`). `TextsAssumption` says that the texts New sets of its own
  accord, seven string literals, are strings: true of TLA+, and unknown to the provers.

TLC evaluates each of them in the runs.

**ClientRuntime.** `TypeCorrect` (module `ClientRuntimeTypes`) is inductive alone.
`RuntimeInv` (`ClientRuntimeProofs`) is the invariant the rest follows from. Its parts
say that a call takes only the steps of its kind (`RoleInv`), that whoever is inside
Start or Stop holds `opMu` (`LockInv`), that a request is outstanding only where its
sender waits for it (`CallInv`), how far the runtime has got, seen from the state
(`StateInv`) and from the call inside (`StepInv`), and that the ServiceID is known
where the registrar uses it (`KnownInv`). `QuietAfterDone` alone is not inductive:
that all tasks have ended when a Stop closes the channels is known from the step
Stop is at, and that no second call is at such a step from the lock. From
`RuntimeInv`, `StartedOnce`, `DoneIsQuiet`, `DeregistersLast`, `StoppedForGood` and
`NoLateRegistration` follow; the last two are action properties. For
`StoppedForGood` the point is that the registrar's swap cannot follow `finish`, which
needs `TasksEnded` from `StepInv`. `ContractImplemented`
shows step by step that each action is a step of `RuntimeContract` or a stutter.

**DiscoveryWatch.** `ChannelInv` says that an unread event is the difference between
what the consumer has and the last state sent, and that the channel is empty when
the goroutine sends. With the lemma that applying `Diff(prev, cur)` to `prev` gives
`cur`, it yields `DiffsAddUpAlways`, `NeverBehind`, `SendsAtOnce` and
`ChannelImplemented`. `NeverSleepsOverChange` rests on `IndexInv`: as long as
the index has not gone back, what the goroutine knows is the catalog, or it waits
with an index that Consul's is beyond, or with none. `TypeCorrect` is inductive
alone.

**Balancer.** `SafetyInv` says that the janitor knows every running watch that left the
map (`NoWatchIsLost` with `JanitorInv`), and a Close every one that was left in it
(`CloseInv`). The second half is needed because a watch that the janitor is releasing
is not among those a Close collected: Close joins the janitor for it. From it,
`NothingLost` and `QuietAfterClose`. `EjectionsLast` rests on `ReportInv`: the time a
report has read is not in the future, it is about one instance, and a watch that was
not started has no ejections. `PoolImplemented` shows each step to be one of `WatchPool`
or a stutter. A watch must be out of the map before it is cancelled, and a number that
the janitor holds must not be started again; `PoolInv` says both, and with `CloseInv` a
Close that returns finds nothing running. `MapAlwaysLive` is drawn from the pool alone:
no step of it leaves a watch in the map of an open balancer that does not run.

**ConfigWatch.** `NothingOverlooked` is inductive together with the order of the indexes
(`IndexInv`) and with `EmptyInv`: a watcher that knows its folder empty keeps quiet
only about keys noted as unseen. `ChannelInvariance` and `ChannelImplemented`
are as for the discovery watch. `NeverReportedTwice` needs to know what a reload has
read: only the first to end after a write can mix folders of before and after, so a
second report between two writes is of the store itself, and the store, once
reported, stays the tree last rejected (`ReportInv`).

**HealthReporting.** `ExecutionInv` says that the execution in flight is exactly the one
that runs, and no number in use is given out again; `NoPileUp` and `FreshAnswers`
follow. `SharedCallImplemented` shows each step to be one of `SharedCall` or a stutter; it
needs besides that what a waiting probe refers to is not swept (`UseInv`), so that
its execution cannot be another one by the time the answer is read. `PushInv` keeps the
pending notification of the listener in the account of `PushIsReported`, and gives
`NoPushWaits`.

**AgentSession** (`AgentSessionProofs`). The three parts are proved one by one, and
`Parts` shows that a step of the composition is a step of each or leaves it alone;
`CompositionInv` joins their invariants (`SessionInvariance`).

- *Limiter.* `Paced` speaks of any two calls, and is not inductive: it forgets what the
  bucket holds. `Covered` adds it: what was let through from any call on, and the
  tokens left, are covered by the burst and the time up to the bucket's own clock,
  which may be ahead of the real one. `LimiterInvariance` proves it of the limiter
  alone, `AlwaysPaced` follows.
- *Agent.* `NobodyWaitsInVain` is nearly inductive: a request parks in the section in
  which it found nothing newer, and every change wakes the parked ones. It needs
  what a request may hold at each step (`RequestOK`), an outage that is being
  announced included. `NobodyEverWaitsInVain` and `TypeCorrect` follow.
- *Queries.* `AskedAsBuilt` is about what a query reads now. That a later call does not
  change it rests on `QueryInv`: the array that a query refers to holds exactly the
  tags that were asked for, its map the metadata, and its combined expression agrees
  with both. A call keeps this of every other query because `Tag` writes into a
  clone and `Meta` into a new map: what is referred to is never written again
  (`HoldsOn`). `AlwaysAsksAsBuilt` follows.

**ClientSetup** (`ClientSetupProofs`). Five invariants, one for each thing that is
promised; `AllInv` joins them.

- `SetupInv` is that of the registration. `OneInstance` forgets what the Client remembers
  (`generated`), what is on its way (`attempt`), and that no instance comes from
  a process that is yet to be started. With them, whatever the agent holds of this
  process goes by the ID that the next definition will have: `OnlyOneInstance`.
- `SettledInv` says that the Client reads through references of its own; each way to
  apply an argument keeps it (`OwnApplied`) and writes to nothing of the
  application's: `NothingShared`.
- `LayeredInv` says, while arguments are applied, that each plain field is as the last
  argument that speaks of it says, and that there is a last one if there is any;
  the step is that an argument which says something is then the last
  (`AppliedSays`), and defaults give way (`DefaultedGivesWay`): `LastSetterAlwaysWins`.
- `LoaderInv` says, while folders are read, that the merged tree is what the last folders
  say (`MergedOK`): an entry holds the last value of its own, or, for each name of the
  section, the last one that no later folder has replaced the section over. Merging
  one more folder keeps it (`MergedNext`), and binding a field that is spelled alike
  finds exactly that value (`BoundField`, `BoundInSection`): `HighestContextAlwaysWins`.
  That a last one exists is part of the invariant, since it cannot be had by
  induction.
- `TypesInv` adds the types that the others leave open, and `TypeCorrect` follows from all
  five. Three things are more than bookkeeping. Each way to apply an argument, and the
  defaults, keep every field in its type. The validation is what lets only the known
  ID strategies through to the registration. And the UUIDs drawn stay
  within the processes started, because a process draws one at most once (`DrawnOK`):
  that is `generated` again.

Proved only, for want of more to learn from a run: `StartedOnce`, `NeverBehind`,
`SendsAtOnce`, `FreshAnswers`, `PoolImplemented`, `MapAlwaysLive`, and `ChannelImplemented` of
`ConfigWatch`.

Only model-checked:

- the liveness properties (`CallsReturn`, `SelfHealing`, `Converges`, `Closes`, `CloseFinishes`,
  `ProbesEnd`, `CheckConverges`, `FixedWithoutRestart`): fairness and ENABLED are out of
  the prover's reach. Every other property that a passing run checks is proved.

## 6. Not modelled, and why

- Conversions inside set-up: parsing of durations, addresses and version strings,
  cleaning of names, the fields of a definition that nothing decides on. Of fields,
  options and methods that are treated alike one is modelled; the options that take
  an object and the HTTP and TLS options have no behaviour of their own.
- YAML and JSON documents, slices, maps and embedded structs in `bind`, and `ErrorUnused`.
- The conversion and the order of the answers of discovery queries, and Enterprise
  features.
- The delays of the retry policy: floating-point durations. The other modules let a
  delay take any time and a policy end at any attempt.
- Integrations, examples, redaction of secrets.
- Durations. A delay is the freedom of a step to come late; the balancer's
  timeouts are the exception, because its properties are about them.
- Metrics and logs. The gauge of the runtime state is set after the swap and may
  end on the wrong value; it is listed as a hazard.
- The `Errors` channel of `ConfigWatch`: `publishErr` never waits and nothing reads it.
- The order of round robin and weighted choice: `Pick` may take any available
  instance.
- The client's side of maintenance mode, components registered at run time, the
  liveness scope.
- The fake agent's description of itself and its records for assertions.

## 7. Plan

Done, in this order, by importance:

1. `ClientRuntime`, with `RuntimeContract`.
2. `DiscoveryWatch`, with `ConflatedChannel`.
3. `Balancer`.
4. `ConfigWatch`.
5. `HealthReporting`.
6. `Settings`, `Registration`, `ConfigTree`, composed by `ClientSetup`.
7. `FakeConsul`, `Pacing`, `Queries`, composed by `AgentSession`.
8. Proofs of `WakesOnChange` and of the types of `DiscoveryWatch`, of all properties of
   `AgentSession`, of the safety and the types of `ClientSetup`, and of `ReportedOnce`.
9. `SharedCall` and `WatchPool`, and the proofs that they are implemented.

Left, by what it would add:

10. `ErrorUnused`, documents and slices in `ConfigTree`; the conversion of instances.
11. `backoff.NextDelay` with its overflow, against a reference definition; round robin
    and the weighted picks (every instance in proportion).
12. The registration whose readiness probe uses up its request's deadline, by composing
    `HealthReporting` with the registrar; the discovery watch composed with the balancer
    instead of reduced to Ready and Done; the client of `DiscoveryWatch` at `FakeConsul`.
13. Maintenance mode and components that are added and removed at run time.
