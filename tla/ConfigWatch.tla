----------------------------- MODULE ConfigWatch -----------------------------
(***************************************************************************)
(* kvconfig.Watch: one goroutine per context folder follows the folder     *)
(* with blocking queries and raises a signal; the goroutine of Watcher.run *)
(* answers a signal by reading every folder again, and publishes the       *)
(* merged configuration when it is valid and new.                          *)
(*                                                                         *)
(* A folder holds no keys or one of the Contents.  The configuration tree  *)
(* maps each folder to what was read from it: the folders contribute       *)
(* different fields, so trees are equal exactly when the merged trees are. *)
(* The Errors channel is left out: publishErr never waits, and nothing in  *)
(* the package reads it.                                                   *)
(***************************************************************************)
EXTENDS Naturals

CONSTANTS
  NumFolders,         \* Loader.Contexts, in the order they are read
  Good,               \* contents every validator accepts
  Bad,                \* contents that bind, but that the validator rejects
  Garbled,            \* contents that decode refuses
  NoKeys,             \* the folder is empty
  NoTree,             \* no configuration
  First,              \* the tree of the initial load, in Watch
  Emptied,            \* the folders whose last key may be deleted
  MaxIndex,           \* bound: the Consul index
  MaxFailures,        \* bound: failed requests of the folder watchers
  MaxReloadFailures   \* bound: failed reads of a reload

Folders  == 1..NumFolders
Contents == Good \union Bad \union Garbled \union {NoKeys}
Trees    == [Folders -> Contents]
Valid    == [Folders -> Good \union {NoKeys}]

ASSUME ConfigAssumption ==
  /\ NumFolders \in Nat /\ Emptied \subseteq Folders
  /\ MaxIndex \in Nat \ {0} /\ MaxFailures \in Nat /\ MaxReloadFailures \in Nat
  /\ First \in Valid /\ NoTree \notin Trees
  /\ NoKeys \notin Good \union Bad \union Garbled

VARIABLES
  \* Consul
  store,          \* what each folder holds
  consulIndex,    \* the index of the last write of the store
  folderIndex,    \* the index of the last write of each folder
  \* watchPrefix, for each folder
  wstep,          \* where the folder watcher is
  windex,         \* its wait index
  hadKeys,        \* its last answer held keys
  failed,         \* its last request failed
  \* Watcher.run
  rstep,          \* where run is
  pos,            \* the folder it reads next
  tree,           \* what it has read
  old,            \* the value it is replacing
  rejectedTree,   \* the configuration last rejected
  reloadFailed,   \* the last reload could not read every folder
  \* shared
  changed,        \* a signal is in the changed channel
  current,        \* the value behind Current
  changes,        \* the changes channel
  cancelled,      \* the watch context is done
  \* the application, and what was done so far
  view,           \* the last value it received
  told,           \* the rejected trees reported since the store last changed
  unseen,         \* folders read with keys while their watcher knew them empty
  failures, reloadFailures

consulVars  == <<store, consulIndex, folderIndex>>
watcherVars == <<wstep, windex, hadKeys, failed, failures>>
runVars     == <<rstep, pos, tree, old, rejectedTree, reloadFailed, current,
                 reloadFailures>>

vars == <<consulVars, watcherVars, runVars, changed, changes, cancelled, view, told, unseen>>

\* run starts when the initial load has succeeded.
Init ==
  /\ store = First
  /\ consulIndex = 1
  /\ folderIndex = [f \in Folders |-> 1]
  /\ wstep = [f \in Folders |-> "querying"]
  /\ windex = [f \in Folders |-> 0]
  /\ hadKeys = [f \in Folders |-> FALSE]
  /\ failed = [f \in Folders |-> FALSE]
  /\ rstep = "waiting"
  /\ pos = 1
  /\ tree = First
  /\ old = First
  /\ rejectedTree = NoTree
  /\ reloadFailed = FALSE
  /\ changed = FALSE
  /\ current = First
  /\ changes = NoTree
  /\ cancelled = FALSE
  /\ view = First
  /\ told = {}
  /\ unseen = {}
  /\ failures = 0
  /\ reloadFailures = 0

-----------------------------------------------------------------------------
(***************************************************************************)
(* Consul.  A folder without keys has no index of its own: its queries are *)
(* answered with the index of the whole store.                             *)
(***************************************************************************)

AnswerIndex(f) == IF store[f] = NoKeys THEN consulIndex ELSE folderIndex[f]

Write(f) ==
  /\ consulIndex < MaxIndex
  /\ consulIndex' = consulIndex + 1
  /\ folderIndex' = [folderIndex EXCEPT ![f] = consulIndex + 1]
  /\ \E c \in Contents \ {store[f]} :
       /\ c = NoKeys => f \in Emptied
       /\ store' = [store EXCEPT ![f] = c]
  /\ told' = {}
  /\ UNCHANGED <<watcherVars, runVars, changed, changes, cancelled, view, unseen>>

-----------------------------------------------------------------------------
(***************************************************************************)
(* watchPrefix.                                                            *)
(***************************************************************************)

\* Variant of NextIndex that waits for the index after the next.
NextIndexPast(prev, got) == got + 1

\* blocking.NextIndex
NextIndex(prev, got) ==
  IF got < prev THEN 0 ELSE IF got = 0 THEN 1 ELSE got

\* Variant of Signals without the signal for the first answer and after a failure.
SignalsOnNews(f, next) == next # windex[f] /\ (store[f] # NoKeys \/ hadKeys[f])

\* Variant of Signals that ignores that a folder has lost its keys.
SignalsOnKeys(f, next) ==
  windex[f] = 0 \/ failed[f] \/ (next # windex[f] /\ store[f] # NoKeys)

\* The first answer and one after a failure always signal; an empty folder
\* that was empty before does not.
Signals(f, next) ==
  \/ windex[f] = 0
  \/ failed[f]
  \/ next # windex[f] /\ (store[f] # NoKeys \/ hadKeys[f])

\* Consul answers at once when its index is past the wait index, and otherwise
\* after WaitTime at the latest.  The limiter delays the request, no more.
Answer(f) ==
  /\ wstep[f] = "querying"
  /\ ~cancelled
  /\ LET next == NextIndex(windex[f], AnswerIndex(f)) IN
       /\ changed' = (changed \/ Signals(f, next))
       /\ windex' = [windex EXCEPT ![f] = next]
  /\ hadKeys' = [hadKeys EXCEPT ![f] = store[f] # NoKeys]
  /\ failed' = [failed EXCEPT ![f] = FALSE]
  /\ UNCHANGED <<consulVars, wstep, failures, runVars, changes, cancelled, view, told,
                 unseen>>

\* The error is reported; the watcher backs off.
RequestFails(f) ==
  /\ wstep[f] = "querying"
  /\ ~cancelled
  /\ failures < MaxFailures
  /\ failures' = failures + 1
  /\ failed' = [failed EXCEPT ![f] = TRUE]
  /\ wstep' = [wstep EXCEPT ![f] = "backoff"]
  /\ UNCHANGED <<consulVars, windex, hadKeys, runVars, changed, changes, cancelled,
                 view, told, unseen>>

Resync(f) ==
  /\ wstep[f] = "backoff"
  /\ ~cancelled
  /\ windex' = [windex EXCEPT ![f] = 0]
  /\ wstep' = [wstep EXCEPT ![f] = "querying"]
  /\ UNCHANGED <<consulVars, hadKeys, failed, failures, runVars, changed, changes,
                 cancelled, view, told, unseen>>

\* The places where a folder watcher looks at its context.
WatcherExits(f) ==
  /\ wstep[f] # "stopped"
  /\ cancelled
  /\ wstep' = [wstep EXCEPT ![f] = "stopped"]
  /\ UNCHANGED <<consulVars, windex, hadKeys, failed, failures, runVars, changed,
                 changes, cancelled, view, told, unseen>>

-----------------------------------------------------------------------------
(***************************************************************************)
(* Watcher.run.                                                            *)
(***************************************************************************)

Wake ==
  /\ rstep = "waiting"
  /\ changed
  /\ changed' = FALSE
  /\ rstep' = "coalesce"
  /\ UNCHANGED <<consulVars, watcherVars, pos, tree, old, rejectedTree, reloadFailed,
                 current, reloadFailures, changes, cancelled, view, told, unseen>>

\* The signals raised meanwhile describe states that the reload reads in full.
Coalesce ==
  /\ rstep = "coalesce"
  /\ changed' = FALSE
  /\ pos' = 1
  /\ reloadFailed' = FALSE
  /\ rstep' = "reading"
  /\ UNCHANGED <<consulVars, watcherVars, tree, old, rejectedTree, current,
                 reloadFailures, changes, cancelled, view, told, unseen>>

\* The history of ReadFolder: keys are read that the folder's watcher has not
\* seen, and it knows the folder as empty.
ReadUnseen(f) == store[f] # NoKeys /\ windex[f] # 0 /\ ~hadKeys[f]

\* Variant of ReadFolder: the signals are drained once the reload has read all.
ReadFolderThenCoalesce ==
  /\ rstep = "reading"
  /\ pos <= NumFolders
  /\ store[pos] \notin Garbled
  /\ tree' = [tree EXCEPT ![pos] = store[pos]]
  /\ pos' = pos + 1
  /\ changed' = (changed /\ pos # NumFolders)
  /\ unseen' = IF ReadUnseen(pos) THEN unseen \union {pos} ELSE unseen \ {pos}
  /\ UNCHANGED <<consulVars, watcherVars, rstep, old, rejectedTree, reloadFailed,
                 current, reloadFailures, changes, cancelled, view, told>>

\* Loader.load: one request per folder, and the first failure ends it.
ReadFolder ==
  /\ rstep = "reading"
  /\ pos <= NumFolders
  /\ store[pos] \notin Garbled
  /\ tree' = [tree EXCEPT ![pos] = store[pos]]
  /\ pos' = pos + 1
  /\ unseen' = IF ReadUnseen(pos) THEN unseen \union {pos} ELSE unseen \ {pos}
  /\ UNCHANGED <<consulVars, watcherVars, rstep, old, rejectedTree, reloadFailed,
                 current, reloadFailures, changed, changes, cancelled, view, told>>

\* The request fails, or the folder does not decode: there is no tree.
ReadFails ==
  /\ rstep = "reading"
  /\ pos <= NumFolders
  /\ \/ /\ store[pos] \in Garbled
        /\ UNCHANGED reloadFailures
     \/ /\ reloadFailures < MaxReloadFailures
        /\ reloadFailures' = reloadFailures + 1
  /\ reloadFailed' = TRUE
  /\ rstep' = "failed"
  /\ UNCHANGED <<consulVars, watcherVars, pos, tree, old, rejectedTree, current,
                 changed, changes, cancelled, view, told, unseen>>

\* The previous value stays; the next signal reloads.
ReportFailure ==
  /\ rstep = "failed"
  /\ ~cancelled
  /\ rstep' = "waiting"
  /\ UNCHANGED <<consulVars, watcherVars, pos, tree, old, rejectedTree, reloadFailed,
                 current, reloadFailures, changed, changes, cancelled, view, told,
                 unseen>>

\* Everything was read.
Built == rstep = "reading" /\ pos > NumFolders /\ ~cancelled

\* Variant of Reject that reports what it has reported already.
RejectAlways ==
  /\ Built
  /\ tree \notin Valid
  /\ rejectedTree' = tree
  /\ told' = told \union {tree}
  /\ rstep' = "waiting"
  /\ UNCHANGED <<consulVars, watcherVars, pos, tree, old, reloadFailed, current,
                 reloadFailures, changed, changes, cancelled, view, unseen>>

\* An invalid configuration is reported, unless it is the one last rejected.
Reject ==
  /\ Built
  /\ tree \notin Valid
  /\ tree # rejectedTree
  /\ rejectedTree' = tree
  /\ told' = told \union {tree}
  /\ rstep' = "waiting"
  /\ UNCHANGED <<consulVars, watcherVars, pos, tree, old, reloadFailed, current,
                 reloadFailures, changed, changes, cancelled, view, unseen>>

RejectAgain ==
  /\ Built
  /\ tree \notin Valid
  /\ tree = rejectedTree
  /\ rstep' = "waiting"
  /\ UNCHANGED <<consulVars, watcherVars, pos, tree, old, rejectedTree, reloadFailed,
                 current, reloadFailures, changed, changes, cancelled, view, told,
                 unseen>>

AcceptSame ==
  /\ Built
  /\ tree \in Valid
  /\ tree = current
  /\ rejectedTree' = NoTree
  /\ rstep' = "waiting"
  /\ UNCHANGED <<consulVars, watcherVars, pos, tree, old, reloadFailed, current,
                 reloadFailures, changed, changes, cancelled, view, told, unseen>>

\* A valid new value becomes the current one.
Accept ==
  /\ Built
  /\ tree \in Valid
  /\ tree # current
  /\ rejectedTree' = NoTree
  /\ old' = current
  /\ current' = tree
  /\ rstep' = "take"
  /\ UNCHANGED <<consulVars, watcherVars, pos, tree, reloadFailed, reloadFailures,
                 changed, changes, cancelled, view, told, unseen>>

\* Variant of Take that leaves the unread value in the channel.
TakeNothing ==
  /\ rstep = "take"
  /\ rstep' = "send"
  /\ UNCHANGED <<consulVars, watcherVars, pos, tree, old, rejectedTree, reloadFailed,
                 current, reloadFailures, changed, changes, cancelled, view, told,
                 unseen>>

\* The unread value is taken back.
Take ==
  /\ rstep = "take"
  /\ changes' = NoTree
  /\ rstep' = "send"
  /\ UNCHANGED <<consulVars, watcherVars, pos, tree, old, rejectedTree, reloadFailed,
                 current, reloadFailures, changed, cancelled, view, told, unseen>>

\* The send waits for room in the channel; then OnChange is called.
Send ==
  /\ rstep = "send"
  /\ changes = NoTree
  /\ changes' = current
  /\ rstep' = "waiting"
  /\ UNCHANGED <<consulVars, watcherVars, pos, tree, old, rejectedTree, reloadFailed,
                 current, reloadFailures, changed, cancelled, view, told, unseen>>

\* run looks at its context while it waits for a signal, and after a reload.
RunExits ==
  /\ rstep \in {"waiting", "failed"} \/ (rstep = "reading" /\ pos > NumFolders)
  /\ cancelled
  /\ rstep' = "draining"
  /\ UNCHANGED <<consulVars, watcherVars, pos, tree, old, rejectedTree, reloadFailed,
                 current, reloadFailures, changed, changes, cancelled, view, told,
                 unseen>>

\* The channels are closed when every folder watcher has returned.
CloseChannels ==
  /\ rstep = "draining"
  /\ \A f \in Folders : wstep[f] = "stopped"
  /\ rstep' = "closed"
  /\ UNCHANGED <<consulVars, watcherVars, pos, tree, old, rejectedTree, reloadFailed,
                 current, reloadFailures, changed, changes, cancelled, view, told,
                 unseen>>

-----------------------------------------------------------------------------
(***************************************************************************)
(* The application.                                                        *)
(***************************************************************************)

Receive ==
  /\ changes # NoTree
  /\ view' = changes
  /\ changes' = NoTree
  /\ UNCHANGED <<consulVars, watcherVars, runVars, changed, cancelled, told, unseen>>

\* Close, or the end of the context given to Watch.
Cancel ==
  /\ ~cancelled
  /\ cancelled' = TRUE
  /\ UNCHANGED <<consulVars, watcherVars, runVars, changed, changes, view, told,
                 unseen>>

-----------------------------------------------------------------------------

WatcherStep(f) == Answer(f) \/ RequestFails(f) \/ Resync(f) \/ WatcherExits(f)

RunStep ==
  \/ Wake \/ Coalesce \/ ReadFolder \/ ReadFails \/ ReportFailure
  \/ Reject \/ RejectAgain \/ AcceptSame \/ Accept \/ Take \/ Send
  \/ RunExits \/ CloseChannels

Next ==
  \/ \E f \in Folders : Write(f) \/ WatcherStep(f)
  \/ RunStep
  \/ Receive \/ Cancel

Spec == Init /\ [][Next]_vars

(***************************************************************************)
(* Fairness: the goroutines run, Consul answers every blocking query after *)
(* WaitTime at the latest, and the application receives the values while   *)
(* the watch is open.  Nothing makes it close the watch, or empty the      *)
(* channel of a watch it has closed.                                       *)
(***************************************************************************)
FairSpec ==
  /\ Spec
  /\ \A f \in Folders : WF_vars(WatcherStep(f))
  /\ WF_vars(RunStep)
  /\ WF_vars(~cancelled /\ Receive)

-----------------------------------------------------------------------------
(***************************************************************************)
(* Properties.                                                             *)
(***************************************************************************)

\* Type correctness of every variable, within the named bounds.
TypeOK ==
  /\ store \in Trees
  /\ consulIndex \in 1..MaxIndex
  /\ folderIndex \in [Folders -> 1..MaxIndex]
  /\ wstep \in [Folders -> {"querying", "backoff", "stopped"}]
  /\ windex \in [Folders -> 0..MaxIndex]
  /\ hadKeys \in [Folders -> BOOLEAN]
  /\ failed \in [Folders -> BOOLEAN]
  /\ rstep \in {"waiting", "coalesce", "reading", "failed", "take", "send", "draining",
                "closed"}
  /\ pos \in 1..(NumFolders + 1)
  /\ tree \in Trees
  /\ {old, current, view} \subseteq Valid
  /\ rejectedTree \in Trees \union {NoTree}
  /\ changes \in Valid \union {NoTree}
  /\ {reloadFailed, changed, cancelled} \subseteq BOOLEAN
  /\ told \subseteq Trees
  /\ unseen \subseteq Folders
  /\ failures \in 0..MaxFailures
  /\ reloadFailures \in 0..MaxReloadFailures

\* The folder's watcher will signal before it sleeps: the folder was written
\* after the answer it waits behind, or it starts from scratch.
WillSignal(f) == windex[f] < AnswerIndex(f) \/ failed[f]

\* run is going to read the folder, or to start over.
WillRead(f) ==
  changed \/ rstep = "coalesce" \/ (rstep = "reading" /\ pos <= f)

\* What was read from the folder stays wrong without anyone noticing: its keys
\* came, were read by a reload, and went again, all between two answers of its
\* watcher, to which the folder was empty before and after.
CameAndWent(f) == store[f] = NoKeys /\ f \in unseen

\* A change of a folder is never overlooked, whichever way the signals of
\* several folders fall together: what the last complete reload read is what the
\* folder holds, or a reload is coming (but for keys that came and went).
NothingOverlooked ==
  \A f \in Folders :
    ~reloadFailed /\ ~CameAndWent(f)
      => tree[f] = store[f] \/ WillSignal(f) \/ WillRead(f)

\* A rejected configuration is reported once: no two reports between two
\* writes are of the same tree, however many folders signal.
ReportedOnce == [][Reject => tree \notin told]_vars

\* What the consumer of Changes gets is the latest value, whatever it missed:
\* the changes channel is a conflated channel.
Latest == IF rstep \in {"take", "send"} THEN old ELSE current

Channel == INSTANCE ConflatedChannel
  WITH Values <- Valid, Nothing <- First, latest <- Latest

\* The changes channel implements the conflated channel.
ImplementsChannel == Channel!ChannelSpec

\* A reload is coming or under way.
Reloading == changed \/ rstep \notin {"waiting", "draining", "closed"}

\* While the watch is open, the value converges to what Consul holds, and a
\* consumer that listens to the value, unless the last reload failed or was
\* rejected (or keys came and went).
Converges ==
  <>[]~cancelled =>
    <>[](\/ reloadFailed
         \/ /\ view = current
            /\ tree \in Valid => current = tree
            /\ \A f \in Folders : tree[f] = store[f] \/ CameAndWent(f))

\* Close waits for the goroutines: they always end.
Closes == cancelled ~> rstep = "closed"

\* Every folder watcher is waiting for a change, and no reload is due.
AtRest ==
  /\ ~cancelled
  /\ \A f \in Folders : wstep[f] = "querying" /\ ~WillSignal(f)
  /\ ~Reloading

\* At rest the current value is what Consul holds, if that is valid: the
\* watcher keeps its value up to date.
UpToDateAtRest == AtRest /\ store \in Valid => current = store

\* The inductive invariant behind ImplementsChannel: what the channel holds is
\* the latest value sent, and an empty channel means it was received.
ChannelInv ==
  /\ changes # NoTree => changes = Latest
  /\ changes = NoTree /\ rstep # "send" => view = Latest
  /\ rstep = "send" => changes = NoTree

=============================================================================
