-------------------------- MODULE ConfigWatchProofs --------------------------
(***************************************************************************)
(* A configuration watch overlooks no change, and its changes channel is a *)
(* conflated channel, for any number of folders and any contents.          *)
(***************************************************************************)
EXTENDS ConfigWatch, TLAPS

\* The indexes are in the order in which Consul gave them out.
IndexInv ==
  \A f \in Folders :
    /\ folderIndex[f] <= consulIndex
    /\ windex[f] <= AnswerIndex(f)
    /\ hadKeys[f] /\ windex[f] # 0 /\ store[f] = NoKeys => windex[f] < consulIndex

\* A watcher that knows its folder empty does not signal while it stays so: what
\* was read from the folder is nothing, or is noted as unseen.
EmptyInv ==
  \A f \in Folders :
    windex[f] # 0 /\ ~failed[f] /\ ~hadKeys[f] /\ ~reloadFailed
      => tree[f] = NoKeys \/ f \in unseen \/ WillRead(f)

ConfigInv == TypeOK /\ IndexInv /\ EmptyInv /\ NothingOverlooked

\* A tree of valid contents is a tree.
LEMMA ValidTrees == Valid \subseteq Trees
  BY DEF Valid, Trees, Contents

\* What a watcher waits for is within the bounds.
LEMMA NextIndexTyped ==
  ASSUME NEW prev \in 0..MaxIndex, NEW got \in 1..MaxIndex
  PROVE  /\ NextIndex(prev, got) \in 0..MaxIndex
         /\ prev <= got => NextIndex(prev, got) = got
  BY ConfigAssumption DEF NextIndex

\* Consul answers with an index it has given out.
LEMMA AnswerIndexTyped ==
  ASSUME TypeOK, NEW f \in Folders
  PROVE  AnswerIndex(f) \in 1..MaxIndex
  BY DEF TypeOK, AnswerIndex

\* The watch starts typed,
LEMMA TypeInit == Init => TypeOK
<1>. SUFFICES ASSUME Init PROVE TypeOK
  OBVIOUS
<1>1. First \in Valid /\ First \in Trees
  BY ConfigAssumption, ValidTrees
<1>2. /\ 1 \in 1..MaxIndex /\ 0 \in 0..MaxIndex /\ 1 \in 1..(NumFolders + 1)
      /\ 0 \in 0..MaxFailures /\ 0 \in 0..MaxReloadFailures
  BY ConfigAssumption
<1>. QED  BY <1>1, <1>2 DEF Init, TypeOK

\* and every step keeps the types.
LEMMA TypeStep == TypeOK /\ [Next]_vars => TypeOK'
<1>. SUFFICES ASSUME TypeOK, [Next]_vars PROVE TypeOK'
  OBVIOUS
<1>. USE DEF TypeOK
<1>1. ASSUME NEW f \in Folders, Write(f)
      PROVE  TypeOK'
  <2>1. consulIndex + 1 \in 1..MaxIndex
    BY <1>1, ConfigAssumption DEF Write
  <2>2. PICK c \in Contents : store' = [store EXCEPT ![f] = c]
    BY <1>1 DEF Write
  <2>3. store' \in Trees
    BY <2>2 DEF Trees
  <2>. QED  BY <1>1, <2>1, <2>3 DEF Write, watcherVars, runVars
<1>2. ASSUME NEW f \in Folders, Answer(f)
      PROVE  TypeOK'
  <2>1. AnswerIndex(f) \in 1..MaxIndex
    BY <1>2, AnswerIndexTyped
  <2>2. NextIndex(windex[f], AnswerIndex(f)) \in 0..MaxIndex
    BY <1>2, <2>1, NextIndexTyped
  <2>3. (changed \/ Signals(f, NextIndex(windex[f], AnswerIndex(f)))) \in BOOLEAN
    BY DEF Signals
  <2>. QED  BY <1>2, <2>2, <2>3 DEF Answer, consulVars, runVars
<1>3. ASSUME NEW f \in Folders, RequestFails(f) \/ Resync(f) \/ WatcherExits(f)
      PROVE  TypeOK'
  <2>1. 0 \in 0..MaxIndex
    BY ConfigAssumption
  <2>2. CASE RequestFails(f)
    <3>1. failures + 1 \in 0..MaxFailures
      BY <2>2, ConfigAssumption DEF RequestFails
    <3>. QED  BY <2>2, <3>1 DEF RequestFails, consulVars, runVars
  <2>3. CASE Resync(f)
    BY <2>1, <2>3 DEF Resync, consulVars, runVars
  <2>4. CASE WatcherExits(f)
    BY <2>4 DEF WatcherExits, consulVars, runVars
  <2>. QED  BY <1>3, <2>2, <2>3, <2>4
<1>4. CASE Wake \/ Coalesce \/ ReportFailure \/ RunExits \/ CloseChannels
  <2>1. 1 \in 1..(NumFolders + 1)
    BY ConfigAssumption
  <2>2. CASE Wake
    BY <2>2 DEF Wake, consulVars, watcherVars
  <2>3. CASE Coalesce
    BY <2>1, <2>3 DEF Coalesce, consulVars, watcherVars
  <2>4. CASE ReportFailure \/ RunExits \/ CloseChannels
    BY <2>4 DEF ReportFailure, RunExits, CloseChannels, consulVars, watcherVars
  <2>. QED  BY <1>4, <2>2, <2>3, <2>4
<1>5. CASE ReadFolder
  <2>1. pos \in Folders /\ pos + 1 \in 1..(NumFolders + 1)
    BY <1>5, ConfigAssumption DEF ReadFolder, Folders
  <2>2. tree' \in Trees
    BY <1>5, <2>1 DEF ReadFolder, Trees
  <2>. QED  BY <1>5, <2>1, <2>2 DEF ReadFolder, consulVars, watcherVars
<1>6. CASE ReadFails
  BY <1>6, ConfigAssumption DEF ReadFails, consulVars, watcherVars
<1>7. CASE Reject \/ RejectAgain \/ AcceptSame
  BY <1>7 DEF Reject, RejectAgain, AcceptSame, consulVars, watcherVars
<1>8. CASE Accept
  BY <1>8 DEF Accept, consulVars, watcherVars
<1>9. CASE Take \/ Send
  BY <1>9 DEF Take, Send, consulVars, watcherVars
<1>10. CASE Receive \/ Cancel \/ UNCHANGED vars
  BY <1>10 DEF Receive, Cancel, vars, consulVars, watcherVars, runVars
<1>. QED
  BY <1>1, <1>2, <1>3, <1>4, <1>5, <1>6, <1>7, <1>8, <1>9, <1>10
  DEF Next, WatcherStep, RunStep

\* Every variable keeps its type.
THEOREM TypeCorrect == Spec => []TypeOK
  BY TypeInit, TypeStep, PTL DEF Spec

-----------------------------------------------------------------------------

\* Nothing has been overlooked when the watch starts.
LEMMA ConfigInit == Init => ConfigInv
<1>. SUFFICES ASSUME Init PROVE ConfigInv
  OBVIOUS
<1>1. IndexInv /\ EmptyInv /\ NothingOverlooked
  BY DEF Init, IndexInv, EmptyInv, NothingOverlooked, AnswerIndex
<1>. QED  BY <1>1, TypeInit DEF ConfigInv

\* The steps of run that neither read nor forget a signal.
Publishes ==
  Reject \/ RejectAgain \/ AcceptSame \/ Accept \/ Take \/ Send \/ ReportFailure

\* Every step keeps the indexes in order,
LEMMA IndexStep ==
  ASSUME TypeOK, IndexInv, [Next]_vars
  PROVE  IndexInv'
<1>1. ASSUME NEW f \in Folders, Write(f)
      PROVE  IndexInv'
  <2>1. /\ folderIndex' = [folderIndex EXCEPT ![f] = consulIndex + 1]
        /\ consulIndex' = consulIndex + 1
        /\ \A g \in Folders \ {f} : store'[g] = store[g]
        /\ windex' = windex /\ hadKeys' = hadKeys
    BY <1>1 DEF Write, watcherVars, TypeOK, Trees
  <2>2. \A g \in Folders : windex[g] <= consulIndex
    BY DEF IndexInv, AnswerIndex, TypeOK
  <2>. QED  BY <2>1, <2>2 DEF IndexInv, AnswerIndex, TypeOK
<1>2. ASSUME NEW f \in Folders, Answer(f)
      PROVE  IndexInv'
  <2>1. windex' = [windex EXCEPT ![f] = AnswerIndex(f)]
    BY <1>2, AnswerIndexTyped, NextIndexTyped DEF Answer, IndexInv, TypeOK
  <2>. QED  BY <1>2, <2>1 DEF Answer, consulVars, IndexInv, AnswerIndex, TypeOK
<1>3. ASSUME NEW f \in Folders, Resync(f)
      PROVE  IndexInv'
  BY <1>3, AnswerIndexTyped DEF Resync, consulVars, IndexInv, AnswerIndex, TypeOK
<1>4. ASSUME NEW f \in Folders, RequestFails(f) \/ WatcherExits(f)
      PROVE  IndexInv'
  BY <1>4 DEF RequestFails, WatcherExits, consulVars, IndexInv, AnswerIndex
<1>5. CASE RunStep
  BY <1>5 DEF RunStep, Wake, Coalesce, ReadFolder, ReadFails, ReportFailure, Reject,
     RejectAgain, AcceptSame, Accept, Take, Send, RunExits, CloseChannels, consulVars,
     watcherVars, IndexInv, AnswerIndex
<1>6. CASE Receive \/ Cancel \/ UNCHANGED vars
  BY <1>6 DEF Receive, Cancel, vars, consulVars, watcherVars, IndexInv, AnswerIndex
<1>. QED
  BY <1>1, <1>2, <1>3, <1>4, <1>5, <1>6 DEF Next, WatcherStep

\* and overlooks nothing.
LEMMA ConfigStep ==
  ASSUME ConfigInv, [Next]_vars
  PROVE  ConfigInv'
<1>. USE DEF ConfigInv
<1>1. TypeOK' /\ IndexInv'
  BY TypeStep, IndexStep
<1>2. ASSUME NEW f \in Folders, Write(f)
      PROVE  EmptyInv' /\ NothingOverlooked'
  <2>1. /\ folderIndex' = [folderIndex EXCEPT ![f] = consulIndex + 1]
        /\ consulIndex' = consulIndex + 1
        /\ \A g \in Folders \ {f} : store'[g] = store[g]
    BY <1>2 DEF Write, TypeOK, Trees
  <2>2. \A g \in Folders : windex[g] <= consulIndex /\ AnswerIndex(g)' >= AnswerIndex(g)
    BY <2>1 DEF IndexInv, AnswerIndex, TypeOK
  <2>3. windex[f] < AnswerIndex(f)'
    BY <2>1, <2>2 DEF AnswerIndex, TypeOK
  <2>4. \A g \in Folders : WillSignal(g) => WillSignal(g)'
    BY <1>2, <2>2, <1>1, AnswerIndexTyped
    DEF WillSignal, Write, watcherVars, TypeOK, AnswerIndex
  <2>5. WillSignal(f)'
    BY <1>2, <2>3 DEF WillSignal, Write, watcherVars
  <2>6. EmptyInv'
    BY <1>2 DEF EmptyInv, WillRead, Write, watcherVars, runVars
  <2>7. ASSUME NEW g \in Folders \ {f}, ~reloadFailed', ~CameAndWent(g)'
        PROVE  tree'[g] = store'[g] \/ WillSignal(g)' \/ WillRead(g)'
    <3>1. store'[g] = store[g]
      BY <2>1
    <3>2. ~CameAndWent(g)
      BY <1>2, <2>7, <3>1 DEF CameAndWent, Write
    <3>3. tree[g] = store[g] \/ WillSignal(g) \/ WillRead(g)
      BY <1>2, <2>7, <3>2 DEF NothingOverlooked, Write, runVars
    <3>. QED  BY <1>2, <2>4, <3>1, <3>3 DEF WillRead, Write, runVars
  <2>8. NothingOverlooked'
    BY <2>5, <2>7 DEF NothingOverlooked
  <2>. QED  BY <2>6, <2>8
<1>3. ASSUME NEW f \in Folders, Answer(f)
      PROVE  EmptyInv' /\ NothingOverlooked'
  <2>1. NextIndex(windex[f], AnswerIndex(f)) = AnswerIndex(f)
    BY AnswerIndexTyped, NextIndexTyped DEF IndexInv, TypeOK
  <2>2. /\ windex' = [windex EXCEPT ![f] = AnswerIndex(f)]
        /\ hadKeys' = [hadKeys EXCEPT ![f] = store[f] # NoKeys]
        /\ failed' = [failed EXCEPT ![f] = FALSE]
        /\ changed' = (changed \/ Signals(f, AnswerIndex(f)))
    BY <1>3, <2>1 DEF Answer
  <2>3. UNCHANGED <<store, consulIndex, folderIndex, tree, unseen, rstep, pos, reloadFailed>>
    BY <1>3 DEF Answer, consulVars, runVars
  <2>4. CASE changed'
    BY <2>4 DEF EmptyInv, NothingOverlooked, WillRead
  <2>5. CASE ~changed'
    <3>1. windex[f] # 0 /\ ~failed[f] /\ ~changed
      BY <2>2, <2>5 DEF Signals
    <3>2. AnswerIndex(f) = windex[f] \/ (store[f] = NoKeys /\ ~hadKeys[f])
      BY <2>2, <2>5 DEF Signals
    <3>3. store[f] = NoKeys => ~hadKeys[f]
      BY <3>1, <3>2 DEF IndexInv, AnswerIndex, TypeOK
    <3>4. \A g \in Folders : WillRead(g)' <=> WillRead(g)
      BY <2>3, <2>5, <3>1 DEF WillRead
    <3>5. store[f] = NoKeys /\ ~reloadFailed
            => tree[f] = NoKeys \/ f \in unseen \/ WillRead(f)
      BY <3>1, <3>3 DEF EmptyInv
    <3>6. EmptyInv'
      BY <2>2, <2>3, <3>4, <3>5 DEF EmptyInv, TypeOK
    <3>7. ~reloadFailed /\ ~CameAndWent(f) => tree[f] = store[f] \/ WillRead(f)
      <4>1. CASE AnswerIndex(f) = windex[f]
        BY <3>1, <4>1, AnswerIndexTyped DEF NothingOverlooked, WillSignal, TypeOK
      <4>2. CASE store[f] = NoKeys
        BY <4>2, <3>5 DEF CameAndWent
      <4>. QED  BY <3>2, <4>1, <4>2
    <3>8. ASSUME NEW g \in Folders \ {f}
          PROVE  WillSignal(g)' <=> WillSignal(g)
      BY <2>2, <2>3 DEF WillSignal, AnswerIndex, TypeOK
    <3>9. NothingOverlooked'
      BY <2>3, <3>4, <3>7, <3>8 DEF NothingOverlooked, CameAndWent
    <3>. QED  BY <3>6, <3>9
  <2>. QED  BY <2>4, <2>5
<1>4. ASSUME NEW f \in Folders, RequestFails(f) \/ Resync(f) \/ WatcherExits(f)
      PROVE  EmptyInv' /\ NothingOverlooked'
  <2>1. UNCHANGED <<store, consulIndex, folderIndex, tree, unseen, rstep, pos, reloadFailed,
                    changed, hadKeys>>
    BY <1>4 DEF RequestFails, Resync, WatcherExits, consulVars, runVars
  <2>2. \A g \in Folders : (WillRead(g)' <=> WillRead(g)) /\ AnswerIndex(g)' = AnswerIndex(g)
    BY <2>1 DEF WillRead, AnswerIndex
  <2>3. \A g \in Folders : WillSignal(g) => WillSignal(g)'
    BY <1>4, <2>2, AnswerIndexTyped
    DEF WillSignal, RequestFails, Resync, WatcherExits, TypeOK
  <2>4. \A g \in Folders : windex'[g] # 0 /\ ~failed'[g] => windex[g] # 0 /\ ~failed[g]
    BY <1>4 DEF RequestFails, Resync, WatcherExits, TypeOK
  <2>. QED  BY <2>1, <2>2, <2>3, <2>4 DEF EmptyInv, NothingOverlooked, CameAndWent
<1>5. CASE Wake \/ Coalesce
  <2>1. \A g \in Folders : WillRead(g)'
    BY <1>5 DEF Wake, Coalesce, WillRead, Folders
  <2>. QED  BY <1>1, <2>1 DEF EmptyInv, NothingOverlooked
<1>6. CASE ReadFolder
  <2>1. pos \in Folders /\ pos' = pos + 1 /\ rstep = "reading" /\ rstep' = "reading"
    BY <1>6 DEF ReadFolder, TypeOK, Folders
  <2>2. tree' = [tree EXCEPT ![pos] = store[pos]]
    BY <1>6 DEF ReadFolder
  <2>3. UNCHANGED <<store, consulIndex, folderIndex, windex, hadKeys, failed, reloadFailed,
                    changed>>
    BY <1>6 DEF ReadFolder, consulVars, watcherVars
  <2>4. \A g \in Folders \ {pos} : /\ WillRead(g) => WillRead(g)'
                                   /\ g \in unseen' <=> g \in unseen
                                   /\ tree'[g] = tree[g]
    BY <1>6, <2>1, <2>2, <2>3, ConfigAssumption DEF ReadFolder, WillRead, TypeOK, Trees, Folders
  <2>5. tree'[pos] = store[pos]
    BY <2>1, <2>2 DEF TypeOK, Trees
  <2>6. store[pos] = NoKeys \/ windex[pos] = 0 \/ hadKeys[pos] \/ pos \in unseen'
    BY <1>6 DEF ReadFolder, ReadUnseen
  <2>7. \A g \in Folders : WillSignal(g)' <=> WillSignal(g)
    BY <2>3 DEF WillSignal, AnswerIndex
  <2>8. EmptyInv'
    <3>1. ASSUME NEW g \in Folders,
                 windex'[g] # 0 /\ ~failed'[g] /\ ~hadKeys'[g] /\ ~reloadFailed'
          PROVE  tree'[g] = NoKeys \/ g \in unseen' \/ WillRead(g)'
      <4>1. CASE g = pos
        BY <2>3, <2>5, <2>6, <3>1, <4>1
      <4>2. CASE g # pos
        BY <2>3, <2>4, <3>1, <4>2 DEF EmptyInv
      <4>. QED  BY <4>1, <4>2
    <3>. QED  BY <3>1 DEF EmptyInv
  <2>9. NothingOverlooked'
    <3>1. ASSUME NEW g \in Folders, ~reloadFailed', ~CameAndWent(g)'
          PROVE  tree'[g] = store'[g] \/ WillSignal(g)' \/ WillRead(g)'
      <4>1. CASE g = pos
        BY <2>3, <2>5, <4>1
      <4>2. CASE g # pos
        <5>1. ~CameAndWent(g)
          BY <2>3, <2>4, <3>1, <4>2 DEF CameAndWent
        <5>. QED  BY <2>3, <2>4, <2>7, <3>1, <4>2, <5>1 DEF NothingOverlooked
      <4>. QED  BY <4>1, <4>2
    <3>. QED  BY <3>1 DEF NothingOverlooked
  <2>. QED  BY <1>1, <2>8, <2>9
<1>7. CASE ReadFails
  <2>1. reloadFailed'
    BY <1>7 DEF ReadFails
  <2>. QED  BY <1>1, <2>1 DEF EmptyInv, NothingOverlooked
<1>8. CASE Publishes \/ RunExits \/ CloseChannels
  <2>1. UNCHANGED <<store, consulIndex, folderIndex, windex, hadKeys, failed, tree, unseen,
                    reloadFailed, changed>>
    BY <1>8 DEF Publishes, Reject, RejectAgain, AcceptSame, Accept, Take, Send,
       ReportFailure, RunExits, CloseChannels, consulVars, watcherVars
  <2>2. rstep # "coalesce" /\ ~(rstep = "reading" /\ pos <= NumFolders)
    BY <1>8, ConfigAssumption DEF Publishes, Built, Reject, RejectAgain, AcceptSame, Accept,
       Take, Send, ReportFailure, RunExits, CloseChannels, TypeOK
  <2>3. \A g \in Folders : WillRead(g) => WillRead(g)'
    BY <2>1, <2>2, ConfigAssumption DEF WillRead, Folders, TypeOK
  <2>4. \A g \in Folders : WillSignal(g)' <=> WillSignal(g)
    BY <2>1 DEF WillSignal, AnswerIndex
  <2>. QED  BY <1>1, <2>1, <2>3, <2>4 DEF EmptyInv, NothingOverlooked, CameAndWent
<1>9. CASE Receive \/ Cancel \/ UNCHANGED vars
  <2>1. UNCHANGED <<store, consulIndex, folderIndex, windex, hadKeys, failed, tree, unseen,
                    reloadFailed, changed, rstep, pos>>
    BY <1>9 DEF Receive, Cancel, vars, consulVars, watcherVars, runVars
  <2>2. \A g \in Folders : WillRead(g) => WillRead(g)'
    BY <2>1 DEF WillRead
  <2>3. \A g \in Folders : WillSignal(g)' <=> WillSignal(g)
    BY <2>1 DEF WillSignal, AnswerIndex
  <2>. QED  BY <1>1, <2>1, <2>2, <2>3 DEF EmptyInv, NothingOverlooked, CameAndWent
<1>. QED
  BY <1>1, <1>2, <1>3, <1>4, <1>5, <1>6, <1>7, <1>8, <1>9
  DEF Next, WatcherStep, RunStep, Publishes

\* The invariant of the folder watchers and the reloads, in every reachable state.
THEOREM ConfigInvariance == Spec => []ConfigInv
<1>1. ConfigInv /\ [Next]_vars => ConfigInv'
  BY ConfigStep
<1>. QED  BY ConfigInit, <1>1, PTL DEF Spec

\* A change of a folder is read, or a reload is coming, for any number of
\* folders and whatever their order.
THEOREM NeverOverlooked == Spec => []NothingOverlooked
  BY ConfigInvariance, PTL DEF ConfigInv

-----------------------------------------------------------------------------

\* Since the store last changed: only the first reload that ends may have mixed
\* folders of before and after; what the others read is the store, which is the
\* one last rejected if it was reported.
ReportInv ==
  /\ told # {} /\ rstep = "reading" =>
       \A f \in Folders : f < pos => tree[f] = store[f]
  /\ store \in told => rejectedTree = store
  /\ told \intersect Valid = {}

\* A complete reload after a report has read the store.
LEMMA ReadsTheStore ==
  ASSUME TypeOK, ReportInv, Built, told # {}
  PROVE  tree = store
<1>1. \A f \in Folders : tree[f] = store[f]
  BY ConfigAssumption DEF ReportInv, Built, TypeOK, Folders
<1>. QED  BY <1>1 DEF TypeOK, Trees

\* Every step keeps the account of the reports.
LEMMA ReportStep ==
  ASSUME TypeOK, ReportInv, [Next]_vars
  PROVE  ReportInv'
<1>. USE DEF ReportInv
<1>1. ASSUME NEW f \in Folders, Write(f)
      PROVE  ReportInv'
  BY <1>1 DEF Write
<1>2. ASSUME NEW f \in Folders, WatcherStep(f)
      PROVE  ReportInv'
  BY <1>2 DEF WatcherStep, Answer, RequestFails, Resync, WatcherExits, consulVars, runVars
<1>3. CASE Wake \/ ReadFails \/ ReportFailure \/ RunExits \/ CloseChannels \/ Take \/ Send
  BY <1>3 DEF Wake, ReadFails, ReportFailure, RunExits, CloseChannels, Take, Send, consulVars
<1>4. CASE Coalesce
  BY <1>4 DEF Coalesce, consulVars, Folders
<1>5. CASE ReadFolder
  <2>1. pos \in Folders /\ tree' = [tree EXCEPT ![pos] = store[pos]]
    BY <1>5 DEF ReadFolder, TypeOK, Folders
  <2>2. UNCHANGED <<store, told, rejectedTree>> /\ pos' = pos + 1 /\ rstep = "reading"
    BY <1>5 DEF ReadFolder, consulVars
  <2>3. ASSUME told # {}, NEW f \in Folders, f < pos + 1
        PROVE  tree'[f] = store[f]
    <3>1. f < pos \/ f = pos
      BY <2>1, <2>3 DEF Folders
    <3>. QED  BY <2>1, <2>2, <2>3, <3>1 DEF TypeOK, Trees
  <2>. QED  BY <2>2, <2>3
<1>6. CASE Reject
  <2>1. /\ told' = told \union {tree} /\ rejectedTree' = tree /\ store' = store
        /\ rstep' = "waiting" /\ tree \notin Valid
    BY <1>6 DEF Reject, consulVars
  <2>2. store \in told' => store = tree
    BY <1>6, <2>1, ReadsTheStore DEF Reject
  <2>. QED  BY <2>1, <2>2
<1>7. CASE RejectAgain
  BY <1>7 DEF RejectAgain, consulVars
<1>8. CASE AcceptSame \/ Accept
  <2>1. /\ Built /\ tree \in Valid /\ told' = told /\ store' = store /\ rstep' # "reading"
    BY <1>8 DEF AcceptSame, Accept, consulVars
  <2>2. store \notin told
    BY <2>1, ReadsTheStore
  <2>. QED  BY <2>1, <2>2
<1>9. CASE Receive \/ Cancel \/ UNCHANGED vars
  BY <1>9 DEF Receive, Cancel, vars, consulVars, runVars
<1>. QED
  BY <1>1, <1>2, <1>3, <1>4, <1>5, <1>6, <1>7, <1>8, <1>9 DEF Next, RunStep

\* The account of the reports, in every reachable state.
THEOREM ReportInvariance == Spec => [](TypeOK /\ ReportInv)
<1>1. Init => ReportInv
  BY DEF Init, ReportInv
<1>2. TypeOK /\ ReportInv /\ [Next]_vars => (TypeOK /\ ReportInv)'
  BY TypeStep, ReportStep
<1>. QED  BY TypeInit, <1>1, <1>2, PTL DEF Spec

\* Between two writes no rejected configuration is reported twice, for any
\* number of folders and however their signals fall.
THEOREM NeverReportedTwice == Spec => ReportedOnce
<1>1. TypeOK /\ ReportInv => [Reject => tree \notin told]_vars
  <2>. SUFFICES ASSUME TypeOK, ReportInv, Reject PROVE tree \notin told
    OBVIOUS
  <2>. QED  BY ReadsTheStore DEF Reject, ReportInv
<1>. QED  BY ReportInvariance, <1>1, PTL DEF ReportedOnce

-----------------------------------------------------------------------------

\* Every step keeps the invariant of the changes channel.
LEMMA ChannelStep ==
  ASSUME TypeOK, ChannelInv, [Next]_vars
  PROVE  ChannelInv'
<1>. USE DEF ChannelInv, Latest
<1>1. ASSUME NEW f \in Folders, Write(f) \/ WatcherStep(f)
      PROVE  ChannelInv'
  BY <1>1 DEF Write, WatcherStep, Answer, RequestFails, Resync, WatcherExits, runVars
<1>2. CASE Wake \/ Coalesce \/ ReadFolder \/ ReadFails \/ ReportFailure
  BY <1>2 DEF Wake, Coalesce, ReadFolder, ReadFails, ReportFailure
<1>3. CASE Reject \/ RejectAgain \/ AcceptSame \/ RunExits \/ CloseChannels
  BY <1>3 DEF Reject, RejectAgain, AcceptSame, Built, RunExits, CloseChannels
<1>4. CASE Accept
  BY <1>4 DEF Accept, Built
<1>5. CASE Take
  BY <1>5 DEF Take
<1>6. CASE Send
  <2>1. current # NoTree
    BY ConfigAssumption, ValidTrees DEF TypeOK
  <2>. QED  BY <1>6, <2>1 DEF Send
<1>7. CASE Receive
  BY <1>7 DEF Receive, runVars
<1>8. CASE Cancel \/ UNCHANGED vars
  BY <1>8 DEF Cancel, vars, runVars
<1>. QED
  BY <1>1, <1>2, <1>3, <1>4, <1>5, <1>6, <1>7, <1>8 DEF Next, RunStep

\* The changes channel holds the latest value sent, and an empty channel means
\* that it was received.
THEOREM ChannelInvariance == Spec => [](TypeOK /\ ChannelInv)
<1>1. Init => ChannelInv
  BY DEF Init, ChannelInv, Latest
<1>2. TypeOK /\ ChannelInv /\ [Next]_vars => (TypeOK /\ ChannelInv)'
  BY TypeStep, ChannelStep
<1>. QED  BY TypeInit, <1>1, <1>2, PTL DEF Spec

\* The changes channel implements the conflated channel: a slow reader gets the
\* latest value, not a backlog.
THEOREM ChannelImplemented == Spec => ImplementsChannel
<1>1. Init => Channel!ChannelInit
  BY DEF Init, Channel!ChannelInit, Latest
<1>2. TypeOK /\ ChannelInv /\ [Next]_vars => [Channel!ChannelNext]_(Channel!channelVars)
  <2>. SUFFICES ASSUME TypeOK, ChannelInv, [Next]_vars
                PROVE  [Channel!ChannelNext]_(Channel!channelVars)
    OBVIOUS
  <2>1. CASE Send
    <3>1. current \in Valid /\ Channel!Publish(current)
      BY <2>1 DEF Send, TypeOK, Channel!Publish, Latest
    <3>. QED  BY <3>1 DEF Channel!ChannelNext
  <2>2. CASE Receive
    <3>1. view' = Latest /\ Latest' = Latest
      BY <2>2 DEF Receive, ChannelInv, Latest, runVars
    <3>. QED  BY <3>1 DEF Channel!ChannelNext, Channel!Deliver
  <2>3. CASE Accept
    BY <2>3 DEF Accept, Built, Latest, Channel!channelVars
  <2>4. CASE ~Send /\ ~Receive /\ ~Accept
    BY <2>4 DEF Next, Write, WatcherStep, Answer, RequestFails, Resync, WatcherExits,
       RunStep, Wake, Coalesce, ReadFolder, ReadFails, ReportFailure, Reject, RejectAgain,
       AcceptSame, Built, Take, RunExits, CloseChannels, Cancel, vars, consulVars,
       watcherVars, runVars, Latest, Channel!channelVars
  <2>. QED  BY <2>1, <2>2, <2>3, <2>4
<1>. QED
  BY <1>1, <1>2, ChannelInvariance, PTL DEF Spec, ImplementsChannel, Channel!ChannelSpec

=============================================================================
