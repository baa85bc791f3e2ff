---------------------------- MODULE BalancerProofs ----------------------------
(***************************************************************************)
(* The balancer loses no watch, closes every one and keeps its active      *)
(* ejections, for any number of services, callers, closers and watches.    *)
(* It implements WatchPool.                                                *)
(***************************************************************************)
EXTENDS Balancer, TLAPS

\* TypeOK and what it needs to be inductive.
TypeInv == TypeOK /\ WatchKnown

CallsOK   == call' \in [Callers -> CallType]
EntriesOK == entry' \in [Watches -> EntryType]

\* A fresh entry and a fresh watch are typed.
LEMMA FreshTyped ==
  ASSUME NEW now \in 0..MaxClock
  PROVE  NewEntry(now) \in EntryType /\ NewWatch \in WatchType
  BY BoundsAssumption DEF NewEntry, NewWatch, EntryType, WatchType

\* The initial values are typed.
LEMMA TypeInit == Init => TypeInv
<1>. SUFFICES ASSUME Init PROVE TypeInv
  OBVIOUS
<1>1. 0 \in 0..MaxClock
  BY BoundsAssumption
<1>2. (CHOOSE s \in Services : TRUE) \in Services
  BY NamesAssumption
<1>3. watch \in [Watches -> WatchType]
  BY <1>1, FreshTyped DEF Init, WatchType
<1>4. entry \in [Watches -> EntryType]
  BY <1>1, FreshTyped DEF Init
<1>. QED
  BY <1>1, <1>2, <1>3, <1>4 DEF Init, TypeInv, TypeOK, WatchKnown, CallType,
     CallerSteps,
     CloserSteps, JanitorSteps

JanitorType ==
  [step: JanitorSteps, tick: BOOLEAN, now: 0..MaxClock, idle: SUBSET Watches]

\* A caller changes its own locals and its place, and at most what is listed last.
LEMMA CallerTyped ==
  ASSUME TypeInv, NEW c \in Callers, NEW r \in CallType, NEW step \in CallerSteps,
         call' = [call EXCEPT ![c] = r], Go(c, step),
         step \in {"ready", "again", "create"} \/ r.watch \in Watches,
         UNCHANGED <<sharedVars, mu, closing>>,
         services' \in [Services -> Watches \union {NoWatch}],
         watch' \in [Watches -> WatchType], EntriesOK, janitor' \in JanitorType
  PROVE  TypeInv'
<1>1. CallsOK
  BY DEF TypeInv, TypeOK, CallsOK
<1>2. pc' \in [Callers \union Closers -> CallerSteps \union CloserSteps]
  BY DEF TypeInv, TypeOK, Go
<1>3. \A d \in Callers : pc'[d] \in CallerSteps
  BY DEF TypeInv, TypeOK, Go
<1>4. WatchKnown'
  BY DEF TypeInv, TypeOK, Go, WatchKnown
<1>. QED
  BY <1>1, <1>2, <1>3, <1>4
  DEF TypeInv, TypeOK, sharedVars, CallsOK, EntriesOK, JanitorType

\* Nothing but its locals and its place,
LEMMA CallerOnlyTyped ==
  ASSUME TypeInv, NEW c \in Callers, NEW r \in CallType, NEW step \in CallerSteps,
         call' = [call EXCEPT ![c] = r], Go(c, step),
         step \in {"ready", "again", "create"} \/ r.watch \in Watches,
         UNCHANGED <<sharedVars, mu, services, watch, entry, janitor, closing>>
  PROVE  TypeInv'
<1>1. /\ services' \in [Services -> Watches \union {NoWatch}]
      /\ watch' \in [Watches -> WatchType] /\ EntriesOK /\ janitor' \in JanitorType
  BY DEF TypeInv, TypeOK, EntriesOK, JanitorType
<1>. QED  BY <1>1, CallerTyped

\* or also the entry of a watch.
LEMMA CallerEntryTyped ==
  ASSUME TypeInv, NEW c \in Callers, NEW r \in CallType, NEW step \in CallerSteps,
         call' = [call EXCEPT ![c] = r], Go(c, step),
         step \in {"ready", "again", "create"} \/ r.watch \in Watches,
         NEW w \in Watches, NEW e \in EntryType, entry' = [entry EXCEPT ![w] = e],
         UNCHANGED <<sharedVars, mu, services, watch, janitor, closing>>
  PROVE  TypeInv'
<1>1. EntriesOK
  BY DEF TypeInv, TypeOK, EntriesOK
<1>2. /\ services' \in [Services -> Watches \union {NoWatch}]
      /\ watch' \in [Watches -> WatchType] /\ janitor' \in JanitorType
  BY DEF TypeInv, TypeOK, JanitorType
<1>. QED  BY <1>1, <1>2, CallerTyped

\* The locals of a call that has returned.
LEMMA Returned ==
  ASSUME TypeInv, NEW c \in Callers, NEW got \in SUBSET Instances,
         NEW refused \in BOOLEAN, Return(c, got, refused)
  PROVE  \E r \in CallType : call' = [call EXCEPT ![c] = r]
<1>. DEFINE r == [service |-> call[c].service, now |-> 0, again |-> FALSE,
                  watch |-> NoWatch, list |-> {}, got |-> got, refused |-> refused]
<1>1. call[c].service \in Services
  BY DEF TypeInv, TypeOK, CallType
<1>2. r \in CallType
  BY <1>1, BoundsAssumption DEF CallType
<1>3. call' = [call EXCEPT ![c] = r]
  BY DEF TypeInv, TypeOK, Return
<1>. HIDE DEF r
<1>. QED  BY <1>2, <1>3

LEMMA ReturnTyped ==
  ASSUME TypeInv, NEW c \in Callers, NEW got \in SUBSET Instances,
         NEW refused \in BOOLEAN, Return(c, got, refused),
         UNCHANGED <<sharedVars, mu, services, watch, entry, janitor, closing>>
  PROVE  TypeInv'
<1>1. Go(c, "ready") /\ "ready" \in CallerSteps
  BY DEF Return, CallerSteps
<1>2. PICK r \in CallType : call' = [call EXCEPT ![c] = r]
  BY Returned
<1>. QED  BY <1>1, <1>2, CallerOnlyTyped

\* A call that looks its service up.
LEMMA LookupTyped ==
  ASSUME TypeInv, NEW c \in Callers, NEW s \in Services, NEW now \in 0..MaxClock,
         Lookup(c, s, now),
         UNCHANGED <<sharedVars, mu, services, watch, entry, janitor, closing>>
  PROVE  TypeInv'
<1>1. call[c].again \in BOOLEAN /\ services[s] \in Watches \union {NoWatch}
  BY DEF TypeInv, TypeOK, CallType
<1>2. CASE Return(c, {}, TRUE)
  BY <1>2, ReturnTyped
<1>3. CASE ~IsClosed /\ ~Return(c, {}, TRUE)
  <2>. DEFINE r == [service |-> s, now |-> now, again |-> call[c].again,
                    watch |-> services[s], list |-> {}, got |-> {}, refused |-> FALSE]
              step == IF services[s] = NoWatch THEN "create" ELSE "touch"
  <2>1. r \in CallType
    BY <1>1 DEF CallType
  <2>2. call' = [call EXCEPT ![c] = r] /\ Go(c, step)
    BY <1>3 DEF Lookup
  <2>3. step \in CallerSteps /\ (step = "create" \/ r.watch \in Watches)
    BY <1>1 DEF CallerSteps
  <2>. HIDE DEF r, step
  <2>. QED  BY <2>1, <2>2, <2>3, CallerOnlyTyped
<1>. QED  BY <1>2, <1>3 DEF Lookup

\* What the proofs use about a call that has a watch.
LEMMA CallFacts ==
  ASSUME TypeInv, NEW c \in Callers
  PROVE  /\ call[c] \in CallType
         /\ call[c].service \in Services
         /\ call[c].now \in 0..MaxClock
         /\ call[c].watch \in Watches \union {NoWatch}
         /\ call[c].list \in SUBSET Instances
         /\ call[c].got \in SUBSET Instances
         /\ pc[c] \notin {"ready", "again", "create"} => call[c].watch \in Watches
<1>1. call[c] \in CallType
  BY DEF TypeInv, TypeOK
<1>. QED  BY <1>1 DEF TypeInv, WatchKnown, CallType

\* A call that gets its list, and may keep it in the entry.
LEMMA ListKnownTyped ==
  ASSUME TypeInv, NEW c \in Callers, pc[c] \notin {"ready", "again", "create"},
         NEW list \in SUBSET Instances, ListKnown(c, list)
  PROVE  /\ Go(c, "pick") /\ "pick" \in CallerSteps
         /\ \E r \in CallType : call' = [call EXCEPT ![c] = r] /\ r.watch \in Watches
<1>. DEFINE r == [call[c] EXCEPT !.list = list, !.now = clock]
<1>1. call[c] \in CallType /\ call[c].watch \in Watches /\ clock \in 0..MaxClock
  BY CallFacts DEF TypeInv, TypeOK
<1>2. r \in CallType /\ r.watch = call[c].watch
  BY <1>1 DEF CallType
<1>3. call' = [call EXCEPT ![c] = r]
  BY DEF ListKnown, TypeInv, TypeOK
<1>. HIDE DEF r
<1>. QED  BY <1>1, <1>2, <1>3 DEF ListKnown, CallerSteps

\* A call whose locals do not change.
LEMMA SameCall ==
  ASSUME TypeInv, NEW c \in Callers, UNCHANGED call
  PROVE  call' = [call EXCEPT ![c] = call[c]]
  BY DEF TypeInv, TypeOK

\* The janitor and the watches leave the callers and the Close calls alone.
LEMMA JanitorTyped ==
  ASSUME TypeInv, UNCHANGED <<sharedVars, entry, pc, call, closing>>,
         mu' \in Closers \union {NoOne, Janitor},
         services' \in [Services -> Watches \union {NoWatch}],
         watch' \in [Watches -> WatchType], janitor' \in JanitorType
  PROVE  TypeInv'
  BY DEF TypeInv, TypeOK, WatchKnown, sharedVars, JanitorType

\* A watch changes.
LEMMA WatchTyped ==
  ASSUME TypeInv, NEW w \in Watches, NEW x \in WatchType, watch' = [watch EXCEPT ![w] = x]
  PROVE  watch' \in [Watches -> WatchType]
  BY DEF TypeInv, TypeOK

\* A status of a watch, and what the janitor sets when it has looked for idle ones.
LEMMA StatusTyped ==
  ASSUME NEW x \in WatchType, NEW status \in {"free", "open", "closing", "ended"}
  PROVE  [x EXCEPT !.status = status] \in WatchType
  BY DEF WatchType

LEMMA JanitorFields ==
  ASSUME NEW j \in JanitorType, NEW step \in JanitorSteps, NEW idle \in SUBSET Watches
  PROVE  [j EXCEPT !.step = step, !.idle = idle] \in JanitorType
  BY DEF JanitorType

\* Every step keeps the types.
LEMMA TypeStep == TypeInv /\ [Next]_vars => TypeInv'
<1>. SUFFICES ASSUME TypeInv, [Next]_vars PROVE TypeInv'
  OBVIOUS
<1>1. ASSUME NEW c \in Callers, NEW s \in Services, NextBegins(c, s)
      PROVE  TypeInv'
  <2>1. clock \in 0..MaxClock
    BY DEF TypeInv, TypeOK
  <2>. QED  BY <1>1, <2>1, LookupTyped DEF NextBegins
<1>2. ASSUME NEW c \in Callers, NextAgain(c)
      PROVE  TypeInv'
  BY <1>2, CallFacts, LookupTyped DEF NextAgain
<1>3. ASSUME NEW c \in Callers, Touch(c)
      PROVE  TypeInv'
  <2>. DEFINE w == call[c].watch
              e == [entry[w] EXCEPT !.lastUsed = call[c].now]
  <2>1. w \in Watches /\ call[c].now \in 0..MaxClock /\ call[c] \in CallType
    BY <1>3, CallFacts DEF Touch, At
  <2>2. e \in EntryType /\ entry' = [entry EXCEPT ![w] = e]
    <3>1. entry[w] \in EntryType
      BY <2>1 DEF TypeInv, TypeOK
    <3>2. e \in EntryType
      BY <2>1, <3>1 DEF EntryType
    <3>. QED  BY <1>3, <3>2 DEF Touch
  <2>3. Go(c, "wait") /\ "wait" \in CallerSteps /\ call' = [call EXCEPT ![c] = call[c]]
        /\ UNCHANGED <<sharedVars, mu, services, watch, janitor, closing>>
    BY <1>3, SameCall DEF Touch, CallerSteps
  <2>. HIDE DEF e
  <2>. QED  BY <2>1, <2>2, <2>3, CallerEntryTyped
<1>4. ASSUME NEW c \in Callers, Create(c)
      PROVE  TypeInv'
  <2>1. UNCHANGED <<sharedVars, mu, closing>>
    BY <1>4 DEF Create
  <2>2. call[c] \in CallType /\ call[c].service \in Services /\ call[c].now \in 0..MaxClock
    BY CallFacts
  <2>. DEFINE v == services[call[c].service]
              r(w) == [call[c] EXCEPT !.watch = w]
  <2>3. ASSUME NEW w \in Watches, call' = [call EXCEPT ![c].watch = w]
        PROVE  /\ r(w) \in CallType /\ r(w).watch \in Watches
               /\ call' = [call EXCEPT ![c] = r(w)]
    BY <2>2, <2>3 DEF CallType
  <2>. HIDE DEF r
  <2>4. CASE Return(c, {}, TRUE) /\ UNCHANGED <<services, watch, entry, janitor>>
    BY <2>1, <2>4, ReturnTyped
  <2>5. ASSUME v # NoWatch, call' = [call EXCEPT ![c].watch = v],
               entry' = [entry EXCEPT ![v].lastUsed = call[c].now],
               Go(c, "wait"), UNCHANGED <<services, watch, janitor>>
        PROVE  TypeInv'
    <3>. DEFINE e == [entry[v] EXCEPT !.lastUsed = call[c].now]
    <3>1. v \in Watches
      BY <2>2, <2>5 DEF TypeInv, TypeOK
    <3>2. entry[v] \in EntryType
      BY <3>1 DEF TypeInv, TypeOK
    <3>3. e \in EntryType
      BY <2>2, <3>2 DEF EntryType
    <3>4. entry' = [entry EXCEPT ![v] = e] /\ "wait" \in CallerSteps
      BY <2>5 DEF CallerSteps
    <3>. HIDE DEF e
    <3>. QED  BY <2>1, <2>3, <2>5, <3>1, <3>3, <3>4, CallerEntryTyped
  <2>6. CASE StartWatch(c)
    <3>1. PICK w \in Watches :
            /\ watch' = [watch EXCEPT ![w] = NewWatch]
            /\ entry' = [entry EXCEPT ![w] = NewEntry(call[c].now)]
            /\ services' = [services EXCEPT ![call[c].service] = w]
            /\ call' = [call EXCEPT ![c].watch = w]
      BY <2>6 DEF StartWatch
    <3>2. EntriesOK /\ watch' \in [Watches -> WatchType]
      BY <2>2, <3>1, FreshTyped DEF TypeInv, TypeOK, EntriesOK
    <3>3. services' \in [Services -> Watches \union {NoWatch}]
      BY <2>2, <3>1 DEF TypeInv, TypeOK
    <3>4. janitor' \in JanitorType
      BY <2>6 DEF TypeInv, TypeOK, StartWatch, StartJanitor, JanitorSteps, JanitorType
    <3>5. Go(c, "wait") /\ "wait" \in CallerSteps
      BY <2>6 DEF StartWatch, CallerSteps
    <3>. QED  BY <2>1, <2>3, <3>1, <3>2, <3>3, <3>4, <3>5, CallerTyped
  <2>. QED  BY <1>4, <2>4, <2>5, <2>6 DEF Create
<1>5. ASSUME NEW c \in Callers, WatchReady(c)
      PROVE  TypeInv'
  <2>1. call[c].watch \in Watches /\ call[c] \in CallType
    BY <1>5, CallFacts DEF WatchReady, At
  <2>2. Go(c, "load") /\ "load" \in CallerSteps /\ call' = [call EXCEPT ![c] = call[c]]
        /\ UNCHANGED <<sharedVars, mu, services, watch, entry, janitor, closing>>
    BY <1>5, SameCall DEF WatchReady, CallerSteps
  <2>. QED  BY <2>1, <2>2, CallerOnlyTyped
<1>6. ASSUME NEW c \in Callers, CallerGivesUp(c)
      PROVE  TypeInv'
  BY <1>6, ReturnTyped DEF CallerGivesUp
<1>7. ASSUME NEW c \in Callers, WatchDone(c)
      PROVE  TypeInv'
  <2>1. UNCHANGED <<sharedVars, mu, services, watch, entry, janitor, closing>>
    BY <1>7 DEF WatchDone
  <2>2. CASE Return(c, {}, TRUE)
    BY <2>1, <2>2, ReturnTyped
  <2>3. CASE call' = [call EXCEPT ![c].again = TRUE, ![c].watch = NoWatch] /\ Go(c, "again")
    <3>. DEFINE r == [call[c] EXCEPT !.again = TRUE, !.watch = NoWatch]
    <3>1. call[c] \in CallType
      BY CallFacts
    <3>2. r \in CallType
      BY <3>1 DEF CallType
    <3>3. call' = [call EXCEPT ![c] = r] /\ "again" \in CallerSteps
      BY <2>3 DEF CallerSteps
    <3>. HIDE DEF r
    <3>. QED  BY <2>1, <2>3, <3>2, <3>3, CallerOnlyTyped
  <2>. QED  BY <1>7, <2>2, <2>3 DEF WatchDone
<1>8. ASSUME NEW c \in Callers, Load(c)
      PROVE  TypeInv'
  <2>. DEFINE list == watch[call[c].watch].list
  <2>1. call[c] \in CallType /\ call[c].watch \in Watches
        /\ pc[c] \notin {"ready", "again", "create"}
    BY <1>8, CallFacts DEF Load, At
  <2>2. list \in SUBSET Instances
    BY <2>1 DEF TypeInv, TypeOK, WatchType
  <2>3. UNCHANGED <<sharedVars, mu, services, watch, entry, janitor, closing>>
    BY <1>8 DEF Load
  <2>4. CASE ListKnown(c, list)
    BY <2>1, <2>2, <2>3, <2>4, ListKnownTyped, CallerOnlyTyped
  <2>5. CASE call' = [call EXCEPT ![c].list = list]
             /\ Go(c, IF list = {} THEN "grace" ELSE "seen")
    <3>. DEFINE r == [call[c] EXCEPT !.list = list]
                step == IF list = {} THEN "grace" ELSE "seen"
    <3>1. r \in CallType /\ r.watch \in Watches
      BY <2>1, <2>2 DEF CallType
    <3>2. call' = [call EXCEPT ![c] = r] /\ Go(c, step)
      BY <2>5
    <3>3. step \in CallerSteps
      BY DEF CallerSteps
    <3>. HIDE DEF r, step
    <3>. QED  BY <2>3, <3>1, <3>2, <3>3, CallerOnlyTyped
  <2>. QED  BY <1>8, <2>4, <2>5 DEF Load
<1>9. ASSUME NEW c \in Callers, Seen(c)
      PROVE  TypeInv'
  <2>. DEFINE w == call[c].watch
              e == [entry[w] EXCEPT !.lastSeen = call[c].now]
  <2>1. w \in Watches /\ call[c].now \in 0..MaxClock /\ call[c] \in CallType
    BY <1>9, CallFacts DEF Seen, At
  <2>2. entry[w] \in EntryType
    BY <2>1 DEF TypeInv, TypeOK
  <2>3. e \in EntryType
    BY <2>1, <2>2 DEF EntryType
  <2>4. entry' = [entry EXCEPT ![w] = e]
    BY <1>9 DEF Seen
  <2>5. Go(c, "keep") /\ "keep" \in CallerSteps /\ call' = [call EXCEPT ![c] = call[c]]
        /\ UNCHANGED <<sharedVars, mu, services, watch, janitor, closing>>
    BY <1>9, SameCall DEF Seen, CallerSteps
  <2>. HIDE DEF e
  <2>. QED  BY <2>1, <2>3, <2>4, <2>5, CallerEntryTyped
<1>10. ASSUME NEW c \in Callers, Keep(c)
      PROVE  TypeInv'
  <2>. DEFINE w == call[c].watch
              e == [entry[w] EXCEPT !.last = call[c].list]
  <2>1. w \in Watches /\ call[c].list \in SUBSET Instances
        /\ pc[c] \notin {"ready", "again", "create"}
    BY <1>10, CallFacts DEF Keep, At
  <2>2. entry[w] \in EntryType
    BY <2>1 DEF TypeInv, TypeOK
  <2>3. e \in EntryType
    BY <2>1, <2>2 DEF EntryType
  <2>4. entry' = [entry EXCEPT ![w] = e]
        /\ UNCHANGED <<sharedVars, mu, services, watch, janitor, closing>>
    BY <1>10 DEF Keep
  <2>5. ListKnown(c, call[c].list)
    BY <1>10 DEF Keep
  <2>. HIDE DEF e
  <2>. QED  BY <2>1, <2>3, <2>4, <2>5, ListKnownTyped, CallerEntryTyped
<1>11. ASSUME NEW c \in Callers, GraceList(c)
      PROVE  TypeInv'
  <2>1. call[c].watch \in Watches /\ pc[c] \notin {"ready", "again", "create"}
    BY <1>11, CallFacts DEF GraceList, At
  <2>2. entry[call[c].watch].last \in SUBSET Instances
    BY <2>1 DEF TypeInv, TypeOK, EntryType
  <2>3. PICK list \in SUBSET Instances : ListKnown(c, list)
    BY <1>11, <2>2 DEF GraceList
  <2>4. UNCHANGED <<sharedVars, mu, services, watch, entry, janitor, closing>>
    BY <1>11 DEF GraceList
  <2>. QED  BY <2>1, <2>3, <2>4, ListKnownTyped, CallerOnlyTyped
<1>12. ASSUME NEW c \in Callers, Pick(c)
      PROVE  TypeInv'
  <2>1. \A i \in Available(c) : {i} \in SUBSET Instances
    BY CallFacts DEF Available
  <2>2. PICK got \in SUBSET Instances : Return(c, got, FALSE)
    BY <1>12, <2>1 DEF Pick
  <2>. QED  BY <1>12, <2>2, ReturnTyped DEF Pick
<1>13. ASSUME NEW c \in Callers, ReportBegins(c)
      PROVE  TypeInv'
  <2>. DEFINE w == services[call[c].service]
              r == [call[c] EXCEPT !.watch = w, !.now = clock]
  <2>1. call[c] \in CallType /\ w \in Watches /\ clock \in 0..MaxClock
    BY <1>13, CallFacts DEF TypeInv, TypeOK, ReportBegins
  <2>2. r \in CallType /\ r.watch \in Watches
    BY <2>1 DEF CallType
  <2>3. call' = [call EXCEPT ![c] = r]
    BY <1>13 DEF ReportBegins
  <2>4. Go(c, "record") /\ "record" \in CallerSteps
        /\ UNCHANGED <<sharedVars, mu, services, watch, entry, janitor, closing>>
    BY <1>13 DEF ReportBegins, CallerSteps
  <2>. HIDE DEF r
  <2>. QED  BY <2>2, <2>3, <2>4, CallerOnlyTyped
<1>14. ASSUME NEW c \in Callers, ReportRecords(c)
      PROVE  TypeInv'
  <2>. DEFINE w == call[c].watch
  <2>1. w \in Watches /\ call[c].now \in Nat
    BY <1>14, CallFacts, BoundsAssumption DEF ReportRecords, At
  <2>2. PICK i \in call[c].got :
          entry' = [entry EXCEPT ![w].ejected = Ejections(@, i, call[c].now)]
    BY <1>14 DEF ReportRecords
  <2>3. options.eject \in Nat
    BY BoundsAssumption DEF TypeInv, TypeOK, OptionsType
  <2>4. entry[w] \in EntryType /\ entry[w].ejected \in [Instances -> Nat]
    BY <2>1 DEF TypeInv, TypeOK, EntryType
  <2>. DEFINE ejected == Ejections(entry[w].ejected, i, call[c].now)
              e == [entry[w] EXCEPT !.ejected = ejected]
  <2>5. ejected \in [Instances -> Nat]
    BY <2>1, <2>3, <2>4 DEF Ejections
  <2>. HIDE DEF ejected
  <2>6. e \in EntryType
    BY <2>4, <2>5 DEF EntryType
  <2>. USE DEF ejected
  <2>7. entry' = [entry EXCEPT ![w] = e]
    BY <2>2
  <2>. HIDE DEF ejected, e
  <2>8. Go(c, "ready") /\ "ready" \in CallerSteps /\ Return(c, {}, FALSE)
        /\ UNCHANGED <<sharedVars, mu, services, watch, janitor, closing>>
    BY <1>14 DEF ReportRecords, Return, CallerSteps
  <2>9. PICK r \in CallType : call' = [call EXCEPT ![c] = r]
    BY <2>8, Returned
  <2>. QED  BY <2>1, <2>6, <2>7, <2>8, <2>9, CallerEntryTyped
<1>j. /\ janitor \in JanitorType /\ janitor.idle \subseteq Watches
      /\ mu \in Closers \union {NoOne, Janitor} /\ clock \in 0..MaxClock
      /\ services \in [Services -> Watches \union {NoWatch}]
      /\ watch \in [Watches -> WatchType] /\ 0 \in 0..MaxClock
  BY BoundsAssumption DEF TypeInv, TypeOK, JanitorType
<1>15. CASE JanitorTicks
  <2>1. janitor' \in JanitorType
    BY <1>15, <1>j DEF JanitorTicks, JanitorType, JanitorSteps
  <2>. QED  BY <1>15, <1>j, <2>1, JanitorTyped DEF JanitorTicks
<1>16. CASE JanitorScans
  <2>1. Entries \subseteq Watches
    BY <1>j DEF Entries
  <2>. DEFINE idle == {w \in Entries : janitor.now >= entry[w].lastUsed + Idle}
  <2>2. idle \in SUBSET Watches /\ "swapping" \in JanitorSteps
    BY <2>1 DEF JanitorSteps
  <2>3. janitor' = [janitor EXCEPT !.step = "swapping", !.idle = idle] /\ mu' = Janitor
        /\ UNCHANGED <<sharedVars, services, watch, entry, pc, call, closing>>
    BY <1>16 DEF JanitorScans
  <2>. HIDE DEF idle
  <2>. QED  BY <1>j, <2>2, <2>3, JanitorFields, JanitorTyped
<1>17. CASE JanitorSwaps
  <2>1. janitor' \in JanitorType
    BY <1>17, <1>j DEF JanitorSwaps, JanitorType, JanitorSteps
  <2>2. services' = [s \in Services |-> IF services[s] \in janitor.idle THEN NoWatch
                                        ELSE services[s]]
    BY <1>17 DEF JanitorSwaps
  <2>3. services' \in [Services -> Watches \union {NoWatch}]
    BY <1>j, <2>2
  <2>4. mu' = NoOne /\ UNCHANGED <<sharedVars, watch, entry, pc, call, closing>>
    BY <1>17 DEF JanitorSwaps
  <2>. QED  BY <1>j, <2>1, <2>3, <2>4, JanitorTyped
<1>18. CASE JanitorCloses
  <2>1. UNCHANGED <<sharedVars, mu, services, entry, pc, call, closing>>
    BY <1>18 DEF JanitorCloses
  <2>2. CASE \E w \in janitor.idle : CancelWatch(w) /\ UNCHANGED janitor
    <3>1. PICK w \in Watches : CancelWatch(w) /\ UNCHANGED janitor
      BY <1>j, <2>2
    <3>2. watch' = [watch EXCEPT ![w] = [watch[w] EXCEPT !.status = "closing"]]
      BY <3>1 DEF CancelWatch
    <3>3. watch' \in [Watches -> WatchType]
      BY <1>j, <3>2, StatusTyped, WatchTyped
    <3>. QED  BY <1>j, <2>1, <3>1, <3>3, JanitorTyped
  <2>3. ASSUME NEW w, janitor' = [janitor EXCEPT !.idle = @ \ {w}], UNCHANGED watch
        PROVE  TypeInv'
    <3>1. janitor' \in JanitorType
      BY <1>j, <2>3 DEF JanitorType
    <3>. QED  BY <1>j, <2>1, <2>3, <3>1, JanitorTyped
  <2>4. CASE janitor' = [janitor EXCEPT !.step = "waiting"] /\ UNCHANGED watch
    <3>1. janitor' \in JanitorType
      BY <1>j, <2>4 DEF JanitorType, JanitorSteps
    <3>. QED  BY <1>j, <2>1, <2>4, <3>1, JanitorTyped
  <2>. QED  BY <1>18, <2>2, <2>3, <2>4 DEF JanitorCloses
<1>19. CASE JanitorExits
  <2>1. janitor' \in JanitorType
    BY <1>19, <1>j DEF JanitorExits, JanitorType, JanitorSteps
  <2>. QED  BY <1>19, <1>j, <2>1, JanitorTyped DEF JanitorExits
<1>. USE DEF TypeInv
<1>20. ASSUME NEW c \in Closers, CloseBegins(c)
      PROVE  TypeInv'
  BY <1>20, NamesAssumption DEF CloseBegins, Entries, TypeOK, WatchKnown, sharedVars,
     At, Go, CloserSteps
<1>21. ASSUME NEW c \in Closers, CloseWatches(c)
      PROVE  TypeInv'
  BY <1>21, NamesAssumption DEF CloseWatches, TypeOK, WatchKnown, sharedVars, At, Go,
     CloserSteps
<1>22. ASSUME NEW c \in Closers, CloseReturns(c)
      PROVE  TypeInv'
  BY <1>22, NamesAssumption DEF CloseReturns, TypeOK, WatchKnown, sharedVars, At, Go,
     CloserSteps
<1>23. CASE Tick
  <2>1. clock' \in 0..MaxClock
    BY <1>23, BoundsAssumption DEF Tick, TypeOK
  <2>2. janitor' \in [step: JanitorSteps, tick: BOOLEAN, now: 0..MaxClock,
                      idle: SUBSET Watches]
    BY <1>23, TypeInv DEF Tick, TypeOK, JanitorSteps
  <2>. QED
    BY <1>23, <2>1, <2>2 DEF Tick, TypeOK, WatchKnown, sharedVars
<1>24. ASSUME NEW w \in Watches, WatchPublishes(w)
      PROVE  TypeInv'
  <2>1. options.catalog \in SUBSET Instances
    BY BoundsAssumption DEF TypeOK, OptionsType
  <2>2. PICK list \in SUBSET options.catalog :
          watch' = [watch EXCEPT ![w].ready = TRUE, ![w].list = list,
                                 ![w].emptied = IF list = {} /\ options.grace > 0
                                                THEN clock ELSE 0]
    BY <1>24 DEF WatchPublishes
  <2>3. watch[w] \in WatchType /\ 0 \in 0..MaxClock
    BY BoundsAssumption DEF TypeOK
  <2>. DEFINE new == [watch[w] EXCEPT !.ready = TRUE, !.list = list,
                        !.emptied = IF list = {} /\ options.grace > 0
                                    THEN clock ELSE 0]
  <2>4. new \in WatchType
    BY <2>1, <2>3 DEF TypeOK, WatchType
  <2>5. watch' = [watch EXCEPT ![w] = new]
    BY <2>2, <2>3 DEF TypeOK
  <2>. HIDE DEF new
  <2>6. watch' \in [Watches -> WatchType]
    BY <2>4, <2>5 DEF TypeOK
  <2>. QED  BY <1>24, <2>6 DEF WatchPublishes, TypeOK, WatchKnown, sharedVars
<1>25. ASSUME NEW w \in Watches, WatchEnds(w)
      PROVE  TypeInv'
  <2>1. watch' = [watch EXCEPT ![w] = [watch[w] EXCEPT !.status = "ended"]]
        /\ UNCHANGED <<sharedVars, mu, services, entry, janitor, pc, call, closing>>
    BY <1>25 DEF WatchEnds
  <2>2. watch' \in [Watches -> WatchType]
    BY <1>j, <2>1, StatusTyped, WatchTyped
  <2>. QED  BY <1>j, <2>1, <2>2, JanitorTyped
<1>26. CASE ParentDone
  BY <1>26 DEF ParentDone, TypeOK, WatchKnown, sharedVars, JanitorSteps
<1>27. CASE UNCHANGED vars
  BY <1>27 DEF vars, TypeOK, WatchKnown, sharedVars, JanitorSteps
<1>. QED
  BY <1>1, <1>2, <1>3, <1>4, <1>5, <1>6, <1>7, <1>8, <1>9, <1>10, <1>11, <1>12, <1>13,
     <1>14, <1>15, <1>16, <1>17, <1>18, <1>19, <1>20, <1>21, <1>22, <1>23, <1>24,
     <1>25, <1>26, <1>27
  DEF Next, CallerStep, JanitorStep, CloseStep

\* Every variable keeps its type, for any number of services, goroutines and
\* watches.
THEOREM TypeCorrect == Spec => []TypeOK
<1>1. TypeInv => TypeOK
  BY DEF TypeInv
<1>. QED  BY TypeInit, TypeStep, <1>1, PTL DEF Spec

(***************************************************************************)
(* No watch is lost.                                                       *)
(***************************************************************************)

SafetyInv == JanitorInv /\ NoWatchIsLost /\ CloseInv

\* A new balancer has no watch.
LEMMA SafetyInit == Init => SafetyInv
  BY NamesAssumption DEF Init, SafetyInv, JanitorInv, NoWatchIsLost, CloseInv, Live,
     NewWatch

\* A step that leaves the map, the watches, the janitor's work and the Close
\* calls alone.
Frame ==
  /\ UNCHANGED <<mu, services, closing>>
  /\ \A w \in Watches : watch'[w].status = watch[w].status
  /\ janitor'.step = janitor.step /\ janitor'.idle = janitor.idle
  /\ closed' = closed
  /\ \A c \in Closers : pc'[c] = pc[c]

\* Such a step keeps the invariant.
LEMMA FrameStep == SafetyInv /\ Frame => SafetyInv'
  BY DEF SafetyInv, JanitorInv, NoWatchIsLost, CloseInv, Live, Entries, Frame

\* Where a caller goes does not concern the Close calls.
LEMMA CallerMoves ==
  ASSUME TypeOK, NEW p \in Callers, NEW step, Go(p, step)
  PROVE  \A c \in Closers : pc'[c] = pc[c]
  BY NamesAssumption DEF TypeOK, Go

\* A new watch takes the place of none.
LEMMA StartWatchSafe ==
  ASSUME TypeInv, SafetyInv, NEW c \in Callers, ~IsClosed,
         services[call[c].service] = NoWatch, StartWatch(c), UNCHANGED <<closed, mu, closing>>
  PROVE  SafetyInv'
<1>1. call[c].service \in Services
  BY CallFacts
<1>2. PICK w \in Watches :
        /\ watch' = [watch EXCEPT ![w] = NewWatch]
        /\ services' = [services EXCEPT ![call[c].service] = w]
  BY DEF StartWatch
<1>3. \A d \in Closers : pc[d] = "ready" /\ pc'[d] = "ready"
  <2>1. \A d \in Closers : pc'[d] = pc[d]
    BY CallerMoves DEF StartWatch, TypeInv
  <2>. QED  BY <2>1 DEF SafetyInv, CloseInv, IsClosed
<1>4. janitor'.idle = janitor.idle
      /\ \/ janitor'.step = janitor.step
         \/ janitor.step = "off" /\ janitor'.step = "waiting"
  BY DEF StartWatch, StartJanitor, TypeInv, TypeOK
<1>5. JanitorInv'
  BY <1>4 DEF SafetyInv, JanitorInv
<1>6. ASSUME NEW v \in Watches, Live(v)' PROVE v \in Entries' \union janitor'.idle
  <2>1. services \in [Services -> Watches \union {NoWatch}]
    BY DEF TypeInv, TypeOK
  <2>2. CASE v = w
    BY <1>1, <1>2, <2>1, <2>2, NamesAssumption DEF Entries
  <2>3. CASE v # w
    <3>1. v \in Entries \union janitor.idle
      BY <1>2, <1>6, <2>3 DEF SafetyInv, NoWatchIsLost, Live, TypeInv, TypeOK
    <3>. QED  BY <1>1, <1>2, <1>4, <2>1, <3>1, NamesAssumption DEF Entries
  <2>. QED  BY <2>2, <2>3
<1>. QED  BY <1>3, <1>5, <1>6 DEF SafetyInv, NoWatchIsLost, CloseInv

\* Every step keeps the invariant of the janitor and of Close.
LEMMA SafetyStep == TypeInv /\ SafetyInv /\ [Next]_vars => SafetyInv'
<1>. SUFFICES ASSUME TypeInv, SafetyInv, [Next]_vars PROVE SafetyInv'
  OBVIOUS
<1>. USE DEF TypeInv
<1>1. ASSUME NEW c \in Callers, NEW s \in Services, NextBegins(c, s)
      PROVE  SafetyInv'
  BY <1>1, CallerMoves, FrameStep DEF Frame, NextBegins, Lookup, Return, sharedVars
<1>2. ASSUME NEW c \in Callers, NextAgain(c)
      PROVE  SafetyInv'
  BY <1>2, CallerMoves, FrameStep DEF Frame, NextAgain, Lookup, Return, sharedVars
<1>3. ASSUME NEW c \in Callers, Touch(c)
      PROVE  SafetyInv'
  BY <1>3, CallerMoves, FrameStep DEF Frame, Touch, sharedVars
<1>4. ASSUME NEW c \in Callers, WatchReady(c)
      PROVE  SafetyInv'
  BY <1>4, CallerMoves, FrameStep DEF Frame, WatchReady, sharedVars
<1>5. ASSUME NEW c \in Callers, CallerGivesUp(c)
      PROVE  SafetyInv'
  BY <1>5, CallerMoves, FrameStep DEF Frame, CallerGivesUp, Return, sharedVars
<1>6. ASSUME NEW c \in Callers, WatchDone(c)
      PROVE  SafetyInv'
  BY <1>6, CallerMoves, FrameStep DEF Frame, WatchDone, Return, sharedVars
<1>7. ASSUME NEW c \in Callers, Load(c)
      PROVE  SafetyInv'
  BY <1>7, CallerMoves, FrameStep DEF Frame, Load, ListKnown, sharedVars
<1>8. ASSUME NEW c \in Callers, Seen(c)
      PROVE  SafetyInv'
  BY <1>8, CallerMoves, FrameStep DEF Frame, Seen, sharedVars
<1>9. ASSUME NEW c \in Callers, Keep(c)
      PROVE  SafetyInv'
  BY <1>9, CallerMoves, FrameStep DEF Frame, Keep, ListKnown, sharedVars
<1>10. ASSUME NEW c \in Callers, GraceList(c)
      PROVE  SafetyInv'
  BY <1>10, CallerMoves, FrameStep DEF Frame, GraceList, ListKnown, sharedVars
<1>11. ASSUME NEW c \in Callers, Pick(c)
      PROVE  SafetyInv'
  BY <1>11, CallerMoves, FrameStep DEF Frame, Pick, Return, sharedVars
<1>12. ASSUME NEW c \in Callers, ReportBegins(c)
      PROVE  SafetyInv'
  BY <1>12, CallerMoves, FrameStep DEF Frame, ReportBegins, sharedVars
<1>13. ASSUME NEW c \in Callers, ReportRecords(c)
      PROVE  SafetyInv'
  BY <1>13, CallerMoves, FrameStep DEF Frame, ReportRecords, Return, sharedVars
<1>14. ASSUME NEW c \in Callers, Create(c)
      PROVE  SafetyInv'
  <2>1. CASE Return(c, {}, TRUE) /\ UNCHANGED <<services, watch, entry, janitor>>
    BY <1>14, <2>1, CallerMoves, FrameStep DEF Frame, Create, Return, sharedVars
  <2>2. CASE Go(c, "wait") /\ UNCHANGED <<services, watch, janitor>>
    BY <1>14, <2>2, CallerMoves, FrameStep DEF Frame, Create, sharedVars
  <2>3. CASE ~IsClosed /\ services[call[c].service] = NoWatch /\ StartWatch(c)
    BY <1>14, <2>3, StartWatchSafe DEF Create, sharedVars
  <2>. QED  BY <1>14, <2>1, <2>2, <2>3 DEF Create
<1>15. CASE JanitorTicks
  BY <1>15 DEF JanitorTicks, TypeOK, SafetyInv, JanitorInv, NoWatchIsLost, CloseInv,
     Live, Entries, sharedVars
<1>16. CASE JanitorScans
  BY <1>16, NamesAssumption DEF JanitorScans, TypeOK, SafetyInv, JanitorInv,
     NoWatchIsLost, CloseInv, Live, Entries, sharedVars
<1>17. CASE JanitorSwaps
  <2>1. mu' # Janitor /\ janitor'.step = "closing" /\ janitor'.idle = janitor.idle
    BY <1>17, NamesAssumption DEF JanitorSwaps, TypeOK
  <2>2. \A w \in Entries : w \in Entries' \union janitor.idle
    BY <1>17, NamesAssumption DEF JanitorSwaps, TypeOK, Entries
  <2>. QED
    BY <1>17, <2>1, <2>2 DEF JanitorSwaps, SafetyInv, JanitorInv, NoWatchIsLost,
       CloseInv, Live, sharedVars
<1>18. CASE JanitorCloses
  <2>1. CASE \E w \in janitor.idle : CancelWatch(w) /\ UNCHANGED janitor
    <3>1. PICK w \in janitor.idle : CancelWatch(w)
      BY <2>1
    <3>2. \A v \in Watches : Live(v)' => Live(v)
      BY <3>1 DEF CancelWatch, Live, TypeOK, WatchType
    <3>3. /\ UNCHANGED <<services, mu, closing, closed, pc, janitor>>
          /\ Entries' = Entries
      BY <1>18, <2>1, <3>1 DEF JanitorCloses, Entries, CancelWatch, sharedVars
    <3>. QED
      BY <3>2, <3>3 DEF SafetyInv, JanitorInv, NoWatchIsLost, CloseInv
  <2>2. ASSUME NEW w \in janitor.idle, watch[w].status = "ended", UNCHANGED watch,
               janitor' = [janitor EXCEPT !.idle = janitor.idle \ {w}]
        PROVE  SafetyInv'
    <3>1. janitor'.step = janitor.step /\ janitor'.idle = janitor.idle \ {w}
      BY <2>2 DEF TypeOK
    <3>2. \A v \in Watches : Live(v)' <=> Live(v)
      BY <2>2 DEF Live
    <3>3. ~Live(w)
      BY <2>2 DEF Live
    <3>4. UNCHANGED <<services, mu, closing, closed, pc>> /\ Entries' = Entries
      BY <1>18 DEF JanitorCloses, Entries, sharedVars
    <3>5. NoWatchIsLost'
      BY <3>1, <3>2, <3>3, <3>4 DEF SafetyInv, NoWatchIsLost
    <3>6. CloseInv'
      BY <3>1, <3>2, <3>3, <3>4 DEF SafetyInv, CloseInv
    <3>. QED  BY <3>1, <3>4, <3>5, <3>6 DEF SafetyInv, JanitorInv
  <2>3. CASE /\ janitor.idle = {}
             /\ janitor' = [janitor EXCEPT !.step = "waiting"]
             /\ UNCHANGED watch
    BY <1>18, <2>3 DEF JanitorCloses, TypeOK, Entries, SafetyInv, JanitorInv,
       NoWatchIsLost, CloseInv, Live, sharedVars
  <2>. QED  BY <1>18, <2>1, <2>2, <2>3 DEF JanitorCloses
<1>19. CASE JanitorExits
  BY <1>19 DEF JanitorExits, TypeOK, SafetyInv, JanitorInv, NoWatchIsLost, CloseInv,
     Live, Entries, sharedVars
<1>20. ASSUME NEW c \in Closers, CloseBegins(c)
      PROVE  SafetyInv'
  BY <1>20, NamesAssumption DEF CloseBegins, At, Go, TypeOK, SafetyInv, JanitorInv,
     NoWatchIsLost, CloseInv, Live, Entries, sharedVars
<1>21. ASSUME NEW c \in Closers, CloseWatches(c)
      PROVE  SafetyInv'
  BY <1>21, NamesAssumption DEF CloseWatches, At, Go, TypeOK, SafetyInv, JanitorInv,
     NoWatchIsLost, CloseInv, Live, Entries, sharedVars
<1>22. ASSUME NEW c \in Closers, CloseReturns(c)
      PROVE  SafetyInv'
  BY <1>22, NamesAssumption DEF CloseReturns, At, Go, TypeOK, SafetyInv, JanitorInv,
     NoWatchIsLost, CloseInv, Live, Entries, sharedVars
<1>23. CASE Tick
  BY <1>23, FrameStep DEF Frame, Tick, TypeOK
<1>24. ASSUME NEW w \in Watches, WatchPublishes(w)
      PROVE  SafetyInv'
  <2>1. \A v \in Watches : watch'[v].status = watch[v].status
    BY <1>24 DEF WatchPublishes, TypeOK, WatchType
  <2>. QED  BY <1>24, <2>1, FrameStep DEF Frame, WatchPublishes, sharedVars
<1>25. ASSUME NEW w \in Watches, WatchEnds(w)
      PROVE  SafetyInv'
  <2>1. \A v \in Watches : Live(v)' => Live(v)
    BY <1>25 DEF WatchEnds, Live, TypeOK, WatchType
  <2>. QED
    BY <1>25, <2>1 DEF WatchEnds, Entries, SafetyInv, JanitorInv, NoWatchIsLost,
       CloseInv, sharedVars
<1>26. CASE ParentDone
  BY <1>26, FrameStep DEF Frame, ParentDone
<1>27. CASE UNCHANGED vars
  BY <1>27, FrameStep DEF Frame, vars, sharedVars
<1>. QED
  BY <1>1, <1>2, <1>3, <1>4, <1>5, <1>6, <1>7, <1>8, <1>9, <1>10, <1>11, <1>12, <1>13,
     <1>14, <1>15, <1>16, <1>17, <1>18, <1>19, <1>20, <1>21, <1>22, <1>23, <1>24,
     <1>25, <1>26, <1>27
  DEF Next, CallerStep, JanitorStep, CloseStep

\* The inductive invariant of the janitor and of Close.
THEOREM Invariance == Spec => [](TypeInv /\ SafetyInv)
<1>1. Init => TypeInv /\ SafetyInv
  BY TypeInit, SafetyInit
<1>2. TypeInv /\ SafetyInv /\ [Next]_vars => (TypeInv /\ SafetyInv)'
  BY TypeStep, SafetyStep
<1>. QED  BY <1>1, <1>2, PTL DEF Spec

\* A running watch is in the map or in the janitor's hands: however many calls
\* race to start one, none is left running unseen.
THEOREM NothingLost == Spec => []NoWatchIsLost
<1>1. TypeInv /\ SafetyInv => NoWatchIsLost
  BY DEF SafetyInv
<1>. QED  BY Invariance, <1>1, PTL

\* When any Close has returned, every watch and the janitor have ended.
THEOREM QuietAfterClose == Spec => []ClosedIsQuiet
<1>1. TypeInv /\ SafetyInv => ClosedIsQuiet
  BY DEF SafetyInv, CloseInv, JanitorInv, ClosedIsQuiet
<1>. QED  BY Invariance, <1>1, PTL

(***************************************************************************)
(* Ejections.                                                              *)
(***************************************************************************)

\* What a report knows: the time it read is not in the future, it is about one
\* instance, and the watch it writes to was started; a watch that was not has
\* no ejections.
ReportInv ==
  /\ \A c \in Callers : call[c].now <= clock /\ \A i, j \in call[c].got : i = j
  /\ \A c \in Callers : pc[c] = "record" => watch[call[c].watch].status # "free"
  /\ \A s \in Services : services[s] # NoWatch => watch[services[s]].status # "free"
  /\ \A w \in Watches : watch[w].status = "free" =>
       \A i \in Instances : entry[w].ejected[i] = 0

\* A new balancer has no calls, no entries and no ejections.
LEMMA ReportInit == Init => ReportInv
  BY DEF Init, ReportInv, NewEntry, NewWatch

\* A call's locals between two steps.
CallKnown(c) ==
  /\ call'[c].now <= clock'
  /\ \A i, j \in call'[c].got : i = j
  /\ pc'[c] = "record" =>
       \/ pc[c] = "record" /\ call'[c].watch = call[c].watch
       \/ \E s \in Services : services[s] # NoWatch /\ call'[c].watch = services[s]

\* A step that starts no watch keeps what a report knows.
LEMMA ReportFrame ==
  ASSUME ReportInv,
         \A c \in Callers : CallKnown(c),
         \A c \in Callers : call[c].watch \in Watches \/ pc[c] # "record",
         \A s \in Services : services[s] \in Watches \union {NoWatch},
         \A s \in Services : services'[s] = services[s] \/ services'[s] = NoWatch,
         \A w \in Watches : watch'[w].status = "free" <=> watch[w].status = "free",
         \A w \in Watches : watch[w].status = "free" =>
                              entry'[w].ejected = entry[w].ejected
  PROVE  ReportInv'
  BY DEF ReportInv, CallKnown

\* A step of one call concerns no other call.
LEMMA OtherCalls ==
  ASSUME TypeOK, ReportInv, NEW c \in Callers, NEW step, Go(c, step),
         \E r : call' = [call EXCEPT ![c] = r], clock' = clock,
         CallKnown(c)
  PROVE  \A d \in Callers : CallKnown(d)
  BY DEF TypeOK, ReportInv, CallKnown, Go

\* Starting a watch keeps what a report knows.
LEMMA ReportStart ==
  ASSUME TypeInv, ReportInv, NEW c \in Callers, StartWatch(c), clock' = clock
  PROVE  ReportInv'
<1>1. call[c].service \in Services
  BY CallFacts
<1>2. PICK w \in Watches :
        /\ watch' = [watch EXCEPT ![w] = NewWatch]
        /\ entry' = [entry EXCEPT ![w] = NewEntry(call[c].now)]
        /\ services' = [services EXCEPT ![call[c].service] = w]
        /\ call' = [call EXCEPT ![c].watch = w]
  BY DEF StartWatch
<1>3. watch'[w].status = "open" /\ \A v \in Watches \ {w} : watch'[v] = watch[v]
  BY <1>2 DEF TypeInv, TypeOK, NewWatch
<1>4. \A d \in Callers : call'[d].now <= clock' /\ \A i, j \in call'[d].got : i = j
  <2>1. call[c] \in CallType
    BY DEF TypeInv, TypeOK
  <2>. QED  BY <1>2, <2>1 DEF ReportInv, TypeInv, TypeOK, CallType
<1>5. ASSUME NEW d \in Callers, pc'[d] = "record"
      PROVE  watch'[call'[d].watch].status # "free"
  <2>1. d # c /\ pc[d] = "record" /\ call'[d] = call[d]
    BY <1>2, <1>5 DEF StartWatch, Go, TypeInv, TypeOK
  <2>. QED  BY <1>3, <1>5, <2>1, CallFacts DEF ReportInv
<1>6. ASSUME NEW s \in Services, services'[s] # NoWatch
      PROVE  watch'[services'[s]].status # "free"
  <2>1. services'[s] = IF s = call[c].service THEN w ELSE services[s]
    BY <1>1, <1>2 DEF TypeInv, TypeOK
  <2>2. services[s] \in Watches \union {NoWatch}
    BY DEF TypeInv, TypeOK
  <2>. QED  BY <1>3, <1>6, <2>1, <2>2 DEF ReportInv
<1>7. \A v \in Watches \ {w} : entry'[v] = entry[v]
  BY <1>2 DEF TypeInv, TypeOK
<1>. QED  BY <1>3, <1>4, <1>5, <1>6, <1>7 DEF ReportInv

\* A call that returns at most one instance keeps what a report knows,
LEMMA ReturnKnown ==
  ASSUME TypeInv, ReportInv, clock' = clock, NEW c \in Callers,
         NEW got \in SUBSET Instances, \A i, j \in got : i = j,
         NEW refused, Return(c, got, refused)
  PROVE  \A d \in Callers : CallKnown(d)
<1>1. CallKnown(c)
  BY BoundsAssumption DEF TypeInv, TypeOK, Return, Go, CallKnown
<1>. QED  BY <1>1, OtherCalls DEF Return, TypeInv

\* as does one that looks its service up,
LEMMA LookupKnown ==
  ASSUME TypeInv, ReportInv, clock' = clock, NEW c \in Callers, NEW s \in Services,
         NEW now \in 0..clock, Lookup(c, s, now)
  PROVE  \A d \in Callers : CallKnown(d)
<1>1. CASE Return(c, {}, TRUE)
  BY <1>1, ReturnKnown
<1>2. CASE ~IsClosed
  <2>. DEFINE r == [service |-> s, now |-> now, again |-> call[c].again,
                    watch |-> services[s], list |-> {}, got |-> {}, refused |-> FALSE]
  <2>1. call' = [call EXCEPT ![c] = r]
    BY <1>2 DEF Lookup
  <2>2. PICK step \in {"create", "touch"} : Go(c, step)
    BY <1>2 DEF Lookup
  <2>3. call'[c] = r /\ pc'[c] # "record"
    BY <2>1, <2>2 DEF TypeInv, TypeOK, Go
  <2>4. r.now = now /\ r.got = {} /\ now <= clock
    OBVIOUS
  <2>5. CallKnown(c)
    BY <2>3, <2>4 DEF CallKnown
  <2>. HIDE DEF r
  <2>. QED  BY <2>1, <2>2, <2>5, OtherCalls DEF TypeInv
<1>. QED  BY <1>1, <1>2 DEF Lookup

\* and one that gets its list.
LEMMA ListKnownKnown ==
  ASSUME TypeInv, ReportInv, clock' = clock, NEW c \in Callers, NEW list,
         ListKnown(c, list)
  PROVE  \A d \in Callers : CallKnown(d)
<1>1. call[c] \in CallType
  BY DEF TypeInv, TypeOK
<1>2. CallKnown(c)
  BY <1>1 DEF TypeInv, TypeOK, ReportInv, ListKnown, Go, CallKnown, CallType
<1>. QED  BY <1>2, OtherCalls DEF ListKnown, TypeInv

\* A step that leaves the calls, the map and the ejections alone, and frees and
\* takes no watch.
ReportQuiet ==
  /\ UNCHANGED <<services, call>>
  /\ clock <= clock'
  /\ \A c \in Callers : pc'[c] = pc[c]
  /\ \A w \in Watches : /\ watch'[w].status = "free" <=> watch[w].status = "free"
                        /\ entry'[w].ejected = entry[w].ejected

\* Such a step keeps what a report knows.
LEMMA QuietStep == TypeInv /\ TypeInv' /\ ReportInv /\ ReportQuiet => ReportInv'
<1>. SUFFICES ASSUME TypeInv, TypeInv', ReportInv, ReportQuiet PROVE ReportInv'
  OBVIOUS
<1>1. \A c \in Callers : call[c].now \in 0..MaxClock /\ call[c].now <= clock
  BY CallFacts DEF ReportInv
<1>2. clock \in Nat /\ clock <= clock' /\ clock' \in Nat
  BY DEF TypeInv, TypeOK, ReportQuiet
<1>3. MaxClock \in Nat
  BY BoundsAssumption
<1>4. \A c \in Callers : CallKnown(c)
  BY <1>1, <1>2, <1>3 DEF CallKnown, ReportInv, ReportQuiet
<1>5. \A c \in Callers : call[c].watch \in Watches \/ pc[c] # "record"
  BY CallFacts
<1>6. \A s \in Services : services[s] \in Watches \union {NoWatch}
  BY DEF TypeInv, TypeOK
<1>. QED  BY <1>4, <1>5, <1>6, ReportFrame DEF ReportQuiet

\* A step of a call that starts no watch.
CallFrame ==
  /\ \A c \in Callers : CallKnown(c)
  /\ UNCHANGED <<services, watch>>
  /\ \A w \in Watches : watch[w].status = "free" => entry'[w].ejected = entry[w].ejected

\* Such a step keeps what a report knows.
LEMMA CallStep == TypeInv /\ ReportInv /\ CallFrame => ReportInv'
<1>. SUFFICES ASSUME TypeInv, ReportInv, CallFrame PROVE ReportInv'
  OBVIOUS
<1>1. \A c \in Callers : call[c].watch \in Watches \/ pc[c] # "record"
  BY CallFacts
<1>2. \A s \in Services : services[s] \in Watches \union {NoWatch}
  BY DEF TypeInv, TypeOK
<1>. QED  BY <1>1, <1>2, ReportFrame DEF CallFrame

\* Every step keeps what a report knows.
LEMMA ReportStep == TypeInv /\ ReportInv /\ [Next]_vars => ReportInv'
<1>. SUFFICES ASSUME TypeInv, ReportInv, [Next]_vars PROVE ReportInv'
  OBVIOUS
<1>0. TypeInv'
  BY TypeStep
<1>1. ASSUME NEW c \in Callers, NEW s \in Services, NextBegins(c, s)
      PROVE  ReportInv'
  <2>1. clock \in 0..clock
    BY BoundsAssumption DEF TypeInv, TypeOK
  <2>2. \A d \in Callers : CallKnown(d)
    BY <1>1, <2>1, LookupKnown DEF NextBegins, sharedVars
  <2>. QED  BY <1>1, <2>2, CallStep DEF NextBegins, CallFrame
<1>2. ASSUME NEW c \in Callers, NextAgain(c)
      PROVE  ReportInv'
  <2>1. call[c].service \in Services /\ call[c].now \in 0..clock
    BY CallFacts, BoundsAssumption DEF TypeInv, TypeOK, ReportInv
  <2>2. \A d \in Callers : CallKnown(d)
    BY <1>2, <2>1, LookupKnown DEF NextAgain, sharedVars
  <2>. QED  BY <1>2, <2>2, CallStep DEF NextAgain, CallFrame
<1>3. ASSUME NEW c \in Callers, NEW step \in {"wait", "keep", "load"}, Go(c, step),
             UNCHANGED <<clock, services, watch, call>>,
             \A w \in Watches : entry'[w].ejected = entry[w].ejected
      PROVE  ReportInv'
  <2>1. CallKnown(c)
    BY <1>3 DEF CallKnown, Go, ReportInv, TypeInv, TypeOK
  <2>2. call' = [call EXCEPT ![c] = call[c]]
    BY <1>3 DEF TypeInv, TypeOK
  <2>3. \A d \in Callers : CallKnown(d)
    BY <1>3, <2>1, <2>2, OtherCalls DEF TypeInv
  <2>. QED  BY <1>3, <2>3, CallStep DEF CallFrame
<1>4. ASSUME NEW c \in Callers, Touch(c)
      PROVE  ReportInv'
  <2>1. \A w \in Watches : entry'[w].ejected = entry[w].ejected
    BY <1>4 DEF Touch, TypeInv, TypeOK, EntryType
  <2>. QED  BY <1>3, <1>4, <2>1 DEF Touch, sharedVars
<1>5. ASSUME NEW c \in Callers, Create(c)
      PROVE  ReportInv'
  <2>1. CASE Return(c, {}, TRUE) /\ UNCHANGED <<services, watch, entry>>
    <3>1. \A d \in Callers : CallKnown(d)
      BY <1>5, <2>1, ReturnKnown DEF Create, sharedVars
    <3>. QED  BY <1>5, <2>1, <3>1, CallStep DEF Create, CallFrame
  <2>2. ASSUME services[call[c].service] # NoWatch,
               call' = [call EXCEPT ![c].watch = services[call[c].service]],
               entry' = [entry EXCEPT ![services[call[c].service]].lastUsed = call[c].now],
               Go(c, "wait"), UNCHANGED <<services, watch>>
        PROVE  ReportInv'
    <3>1. call[c] \in CallType
      BY DEF TypeInv, TypeOK
    <3>2. CallKnown(c)
      BY <1>5, <2>2, <3>1
      DEF CallKnown, CallType, Create, Go, ReportInv, TypeInv, TypeOK, sharedVars
    <3>3. call' = [call EXCEPT ![c] = [call[c] EXCEPT !.watch = services[call[c].service]]]
      BY <2>2 DEF TypeInv, TypeOK
    <3>4. \A d \in Callers : CallKnown(d)
      BY <1>5, <2>2, <3>2, <3>3, OtherCalls DEF Create, sharedVars, TypeInv
    <3>5. \A w \in Watches : entry'[w].ejected = entry[w].ejected
      BY <2>2 DEF TypeInv, TypeOK, EntryType
    <3>. QED  BY <2>2, <3>4, <3>5, CallStep DEF CallFrame
  <2>3. CASE StartWatch(c)
    BY <1>5, <2>3, ReportStart DEF Create, sharedVars
  <2>. QED  BY <1>5, <2>1, <2>2, <2>3 DEF Create
<1>6. ASSUME NEW c \in Callers, WatchReady(c)
      PROVE  ReportInv'
  BY <1>3, <1>6 DEF WatchReady, sharedVars
<1>7. ASSUME NEW c \in Callers, CallerGivesUp(c)
      PROVE  ReportInv'
  <2>1. \A d \in Callers : CallKnown(d)
    BY <1>7, ReturnKnown DEF CallerGivesUp, sharedVars
  <2>. QED  BY <1>7, <2>1, CallStep DEF CallerGivesUp, CallFrame
<1>8. ASSUME NEW c \in Callers, WatchDone(c)
      PROVE  ReportInv'
  <2>1. CASE Return(c, {}, TRUE)
    <3>1. \A d \in Callers : CallKnown(d)
      BY <1>8, <2>1, ReturnKnown DEF WatchDone, sharedVars
    <3>. QED  BY <1>8, <3>1, CallStep DEF WatchDone, CallFrame
  <2>2. CASE call' = [call EXCEPT ![c].again = TRUE, ![c].watch = NoWatch] /\ Go(c, "again")
    <3>1. call[c] \in CallType
      BY DEF TypeInv, TypeOK
    <3>2. CallKnown(c)
      BY <1>8, <2>2, <3>1
      DEF CallKnown, CallType, WatchDone, Go, ReportInv, TypeInv, TypeOK, sharedVars
    <3>3. call' = [call EXCEPT ![c] = [call[c] EXCEPT !.again = TRUE, !.watch = NoWatch]]
      BY <2>2 DEF TypeInv, TypeOK
    <3>4. \A d \in Callers : CallKnown(d)
      BY <1>8, <2>2, <3>2, <3>3, OtherCalls DEF WatchDone, sharedVars, TypeInv
    <3>. QED  BY <1>8, <3>4, CallStep DEF WatchDone, CallFrame
  <2>. QED  BY <1>8, <2>1, <2>2 DEF WatchDone
<1>9. ASSUME NEW c \in Callers, Load(c)
      PROVE  ReportInv'
  <2>1. \A d \in Callers : CallKnown(d)
    <3>1. CASE ListKnown(c, watch[call[c].watch].list)
      BY <1>9, <3>1, ListKnownKnown DEF Load, sharedVars
    <3>2. ASSUME call' = [call EXCEPT ![c].list = watch[call[c].watch].list],
                 NEW step \in {"grace", "seen"}, Go(c, step)
          PROVE  \A d \in Callers : CallKnown(d)
      <4>1. call[c] \in CallType
        BY DEF TypeInv, TypeOK
      <4>2. CallKnown(c)
        BY <1>9, <3>2, <4>1
        DEF CallKnown, CallType, Load, Go, ReportInv, TypeInv, TypeOK, sharedVars
      <4>3. call' = [call EXCEPT ![c] = [call[c] EXCEPT !.list = watch[call[c].watch].list]]
        BY <3>2 DEF TypeInv, TypeOK
      <4>. QED  BY <1>9, <3>2, <4>2, <4>3, OtherCalls DEF Load, sharedVars, TypeInv
    <3>. QED  BY <1>9, <3>1, <3>2 DEF Load
  <2>. QED  BY <1>9, <2>1, CallStep DEF Load, CallFrame
<1>10. ASSUME NEW c \in Callers, Seen(c)
      PROVE  ReportInv'
  <2>1. \A w \in Watches : entry'[w].ejected = entry[w].ejected
    BY <1>10 DEF Seen, TypeInv, TypeOK, EntryType
  <2>. QED  BY <1>3, <1>10, <2>1 DEF Seen, sharedVars
<1>11. ASSUME NEW c \in Callers, Keep(c)
      PROVE  ReportInv'
  <2>1. \A d \in Callers : CallKnown(d)
    BY <1>11, ListKnownKnown DEF Keep, sharedVars
  <2>2. \A w \in Watches : entry'[w].ejected = entry[w].ejected
    BY <1>11 DEF Keep, TypeInv, TypeOK, EntryType
  <2>. QED  BY <1>11, <2>1, <2>2, CallStep DEF Keep, CallFrame
<1>12. ASSUME NEW c \in Callers, GraceList(c)
      PROVE  ReportInv'
  <2>1. \A d \in Callers : CallKnown(d)
    BY <1>12, ListKnownKnown DEF GraceList, sharedVars
  <2>. QED  BY <1>12, <2>1, CallStep DEF GraceList, CallFrame
<1>13. ASSUME NEW c \in Callers, Pick(c)
      PROVE  ReportInv'
  <2>1. \A i \in Available(c) : i \in Instances
    BY CallFacts DEF Available
  <2>2. \A d \in Callers : CallKnown(d)
    <3>1. CASE Return(c, {}, FALSE)
      BY <1>13, <3>1, ReturnKnown DEF Pick, sharedVars
    <3>2. ASSUME NEW i \in Available(c), Return(c, {i}, FALSE)
          PROVE  \A d \in Callers : CallKnown(d)
      BY <1>13, <2>1, <3>2, ReturnKnown DEF Pick, sharedVars
    <3>. QED  BY <1>13, <3>1, <3>2 DEF Pick
  <2>. QED  BY <1>13, <2>2, CallStep DEF Pick, CallFrame
<1>14. ASSUME NEW c \in Callers, ReportBegins(c)
      PROVE  ReportInv'
  <2>1. call[c] \in CallType
    BY DEF TypeInv, TypeOK
  <2>2. call' = [call EXCEPT ![c] = [call[c] EXCEPT !.watch = services[call[c].service],
                                               !.now = clock]]
    BY <1>14 DEF ReportBegins, TypeInv, TypeOK
  <2>3. CallKnown(c)
    BY <1>14, <2>1, <2>2, CallFacts
    DEF CallKnown, CallType, ReportBegins, Go, ReportInv, TypeInv, TypeOK, sharedVars
  <2>4. \A d \in Callers : CallKnown(d)
    BY <1>14, <2>2, <2>3, OtherCalls DEF ReportBegins, sharedVars, TypeInv
  <2>. QED  BY <1>14, <2>4, CallStep DEF ReportBegins, CallFrame
<1>15. ASSUME NEW c \in Callers, ReportRecords(c)
      PROVE  ReportInv'
  <2>1. \A d \in Callers : CallKnown(d)
    BY <1>15, ReturnKnown DEF ReportRecords, sharedVars
  <2>2. watch[call[c].watch].status # "free"
    BY <1>15 DEF ReportInv, ReportRecords, At
  <2>3. \A w \in Watches : watch[w].status = "free" => entry'[w].ejected = entry[w].ejected
    BY <1>15, <2>2 DEF ReportRecords, TypeInv, TypeOK
  <2>. QED  BY <1>15, <2>1, <2>3, CallStep DEF ReportRecords, CallFrame
<1>16. CASE JanitorSwaps
  <2>1. \A d \in Callers : CallKnown(d)
    BY <1>16 DEF JanitorSwaps, CallKnown, ReportInv, sharedVars
  <2>2. \A s \in Services : services[s] \in Watches \union {NoWatch}
    BY DEF TypeInv, TypeOK
  <2>3. \A s \in Services : services'[s] = services[s] \/ services'[s] = NoWatch
    BY <1>16, <2>2 DEF JanitorSwaps
  <2>4. \A d \in Callers : call[d].watch \in Watches \/ pc[d] # "record"
    BY CallFacts
  <2>. QED  BY <1>16, <2>1, <2>2, <2>3, <2>4, ReportFrame DEF JanitorSwaps
<1>17. ASSUME NEW w \in Watches, watch[w].status # "free",
              watch' = [watch EXCEPT ![w].status = "closing"]
              \/ watch' = [watch EXCEPT ![w].status = "ended"],
              UNCHANGED <<services, call, clock, pc, entry>>
       PROVE  ReportInv'
  <2>1. \A v \in Watches : watch'[v].status = "free" <=> watch[v].status = "free"
    BY <1>17 DEF TypeInv, TypeOK, WatchType
  <2>. QED  BY <1>0, <1>17, <2>1, QuietStep DEF ReportQuiet, TypeInv, TypeOK
<1>18. ASSUME UNCHANGED <<services, call, watch, entry>>, clock <= clock',
              \A c \in Callers : pc'[c] = pc[c]
       PROVE  ReportInv'
  BY <1>0, <1>18, QuietStep DEF ReportQuiet
<1>19. clock <= clock
  BY DEF TypeInv, TypeOK
<1>20. CASE JanitorTicks \/ JanitorScans \/ JanitorExits
  BY <1>18, <1>19, <1>20 DEF JanitorTicks, JanitorScans, JanitorExits, sharedVars
<1>21. CASE JanitorCloses
  BY <1>17, <1>18, <1>19, <1>21
  DEF JanitorCloses, CancelWatch, sharedVars, TypeInv, TypeOK
<1>22. ASSUME NEW c \in Closers, CloseBegins(c) \/ CloseStep(c)
       PROVE  ReportInv'
  BY <1>18, <1>19, <1>22, NamesAssumption
  DEF CloseBegins, CloseStep, CloseWatches, CloseReturns, Go, sharedVars, TypeInv, TypeOK
<1>23. CASE Tick
  BY <1>18, <1>23 DEF Tick, TypeInv, TypeOK
<1>24. ASSUME NEW w \in Watches, WatchPublishes(w)
       PROVE  ReportInv'
  <2>1. \A v \in Watches : watch'[v].status = watch[v].status
    BY <1>24 DEF WatchPublishes, TypeInv, TypeOK, WatchType
  <2>. QED  BY <1>0, <1>19, <1>24, <2>1, QuietStep DEF ReportQuiet, WatchPublishes, sharedVars
<1>25. ASSUME NEW w \in Watches, WatchEnds(w)
       PROVE  ReportInv'
  BY <1>17, <1>25 DEF WatchEnds, sharedVars
<1>26. CASE ParentDone \/ UNCHANGED vars
  BY <1>18, <1>19, <1>26 DEF ParentDone, vars, sharedVars
<1>. QED
  BY <1>1, <1>2, <1>4, <1>5, <1>6, <1>7, <1>8, <1>9, <1>10, <1>11, <1>12, <1>13, <1>14,
     <1>15, <1>16, <1>20, <1>21, <1>22, <1>23, <1>24, <1>25, <1>26
  DEF Next, CallerStep, JanitorStep

\* A report keeps every ejection that is still active, except its own.
LEMMA ReportKeeps ==
  ASSUME TypeInv, ReportInv, NEW c \in Callers, ReportRecords(c),
         NEW w \in Watches, NEW i \in Instances, entry[w].ejected[i] > clock,
         entry'[w].ejected[i] < entry[w].ejected[i]
  PROVE  call[c].got = {i}
<1>1. PICK j \in call[c].got :
        entry' = [entry EXCEPT ![call[c].watch].ejected = Ejections(@, j, call[c].now)]
  BY DEF ReportRecords
<1>2. call[c].now \in Nat /\ call[c].now <= clock /\ clock \in Nat
  BY CallFacts, BoundsAssumption DEF ReportInv, TypeInv, TypeOK
<1>3. entry[w].ejected \in [Instances -> Nat]
  BY DEF TypeInv, TypeOK, EntryType
<1>4. call[c].watch = w
  BY <1>1, <1>3 DEF TypeInv, TypeOK
<1>5. entry'[w].ejected = Ejections(entry[w].ejected, j, call[c].now)
  BY <1>1, <1>4 DEF TypeInv, TypeOK, EntryType
<1>6. i = j
  BY <1>2, <1>3, <1>5 DEF Ejections
<1>. QED  BY <1>6 DEF ReportInv

\* A new watch has no ejections to lose.
LEMMA StartKeeps ==
  ASSUME TypeInv, ReportInv, NEW c \in Callers, StartWatch(c),
         NEW w \in Watches, NEW i \in Instances, entry[w].ejected[i] > clock
  PROVE  entry'[w].ejected[i] = entry[w].ejected[i]
<1>1. PICK v \in Watches :
        /\ \A u \in Watches : watch[u].status = "free" <=> v <= u
        /\ entry' = [entry EXCEPT ![v] = NewEntry(call[c].now)]
  BY DEF StartWatch
<1>2. clock \in Nat /\ v <= v
  BY BoundsAssumption DEF TypeInv, TypeOK, Watches
<1>3. watch[v].status = "free"
  BY <1>1, <1>2
<1>4. entry[v].ejected[i] = 0
  BY <1>3 DEF ReportInv
<1>. QED  BY <1>1, <1>2, <1>4 DEF TypeInv, TypeOK

\* A step that is neither of these leaves the ejections alone.
LEMMA EjectionStep ==
  ASSUME TypeInv, [Next]_vars, \A c \in Callers : ~ReportRecords(c) /\ ~StartWatch(c)
  PROVE  \A w \in Watches : entry'[w].ejected = entry[w].ejected
<1>1. ASSUME NEW c \in Callers, Touch(c) \/ Seen(c) \/ Keep(c)
      PROVE  \A w \in Watches : entry'[w].ejected = entry[w].ejected
  <2>1. CASE Touch(c)
    BY <2>1 DEF Touch, TypeInv, TypeOK, EntryType
  <2>2. CASE Seen(c)
    BY <2>2 DEF Seen, TypeInv, TypeOK, EntryType
  <2>3. CASE Keep(c)
    BY <2>3 DEF Keep, TypeInv, TypeOK, EntryType
  <2>. QED  BY <1>1, <2>1, <2>2, <2>3
<1>2. ASSUME NEW c \in Callers, Create(c)
      PROVE  \A w \in Watches : entry'[w].ejected = entry[w].ejected
  <2>1. CASE UNCHANGED entry
    BY <2>1
  <2>2. ASSUME NEW v,
               entry' = [entry EXCEPT ![v].lastUsed = call[c].now]
        PROVE  \A w \in Watches : entry'[w].ejected = entry[w].ejected
    BY <2>2 DEF TypeInv, TypeOK, EntryType
  <2>. QED  BY <1>2, <2>1, <2>2 DEF Create
<1>3. UNCHANGED entry => \A w \in Watches : entry'[w].ejected = entry[w].ejected
  OBVIOUS
<1>. QED
  BY <1>1, <1>2, <1>3
  DEF Next, CallerStep, NextBegins, NextAgain, WatchReady, CallerGivesUp, WatchDone,
      Load, GraceList, Pick, ReportBegins, JanitorStep, JanitorTicks, JanitorScans,
      JanitorSwaps, JanitorCloses, JanitorExits, CloseBegins, CloseStep, CloseWatches,
      CloseReturns, Tick, WatchPublishes, WatchEnds, ParentDone, vars

\* No step takes back an ejection that is still active, except a report about
\* the same instance: concurrent reports do not undo each other.
THEOREM EjectionsLast == Spec => EjectionsSurvive
<1>1. Init => TypeInv /\ ReportInv
  BY TypeInit, ReportInit
<1>2. TypeInv /\ ReportInv /\ [Next]_vars => (TypeInv /\ ReportInv)'
  BY TypeStep, ReportStep
<1>. DEFINE Kept ==
       \A w \in Watches : \A i \in Instances :
         /\ entry[w].ejected[i] > clock
         /\ entry'[w].ejected[i] < entry[w].ejected[i]
         => \E c \in Callers : pc[c] = "record" /\ call[c].got = {i}
<1>3. TypeInv /\ ReportInv /\ [Next]_vars => Kept
  <2>. SUFFICES ASSUME TypeInv, ReportInv, [Next]_vars,
                       NEW w \in Watches, NEW i \in Instances,
                       entry[w].ejected[i] > clock,
                       entry'[w].ejected[i] < entry[w].ejected[i]
                PROVE  \E c \in Callers : pc[c] = "record" /\ call[c].got = {i}
    OBVIOUS
  <2>1. entry[w].ejected[i] \in Nat
    BY DEF TypeInv, TypeOK, EntryType
  <2>2. entry'[w].ejected # entry[w].ejected
    BY <2>1
  <2>3. \A c \in Callers : ~StartWatch(c)
    BY <2>1, StartKeeps
  <2>4. PICK c \in Callers : ReportRecords(c)
    BY <2>2, <2>3, EjectionStep
  <2>. QED  BY <2>4, ReportKeeps DEF ReportRecords, At
<1>. QED  BY <1>1, <1>2, <1>3, PTL DEF Spec, EjectionsSurvive, Kept

(***************************************************************************)
(* Balancer implements WatchPool: every step is a step of the pool, or     *)
(* leaves it alone.                                                        *)
(***************************************************************************)

\* What the pool sees of the watches: in particular a watch is only cancelled
\* when the janitor has taken it out of the map.
PoolInv ==
  /\ closed => ctxDone
  /\ \A w \in Entries \union janitor.idle : watch[w].status # "free"
  /\ \A w \in Watches :
       watch[w].status = "closing" => janitor.step = "closing" /\ w \in janitor.idle
  /\ janitor.step = "closing" => Entries \intersect janitor.idle = {}

Started  == {w \in Watches : watch[w].status # "free"}
Running  == {w \in Watches : Live(w)}
Over     == \E c \in Closers : pc[c] = "returned"

PoolStep == [Pool!PoolNext]_(Pool!poolVars)

\* A caller starts a watch, or moves alone.
CallerAlone ==
  /\ UNCHANGED <<services, watch, janitor, closed, ctxDone>>
  /\ \A d \in Closers : pc'[d] = pc[d]

Starts(c) ==
  /\ ~IsClosed
  /\ services[call[c].service] = NoWatch
  /\ StartWatch(c)
  /\ UNCHANGED <<closed, ctxDone>>

LEMMA CallerKeeps ==
  ASSUME TypeOK, NEW c \in Callers, CallerStep(c)
  PROVE  CallerAlone \/ Starts(c)
<1>. USE DEF CallerAlone, sharedVars
<1>1. CASE \E s \in Services : NextBegins(c, s)
  BY <1>1, CallerMoves DEF NextBegins, Lookup, Return
<1>2. CASE NextAgain(c)
  BY <1>2, CallerMoves DEF NextAgain, Lookup, Return
<1>3. CASE Touch(c) \/ WatchReady(c) \/ Seen(c)
  BY <1>3, CallerMoves DEF Touch, WatchReady, Seen
<1>4. CASE CallerGivesUp(c) \/ WatchDone(c) \/ Pick(c) \/ ReportRecords(c)
  BY <1>4, CallerMoves DEF CallerGivesUp, WatchDone, Pick, ReportRecords, Return
<1>5. CASE Load(c) \/ Keep(c) \/ GraceList(c)
  BY <1>5, CallerMoves DEF Load, Keep, GraceList, ListKnown
<1>6. CASE ReportBegins(c)
  BY <1>6, CallerMoves DEF ReportBegins
<1>7. CASE Create(c)
  <2>1. CASE Return(c, {}, TRUE) /\ UNCHANGED <<services, watch, entry, janitor>>
    BY <1>7, <2>1, CallerMoves DEF Create, Return
  <2>2. CASE Go(c, "wait") /\ UNCHANGED <<services, watch, janitor>>
    BY <1>7, <2>2, CallerMoves DEF Create
  <2>3. CASE ~IsClosed /\ services[call[c].service] = NoWatch /\ StartWatch(c)
    BY <1>7, <2>3 DEF Create, Starts
  <2>. QED  BY <1>7, <2>1, <2>2, <2>3 DEF Create
<1>. QED
  BY <1>1, <1>2, <1>3, <1>4, <1>5, <1>6, <1>7 DEF CallerStep

\* A watch that starts was free, and takes the place of none.
LEMMA StartWatchFacts ==
  ASSUME TypeInv, NEW c \in Callers, Starts(c)
  PROVE  \E s \in Services, w \in Watches :
           /\ services[s] = NoWatch /\ services' = [services EXCEPT ![s] = w]
           /\ watch[w].status = "free" /\ watch'[w].status = "open"
           /\ \A v \in Watches \ {w} : watch'[v] = watch[v]
           /\ janitor'.idle = janitor.idle
           /\ janitor'.step = "closing" <=> janitor.step = "closing"
           /\ \A d \in Closers : pc'[d] = pc[d]
<1>1. call[c].service \in Services
  BY CallFacts
<1>2. PICK w \in Watches :
        /\ watch[w].status = "free"
        /\ watch' = [watch EXCEPT ![w] = NewWatch]
        /\ services' = [services EXCEPT ![call[c].service] = w]
  <2>1. PICK w \in Watches :
          /\ \A v \in Watches : watch[v].status = "free" <=> w <= v
          /\ watch' = [watch EXCEPT ![w] = NewWatch]
          /\ services' = [services EXCEPT ![call[c].service] = w]
    BY DEF Starts, StartWatch
  <2>2. w <= w
    BY DEF Watches
  <2>. QED  BY <2>1, <2>2
<1>3. watch'[w].status = "open" /\ \A v \in Watches \ {w} : watch'[v] = watch[v]
  BY <1>2 DEF NewWatch, TypeInv, TypeOK
<1>4. /\ janitor'.idle = janitor.idle
      /\ janitor'.step = "closing" <=> janitor.step = "closing"
  BY DEF Starts, StartWatch, StartJanitor, TypeInv, TypeOK
<1>5. \A d \in Closers : pc'[d] = pc[d]
  BY CallerMoves DEF Starts, StartWatch, TypeInv
<1>. QED  BY <1>1, <1>2, <1>3, <1>4, <1>5 DEF Starts

\* A new balancer has no watch that could be cancelled.
LEMMA PoolInit == Init => PoolInv
<1>. SUFFICES ASSUME Init PROVE PoolInv
  OBVIOUS
<1>1. Entries = {} /\ janitor.idle = {} /\ ~closed /\ janitor.step = "off"
  BY DEF Init, Entries
<1>2. \A w \in Watches : watch[w].status = "free"
  BY DEF Init, NewWatch
<1>. QED  BY <1>1, <1>2 DEF PoolInv

\* A step that the pool's invariant does not see.
LEMMA PoolInvFrame ==
  ASSUME TypeOK, PoolInv, UNCHANGED services, closed' => ctxDone',
         \A w \in Watches : watch'[w].status = watch[w].status,
         janitor'.step = janitor.step, janitor'.idle = janitor.idle
  PROVE  PoolInv'
<1>1. Entries \union janitor.idle \subseteq Watches /\ Entries' = Entries
  BY DEF TypeOK, Entries
<1>. QED  BY <1>1 DEF PoolInv

\* Every step keeps the invariant.
LEMMA PoolInvStep == TypeInv /\ PoolInv /\ [Next]_vars => PoolInv'
<1>. SUFFICES ASSUME TypeInv, PoolInv, [Next]_vars PROVE PoolInv'
  OBVIOUS
<1>. USE DEF TypeInv
<1>0. /\ Entries \subseteq Watches /\ janitor.idle \subseteq Watches
      /\ services \in [Services -> Watches \union {NoWatch}]
      /\ watch \in [Watches -> WatchType] /\ NoWatch \notin Watches
      /\ janitor \in [step: JanitorSteps, tick: BOOLEAN, now: 0..MaxClock,
                      idle: SUBSET Watches]
      /\ closed => ctxDone
  BY NamesAssumption DEF TypeOK, Entries, PoolInv
<1>1. ASSUME NEW c \in Callers, CallerStep(c)
      PROVE  PoolInv'
  <2>1. CASE CallerAlone
    BY <1>0, <2>1, PoolInvFrame DEF CallerAlone
  <2>2. CASE Starts(c)
    <3>1. PICK s \in Services, w \in Watches :
            /\ services' = [services EXCEPT ![s] = w]
            /\ watch[w].status = "free" /\ watch'[w].status = "open"
            /\ \A v \in Watches \ {w} : watch'[v] = watch[v]
            /\ janitor'.idle = janitor.idle
            /\ janitor'.step = "closing" <=> janitor.step = "closing"
      BY <2>2, StartWatchFacts
    <3>2. Entries' \subseteq Entries \union {w} /\ w \notin janitor.idle
      BY <1>0, <3>1 DEF Entries, PoolInv
    <3>3. UNCHANGED <<closed, ctxDone>>
      BY <2>2 DEF Starts
    <3>4. \A v \in Entries' \union janitor'.idle : watch'[v].status # "free"
      BY <1>0, <3>1, <3>2 DEF PoolInv
    <3>5. \A v \in Watches : watch'[v].status = "closing" =>
            janitor'.step = "closing" /\ v \in janitor'.idle
      BY <3>1 DEF PoolInv
    <3>6. janitor'.step = "closing" => Entries' \intersect janitor'.idle = {}
      BY <3>1, <3>2 DEF PoolInv
    <3>. QED  BY <1>0, <3>3, <3>4, <3>5, <3>6 DEF PoolInv
  <2>. QED  BY <1>1, <2>1, <2>2, CallerKeeps
<1>2. CASE JanitorTicks \/ JanitorExits
  <2>1. /\ UNCHANGED <<services, watch, closed, ctxDone>>
        /\ janitor.step # "closing" /\ janitor'.step # "closing"
        /\ janitor'.idle = janitor.idle
    BY <1>0, <1>2 DEF JanitorTicks, JanitorExits, sharedVars
  <2>2. Entries' = Entries
    BY <2>1 DEF Entries
  <2>. QED  BY <1>0, <2>1, <2>2 DEF PoolInv
<1>3. CASE JanitorScans
  <2>1. /\ UNCHANGED <<services, watch, closed, ctxDone>>
        /\ janitor.step # "closing" /\ janitor'.step # "closing"
        /\ janitor'.idle \subseteq Entries
    BY <1>0, <1>3 DEF JanitorScans, sharedVars
  <2>2. Entries' = Entries
    BY <2>1 DEF Entries
  <2>. QED  BY <1>0, <2>1, <2>2 DEF PoolInv
<1>4. CASE JanitorSwaps
  <2>1. /\ UNCHANGED <<watch, closed, ctxDone>>
        /\ janitor.step # "closing" /\ janitor'.idle = janitor.idle
    BY <1>0, <1>4 DEF JanitorSwaps, sharedVars
  <2>2. Entries' \subseteq Entries \ janitor.idle
    BY <1>0, <1>4 DEF JanitorSwaps, Entries
  <2>. QED  BY <1>0, <2>1, <2>2 DEF PoolInv
<1>5. CASE JanitorCloses
  <2>0. UNCHANGED <<services, closed, ctxDone>> /\ Entries' = Entries
    BY <1>5 DEF JanitorCloses, Entries, sharedVars
  <2>1. ASSUME NEW w \in janitor.idle, CancelWatch(w), UNCHANGED janitor
        PROVE  PoolInv'
    <3>1. /\ w \in Watches /\ watch'[w].status = "closing"
          /\ \A v \in Watches \ {w} : watch'[v] = watch[v]
      BY <1>0, <2>1 DEF CancelWatch, WatchType
    <3>2. janitor.step = "closing"
      BY <1>5 DEF JanitorCloses
    <3>. QED  BY <1>0, <2>0, <2>1, <3>1, <3>2 DEF PoolInv
  <2>2. ASSUME NEW w \in janitor.idle, watch[w].status = "ended", UNCHANGED watch,
               janitor' = [janitor EXCEPT !.idle = janitor.idle \ {w}]
        PROVE  PoolInv'
    <3>1. janitor'.step = janitor.step /\ janitor'.idle = janitor.idle \ {w}
      BY <1>0, <2>2
    <3>. QED  BY <1>0, <2>0, <2>2, <3>1 DEF PoolInv
  <2>3. CASE /\ janitor.idle = {}
             /\ janitor' = [janitor EXCEPT !.step = "waiting"]
             /\ UNCHANGED watch
    <3>1. janitor'.step = "waiting" /\ janitor'.idle = {}
      BY <1>0, <2>3
    <3>. QED  BY <1>0, <2>0, <2>3, <3>1 DEF PoolInv
  <2>. QED  BY <1>5, <2>1, <2>2, <2>3 DEF JanitorCloses
<1>6. ASSUME NEW c \in Closers, CloseBegins(c) \/ CloseStep(c)
      PROVE  PoolInv'
  <2>1. UNCHANGED <<services, watch, janitor>> /\ (closed' => ctxDone')
    BY <1>0, <1>6 DEF CloseBegins, CloseStep, CloseWatches, CloseReturns, sharedVars
  <2>. QED  BY <2>1, PoolInvFrame
<1>7. CASE Tick \/ ParentDone \/ UNCHANGED vars
  <2>1. /\ UNCHANGED <<services, watch>> /\ (closed' => ctxDone')
        /\ janitor'.step = janitor.step /\ janitor'.idle = janitor.idle
    BY <1>0, <1>7 DEF Tick, ParentDone, vars, sharedVars
  <2>. QED  BY <2>1, PoolInvFrame
<1>8. ASSUME NEW w \in Watches, WatchPublishes(w)
      PROVE  PoolInv'
  <2>1. \A v \in Watches : watch'[v].status = watch[v].status
    BY <1>0, <1>8 DEF WatchPublishes, WatchType
  <2>. QED  BY <1>0, <1>8, <2>1, PoolInvFrame DEF WatchPublishes, sharedVars
<1>9. ASSUME NEW w \in Watches, WatchEnds(w)
      PROVE  PoolInv'
  <2>1. /\ watch'[w].status = "ended"
        /\ \A v \in Watches \ {w} : watch'[v] = watch[v]
    BY <1>0, <1>9 DEF WatchEnds, WatchType
  <2>2. UNCHANGED <<services, closed, ctxDone, janitor>> /\ Entries' = Entries
    BY <1>9 DEF WatchEnds, Entries, sharedVars
  <2>. QED  BY <1>0, <2>1, <2>2 DEF PoolInv
<1>. QED
  BY <1>1, <1>2, <1>3, <1>4, <1>5, <1>6, <1>7, <1>8, <1>9 DEF Next, JanitorStep

\* A step that leaves the map alone, starts and ends no watch, and lets no Close
\* return, is a stutter of the pool.
LEMMA PoolStutter ==
  ASSUME UNCHANGED <<services, ctxDone>>,
         \A w \in Watches : /\ Live(w)' <=> Live(w)
                            /\ watch'[w].status = "free" <=> watch[w].status = "free",
         \A c \in Closers : pc'[c] = "returned" <=> pc[c] = "returned"
  PROVE  PoolStep
<1>1. Started' = Started /\ Running' = Running
  BY DEF Started, Running
<1>2. Over' = Over
  BY DEF Over
<1>. QED  BY <1>1, <1>2 DEF PoolStep, Pool!poolVars, Started, Running, Over

\* A step that keeps the watches, the map and the end of the balancer's context.
LEMMA PoolStutterPlain ==
  ASSUME UNCHANGED <<services, watch, ctxDone>>,
         \A c \in Closers : pc'[c] = "returned" <=> pc[c] = "returned"
  PROVE  PoolStep
  BY PoolStutter DEF Live

\* Starting a watch is the pool's StartWatch.
LEMMA PoolStarts ==
  ASSUME TypeInv, PoolInv, NEW c \in Callers, Starts(c)
  PROVE  PoolStep
<1>1. PICK s \in Services, w \in Watches :
        /\ services[s] = NoWatch /\ services' = [services EXCEPT ![s] = w]
        /\ watch[w].status = "free" /\ watch'[w].status = "open"
        /\ \A v \in Watches \ {w} : watch'[v] = watch[v]
        /\ \A d \in Closers : pc'[d] = pc[d]
  BY StartWatchFacts
<1>2. ~ctxDone /\ ctxDone' = ctxDone
  BY DEF Starts, IsClosed
<1>3. w \notin Started /\ Started' = Started \union {w}
  BY <1>1 DEF Started
<1>4. Running' = Running \union {w}
  BY <1>1 DEF Running, Live
<1>5. Over' = Over
  BY <1>1 DEF Over
<1>6. Pool!StartWatch(s, w)
  BY <1>1, <1>2, <1>3, <1>4, <1>5 DEF Pool!StartWatch, Started, Running, Over
<1>. QED  BY <1>6 DEF PoolStep, Pool!PoolNext

\* Swapping the map is the pool's Release.
LEMMA PoolReleases ==
  ASSUME TypeInv, JanitorSwaps
  PROVE  PoolStep
<1>1. /\ services' = [s \in Services |-> IF services[s] \in janitor.idle THEN NoWatch
                                        ELSE services[s]]
      /\ UNCHANGED <<watch, ctxDone, pc>>
  BY DEF JanitorSwaps, sharedVars
<1>2. Started' = Started /\ Running' = Running /\ Over' = Over
  BY <1>1 DEF Started, Running, Over, Live
<1>3. Pool!Release(janitor.idle)
  BY <1>1, <1>2 DEF Pool!Release, Started, Running, Over
<1>4. janitor.idle \in SUBSET Watches
  BY DEF TypeInv, TypeOK
<1>. QED  BY <1>3, <1>4 DEF PoolStep, Pool!PoolNext

\* A watch ends because it was cancelled, and so out of the map, or with the
\* balancer's context.
LEMMA PoolEnds ==
  ASSUME TypeInv, PoolInv, NEW w \in Watches, WatchEnds(w)
  PROVE  PoolStep
<1>1. /\ watch'[w].status = "ended"
      /\ \A v \in Watches \ {w} : watch'[v] = watch[v]
      /\ UNCHANGED <<services, ctxDone, pc>>
  BY DEF WatchEnds, TypeInv, TypeOK, WatchType, sharedVars
<1>2. w \in Running /\ Running' = Running \ {w}
  BY <1>1 DEF WatchEnds, Running, Live
<1>3. Started' = Started /\ Over' = Over
  <2>1. watch[w].status # "free"
    BY DEF WatchEnds
  <2>. QED  BY <1>1, <2>1 DEF Started, Over
<1>4. ctxDone \/ \A s \in Services : services[s] # w
  <2>1. CASE watch[w].status = "closing"
    <3>1. w \in janitor.idle /\ Entries \intersect janitor.idle = {}
      BY <2>1 DEF PoolInv
    <3>2. w \notin Entries /\ w # NoWatch
      BY <3>1, NamesAssumption
    <3>. QED  BY <3>2 DEF Entries
  <2>. QED  BY <2>1 DEF WatchEnds
<1>5. Pool!EndWatch(w)
  BY <1>1, <1>2, <1>3, <1>4 DEF Pool!EndWatch, Started, Running, Over
<1>. QED  BY <1>5 DEF PoolStep, Pool!PoolNext

\* When the balancer's context ends the pool is shut.
LEMMA PoolShuts ==
  ASSUME ~ctxDone, ctxDone' = TRUE, UNCHANGED <<services, watch>>,
         \A c \in Closers : pc'[c] = "returned" <=> pc[c] = "returned"
  PROVE  PoolStep
<1>1. Started' = Started /\ Running' = Running /\ Over' = Over
  BY DEF Started, Running, Over, Live
<1>2. Pool!Shut
  BY <1>1 DEF Pool!Shut, Started, Running, Over
<1>. QED  BY <1>2 DEF PoolStep, Pool!PoolNext

\* A Close returns when nothing runs any more.
LEMMA PoolFinishes ==
  ASSUME TypeInv, SafetyInv, PoolInv, NEW c \in Closers, CloseReturns(c)
  PROVE  PoolStep
<1>1. /\ pc[c] = "joining" /\ janitor.step \in {"off", "exited"}
      /\ UNCHANGED <<services, watch, ctxDone>>
  BY DEF CloseReturns, At, sharedVars
<1>2. pc'[c] = "returned"
  BY DEF CloseReturns, Go, TypeInv, TypeOK
<1>3. closed /\ closing[c] = {} /\ janitor.idle = {}
  BY <1>1 DEF SafetyInv, CloseInv, JanitorInv
<1>4. ctxDone
  BY <1>3 DEF PoolInv
<1>5. Running = {}
  BY <1>1, <1>3 DEF SafetyInv, CloseInv, Running
<1>6. Over' /\ Started' = Started /\ Running' = Running
  BY <1>1, <1>2 DEF Over, Started, Running, Live
<1>7. Pool!Finish
  BY <1>1, <1>4, <1>5, <1>6 DEF Pool!Finish, Started, Running, Over
<1>. QED  BY <1>7 DEF PoolStep, Pool!PoolNext

\* Every step of the balancer is a step of the pool or a stutter.
LEMMA PoolSimulated ==
  TypeInv /\ SafetyInv /\ PoolInv /\ [Next]_vars => PoolStep
<1>. SUFFICES ASSUME TypeInv, SafetyInv, PoolInv, [Next]_vars PROVE PoolStep
  OBVIOUS
<1>0. TypeOK
  BY DEF TypeInv
<1>1. ASSUME NEW c \in Callers, CallerStep(c)
      PROVE  PoolStep
  <2>1. CASE CallerAlone
    BY <2>1, PoolStutterPlain DEF CallerAlone
  <2>. QED  BY <1>0, <1>1, <2>1, CallerKeeps, PoolStarts
<1>2. CASE JanitorTicks \/ JanitorScans \/ JanitorExits
  BY <1>2, PoolStutterPlain DEF JanitorTicks, JanitorScans, JanitorExits, sharedVars
<1>3. CASE JanitorCloses
  <2>0. UNCHANGED <<services, ctxDone, pc>>
    BY <1>3 DEF JanitorCloses, sharedVars
  <2>1. CASE \E w \in janitor.idle : CancelWatch(w)
    <3>1. PICK w \in Watches : CancelWatch(w)
      BY <1>0, <2>1 DEF TypeOK
    <3>2. /\ watch[w].status = "open" /\ watch'[w].status = "closing"
          /\ \A v \in Watches \ {w} : watch'[v] = watch[v]
      BY <1>0, <3>1 DEF CancelWatch, TypeOK, WatchType
    <3>3. \A v \in Watches : /\ Live(v)' <=> Live(v)
                             /\ watch'[v].status = "free" <=> watch[v].status = "free"
      BY <3>2 DEF Live
    <3>. QED  BY <2>0, <3>3, PoolStutter
  <2>2. CASE UNCHANGED watch
    BY <2>0, <2>2, PoolStutterPlain
  <2>. QED  BY <1>3, <2>1, <2>2 DEF JanitorCloses
<1>4. ASSUME NEW c \in Closers, CloseBegins(c)
      PROVE  PoolStep
  <2>1. /\ ctxDone' = TRUE /\ UNCHANGED <<services, watch>>
        /\ \A d \in Closers : pc'[d] = "returned" <=> pc[d] = "returned"
    BY <1>0, <1>4 DEF CloseBegins, At, Go, TypeOK
  <2>2. CASE ctxDone
    BY <1>0, <2>1, <2>2, PoolStutterPlain DEF TypeOK
  <2>. QED  BY <2>1, <2>2, PoolShuts
<1>5. ASSUME NEW c \in Closers, CloseWatches(c)
      PROVE  PoolStep
  <2>1. /\ UNCHANGED <<services, watch, ctxDone>>
        /\ \A d \in Closers : pc'[d] = "returned" <=> pc[d] = "returned"
    BY <1>0, <1>5 DEF CloseWatches, At, Go, TypeOK, sharedVars
  <2>. QED  BY <2>1, PoolStutterPlain
<1>6. CASE Tick \/ UNCHANGED vars
  BY <1>6, PoolStutterPlain DEF Tick, vars, sharedVars
<1>7. ASSUME NEW w \in Watches, WatchPublishes(w)
      PROVE  PoolStep
  <2>1. \A v \in Watches : watch'[v].status = watch[v].status
    BY <1>0, <1>7 DEF WatchPublishes, TypeOK, WatchType
  <2>2. UNCHANGED <<services, ctxDone, pc>>
    BY <1>7 DEF WatchPublishes, sharedVars
  <2>. QED  BY <2>1, <2>2, PoolStutter DEF Live
<1>8. CASE ParentDone
  BY <1>8, PoolShuts DEF ParentDone
<1>. QED
  BY <1>1, <1>2, <1>3, <1>4, <1>5, <1>6, <1>7, <1>8, PoolReleases, PoolEnds, PoolFinishes
     DEF Next, JanitorStep, CloseStep

\* The watches of the balancer are a pool as it is promised, for any number of
\* services, callers, watches and Close calls: while the balancer is open a watch
\* in the map runs, and Close returns after the last one has ended.
THEOREM PoolImplemented == Spec => ImplementsPool
<1>1. Init => Pool!PoolInit
  <2>. SUFFICES ASSUME Init PROVE Pool!PoolInit
    OBVIOUS
  <2>1. \A w \in Watches : watch[w].status = "free"
    BY DEF Init, NewWatch
  <2>2. Started = {} /\ Running = {}
    BY <2>1 DEF Started, Running, Live
  <2>3. Over = FALSE
    BY DEF Init, Over
  <2>. QED  BY <2>2, <2>3 DEF Init, Pool!PoolInit, Started, Running, Over
<1>2. TypeInv /\ SafetyInv /\ PoolInv /\ [Next]_vars
        => [Pool!PoolNext]_(Pool!poolVars)
  BY PoolSimulated DEF PoolStep
<1>. QED
  BY <1>1, <1>2, Invariance, PoolInit, PoolInvStep, PTL
     DEF Spec, ImplementsPool, Pool!PoolSpec

\* The watches in the map run as long as the pool is open, for callers.
Alive == ~ctxDone => \A s \in Services : services[s] # NoWatch => services[s] \in Running

\* Whatever the pool does keeps it so.
LEMMA PoolKeepsAlive ==
  ASSUME TypeOK, Alive, PoolStep
  PROVE  Alive'
<1>0. services \in [Services -> Watches \union {NoWatch}]
  BY DEF TypeOK
<1>1. ASSUME NEW s \in Services, NEW w \in Watches, Pool!StartWatch(s, w)
      PROVE  Alive'
  <2>1. /\ services' = [services EXCEPT ![s] = w] /\ ctxDone' = ctxDone
        /\ Running' = Running \union {w}
    BY <1>1 DEF Pool!StartWatch, Running
  <2>. QED  BY <1>0, <2>1 DEF Alive
<1>2. ASSUME NEW ws \in SUBSET Watches, Pool!Release(ws)
      PROVE  Alive'
  <2>1. /\ services' = [s \in Services |-> IF services[s] \in ws THEN NoWatch ELSE services[s]]
        /\ ctxDone' = ctxDone /\ Running' = Running
    BY <1>2 DEF Pool!Release, Running
  <2>. QED  BY <2>1 DEF Alive
<1>3. ASSUME NEW w \in Watches, Pool!EndWatch(w)
      PROVE  Alive'
  <2>1. /\ UNCHANGED <<services, ctxDone>> /\ Running' = Running \ {w}
        /\ ctxDone \/ \A s \in Services : services[s] # w
    BY <1>3 DEF Pool!EndWatch, Running
  <2>. QED  BY <2>1 DEF Alive
<1>4. CASE Pool!Shut
  BY <1>4 DEF Pool!Shut, Alive
<1>5. CASE Pool!Finish \/ UNCHANGED Pool!poolVars
  <2>1. UNCHANGED <<services, ctxDone>> /\ Running' = Running
    BY <1>5 DEF Pool!Finish, Pool!poolVars, Running
  <2>. QED  BY <2>1 DEF Alive
<1>. QED
  BY <1>1, <1>2, <1>3, <1>4, <1>5 DEF PoolStep, Pool!PoolNext

\* While the balancer is open, the watch that the map gives to a call runs: it can
\* only end under the call after it has been found.
THEOREM MapAlwaysLive == Spec => []MapIsLive
<1>1. Init => Alive
  BY DEF Init, Alive
<1>2. TypeInv /\ SafetyInv /\ PoolInv /\ Alive /\ [Next]_vars => Alive'
  BY PoolSimulated, PoolKeepsAlive DEF TypeInv
<1>3. Alive => MapIsLive
  BY DEF Alive, MapIsLive, Entries, Running
<1>. QED
  BY <1>1, <1>2, <1>3, Invariance, PoolInit, PoolInvStep, PTL DEF Spec

==============================================================================
