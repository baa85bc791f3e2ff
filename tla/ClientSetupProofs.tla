------------------------- MODULE ClientSetupProofs -------------------------
(***************************************************************************)
(* A process has one instance in the agent, for any configuration, network *)
(* and agent, and however often any of them changes.                       *)
(*                                                                         *)
(* OneInstance is not inductive: that a second registration goes under the *)
(* ID of the first rests on what the Client remembers (generated), on what *)
(* is on its way to the agent (attempt), and on no instance coming from a  *)
(* process that is yet to be started.                                      *)
(*                                                                         *)
(* Nothing is shared with the application, the last argument that sets a   *)
(* field decides it, and so does the last folder, for any arguments and    *)
(* any folders.                                                            *)
(*                                                                         *)
(* The types come last: what New accepts is a configuration that the other *)
(* two can work with, which takes what is known of each.                   *)
(***************************************************************************)
EXTENDS ClientSetup, TLAPS

\* An ID that does not depend on the process.
Steady == conf.id # "" \/ (conf.strategy = "hostname-port" /\ conf.fixedPort)
Configured == <<conf.id>>
HostAndPort == <<"host", 8080>>
SteadyID(i) ==
  /\ conf.id # "" => i = Configured
  /\ conf.id = "" => i = HostAndPort

\* The ID that this process goes by, once it has one.
OwnID == IF conf.id # "" THEN Configured ELSE generated
HasID == conf.id # "" \/ generated # <<>>

ProcessInv ==
  /\ DOMAIN process = {"incarnation", "uuids", "running"}
  /\ process.incarnation \in Nat

\* What a process has registered goes by its ID, and the ID stays.
ServicesInv ==
  /\ \A i \in DOMAIN services :
       /\ services[i].by \in Nat
       /\ services[i].by <= process.incarnation
       /\ services[i].by = process.incarnation => HasID /\ i = OwnID
  /\ \A i, j \in DOMAIN services : services[i].by = services[j].by => i = j
  /\ Steady => \A i \in DOMAIN services : SteadyID(i)

AttemptInv ==
  /\ attempt.step = "sending" => HasID /\ attempt.def.id = OwnID
  /\ Steady /\ HasID => SteadyID(OwnID)

RegisteringInv == ProcessInv /\ ServicesInv /\ AttemptInv

SetupInv ==
  /\ stage # "registering" => R!Fresh
  /\ stage = "registering" => RegisteringInv

-----------------------------------------------------------------------------

\* What the IDs depend on.
LEMMA SameSteady ==
  ASSUME UNCHANGED conf
  PROVE  Steady' = Steady /\ \A i : SteadyID(i)' = SteadyID(i)
  BY DEF Steady, SteadyID, Configured, HostAndPort

LEMMA SteadyIsUnique == \A i, j : SteadyID(i) /\ SteadyID(j) => i = j
  BY DEF SteadyID

LEMMA SameID == UNCHANGED <<conf, generated>> => HasID' = HasID /\ OwnID' = OwnID
  BY DEF HasID, OwnID, Configured

\* The agent's services after it has taken the definition of an attempt.
LEMMA Taken ==
  ASSUME RegisteringInv, R!InFlight, services' = R!Registered(attempt.def),
         UNCHANGED conf,
         \/ UNCHANGED <<generated, process>>
         \/ process'.incarnation = process.incarnation + 1
  PROVE  ServicesInv'
<1>. DEFINE id == attempt.def.id
<1>1. attempt.step = "sending" /\ HasID /\ id = OwnID
  BY DEF R!InFlight, RegisteringInv, AttemptInv
<1>2. /\ DOMAIN services' = DOMAIN services \union {id}
      /\ services'[id].by = process.incarnation
      /\ \A i \in DOMAIN services \ {id} : services'[i] = services[i]
  BY DEF R!Registered
<1>3. process.incarnation \in Nat
  BY DEF RegisteringInv, ProcessInv
<1>4. \A i \in DOMAIN services \ {id} :
        services[i].by \in Nat /\ services[i].by < process.incarnation
  BY <1>1, <1>3 DEF RegisteringInv, ServicesInv
<1>5. Steady' = Steady /\ \A i : SteadyID(i)' = SteadyID(i)
  BY SameSteady
<1>6. Steady => SteadyID(id)
  BY <1>1 DEF RegisteringInv, AttemptInv
<1>7. \/ process'.incarnation = process.incarnation /\ HasID' /\ OwnID' = id
      \/ process'.incarnation = process.incarnation + 1
  BY <1>1, SameID
<1>. HIDE DEF id
<1>8. ASSUME NEW i \in DOMAIN services'
      PROVE  /\ services'[i].by \in Nat
             /\ services'[i].by <= process'.incarnation
             /\ services'[i].by = process'.incarnation => HasID' /\ i = OwnID'
  BY <1>2, <1>3, <1>4, <1>7
<1>9. ASSUME NEW i \in DOMAIN services', NEW j \in DOMAIN services',
             services'[i].by = services'[j].by
      PROVE  i = j
  BY <1>2, <1>3, <1>4, <1>9 DEF RegisteringInv, ServicesInv
<1>10. Steady' => \A i \in DOMAIN services' : SteadyID(i)'
  BY <1>2, <1>5, <1>6 DEF RegisteringInv, ServicesInv
<1>. QED  BY <1>8, <1>9, <1>10 DEF ServicesInv

\* The agent's services after some are gone, or while the process gets its ID,
\* or when all are those of the processes before.
LEMMA Kept ==
  ASSUME RegisteringInv, UNCHANGED conf,
         \A i \in DOMAIN services' : i \in DOMAIN services /\ services'[i] = services[i],
         \/ /\ process'.incarnation = process.incarnation
            /\ HasID => HasID' /\ OwnID' = OwnID
         \/ process'.incarnation = process.incarnation + 1
  PROVE  ServicesInv'
<1>1. process.incarnation \in Nat
  BY DEF RegisteringInv, ProcessInv
<1>2. ASSUME NEW i \in DOMAIN services'
      PROVE  /\ services'[i].by \in Nat
             /\ services'[i].by <= process'.incarnation
             /\ services'[i].by = process'.incarnation => HasID' /\ i = OwnID'
  <2>1. /\ i \in DOMAIN services /\ services'[i] = services[i]
        /\ services[i].by \in Nat /\ services[i].by <= process.incarnation
        /\ services[i].by = process.incarnation => HasID /\ i = OwnID
    BY <1>2 DEF RegisteringInv, ServicesInv
  <2>. QED  BY <1>1, <2>1
<1>3. ASSUME NEW i \in DOMAIN services', NEW j \in DOMAIN services',
             services'[i].by = services'[j].by
      PROVE  i = j
  BY <1>3 DEF RegisteringInv, ServicesInv
<1>4. Steady' => \A i \in DOMAIN services' : SteadyID(i)'
  BY SameSteady DEF RegisteringInv, ServicesInv
<1>. QED  BY <1>2, <1>3, <1>4 DEF ServicesInv

\* A step that leaves the process and its attempts alone.
LEMMA WorldOK ==
  ASSUME RegisteringInv, UNCHANGED <<conf, process, generated, attempt>>,
         \A i \in DOMAIN services' : i \in DOMAIN services /\ services'[i] = services[i]
  PROVE  RegisteringInv'
<1>1. ServicesInv'
  BY SameID, Kept
<1>. QED  BY <1>1, SameID, SameSteady DEF RegisteringInv, ProcessInv, AttemptInv

\* A step that ends an attempt, or begins one, and leaves the rest alone.
LEMMA AttemptOK ==
  ASSUME RegisteringInv, ServicesInv', UNCHANGED <<conf, process, generated>>,
         attempt'.step # "sending"
  PROVE  RegisteringInv'
  BY SameID, SameSteady DEF RegisteringInv, ProcessInv, AttemptInv

\* The first definition gives the process its ID, and those after it have it.
LEMMA PrepareOK == ASSUME RegisteringInv, R!Prepare PROVE RegisteringInv'
<1>1. UNCHANGED <<conf, services>>
  BY DEF R!Prepare
<1>. DEFINE id == R!ServiceID
            address == R!ResolveAddress(conf, network)
            def == [id |-> id, address |-> address]
<1>2. CASE address = R!NotFound
  <2>1. attempt' = R!Idle /\ UNCHANGED <<generated, process>>
    BY <1>2 DEF R!Prepare
  <2>2. ServicesInv'
    BY <1>1, <2>1, Kept, SameID
  <2>. QED  BY <1>1, <2>1, <2>2, AttemptOK DEF R!Idle
<1>3. CASE address # R!NotFound
  <2>1. /\ generated' = IF conf.id = "" THEN id ELSE <<>>
        /\ \E n : process' = [process EXCEPT !.uuids = n]
        /\ attempt' \in {[step |-> "sending", def |-> def], R!Idle}
    BY <1>3 DEF R!Prepare
  <2>2. ProcessInv' /\ process'.incarnation = process.incarnation
    BY <2>1 DEF RegisteringInv, ProcessInv
  <2>3. /\ HasID => id = OwnID
        /\ id # <<>>
    BY DEF R!ServiceID, HasID, OwnID, Configured
  <2>4. Steady /\ ~HasID => SteadyID(id)
    <3>. SUFFICES ASSUME Steady, ~HasID PROVE SteadyID(id)
      OBVIOUS
    <3>1. conf.id = "" /\ generated = <<>>
      BY DEF HasID
    <3>2. conf.strategy # "random"
      BY <3>1 DEF Steady
    <3>3. R!ResolvePort = 8080
      <4>1. process.incarnation \in Nat
        BY DEF RegisteringInv, ProcessInv
      <4>2. conf.fixedPort
        BY <3>1 DEF Steady
      <4>. QED  BY <4>1, <4>2 DEF R!ResolvePort
    <3>4. id = <<"host", R!ResolvePort>>
      <4>1. /\ ~(conf.id # "") /\ ~(generated # <<>>) /\ ~(conf.strategy = "random")
        BY <3>1, <3>2
      <4>2. id = IF conf.id # "" THEN <<conf.id>>
                 ELSE IF generated # <<>> THEN generated
                 ELSE IF conf.strategy = "random" THEN <<"uuid", process.uuids + 1>>
                 ELSE <<"host", R!ResolvePort>>
        BY DEF R!ServiceID
      <4>. DEFINE c == <<conf.id>>
                  u == <<"uuid", process.uuids + 1>>
                  h == <<"host", R!ResolvePort>>
      <4>. HIDE DEF id, c, u, h
      <4>3. id = IF conf.id # "" THEN c
                 ELSE IF generated # <<>> THEN generated
                 ELSE IF conf.strategy = "random" THEN u ELSE h
        BY <4>2 DEF c, u, h
      <4>4. id = h
        BY <4>1, <4>3
      <4>. QED  BY <4>4 DEF h
    <3>5. id = HostAndPort
      BY <3>3, <3>4 DEF HostAndPort
    <3>. QED  BY <3>1, <3>5 DEF SteadyID
  <2>5. HasID' /\ OwnID' = id
    BY <1>1, <2>1, <2>3 DEF HasID, OwnID, Configured, R!ServiceID
  <2>6. Steady => SteadyID(OwnID')
    BY <2>3, <2>4, <2>5 DEF RegisteringInv, AttemptInv
  <2>7. ServicesInv'
    BY <1>1, <2>2, <2>3, <2>5, Kept
  <2>8. attempt'.step = "sending" => attempt'.def.id = id
    <3>. HIDE DEF id, address
    <3>1. def.id = id
      OBVIOUS
    <3>. HIDE DEF def
    <3>2. CASE attempt' = [step |-> "sending", def |-> def]
      BY <3>1, <3>2
    <3>3. CASE attempt' = R!Idle
      BY <3>3 DEF R!Idle
    <3>. QED  BY <2>1, <3>2, <3>3
  <2>. QED  BY <1>1, <2>2, <2>5, <2>6, <2>7, <2>8, SameSteady DEF RegisteringInv, AttemptInv
<1>. QED  BY <1>2, <1>3

\* A process that is started again has no ID yet.
LEMMA RestartOK == ASSUME RegisteringInv, R!Restart PROVE RegisteringInv'
<1>1. /\ UNCHANGED conf /\ generated' = <<>> /\ attempt' = R!Idle
      /\ process' = [process EXCEPT !.incarnation = @ + 1, !.running = TRUE]
      /\ services' = services \/ (R!InFlight /\ services' = R!Registered(attempt.def))
  BY DEF R!Restart
<1>2. ProcessInv' /\ process'.incarnation = process.incarnation + 1
  BY <1>1 DEF RegisteringInv, ProcessInv
<1>3. ServicesInv'
  BY <1>1, <1>2, Kept, Taken
<1>4. AttemptInv'
  <2>1. HasID' => conf.id # "" /\ OwnID' = Configured'
    BY <1>1 DEF HasID, OwnID
  <2>2. HasID' => SteadyID(OwnID)'
    BY <1>1, <2>1 DEF SteadyID
  <2>3. attempt'.step # "sending"
    BY <1>1 DEF R!Idle
  <2>. QED  BY <2>2, <2>3 DEF AttemptInv
<1>. QED  BY <1>2, <1>3, <1>4 DEF RegisteringInv

LEMMA RegistrarOK == ASSUME RegisteringInv, R!RegistrarStep PROVE RegisteringInv'
<1>1. CASE R!Detect
  <2>1. ServicesInv'
    BY <1>1, Kept, SameID DEF R!Detect
  <2>. QED  BY <1>1, <2>1, AttemptOK DEF R!Detect
<1>2. CASE R!Prepare
  BY <1>2, PrepareOK
<1>3. CASE R!Send
  <2>1. CASE R!InFlight
    BY <1>3, <2>1, Taken, AttemptOK DEF R!Send, R!Idle
  <2>2. CASE ~R!InFlight
    <3>1. ServicesInv'
      BY <1>3, <2>2, Kept, SameID DEF R!Send
    <3>. QED  BY <1>3, <3>1, AttemptOK DEF R!Send, R!Idle
  <2>. QED  BY <2>1, <2>2
<1>4. CASE R!SendFails
  <2>1. ServicesInv'
    BY <1>4, Kept, SameID DEF R!SendFails
  <2>. QED  BY <1>4, <2>1, AttemptOK DEF R!SendFails, R!Idle
<1>5. CASE R!LossNoticed
  BY <1>5, WorldOK DEF R!LossNoticed
<1>. QED  BY <1>1, <1>2, <1>3, <1>4, <1>5 DEF R!RegistrarStep

LEMMA StopOK == ASSUME RegisteringInv, R!Stop PROVE RegisteringInv'
<1>1. /\ UNCHANGED <<conf, generated, attempt>>
      /\ process' = [process EXCEPT !.running = FALSE]
      /\ \A i \in DOMAIN services' : i \in DOMAIN services /\ services'[i] = services[i]
  BY DEF R!Stop, R!Restrict
<1>2. ProcessInv' /\ process'.incarnation = process.incarnation
  BY <1>1 DEF RegisteringInv, ProcessInv
<1>3. ServicesInv'
  BY <1>1, <1>2, Kept, SameID
<1>. QED  BY <1>1, <1>2, <1>3, SameID, SameSteady DEF RegisteringInv, AttemptInv

LEMMA WorldStepOK == ASSUME RegisteringInv, R!WorldStep PROVE RegisteringInv'
<1>1. CASE R!AnswerLost
  BY <1>1, Taken, AttemptOK DEF R!AnswerLost, R!Idle
<1>2. CASE R!Restart
  BY <1>2, RestartOK
<1>3. CASE R!NetworkChanges
  BY <1>3, WorldOK DEF R!NetworkChanges, R!clientVars
<1>4. CASE R!AgentChanges
  BY <1>4, WorldOK DEF R!AgentChanges, R!clientVars
<1>. QED  BY <1>1, <1>2, <1>3, <1>4 DEF R!WorldStep

-----------------------------------------------------------------------------

LEMMA SetupInit == Init => SetupInv
  BY DEF Init, SetupInv

\* A new Client has registered nothing.
LEMMA FreshOK == R!Fresh => RegisteringInv
<1>. SUFFICES ASSUME R!Fresh PROVE RegisteringInv
  OBVIOUS
<1>1. ProcessInv
  BY DEF R!Fresh, ProcessInv
<1>2. DOMAIN services = {}
  BY DEF R!Fresh
<1>3. ServicesInv
  BY <1>2 DEF ServicesInv
<1>4. attempt.step # "sending"
  BY DEF R!Fresh, R!Idle
<1>5. HasID => SteadyID(OwnID)
  <2>1. HasID => conf.id # "" /\ OwnID = Configured
    BY DEF R!Fresh, HasID, OwnID
  <2>. QED  BY <2>1 DEF SteadyID
<1>. QED  BY <1>1, <1>3, <1>4, <1>5 DEF RegisteringInv, AttemptInv

LEMMA SetupStep == SetupInv /\ [Next]_vars => SetupInv'
<1>. SUFFICES ASSUME SetupInv, [Next]_vars PROVE SetupInv'
  OBVIOUS
<1>1. ASSUME UNCHANGED registrationVars PROVE R!Fresh => R!Fresh'
  BY <1>1 DEF R!Fresh, registrationVars, clientVars
<1>2. CASE UNCHANGED vars
  <2>1. RegisteringInv => RegisteringInv'
    BY <1>2, WorldOK DEF vars, registrationVars, clientVars
  <2>. QED  BY <1>1, <1>2, <2>1 DEF vars, SetupInv
<1>3. CASE Settle \/ Loads \/ Load
  BY <1>1, <1>3 DEF Settle, Loads, SettingsDone, Load, SetupInv
<1>4. CASE Registers
  <2>1. R!Fresh'
    BY <1>4 DEF Registers, SettingsDone, SetupInv, R!Fresh, clientVars
  <2>2. RegisteringInv'
    BY <2>1, FreshOK, PTL
  <2>. QED  BY <1>4, <2>2 DEF Registers, SetupInv
<1>5. CASE Register(R!RegistrarStep) \/ Register(R!Stop) \/ Register(R!WorldStep)
  BY <1>5, RegistrarOK, StopOK, WorldStepOK DEF Register, SetupInv
<1>. QED  BY <1>2, <1>3, <1>4, <1>5 DEF Next

\* The inductive invariant of the registration.
THEOREM SetupInvariance == Spec => []SetupInv
<1>. QED  BY SetupInit, SetupStep, PTL DEF Spec

\* A process has at most one instance in the agent, and under an ID that does
\* not depend on the process there is no second one of any process.
THEOREM OnlyOneInstance == Spec => []OneInstance
<1>1. SetupInv => OneInstance
  <2>. SUFFICES ASSUME ServicesInv PROVE R!OneInstance
    BY DEF SetupInv, RegisteringInv, OneInstance
  <2>. QED  BY SteadyIsUnique DEF ServicesInv, Steady, R!OneInstance
<1>. QED  BY <1>1, SetupInvariance, PTL

-----------------------------------------------------------------------------
(***************************************************************************)
(* What the Client reads lies in memory of its own.                        *)
(***************************************************************************)

MemoryInv ==
  /\ {"tags", "meta"} \subseteq DOMAIN cfg
  /\ cfg.tags \in {"", "tags"} /\ cfg.meta \in {"", "meta"}
  /\ DOMAIN AppData \subseteq DOMAIN mem

SettledInv == stage = "new" => MemoryInv

\* A pair of a Config and a memory that came from those of the Client.
Own(c, m) ==
  /\ {"tags", "meta"} \subseteq DOMAIN c
  /\ c.tags \in {"", "tags"} /\ c.meta \in {"", "meta"}
  /\ DOMAIN AppData \subseteq DOMAIN m /\ \A p \in DOMAIN AppData : m[p] = mem[p]

LEMMA NamesApart == {"tags", "meta"} \intersect DOMAIN AppData = {}
  BY SetupAssumption DEF S!ArgumentsOK, S!References

\* A field gets memory of its own.
LEMMA OwnPlace ==
  ASSUME NEW c, NEW m, Own(c, m), NEW x, NEW f \in {"tags", "meta"}
  PROVE  Own(c, [m EXCEPT ![f] = x])
  BY NamesApart DEF Own

LEMMA OwnTags ==
  ASSUME NEW c, NEW m, Own(c, m)
  PROVE  Own(S!Setting(c, [tags |-> "tags"]), m)
  BY DEF Own, S!Setting

LEMMA OwnMeta ==
  ASSUME NEW c, NEW m, Own(c, m)
  PROVE  Own(S!Setting(c, [meta |-> "meta"]), m)
  BY DEF Own, S!Setting

LEMMA OwnCloned ==
  ASSUME NEW c, NEW m, Own(c, m), NEW ref
  PROVE  Own(S!Cloned(c, m, ref)[1], S!Cloned(c, m, ref)[2])
<1>. DEFINE d == S!Setting(c, [tags |-> "tags"])
            n == [m EXCEPT !["tags"] = m[ref]]
<1>1. Own(d, n)
  BY OwnPlace, OwnTags
<1>2. S!Cloned(c, m, ref) = IF ref = "" THEN <<c, m>> ELSE <<d, n>>
  BY DEF S!Cloned
<1>. HIDE DEF d, n
<1>3. CASE ref = ""
  <2>1. S!Cloned(c, m, ref) = <<c, m>>
    BY <1>2, <1>3
  <2>2. S!Cloned(c, m, ref)[1] = c /\ S!Cloned(c, m, ref)[2] = m
    BY <2>1
  <2>. QED  BY <2>2, Zenon
<1>4. CASE ref # ""
  <2>1. S!Cloned(c, m, ref) = <<d, n>>
    BY <1>2, <1>4
  <2>2. S!Cloned(c, m, ref)[1] = d /\ S!Cloned(c, m, ref)[2] = n
    BY <2>1
  <2>. QED  BY <1>1, <2>2, Zenon
<1>. QED  BY <1>3, <1>4

LEMMA OwnMerged ==
  ASSUME NEW c, NEW m, Own(c, m), NEW ref
  PROVE  Own(S!Merged(c, m, ref)[1], S!Merged(c, m, ref)[2])
<1>. DEFINE d == S!Setting(c, [meta |-> "meta"])
            entries == S!Copied(m[ref], IF c.meta = "" THEN <<>> ELSE m[c.meta])
            n == [m EXCEPT !["meta"] = entries]
<1>1. S!Merged(c, m, ref) = IF ref = "" THEN <<c, m>> ELSE <<d, n>>
  BY Zenon DEF S!Merged
<1>. HIDE DEF entries
<1>2. Own(d, n)
  BY OwnPlace, OwnMeta
<1>. HIDE DEF d, n
<1>3. CASE ref = ""
  <2>1. S!Merged(c, m, ref) = <<c, m>>
    BY <1>1, <1>3
  <2>2. S!Merged(c, m, ref)[1] = c /\ S!Merged(c, m, ref)[2] = m
    BY <2>1
  <2>. QED  BY <2>2, Zenon
<1>4. CASE ref # ""
  <2>1. S!Merged(c, m, ref) = <<d, n>>
    BY <1>1, <1>4
  <2>2. S!Merged(c, m, ref)[1] = d /\ S!Merged(c, m, ref)[2] = n
    BY <2>1
  <2>. QED  BY <1>2, <2>2, Zenon
<1>. QED  BY <1>3, <1>4

LEMMA OwnSetting ==
  ASSUME NEW c, NEW m, Own(c, m), NEW sets, {"tags", "meta"} \intersect DOMAIN sets = {}
  PROVE  Own(S!Setting(c, sets), m)
  BY DEF Own, S!Setting

LEMMA OwnOverlay ==
  ASSUME NEW c, NEW m, Own(c, m), NEW layer
  PROVE  Own(S!Overlay(c, layer), m)
  BY OwnSetting DEF S!Overlay, S!Restrict, S!Plain, S!References

LEMMA OwnLayered ==
  ASSUME NEW c, NEW m, Own(c, m), NEW layer
  PROVE  Own(S!Layered(c, m, layer)[1], S!Layered(c, m, layer)[2])
  BY OwnOverlay, OwnCloned, OwnMerged DEF S!Layered

LEMMA OwnApplied ==
  ASSUME MemoryInv, NEW a \in Arguments
  PROVE  Own(S!Applied(a)[1], S!Applied(a)[2])
<1>1. Own(cfg, mem)
  BY DEF MemoryInv, Own
<1>2. CASE a.kind = "layer"
  BY <1>1, <1>2, OwnLayered DEF S!Applied
<1>3. CASE a.kind = "file"
  BY <1>1, <1>3, OwnLayered DEF S!Applied
<1>4. CASE a.kind = "assign"
  <2>1. S!Applied(a) = S!Assigned(cfg, mem, a.sets)
    BY <1>4 DEF S!Applied
  <2>2. CASE "tags" \in DOMAIN a.sets
    BY <1>1, <2>1, <2>2, OwnCloned DEF S!Assigned
  <2>3. CASE "tags" \notin DOMAIN a.sets
    <3>1. {"tags", "meta"} \intersect DOMAIN a.sets = {}
      BY <1>4, <2>3, SetupAssumption DEF S!ArgumentsOK, S!Plain, S!References
    <3>. QED  BY <1>1, <2>1, <2>3, <3>1, OwnSetting DEF S!Assigned
  <2>. QED  BY <2>2, <2>3
<1>5. CASE a.kind = "metadata"
  <2>1. S!Applied(a) = S!WithMetadata(cfg, mem, a.ref)
    BY <1>5 DEF S!Applied
  <2>2. CASE cfg.meta = ""
    BY <1>1, <2>1, <2>2, OwnMerged DEF S!WithMetadata
  <2>3. CASE cfg.meta # ""
    <3>1. cfg.meta = "meta"
      BY <2>3 DEF MemoryInv
    <3>. DEFINE entries == S!Copied(mem[a.ref], mem[cfg.meta])
                n == [mem EXCEPT !["meta"] = entries]
    <3>2. S!Applied(a) = <<cfg, n>>
      BY <2>1, <2>3, <3>1 DEF S!WithMetadata
    <3>. HIDE DEF entries
    <3>3. Own(cfg, n)
      BY <1>1, OwnPlace
    <3>. HIDE DEF n
    <3>. QED  BY <3>2, <3>3
  <2>. QED  BY <2>2, <2>3
<1>6. CASE a.kind = "invalid"
  BY <1>1, <1>6 DEF S!Applied
<1>. QED  BY <1>2, <1>3, <1>4, <1>5, <1>6, SetupAssumption DEF S!ArgumentsOK, S!Kinds

LEMMA SettledInit == Init => SettledInv
<1>. SUFFICES ASSUME Init PROVE MemoryInv
  BY DEF SettledInv
<1>1. /\ {"tags", "meta"} \subseteq S!Fields
      /\ S!Zero["tags"] = "" /\ S!Zero["meta"] = ""
  BY DEF S!Fields, S!Zero
<1>2. cfg = S!FromLookup(env)
  BY DEF Init, S!Init
<1>3. DOMAIN AppData \subseteq DOMAIN mem
  BY DEF Init, S!Init, S!Places
<1>4. ASSUME NEW f \in {"tags", "meta"} PROVE f \in DOMAIN cfg /\ cfg[f] \in {"", f}
  BY <1>1, <1>2 DEF S!FromLookup, S!References
<1>. QED  BY <1>3, <1>4 DEF MemoryInv

\* Defaults are for plain fields.
LEMMA DefaultedKeeps ==
  ASSUME MemoryInv
  PROVE  LET c == S!Defaulted(cfg)
         IN  DOMAIN c = DOMAIN cfg /\ c.tags = cfg.tags /\ c.meta = cfg.meta
  BY DEF MemoryInv, S!Defaulted

LEMMA SettleOK == ASSUME MemoryInv, S!Next PROVE MemoryInv' /\ S!Separate
<1>1. ASSUME NEW a \in Arguments, S!Apply(a) PROVE MemoryInv' /\ S!Separate
  BY <1>1, OwnApplied DEF S!Apply, Own, MemoryInv, S!Separate
<1>2. CASE S!Finish
  <2>1. cfg' \in {cfg, S!Defaulted(cfg)} /\ UNCHANGED mem /\ phase # "ready"
    BY <1>2 DEF S!Finish
  <2>2. MemoryInv'
    BY <2>1, DefaultedKeeps DEF MemoryInv
  <2>. QED  BY <2>1, <2>2 DEF S!Separate
<1>3. ASSUME NEW p \in DOMAIN AppData, S!AppWrites(p) PROVE MemoryInv' /\ S!Separate
  <2>1. UNCHANGED cfg /\ phase = "ready" /\ mem' = [mem EXCEPT ![p] = <<>>]
    BY <1>3 DEF S!AppWrites
  <2>2. p \notin {"tags", "meta"}
    BY NamesApart
  <2>3. mem'["tags"] = mem["tags"] /\ mem'["meta"] = mem["meta"]
    BY <2>1, <2>2
  <2>4. S!Effective' = S!Effective
    BY <2>1, <2>3 DEF S!Effective, S!References, MemoryInv
  <2>. QED  BY <2>1, <2>4 DEF S!Separate, MemoryInv
<1>. QED  BY <1>1, <1>2, <1>3 DEF S!Next

LEMMA SettledStep ==
  SettledInv /\ [Next]_vars => SettledInv' /\ [stage' = "new" => S!Separate]_vars
<1>. SUFFICES ASSUME SettledInv, [Next]_vars, stage' = "new"
              PROVE  MemoryInv' /\ [S!Separate]_vars
  BY DEF SettledInv
<1>1. CASE Settle
  BY <1>1, SettleOK DEF Settle, SettledInv
<1>2. CASE UNCHANGED vars
  BY <1>2 DEF vars, settingsVars, SettledInv, MemoryInv
<1>. QED  BY <1>1, <1>2 DEF Next, Registers, Loads, Register, Load

\* Building the Config writes to nothing that is the application's, and what
\* the application writes to its slices and maps does not reach the Client.
THEOREM NothingShared == Spec => SharesNothing
<1>1. SettledInv /\ [Next]_vars => SettledInv'
  BY SettledStep
<1>2. SettledInv /\ [Next]_vars => [stage' = "new" => S!Separate]_vars
  BY SettledStep
<1>. QED  BY <1>1, <1>2, SettledInit, PTL DEF Spec, SharesNothing

-----------------------------------------------------------------------------
(***************************************************************************)
(* The last setter of a field wins, for any number of arguments.           *)
(***************************************************************************)

\* The last argument that says something of a field, if any does.
LastSpeaker(f) == S!Speakers(f) # {} => S!Max(S!Speakers(f)) \in S!Speakers(f)

PrecedenceInv ==
  /\ DOMAIN cfg = S!Fields
  /\ args \in Seq(Arguments)
  /\ \A f \in S!Plain : LastSpeaker(f)
  /\ phase = "applying" => \A f \in S!Plain : cfg[f] = S!Asked(f)
  /\ S!LastSetterWins

LayeredInv ==
  /\ stage = "new" => PrecedenceInv
  /\ stage # "new" => phase = "done"

LEMMA OverlaySays ==
  ASSUME NEW c, DOMAIN c = S!Fields, NEW layer, DOMAIN layer = S!Fields, NEW f \in S!Plain
  PROVE  /\ DOMAIN S!Overlay(c, layer) = S!Fields
         /\ S!Overlay(c, layer)[f] = IF layer[f] # S!Zero[f] THEN layer[f] ELSE c[f]
<1>. DEFINE said == S!Restrict(layer, {g \in S!Plain : layer[g] # S!Zero[g]})
<1>1. f \in S!Fields
  BY DEF S!Plain
<1>2. /\ DOMAIN said = {g \in S!Plain : layer[g] # S!Zero[g]}
      /\ \A g \in DOMAIN said : said[g] = layer[g]
  BY DEF S!Restrict
<1>3. S!Overlay(c, layer) = S!Setting(c, said)
  BY DEF S!Overlay
<1>. HIDE DEF said
<1>. QED  BY <1>1, <1>2, <1>3 DEF S!Setting

\* A copy or a merge changes what is held by reference.
LEMMA ClonedPlain ==
  ASSUME NEW c, DOMAIN c = S!Fields, NEW m, NEW ref, NEW f \in S!Plain
  PROVE  DOMAIN S!Cloned(c, m, ref)[1] = S!Fields /\ S!Cloned(c, m, ref)[1][f] = c[f]
<1>1. f \in S!Fields /\ f # "tags"
  BY DEF S!Plain, S!References
<1>2. S!Cloned(c, m, ref)[1] \in {c, S!Setting(c, [tags |-> "tags"])}
  BY DEF S!Cloned
<1>. QED  BY <1>1, <1>2 DEF S!Setting

LEMMA MergedPlain ==
  ASSUME NEW c, DOMAIN c = S!Fields, NEW m, NEW ref, NEW f \in S!Plain
  PROVE  DOMAIN S!Merged(c, m, ref)[1] = S!Fields /\ S!Merged(c, m, ref)[1][f] = c[f]
<1>1. f \in S!Fields /\ f # "meta"
  BY DEF S!Plain, S!References
<1>2. S!Merged(c, m, ref)[1] \in {c, S!Setting(c, [meta |-> "meta"])}
  BY DEF S!Merged
<1>. QED  BY <1>1, <1>2 DEF S!Setting

LEMMA LayeredSays ==
  ASSUME NEW c, DOMAIN c = S!Fields, NEW m, NEW layer, DOMAIN layer = S!Fields, NEW f \in S!Plain
  PROVE  /\ DOMAIN S!Layered(c, m, layer)[1] = S!Fields
         /\ S!Layered(c, m, layer)[1][f] = IF layer[f] # S!Zero[f] THEN layer[f] ELSE c[f]
<1>. DEFINE d == S!Overlay(c, layer)
            sliced == S!Cloned(d, m, layer.tags)
<1>1. DOMAIN d = S!Fields /\ d[f] = IF layer[f] # S!Zero[f] THEN layer[f] ELSE c[f]
  BY OverlaySays
<1>2. S!Layered(c, m, layer) = S!Merged(sliced[1], sliced[2], layer.meta)
  BY DEF S!Layered
<1>. HIDE DEF d
<1>3. DOMAIN sliced[1] = S!Fields /\ sliced[1][f] = d[f]
  BY <1>1, ClonedPlain
<1>. HIDE DEF sliced
<1>. QED  BY <1>1, <1>2, <1>3, MergedPlain

LEMMA AppliedSays ==
  ASSUME DOMAIN cfg = S!Fields, NEW a \in Arguments, NEW f \in S!Plain
  PROVE  /\ DOMAIN S!Applied(a)[1] = S!Fields
         /\ S!Says(a, f) => S!Applied(a)[1][f] = S!Said(a, f)
         /\ ~S!Says(a, f) => S!Applied(a)[1][f] = cfg[f]
<1>1. CASE a.kind = "layer"
  <2>1. DOMAIN a.cfg = S!Fields
    BY <1>1, SetupAssumption DEF S!ArgumentsOK
  <2>. DEFINE c == S!Layered(cfg, mem, a.cfg)[1]
  <2>2. S!Applied(a)[1] = c
    BY <1>1 DEF S!Applied
  <2>3. (S!Says(a, f) <=> a.cfg[f] # S!Zero[f]) /\ S!Said(a, f) = a.cfg[f]
    BY <1>1 DEF S!Says, S!Said
  <2>4. DOMAIN c = S!Fields /\ c[f] = IF a.cfg[f] # S!Zero[f] THEN a.cfg[f] ELSE cfg[f]
    BY <2>1, LayeredSays
  <2>. HIDE DEF c
  <2>. QED  BY <2>2, <2>3, <2>4
<1>2. CASE a.kind = "file"
  <2>. DEFINE e == S!FromLookup(env)
              file == S!FromFile(a.cfg)
              c == S!Layered(cfg, mem, file)[1]
  <2>1. DOMAIN a.cfg = S!Fields
    BY <1>2, SetupAssumption DEF S!ArgumentsOK
  <2>2. DOMAIN e = S!Fields
    BY DEF S!FromLookup
  <2>3. S!Applied(a)[1] = c
    BY <1>2 DEF S!Applied
  <2>4. /\ S!Says(a, f) <=> a.cfg[f] # S!Zero[f] \/ e[f] # S!Zero[f]
        /\ S!Said(a, f) = IF e[f] = S!Zero[f] THEN a.cfg[f] ELSE e[f]
    BY <1>2 DEF S!Says, S!Said, S!Or
  <2>5. file = S!Overlay(a.cfg, e)
    BY DEF S!FromFile
  <2>. HIDE DEF e, file
  <2>6. DOMAIN file = S!Fields /\ file[f] = IF e[f] # S!Zero[f] THEN e[f] ELSE a.cfg[f]
    BY <2>1, <2>2, <2>5, OverlaySays
  <2>7. DOMAIN c = S!Fields /\ c[f] = IF file[f] # S!Zero[f] THEN file[f] ELSE cfg[f]
    BY <2>6, LayeredSays
  <2>. HIDE DEF c
  <2>. QED  BY <2>3, <2>4, <2>6, <2>7
<1>3. CASE a.kind = "assign"
  <2>1. S!Applied(a)[1] = S!Assigned(cfg, mem, a.sets)[1]
    BY <1>3 DEF S!Applied
  <2>2. (S!Says(a, f) <=> f \in DOMAIN a.sets) /\ S!Said(a, f) = a.sets[f]
    BY <1>3 DEF S!Says, S!Said
  <2>3. CASE "tags" \in DOMAIN a.sets
    <3>. DEFINE c == S!Cloned(cfg, mem, a.sets.tags)[1]
    <3>1. f \notin DOMAIN a.sets
      BY <1>3, <2>3, SetupAssumption DEF S!ArgumentsOK, S!Plain, S!References
    <3>2. S!Applied(a)[1] = c
      BY <2>1, <2>3 DEF S!Assigned
    <3>3. DOMAIN c = S!Fields /\ c[f] = cfg[f]
      BY ClonedPlain
    <3>. HIDE DEF c
    <3>. QED  BY <2>2, <3>1, <3>2, <3>3
  <2>4. CASE "tags" \notin DOMAIN a.sets
    <3>1. S!Applied(a)[1] = S!Setting(cfg, a.sets)
      BY <2>1, <2>4 DEF S!Assigned
    <3>. QED  BY <2>2, <3>1 DEF S!Setting, S!Plain
  <2>. QED  BY <2>3, <2>4
<1>4. CASE a.kind = "metadata"
  <2>. DEFINE c == S!Merged(cfg, mem, a.ref)[1]
  <2>1. ~S!Says(a, f)
    BY <1>4 DEF S!Says
  <2>2. S!Applied(a)[1] = c \/ S!Applied(a)[1] = cfg
    BY <1>4 DEF S!Applied, S!WithMetadata
  <2>3. DOMAIN c = S!Fields /\ c[f] = cfg[f]
    BY MergedPlain
  <2>. HIDE DEF c
  <2>. QED  BY <2>1, <2>2, <2>3
<1>5. CASE a.kind = "invalid"
  BY <1>5 DEF S!Applied, S!Says
<1>. QED  BY <1>1, <1>2, <1>3, <1>4, <1>5, SetupAssumption DEF S!ArgumentsOK, S!Kinds

\* No default takes the place of what is set.
LEMMA DefaultedGivesWay ==
  ASSUME DOMAIN cfg = S!Fields, NEW f \in S!Plain, cfg[f] # S!Zero[f],
         ~(f = "check" /\ cfg[f] = "auto")
  PROVE  S!Defaulted(cfg)[f] = cfg[f]
<1>. DEFINE defaulted == {"strategy", "endpoints", "checkPath", "check", "interval", "timeout",
                          "autoRegister"}
<1>1. f \in DOMAIN cfg
  BY DEF S!Plain
<1>2. CASE f \notin defaulted
  BY <1>1, <1>2 DEF S!Defaulted
<1>3. /\ S!Zero["strategy"] = "" /\ S!Zero["checkPath"] = "" /\ S!Zero["check"] = ""
      /\ S!Zero["autoRegister"] = "" /\ S!Zero["endpoints"] = S!NoPaths
      /\ S!Zero["interval"] = 0 /\ S!Zero["timeout"] = 0
  BY DEF S!Zero
<1>4. CASE f = "strategy"
  BY <1>1, <1>3, <1>4 DEF S!Defaulted, S!Or
<1>5. CASE f = "endpoints"
  BY <1>1, <1>3, <1>5 DEF S!Defaulted
<1>6. CASE f = "checkPath"
  BY <1>1, <1>3, <1>6 DEF S!Defaulted, S!CheckPath
<1>7. CASE f = "check"
  BY <1>1, <1>3, <1>7 DEF S!Defaulted, S!Check
<1>8. CASE f = "interval"
  BY <1>1, <1>3, <1>8 DEF S!Defaulted, S!Or
<1>9. CASE f = "timeout"
  BY <1>1, <1>3, <1>9 DEF S!Defaulted, S!Or
<1>10. CASE f = "autoRegister"
  BY <1>1, <1>3, <1>10 DEF S!Defaulted, S!Or
<1>. QED  BY <1>2, <1>4, <1>5, <1>6, <1>7, <1>8, <1>9, <1>10

LEMMA ApplyPrecedence ==
  ASSUME PrecedenceInv, NEW a \in Arguments, S!Apply(a)
  PROVE  PrecedenceInv'
<1>. DEFINE n == Len(args)
<1>1. /\ args' = Append(args, a) /\ cfg' = S!Applied(a)[1]
      /\ phase = "applying" /\ UNCHANGED <<env, phase>>
  BY DEF S!Apply
<1>2. /\ args' \in Seq(Arguments) /\ DOMAIN args = 1..n /\ DOMAIN args' = 1..(n + 1)
      /\ args'[n + 1] = a /\ \A i \in 1..n : args'[i] = args[i]
      /\ n \in Nat
  BY <1>1 DEF PrecedenceInv
<1>3. ASSUME NEW f \in S!Plain PROVE LastSpeaker(f)' /\ cfg'[f] = S!Asked(f)'
  <2>1. /\ S!Says(a, f) => cfg'[f] = S!Said(a, f)
        /\ ~S!Says(a, f) => cfg'[f] = cfg[f]
        /\ cfg[f] = S!Asked(f)
    BY <1>1, AppliedSays DEF PrecedenceInv
  <2>2. \A b : S!Says(b, f)' = S!Says(b, f) /\ S!Said(b, f)' = S!Said(b, f)
    BY <1>1 DEF S!Says, S!Said, S!FromLookup
  <2>3. S!FromLookup(env)' = S!FromLookup(env)
    BY <1>1 DEF S!FromLookup
  <2>4. S!Speakers(f)' = S!Speakers(f) \union {i \in {n + 1} : S!Says(a, f)}
    BY <1>2, <2>2 DEF S!Speakers
  <2>5. S!Speakers(f) \subseteq 1..n
    BY <1>2 DEF S!Speakers
  <2>6. CASE S!Says(a, f)
    <3>1. S!Max(S!Speakers(f)') = n + 1
      BY <1>2, <2>4, <2>5, <2>6 DEF S!Max
    <3>. QED  BY <1>2, <2>1, <2>2, <2>4, <2>6, <3>1 DEF LastSpeaker, S!Asked
  <2>7. CASE ~S!Says(a, f)
    <3>1. S!Speakers(f)' = S!Speakers(f)
      BY <2>4, <2>7
    <3>2. S!Speakers(f) # {} => S!Max(S!Speakers(f)) \in 1..n
      BY <2>5 DEF PrecedenceInv, LastSpeaker
    <3>. QED  BY <1>2, <2>1, <2>2, <2>3, <2>7, <3>1, <3>2 DEF PrecedenceInv, LastSpeaker, S!Asked
  <2>. QED  BY <2>6, <2>7
<1>4. DOMAIN cfg' = S!Fields
  <2>1. PICK f : f \in S!Plain
    BY DEF S!Plain, S!Fields, S!References, S!Zero
  <2>. QED  BY <1>1, <2>1, AppliedSays DEF PrecedenceInv
<1>. QED  BY <1>1, <1>2, <1>3, <1>4 DEF PrecedenceInv, S!LastSetterWins

LEMMA FinishPrecedence == ASSUME PrecedenceInv, S!Finish PROVE PrecedenceInv'
<1>1. /\ phase = "applying" /\ phase' # "applying" /\ UNCHANGED <<env, args>>
      /\ cfg' \in {cfg, S!Defaulted(cfg)}
  BY DEF S!Finish
<1>2. \A f \in S!Plain : S!Asked(f)' = S!Asked(f) /\ (LastSpeaker(f) <=> LastSpeaker(f)')
  BY <1>1 DEF S!Asked, LastSpeaker, S!Speakers, S!Says, S!Said, S!FromLookup
<1>3. DOMAIN cfg' = S!Fields
  BY <1>1 DEF PrecedenceInv, S!Defaulted
<1>4. ASSUME NEW f \in S!Plain, S!Asked(f)' # S!Zero[f], ~(f = "check" /\ S!Asked(f)' = "auto")
      PROVE  cfg'[f] = S!Asked(f)'
  BY <1>1, <1>2, <1>4, DefaultedGivesWay DEF PrecedenceInv
<1>. QED  BY <1>1, <1>2, <1>3, <1>4 DEF PrecedenceInv, S!LastSetterWins

LEMMA LayeredInit == Init => LayeredInv
<1>. SUFFICES ASSUME Init PROVE PrecedenceInv
  BY DEF LayeredInv, Init
<1>1. cfg = S!FromLookup(env) /\ args = <<>> /\ phase # "ready"
  BY DEF Init, S!Init
<1>2. \A f \in S!Plain : S!Speakers(f) = {}
  BY <1>1 DEF S!Speakers
<1>3. DOMAIN cfg = S!Fields
  BY <1>1 DEF S!FromLookup
<1>. QED  BY <1>1, <1>2, <1>3 DEF PrecedenceInv, LastSpeaker, S!Asked, S!LastSetterWins

LEMMA LayeredStep == LayeredInv /\ [Next]_vars => LayeredInv'
<1>. SUFFICES ASSUME LayeredInv, [Next]_vars PROVE LayeredInv'
  OBVIOUS
<1>1. ASSUME PrecedenceInv, UNCHANGED <<env, args, cfg, phase>> PROVE PrecedenceInv'
  <2>1. \A f \in S!Plain : S!Asked(f)' = S!Asked(f) /\ (LastSpeaker(f) <=> LastSpeaker(f)')
    BY <1>1 DEF S!Asked, LastSpeaker, S!Speakers, S!Says, S!Said, S!FromLookup
  <2>2. PrecedenceInv
    BY <1>1
  <2>. QED  BY <1>1, <2>1, <2>2 DEF PrecedenceInv, S!LastSetterWins
<1>2. CASE Settle
  BY <1>1, <1>2, ApplyPrecedence, FinishPrecedence
     DEF Settle, LayeredInv, S!Next, S!AppWrites
<1>3. CASE UNCHANGED vars
  BY <1>1, <1>3 DEF vars, settingsVars, LayeredInv
<1>4. CASE Registers \/ Loads
  BY <1>4 DEF Registers, Loads, SettingsDone, LayeredInv
<1>5. CASE Load \/ Register(R!RegistrarStep) \/ Register(R!Stop) \/ Register(R!WorldStep)
  BY <1>5 DEF Load, Register, settingsVars, LayeredInv
<1>. QED  BY <1>2, <1>3, <1>4, <1>5 DEF Next

\* The argument that set a field last decides it, and no default overrides it.
THEOREM LastSetterAlwaysWins == Spec => []LastSetterWins
<1>1. LayeredInv => LastSetterWins
  BY DEF LayeredInv, PrecedenceInv, LastSetterWins, S!LastSetterWins
<1>. QED  BY <1>1, LayeredInit, LayeredStep, PTL DEF Spec

-----------------------------------------------------------------------------
(***************************************************************************)
(* The loader: what was merged is what the last folders say.               *)
(***************************************************************************)

\* A folder read has a key with this name, on its own or in a section.
Mentions(folders, k) ==
  \E i \in DOMAIN folders : \E p \in DOMAIN folders[i] : p[1] = k

\* Folder i gives the path a value, and no later one replaces its section.
Speaks(folders, p, i) ==
  /\ i \in DOMAIN folders
  /\ p \in DOMAIN folders[i]
  /\ Len(p) = 2 => \A j \in DOMAIN folders : j > i => <<p[1]>> \notin DOMAIN folders[j]

SpeaksLast(folders, p, i) ==
  /\ Speaks(folders, p, i)
  /\ \A j : Speaks(folders, p, j) => j <= i

\* An entry is a folder of what is still said about its section,
FolderOK(entry, folders, k) ==
  /\ entry = T!Folder(entry.tree)
  /\ \A l : l \in DOMAIN entry.tree <=> \E i : Speaks(folders, <<k, l>>, i)
  /\ \A l, i : SpeaksLast(folders, <<k, l>>, i) => entry.tree[l] = folders[i][<<k, l>>]

\* or the last value of its own.
LeafOK(entry, folders, k) ==
  /\ entry = T!Leaf(entry.text)
  /\ \A l, i : ~Speaks(folders, <<k, l>>, i)
  /\ \E i : Speaks(folders, <<k>>, i)
  /\ \A i : SpeaksLast(folders, <<k>>, i) => entry.text = folders[i][<<k>>]

MergedOK(tree, folders) ==
  /\ \A k : k \in DOMAIN tree <=> Mentions(folders, k)
  /\ \A k \in DOMAIN tree : FolderOK(tree[k], folders, k) \/ LeafOK(tree[k], folders, k)
  /\ \A p : (\E i : Speaks(folders, p, i)) => \E i : SpeaksLast(folders, p, i)

\* What is decoded from a folder.
LEMMA Decoded ==
  ASSUME NEW pairs \in Contents, ~T!Conflicting(pairs)
  PROVE  LET tree == T!Decode(pairs)
         IN  /\ \A k : k \in DOMAIN tree <=> \E p \in DOMAIN pairs : p[1] = k
             /\ \A k \in DOMAIN tree :
                  IF <<k>> \in DOMAIN pairs
                  THEN tree[k] = T!Leaf(pairs[<<k>>]) /\ \A l : <<k, l>> \notin DOMAIN pairs
                  ELSE /\ tree[k] = T!Folder(tree[k].tree)
                       /\ \A l : l \in DOMAIN tree[k].tree <=> <<k, l>> \in DOMAIN pairs
                       /\ \A l \in DOMAIN tree[k].tree : tree[k].tree[l] = pairs[<<k, l>>]
<1>. DEFINE tree == T!Decode(pairs)
            names(k) == {p[2] : p \in {p \in DOMAIN pairs : p[1] = k}}
            section(k) == [l \in names(k) |-> pairs[<<k, l>>]]
<1>1. \A k : k \in DOMAIN tree <=> \E p \in DOMAIN pairs : p[1] = k
  BY DEF T!Decode
<1>2. ASSUME NEW k \in DOMAIN tree, <<k>> \in DOMAIN pairs
      PROVE  tree[k] = T!Leaf(pairs[<<k>>]) /\ \A l : <<k, l>> \notin DOMAIN pairs
  <2>1. tree[k] = T!Leaf(pairs[<<k>>])
    BY <1>2 DEF T!Decode
  <2>2. ASSUME NEW l, <<k, l>> \in DOMAIN pairs PROVE FALSE
    <3>. DEFINE p == <<k>>
                q == <<k, l>>
    <3>1. Len(p) = 1 /\ Len(q) = 2 /\ p[1] = q[1]
      OBVIOUS
    <3>. QED  BY <1>2, <2>2, <3>1 DEF T!Conflicting
  <2>. QED  BY <2>1, <2>2
<1>3. ASSUME NEW k \in DOMAIN tree, <<k>> \notin DOMAIN pairs
      PROVE  /\ tree[k] = T!Folder(tree[k].tree)
             /\ \A l : l \in DOMAIN tree[k].tree <=> <<k, l>> \in DOMAIN pairs
             /\ \A l \in DOMAIN tree[k].tree : tree[k].tree[l] = pairs[<<k, l>>]
  <2>1. tree[k] = T!Folder(section(k))
    BY <1>3 DEF T!Decode
  <2>2. tree[k].tree = section(k)
    BY <2>1 DEF T!Folder
  <2>3. ASSUME NEW l PROVE l \in names(k) <=> <<k, l>> \in DOMAIN pairs
    <3>1. ASSUME NEW p \in DOMAIN pairs, p[1] = k, l = p[2] PROVE <<k, l>> \in DOMAIN pairs
      <4>1. p = <<p[1]>> \/ p = <<p[1], p[2]>>
        BY TreeAssumption DEF T!DataOK, T!IsPath
      <4>. QED  BY <1>3, <3>1, <4>1
    <3>2. ASSUME <<k, l>> \in DOMAIN pairs PROVE l \in names(k)
      <4>1. <<k, l>>[1] = k /\ <<k, l>>[2] = l
        OBVIOUS
      <4>. QED  BY <3>2, <4>1
    <3>. QED  BY <3>1, <3>2
  <2>4. DOMAIN section(k) = names(k) /\ \A l \in names(k) : section(k)[l] = pairs[<<k, l>>]
    OBVIOUS
  <2>5. tree[k] = T!Folder(tree[k].tree)
    BY <2>1, <2>2
  <2>. QED  BY <2>2, <2>3, <2>4, <2>5
<1>. QED  BY <1>1, <1>2, <1>3

\* What is said once one more folder has been read.
LEMMA SpeaksNext ==
  ASSUME NEW folders \in Seq(Contents), NEW pairs \in Contents, NEW p, NEW i
  PROVE  Speaks(Append(folders, pairs), p, i) <=>
           \/ i = Len(folders) + 1 /\ p \in DOMAIN pairs
           \/ Speaks(folders, p, i) /\ ~(Len(p) = 2 /\ <<p[1]>> \in DOMAIN pairs)
<1>. DEFINE next == Append(folders, pairs)
<1>1. /\ DOMAIN folders = 1..Len(folders) /\ Len(folders) \in Nat
      /\ DOMAIN next = 1..(Len(folders) + 1)
      /\ next[Len(folders) + 1] = pairs
      /\ \A j \in DOMAIN folders : next[j] = folders[j]
  OBVIOUS
<1>. HIDE DEF next
<1>2. ASSUME Speaks(next, p, i), i # Len(folders) + 1
      PROVE  Speaks(folders, p, i) /\ ~(Len(p) = 2 /\ <<p[1]>> \in DOMAIN pairs)
  <2>1. i \in DOMAIN folders
    BY <1>1, <1>2 DEF Speaks
  <2>2. \A j \in DOMAIN folders : j \in DOMAIN next
    BY <1>1
  <2>3. Speaks(folders, p, i)
    BY <1>1, <1>2, <2>1, <2>2 DEF Speaks
  <2>4. Len(folders) + 1 \in DOMAIN next /\ Len(folders) + 1 > i
    BY <1>1, <2>1
  <2>. QED  BY <1>1, <1>2, <2>3, <2>4 DEF Speaks
<1>3. ASSUME Speaks(folders, p, i), ~(Len(p) = 2 /\ <<p[1]>> \in DOMAIN pairs)
      PROVE  Speaks(next, p, i)
  <2>1. i \in DOMAIN next /\ p \in DOMAIN next[i]
    BY <1>1, <1>3 DEF Speaks
  <2>2. ASSUME Len(p) = 2, NEW j \in DOMAIN next, j > i
        PROVE  <<p[1]>> \notin DOMAIN next[j]
    <3>1. CASE j \in DOMAIN folders
      BY <1>1, <1>3, <2>2, <3>1 DEF Speaks
    <3>2. CASE j = Len(folders) + 1
      BY <1>1, <1>3, <2>2, <3>2
    <3>. QED  BY <1>1, <3>1, <3>2
  <2>. QED  BY <2>1, <2>2 DEF Speaks
<1>4. ASSUME i = Len(folders) + 1 PROVE Speaks(next, p, i) <=> p \in DOMAIN pairs
  BY <1>1, <1>4 DEF Speaks
<1>5. Speaks(folders, p, i) => i # Len(folders) + 1
  BY <1>1 DEF Speaks
<1>. QED  BY <1>2, <1>3, <1>4, <1>5 DEF next

\* What is said last in the folders read so far gives way to a new folder.
LEMMA SpeaksLastNext ==
  ASSUME NEW folders \in Seq(Contents), NEW pairs \in Contents, NEW p, NEW i
  PROVE  SpeaksLast(Append(folders, pairs), p, i) <=>
           \/ i = Len(folders) + 1 /\ p \in DOMAIN pairs
           \/ /\ SpeaksLast(folders, p, i)
              /\ p \notin DOMAIN pairs /\ ~(Len(p) = 2 /\ <<p[1]>> \in DOMAIN pairs)
<1>. DEFINE next == Append(folders, pairs)
            n == Len(folders) + 1
            blocked == Len(p) = 2 /\ <<p[1]>> \in DOMAIN pairs
<1>1. \A j : Speaks(next, p, j) <=> (j = n /\ p \in DOMAIN pairs) \/ (Speaks(folders, p, j) /\ ~blocked)
  BY SpeaksNext
<1>2. \A j : Speaks(folders, p, j) => j \in Nat /\ j < n
  BY DEF Speaks
<1>3. n \in Nat
  OBVIOUS
<1>. HIDE DEF next, n, blocked
<1>4. SpeaksLast(next, p, i) <=>
           \/ i = n /\ p \in DOMAIN pairs
           \/ SpeaksLast(folders, p, i) /\ p \notin DOMAIN pairs /\ ~blocked
  <2>1. CASE p \in DOMAIN pairs
    <3>1. Speaks(next, p, n) /\ \A j : Speaks(next, p, j) => j <= n /\ j \in Nat
      BY <1>1, <1>2, <1>3, <2>1
    <3>2. SpeaksLast(next, p, i) => i = n
      BY <1>3, <3>1 DEF SpeaksLast
    <3>. QED  BY <2>1, <3>1, <3>2 DEF SpeaksLast
  <2>2. CASE p \notin DOMAIN pairs /\ blocked
    BY <1>1, <2>2 DEF SpeaksLast
  <2>3. CASE p \notin DOMAIN pairs /\ ~blocked
    BY <1>1, <2>3 DEF SpeaksLast
  <2>. QED  BY <2>1, <2>2, <2>3
<1>. QED  BY <1>4 DEF next, n, blocked

\* Reading one more folder and merging it keeps the account.
LEMMA MergedNext ==
  ASSUME NEW folders \in Seq(Contents), NEW pairs \in Contents, ~T!Conflicting(pairs),
         NEW old, MergedOK(old, folders)
  PROVE  MergedOK(T!Merge(old, T!Decode(pairs)), Append(folders, pairs))
<1>. DEFINE next == Append(folders, pairs)
            n == Len(folders) + 1
            new == T!Decode(pairs)
            tree == T!Merge(old, new)
<1>1. \A p, i : Speaks(next, p, i) <=>
                  \/ i = n /\ p \in DOMAIN pairs
                  \/ Speaks(folders, p, i) /\ ~(Len(p) = 2 /\ <<p[1]>> \in DOMAIN pairs)
  BY SpeaksNext
<1>2. \A p, i : SpeaksLast(next, p, i) <=>
                  \/ i = n /\ p \in DOMAIN pairs
                  \/ /\ SpeaksLast(folders, p, i)
                     /\ p \notin DOMAIN pairs /\ ~(Len(p) = 2 /\ <<p[1]>> \in DOMAIN pairs)
  BY SpeaksLastNext
<1>3. /\ DOMAIN next = DOMAIN folders \union {n} /\ n \notin DOMAIN folders
      /\ next[n] = pairs
      /\ \A j \in DOMAIN folders : next[j] = folders[j]
  OBVIOUS
<1>4. /\ DOMAIN tree = DOMAIN old \union DOMAIN new
      /\ \A k \in DOMAIN tree :
           tree[k] = IF k \notin DOMAIN new THEN old[k]
                     ELSE IF k \in DOMAIN old /\ old[k].folder /\ new[k].folder
                          THEN T!Folder(T!Over(new[k].tree, old[k].tree))
                     ELSE new[k]
  BY DEF T!Merge
<1>5. \A k : k \in DOMAIN new <=> \E p \in DOMAIN pairs : p[1] = k
  BY Decoded
<1>6. \A k \in DOMAIN new :
         IF <<k>> \in DOMAIN pairs
         THEN new[k] = T!Leaf(pairs[<<k>>]) /\ \A l : <<k, l>> \notin DOMAIN pairs
         ELSE /\ new[k] = T!Folder(new[k].tree)
              /\ \A l : l \in DOMAIN new[k].tree <=> <<k, l>> \in DOMAIN pairs
              /\ \A l \in DOMAIN new[k].tree : new[k].tree[l] = pairs[<<k, l>>]
  BY Decoded
<1>. HIDE DEF next, new, tree
<1>7. \A k : k \in DOMAIN tree <=> Mentions(next, k)
  BY <1>3, <1>4, <1>5 DEF MergedOK, Mentions
<1>8. \A p : (\E i : Speaks(next, p, i)) => \E i : SpeaksLast(next, p, i)
  BY <1>1, <1>2 DEF MergedOK
<1>9. ASSUME NEW k
      PROVE  /\ \A i : Speaks(next, <<k>>, i) <=>
                        (i = n /\ <<k>> \in DOMAIN pairs) \/ Speaks(folders, <<k>>, i)
             /\ \A i : SpeaksLast(next, <<k>>, i) <=>
                        \/ i = n /\ <<k>> \in DOMAIN pairs
                        \/ SpeaksLast(folders, <<k>>, i) /\ <<k>> \notin DOMAIN pairs
             /\ \A l, i : Speaks(next, <<k, l>>, i) <=>
                           \/ i = n /\ <<k, l>> \in DOMAIN pairs
                           \/ Speaks(folders, <<k, l>>, i) /\ <<k>> \notin DOMAIN pairs
             /\ \A l, i : SpeaksLast(next, <<k, l>>, i) <=>
                           \/ i = n /\ <<k, l>> \in DOMAIN pairs
                           \/ /\ SpeaksLast(folders, <<k, l>>, i)
                              /\ <<k, l>> \notin DOMAIN pairs /\ <<k>> \notin DOMAIN pairs
  <2>1. ASSUME NEW p, Len(p) # 2
        PROVE  /\ \A i : Speaks(next, p, i) <=>
                          (i = n /\ p \in DOMAIN pairs) \/ Speaks(folders, p, i)
               /\ \A i : SpeaksLast(next, p, i) <=>
                          \/ i = n /\ p \in DOMAIN pairs
                          \/ SpeaksLast(folders, p, i) /\ p \notin DOMAIN pairs
    BY <1>1, <1>2, <2>1
  <2>2. ASSUME NEW p, Len(p) = 2, p[1] = k
        PROVE  /\ \A i : Speaks(next, p, i) <=>
                          \/ i = n /\ p \in DOMAIN pairs
                          \/ Speaks(folders, p, i) /\ <<k>> \notin DOMAIN pairs
               /\ \A i : SpeaksLast(next, p, i) <=>
                          \/ i = n /\ p \in DOMAIN pairs
                          \/ /\ SpeaksLast(folders, p, i)
                             /\ p \notin DOMAIN pairs /\ <<k>> \notin DOMAIN pairs
    BY <1>1, <1>2, <2>2
  <2>3. Len(<<k>>) = 1 /\ \A l : Len(<<k, l>>) = 2 /\ <<k, l>>[1] = k
    OBVIOUS
  <2>4. /\ \A i : Speaks(next, <<k>>, i) <=>
                   (i = n /\ <<k>> \in DOMAIN pairs) \/ Speaks(folders, <<k>>, i)
        /\ \A i : SpeaksLast(next, <<k>>, i) <=>
                   \/ i = n /\ <<k>> \in DOMAIN pairs
                   \/ SpeaksLast(folders, <<k>>, i) /\ <<k>> \notin DOMAIN pairs
    <3>. DEFINE p == <<k>>
    <3>1. Len(p) # 2
      BY <2>3
    <3>. HIDE DEF p
    <3>2. /\ \A i : Speaks(next, p, i) <=> (i = n /\ p \in DOMAIN pairs) \/ Speaks(folders, p, i)
          /\ \A i : SpeaksLast(next, p, i) <=>
                     \/ i = n /\ p \in DOMAIN pairs
                     \/ SpeaksLast(folders, p, i) /\ p \notin DOMAIN pairs
      BY <2>1, <3>1
    <3>. QED  BY <3>2 DEF p
  <2>5. ASSUME NEW l
        PROVE  /\ \A i : Speaks(next, <<k, l>>, i) <=>
                          \/ i = n /\ <<k, l>> \in DOMAIN pairs
                          \/ Speaks(folders, <<k, l>>, i) /\ <<k>> \notin DOMAIN pairs
               /\ \A i : SpeaksLast(next, <<k, l>>, i) <=>
                          \/ i = n /\ <<k, l>> \in DOMAIN pairs
                          \/ /\ SpeaksLast(folders, <<k, l>>, i)
                             /\ <<k, l>> \notin DOMAIN pairs /\ <<k>> \notin DOMAIN pairs
    <3>. DEFINE p == <<k, l>>
    <3>1. Len(p) = 2 /\ p[1] = k
      BY <2>3
    <3>. HIDE DEF p
    <3>2. /\ \A i : Speaks(next, p, i) <=>
                     \/ i = n /\ p \in DOMAIN pairs
                     \/ Speaks(folders, p, i) /\ <<k>> \notin DOMAIN pairs
          /\ \A i : SpeaksLast(next, p, i) <=>
                     \/ i = n /\ p \in DOMAIN pairs
                     \/ /\ SpeaksLast(folders, p, i)
                        /\ p \notin DOMAIN pairs /\ <<k>> \notin DOMAIN pairs
      BY <2>2, <3>1
    <3>. QED  BY <3>2 DEF p
  <2>. QED  BY <2>4, <2>5
<1>10. \A p, i : Speaks(folders, p, i) => i \in DOMAIN folders
  BY DEF Speaks
<1>11. \A p, i : SpeaksLast(folders, p, i) => i \in DOMAIN folders
  BY <1>10 DEF SpeaksLast
<1>12. ASSUME NEW k \in DOMAIN tree
       PROVE  FolderOK(tree[k], next, k) \/ LeafOK(tree[k], next, k)
  <2>1. CASE k \notin DOMAIN new
    <3>1. <<k>> \notin DOMAIN pairs /\ \A l : <<k, l>> \notin DOMAIN pairs
      <4>1. <<k>>[1] = k /\ \A l : <<k, l>>[1] = k
        OBVIOUS
      <4>. QED  BY <1>5, <2>1, <4>1
    <3>2. k \in DOMAIN old /\ tree[k] = old[k]
      BY <1>4, <2>1
    <3>3. CASE FolderOK(old[k], folders, k)
      BY <1>3, <1>9, <1>11, <3>1, <3>2, <3>3 DEF FolderOK
    <3>4. CASE LeafOK(old[k], folders, k)
      BY <1>3, <1>9, <1>11, <3>1, <3>2, <3>4 DEF LeafOK
    <3>. QED  BY <3>2, <3>3, <3>4 DEF MergedOK
  <2>2. CASE k \in DOMAIN new /\ <<k>> \in DOMAIN pairs
    <3>1. new[k] = T!Leaf(pairs[<<k>>]) /\ \A l : <<k, l>> \notin DOMAIN pairs
      BY <1>6, <2>2
    <3>2. tree[k] = new[k]
      BY <1>4, <2>2, <3>1 DEF T!Leaf
    <3>3. tree[k] = T!Leaf(tree[k].text) /\ tree[k].text = pairs[<<k>>]
      BY <3>1, <3>2 DEF T!Leaf
    <3>. QED  BY <1>3, <1>9, <2>2, <3>1, <3>3 DEF LeafOK
  <2>3. CASE k \in DOMAIN new /\ <<k>> \notin DOMAIN pairs
    <3>1. /\ new[k] = T!Folder(new[k].tree)
          /\ \A l : l \in DOMAIN new[k].tree <=> <<k, l>> \in DOMAIN pairs
          /\ \A l \in DOMAIN new[k].tree : new[k].tree[l] = pairs[<<k, l>>]
      BY <1>6, <2>3
    <3>2. CASE k \in DOMAIN old /\ FolderOK(old[k], folders, k)
      <4>. DEFINE both == T!Over(new[k].tree, old[k].tree)
      <4>1. tree[k] = T!Folder(both)
        <5>1. old[k].folder /\ new[k].folder
          BY <3>1, <3>2 DEF FolderOK, T!Folder
        <5>. QED  BY <1>4, <2>3, <3>2, <5>1
      <4>2. tree[k] = T!Folder(tree[k].tree) /\ tree[k].tree = both
        BY <4>1 DEF T!Folder
      <4>3. /\ \A l : l \in DOMAIN both <=> l \in DOMAIN new[k].tree \/ l \in DOMAIN old[k].tree
            /\ \A l \in DOMAIN both : both[l] = IF l \in DOMAIN new[k].tree THEN new[k].tree[l]
                                              ELSE old[k].tree[l]
        BY DEF T!Over
      <4>. HIDE DEF both
      <4>4. \A l : l \in DOMAIN both <=> \E i : Speaks(next, <<k, l>>, i)
        BY <1>9, <2>3, <3>1, <3>2, <4>3 DEF FolderOK
      <4>5. ASSUME NEW l, NEW i, SpeaksLast(next, <<k, l>>, i)
            PROVE  both[l] = next[i][<<k, l>>]
        <5>1. l \in DOMAIN both
          BY <4>4, <4>5 DEF SpeaksLast
        <5>2. CASE i = n /\ <<k, l>> \in DOMAIN pairs
          BY <1>3, <3>1, <4>3, <5>1, <5>2
        <5>3. CASE SpeaksLast(folders, <<k, l>>, i) /\ <<k, l>> \notin DOMAIN pairs
          BY <1>3, <1>11, <3>1, <3>2, <4>3, <5>1, <5>3 DEF FolderOK
        <5>. QED  BY <1>9, <4>5, <5>2, <5>3
      <4>. QED  BY <4>2, <4>4, <4>5 DEF FolderOK
    <3>3. CASE k \notin DOMAIN old \/ LeafOK(old[k], folders, k)
      <4>1. tree[k] = new[k]
        <5>1. k \in DOMAIN old => ~old[k].folder
          BY <3>3 DEF LeafOK, T!Leaf
        <5>. QED  BY <1>4, <2>3, <5>1
      <4>2. \A l, i : ~Speaks(folders, <<k, l>>, i)
        <5>1. CASE k \notin DOMAIN old
          <6>1. ~Mentions(folders, k)
            BY <5>1 DEF MergedOK
          <6>2. \A l : <<k, l>>[1] = k
            OBVIOUS
          <6>. QED  BY <6>1, <6>2 DEF Mentions, Speaks
        <5>. QED  BY <3>3, <5>1 DEF LeafOK
      <4>3. \A l, i : ~SpeaksLast(folders, <<k, l>>, i)
        BY <4>2 DEF SpeaksLast
      <4>4. \A l : l \in DOMAIN tree[k].tree <=> \E i : Speaks(next, <<k, l>>, i)
        BY <1>9, <3>1, <4>1, <4>2
      <4>5. ASSUME NEW l, NEW i, SpeaksLast(next, <<k, l>>, i)
            PROVE  tree[k].tree[l] = next[i][<<k, l>>]
        <5>1. i = n /\ <<k, l>> \in DOMAIN pairs
          BY <1>9, <4>3, <4>5
        <5>. QED  BY <1>3, <3>1, <4>1, <5>1
      <4>. QED  BY <3>1, <4>1, <4>4, <4>5 DEF FolderOK
    <3>. QED  BY <3>2, <3>3 DEF MergedOK
  <2>. QED  BY <2>1, <2>2, <2>3
<1>. QED  BY <1>7, <1>8, <1>12 DEF MergedOK, next, new, tree

\* A name that is spelled in one way is found.
LEMMA LookupAlone ==
  ASSUME NEW tree, NEW name,
         \A k \in DOMAIN tree : T!SameKey(k, name) => T!IsName(k),
         \A k, l \in DOMAIN tree : T!SameKey(k, name) /\ T!SameKey(l, name) => k = l
  PROVE  /\ (\A k \in DOMAIN tree : ~T!SameKey(k, name)) => T!Lookup(tree, name) = T!Missing
         /\ \A k \in DOMAIN tree : T!SameKey(k, name) =>
              T!Lookup(tree, name) = k /\ k # T!Missing
<1>. DEFINE alike == {k \in DOMAIN tree : T!SameKey(k, name)}
<1>1. T!Lookup(tree, name) = IF name \in alike THEN name
                             ELSE IF alike = {} THEN T!Missing
                             ELSE CHOOSE k \in alike : \A l \in alike : k[2] <= l[2]
  BY DEF T!Lookup
<1>2. ASSUME NEW k \in DOMAIN tree, T!SameKey(k, name)
      PROVE  T!Lookup(tree, name) = k /\ k # T!Missing
  <2>1. alike = {k}
    BY <1>2
  <2>2. k[2] <= k[2]
    BY <1>2 DEF T!IsName
  <2>3. k # T!Missing
    BY <1>2 DEF T!IsName, T!Missing
  <2>4. \A l \in {k} : k[2] <= l[2]
    BY <2>2
  <2>5. (CHOOSE j \in {k} : \A l \in {k} : j[2] <= l[2]) = k
    BY <2>4
  <2>. QED  BY <1>1, <2>1, <2>3, <2>5
<1>. QED  BY <1>1, <1>2

\* What is converted without an error is the text.
LEMMA Converted ==
  ASSUME NEW spec, NEW text, ~T!Convert(spec, text).error
  PROVE  T!Convert(spec, text).value = text
  BY DEF T!Convert, T!Good, T!Fail

\* What is read has a path.
LEMMA ReadPaths ==
  ASSUME seen \in Seq(Contents)
  PROVE  /\ \A p \in T!Read : T!IsPath(p) /\ T!IsName(p[1])
         /\ \A p : p \in T!Read <=> \E i \in DOMAIN seen : p \in DOMAIN seen[i]
<1>1. \A i \in DOMAIN seen : seen[i] \in Contents
  OBVIOUS
<1>2. \A p : p \in T!Read <=> \E i \in DOMAIN seen : p \in DOMAIN seen[i]
  BY DEF T!Read
<1>3. ASSUME NEW p \in T!Read PROVE T!IsPath(p) /\ T!IsName(p[1])
  <2>1. T!IsPath(p)
    BY <1>1, <1>2, TreeAssumption DEF T!DataOK
  <2>2. 1 \in DOMAIN p
    BY <2>1 DEF T!IsPath
  <2>. QED  BY <2>1, <2>2 DEF T!IsPath
<1>. QED  BY <1>2, <1>3

\* A path of the field, if it is spelled in one way, is the one its value is at.
LEMMA SpeakersOf ==
  ASSUME seen \in Seq(Contents), NEW f \in DOMAIN Schema, T!SpelledAlike(f),
         NEW p \in T!PathsOf(f)
  PROVE  /\ \A i : i \in T!Speakers(f) <=> Speaks(seen, p, i)
         /\ (CHOOSE q \in T!PathsOf(f) : TRUE) = p
<1>1. T!PathsOf(f) = {p}
  BY DEF T!SpelledAlike
<1>2. p \in T!Read /\ Len(p) = Len(f) /\ p[1] \in {q[1] : q \in T!SectionRead(f)}
  <2>1. p \in T!Read /\ Len(p) = Len(f) /\ \A j \in DOMAIN f : T!SameKey(p[j], f[j])
    BY DEF T!PathsOf
  <2>2. 1 \in DOMAIN f
    BY TreeAssumption DEF T!DataOK, T!IsPath
  <2>. QED  BY <2>1, <2>2 DEF T!SectionRead
<1>3. (Len(f) = 1 \/ Len(f) = 2) /\ \A q \in T!Read : Len(q) = 1 \/ Len(q) = 2
  <2>1. \A q : T!IsPath(q) => Len(q) = 1 \/ Len(q) = 2
    BY DEF T!IsPath
  <2>. QED  BY <2>1, ReadPaths, TreeAssumption DEF T!DataOK
<1>4. ASSUME Len(f) = 2, NEW j \in DOMAIN seen
      PROVE  (\E q \in DOMAIN seen[j] : Len(q) < Len(f) /\ T!SameKey(q[1], f[1]))
                <=> <<p[1]>> \in DOMAIN seen[j]
  <2>1. ASSUME NEW q \in DOMAIN seen[j], Len(q) < Len(f), T!SameKey(q[1], f[1])
        PROVE  <<p[1]>> \in DOMAIN seen[j]
    <3>1. q \in T!Read /\ T!IsPath(q)
      BY ReadPaths
    <3>2. q = <<q[1]>>
      BY <1>3, <1>4, <2>1, <3>1 DEF T!IsPath
    <3>3. q[1] = p[1]
      BY <1>2, <2>1, <3>1 DEF T!SectionRead, T!SpelledAlike
    <3>. QED  BY <2>1, <3>2, <3>3
  <2>2. ASSUME <<p[1]>> \in DOMAIN seen[j]
        PROVE  \E q \in DOMAIN seen[j] : Len(q) < Len(f) /\ T!SameKey(q[1], f[1])
    <3>. DEFINE q == <<p[1]>>
    <3>1. Len(q) < Len(f) /\ q[1] = p[1]
      BY <1>4
    <3>2. T!SameKey(p[1], f[1])
      BY <1>2 DEF T!SectionRead
    <3>3. q \in DOMAIN seen[j]
      BY <2>2
    <3>. HIDE DEF q
    <3>. QED  BY <3>1, <3>2, <3>3
  <2>. QED  BY <2>1, <2>2
<1>5. ASSUME Len(f) = 1, NEW j \in DOMAIN seen
      PROVE  ~\E q \in DOMAIN seen[j] : Len(q) < Len(f) /\ T!SameKey(q[1], f[1])
  <2>1. \A q \in DOMAIN seen[j] : q \in T!Read
    BY ReadPaths
  <2>. QED  BY <1>3, <1>5, <2>1
<1>6. ASSUME NEW i PROVE i \in T!Speakers(f) <=> Speaks(seen, p, i)
  <2>1. i \in DOMAIN seen => (T!PathsOf(f) \intersect DOMAIN seen[i] # {} <=> p \in DOMAIN seen[i])
    BY <1>1
  <2>2. CASE Len(f) = 2
    BY <1>2, <1>4, <2>1, <2>2 DEF T!Speakers, Speaks
  <2>3. CASE Len(f) = 1
    BY <1>2, <1>5, <2>1, <2>3 DEF T!Speakers, Speaks
  <2>. QED  BY <1>3, <2>2, <2>3
<1>. QED  BY <1>1, <1>6

\* The value that is said last.
LEMMA DueIsLast ==
  ASSUME seen \in Seq(Contents), NEW f \in DOMAIN Schema, T!SpelledAlike(f),
         NEW p \in T!PathsOf(f), NEW i, SpeaksLast(seen, p, i)
  PROVE  T!Due(f) = seen[i][p]
<1>1. \A j : j \in T!Speakers(f) <=> Speaks(seen, p, j)
  BY SpeakersOf
<1>2. (CHOOSE q \in T!PathsOf(f) : TRUE) = p
  BY SpeakersOf
<1>3. i \in T!Speakers(f) /\ i \in Nat /\ \A j \in T!Speakers(f) : j \in Nat /\ j <= i
  BY <1>1 DEF SpeaksLast, Speaks
<1>4. T!Max(T!Speakers(f)) = i
  <2>. DEFINE Elems == T!Speakers(f)
  <2>1. \A j \in Elems : i >= j
    BY <1>3
  <2>2. \A j \in Elems : (\A m \in Elems : j >= m) => j = i
    BY <1>3, <2>1
  <2>3. i \in Elems
    BY <1>3
  <2>. HIDE DEF Elems
  <2>4. T!Max(Elems) = i
    BY <2>1, <2>2, <2>3 DEF T!Max
  <2>. QED  BY <2>4 DEF Elems
<1>. QED  BY <1>2, <1>3, <1>4 DEF T!Due

\* A field that no folder speaks of gets what it is due.
LEMMA DueIfAbsent ==
  ASSUME NEW f \in DOMAIN Schema, T!Speakers(f) = {}, dst = before,
         ~(Schema[f].pointer /\ T!SectionRead(f) = {}),
         ~T!Absent(f, Schema[f]).error
  PROVE  T!Absent(f, Schema[f]).value = T!Due(f)
<1>1. CASE Schema[f].default # NoText
  BY <1>1, Converted DEF T!Absent, T!Due
<1>2. CASE Schema[f].default = NoText
  BY <1>2 DEF T!Absent, T!Due, T!Fail, T!Good
<1>. QED  BY <1>1, <1>2

\* A field of the struct itself is bound to what it is due,
LEMMA BoundField ==
  ASSUME seen \in Seq(Contents), MergedOK(merged, seen), dst = before,
         NEW f \in DOMAIN Schema, T!SpelledAlike(f), Len(f) = 1,
         ~T!BindField(f, merged).error
  PROVE  T!BindField(f, merged).value = T!Due(f)
<1>. DEFINE spec == Schema[f]
            key == T!Lookup(merged, f[1])
<1>1. T!BindField(f, merged) = T!BindIn(f, spec, merged)
  BY DEF T!BindField
<1>2. T!BindIn(f, spec, merged) =
        IF key = T!Missing THEN T!Absent(f, spec)
        ELSE IF merged[key].folder THEN T!Fail
        ELSE T!Convert(spec, merged[key].text)
  BY DEF T!BindIn
<1>3. ~spec.pointer
  BY TreeAssumption DEF T!DataOK
<1>4. \A k \in DOMAIN merged : \E p \in T!Read : p[1] = k
  BY ReadPaths DEF MergedOK, Mentions
<1>5. \A k \in DOMAIN merged : T!IsName(k)
  BY <1>4, ReadPaths
<1>6. \A k, l \in DOMAIN merged : T!SameKey(k, f[1]) /\ T!SameKey(l, f[1]) => k = l
  BY <1>4 DEF T!SectionRead, T!SpelledAlike
<1>7. CASE \A k \in DOMAIN merged : ~T!SameKey(k, f[1])
  <2>1. key = T!Missing
    BY <1>5, <1>6, <1>7, LookupAlone
  <2>2. T!PathsOf(f) = {}
    <3>1. \A p \in T!Read : p[1] \in DOMAIN merged
      BY ReadPaths DEF MergedOK, Mentions
    <3>2. 1 \in DOMAIN f
      BY TreeAssumption DEF T!DataOK, T!IsPath
    <3>. QED  BY <1>7, <3>1, <3>2 DEF T!PathsOf
  <2>3. T!Speakers(f) = {}
    BY <2>2 DEF T!Speakers
  <2>. QED  BY <1>1, <1>2, <1>3, <2>1, <2>3, DueIfAbsent
<1>8. ASSUME NEW k \in DOMAIN merged, T!SameKey(k, f[1])
      PROVE  T!BindField(f, merged).value = T!Due(f)
  <2>1. key = k /\ k # T!Missing
    BY <1>5, <1>6, <1>8, LookupAlone
  <2>2. ~merged[k].folder
    BY <1>1, <1>2, <2>1 DEF T!Fail
  <2>3. LeafOK(merged[k], seen, k)
    BY <2>2 DEF MergedOK, FolderOK, T!Folder
  <2>4. PICK i : SpeaksLast(seen, <<k>>, i)
    BY <2>3 DEF MergedOK, LeafOK
  <2>5. merged[k].text = seen[i][<<k>>]
    BY <2>3, <2>4 DEF LeafOK
  <2>6. <<k>> \in T!PathsOf(f)
    <3>1. <<k>> \in T!Read
      BY <2>4, ReadPaths DEF SpeaksLast, Speaks
    <3>2. f = <<f[1]>>
      BY TreeAssumption DEF T!DataOK, T!IsPath
    <3>3. Len(<<k>>) = 1 /\ <<k>>[1] = k /\ DOMAIN f = {1}
      BY <3>2
    <3>. QED  BY <1>8, <3>1, <3>3 DEF T!PathsOf
  <2>7. T!Due(f) = seen[i][<<k>>]
    BY <2>4, <2>6, DueIsLast
  <2>. QED  BY <1>1, <1>2, <2>1, <2>2, <2>5, <2>7, Converted
<1>. QED  BY <1>7, <1>8

\* and so is one of a section.
LEMMA BoundInSection ==
  ASSUME seen \in Seq(Contents), MergedOK(merged, seen), dst = before,
         NEW f \in DOMAIN Schema, T!SpelledAlike(f), Len(f) = 2,
         ~T!BindField(f, merged).error
  PROVE  T!BindField(f, merged).value = T!Due(f)
<1>. DEFINE spec == Schema[f]
            section == T!Lookup(merged, f[1])
<1>1. T!BindField(f, merged) =
        IF section = T!Missing
        THEN IF spec.pointer THEN T!Good(dst[f]) ELSE T!BindIn(f, spec, T!Empty)
        ELSE IF ~merged[section].folder THEN T!Fail
        ELSE T!BindIn(f, spec, merged[section].tree)
  BY DEF T!BindField
<1>2. ASSUME NEW tree
      PROVE  T!BindIn(f, spec, tree) =
               IF T!Lookup(tree, f[2]) = T!Missing THEN T!Absent(f, spec)
               ELSE T!Convert(spec, tree[T!Lookup(tree, f[2])])
  BY DEF T!BindIn
<1>3. /\ \A k \in DOMAIN merged : \E p \in T!Read : p[1] = k
      /\ \A p \in T!Read : p[1] \in DOMAIN merged
  BY ReadPaths DEF MergedOK, Mentions
<1>4. \A k \in DOMAIN merged : T!IsName(k)
  BY <1>3, ReadPaths
<1>5. \A k, l \in DOMAIN merged : T!SameKey(k, f[1]) /\ T!SameKey(l, f[1]) => k = l
  BY <1>3 DEF T!SectionRead, T!SpelledAlike
<1>6. f = <<f[1], f[2]>> /\ DOMAIN f = {1, 2}
  <2>1. f = <<f[1], f[2]>>
    BY TreeAssumption DEF T!DataOK, T!IsPath
  <2>. QED  BY <2>1
<1>7. CASE \A k \in DOMAIN merged : ~T!SameKey(k, f[1])
  <2>1. section = T!Missing
    BY <1>4, <1>5, <1>7, LookupAlone
  <2>2. T!SectionRead(f) = {} /\ T!PathsOf(f) = {}
    BY <1>3, <1>6, <1>7 DEF T!SectionRead, T!PathsOf
  <2>3. T!Speakers(f) = {}
    BY <2>2 DEF T!Speakers
  <2>4. CASE spec.pointer
    BY <1>1, <2>1, <2>2, <2>3, <2>4 DEF T!Good, T!Due
  <2>5. CASE ~spec.pointer
    <3>1. T!Lookup(T!Empty, f[2]) = T!Missing
      BY LookupAlone DEF T!Empty
    <3>2. T!BindField(f, merged) = T!Absent(f, spec)
      BY <1>1, <1>2, <2>1, <2>5, <3>1
    <3>. QED  BY <2>3, <2>5, <3>2, DueIfAbsent
  <2>. QED  BY <2>4, <2>5
<1>8. ASSUME NEW k \in DOMAIN merged, T!SameKey(k, f[1])
      PROVE  T!BindField(f, merged).value = T!Due(f)
  <2>. DEFINE tree == merged[k].tree
              key == T!Lookup(tree, f[2])
  <2>1. section = k /\ k # T!Missing
    BY <1>4, <1>5, <1>8, LookupAlone
  <2>2. merged[k].folder
    BY <1>1, <2>1 DEF T!Fail
  <2>3. FolderOK(merged[k], seen, k)
    <3>1. LeafOK(merged[k], seen, k) => merged[k].folder = FALSE
      BY DEF LeafOK, T!Leaf
    <3>. QED  BY <2>2, <3>1 DEF MergedOK
  <2>4. T!BindField(f, merged) =
          IF key = T!Missing THEN T!Absent(f, spec) ELSE T!Convert(spec, tree[key])
    BY <1>1, <1>2, <2>1, <2>2
  <2>5. T!SectionRead(f) # {}
    BY <1>3, <1>8 DEF T!SectionRead
  <2>6. ASSUME NEW l \in DOMAIN tree
        PROVE  <<k, l>> \in T!Read /\ T!IsName(l)
    <3>1. <<k, l>> \in T!Read
      BY <2>3, ReadPaths DEF FolderOK, Speaks
    <3>2. T!IsPath(<<k, l>>) /\ 2 \in DOMAIN <<k, l>> /\ <<k, l>>[2] = l
      BY <3>1, ReadPaths
    <3>. QED  BY <3>1, <3>2 DEF T!IsPath
  <2>7. ASSUME NEW l, T!SameKey(l, f[2]), <<k, l>> \in T!Read
        PROVE  <<k, l>> \in T!PathsOf(f)
    <3>. DEFINE p == <<k, l>>
    <3>1. Len(p) = 2 /\ p[1] = k /\ p[2] = l /\ p \in T!Read
      BY <2>7
    <3>. HIDE DEF p
    <3>2. p \in T!PathsOf(f)
      BY <1>6, <1>8, <2>7, <3>1 DEF T!PathsOf
    <3>. QED  BY <3>2 DEF p
  <2>8. ASSUME NEW l \in DOMAIN tree, NEW m \in DOMAIN tree,
               T!SameKey(l, f[2]), T!SameKey(m, f[2])
        PROVE  l = m
    <3>1. <<k, l>> = <<k, m>>
      BY <2>6, <2>7, <2>8 DEF T!SpelledAlike
    <3>. QED  BY <3>1
  <2>9. CASE \A l \in DOMAIN tree : ~T!SameKey(l, f[2])
    <3>1. key = T!Missing
      BY <2>6, <2>8, <2>9, LookupAlone
    <3>2. ASSUME NEW i \in T!Speakers(f) PROVE FALSE
      <4>1. PICK p \in T!PathsOf(f) : p \in DOMAIN seen[i]
        BY DEF T!Speakers
      <4>2. Speaks(seen, p, i)
        BY SpeakersOf
      <4>3. p \in T!Read /\ Len(p) = 2 /\ T!SameKey(p[1], f[1]) /\ T!SameKey(p[2], f[2])
        BY <1>6 DEF T!PathsOf
      <4>4. p = <<p[1], p[2]>>
        BY <4>3, ReadPaths DEF T!IsPath
      <4>5. p[1] = k
        BY <1>3, <1>5, <1>8, <4>3
      <4>6. p[2] \in DOMAIN tree
        BY <2>3, <4>2, <4>4, <4>5 DEF FolderOK
      <4>. QED  BY <2>9, <4>3, <4>6
    <3>. QED  BY <2>4, <2>5, <3>1, <3>2, DueIfAbsent
  <2>10. ASSUME NEW l \in DOMAIN tree, T!SameKey(l, f[2])
         PROVE  T!BindField(f, merged).value = T!Due(f)
    <3>1. key = l /\ l # T!Missing
      BY <2>6, <2>8, <2>10, LookupAlone
    <3>2. PICK i : SpeaksLast(seen, <<k, l>>, i)
      BY <2>3 DEF MergedOK, FolderOK
    <3>3. tree[l] = seen[i][<<k, l>>]
      BY <2>3, <3>2 DEF FolderOK
    <3>4. T!Due(f) = seen[i][<<k, l>>]
      BY <2>6, <2>7, <2>10, <3>2, DueIsLast
    <3>. QED  BY <2>4, <3>1, <3>3, <3>4, Converted
  <2>. QED  BY <2>9, <2>10
<1>. QED  BY <1>7, <1>8

\* Of the loader, while it is at work.
LoadingInv ==
  /\ contexts \in Seq(Range(contexts))
  /\ store \in [Range(contexts) -> Contents]
  /\ seen \in Seq(Contents)
  /\ outcome = "reading" => MergedOK(merged, seen) /\ dst = before
  /\ T!HighestContextWins

LoaderInv ==
  /\ stage # "loading" => outcome = "idle" /\ seen = <<>>
  /\ stage = "loading" => LoadingInv

\* Nothing is read, and nothing merged.
LEMMA MergedFirst == MergedOK(T!Empty, <<>>)
<1>1. DOMAIN <<>> = {}
  OBVIOUS
<1>. QED  BY <1>1 DEF MergedOK, Mentions, Speaks, T!Empty

\* A function over the first numbers is a sequence,
LEMMA SeqOf == ASSUME NEW Elems, NEW n \in Nat, NEW s \in [1..n -> Elems] PROVE s \in Seq(Elems)
  OBVIOUS

\* and a sequence is one of what is in it.
LEMMA SeqOfRange ==
  ASSUME NEW Elems, NEW s \in Seq(Elems)
  PROVE  s \in Seq(Range(s))
<1>1. s \in [1..Len(s) -> Elems] /\ Len(s) \in Nat
  OBVIOUS
<1>2. s \in [1..Len(s) -> Range(s)]
  BY <1>1 DEF Range
<1>. QED  BY <1>1, <1>2, SeqOf

\* A sequence with one more element in front.
LEMMA Beginning ==
  ASSUME NEW Elems, NEW a \in Elems, NEW s \in Seq(Elems)
  PROVE  <<a>> \o s \in Seq(Elems)
<1>1. <<a>> \in Seq(Elems)
  OBVIOUS
<1>. QED  BY <1>1

\* The contexts are a sequence.
LEMMA ContextsSeq ==
  ASSUME NEW name, NEW environment
  PROVE  LET cs == T!ContextsOf(name, IF environment = "" THEN <<>> ELSE <<environment>>)
         IN  cs \in Seq(Range(cs))
<1>. DEFINE profiles == IF environment = "" THEN <<>> ELSE <<environment>>
            Elems == {<<n>> : n \in {"application", name}}
                   \union {<<n, environment>> : n \in {"application", name}}
            rest(n) == [i \in DOMAIN profiles |-> <<n, profiles[i]>>]
            folders(n) == <<<<n>>>> \o rest(n)
            cs == T!ContextsOf(name, profiles)
<1>1. ASSUME NEW n \in {"application", name} PROVE folders(n) \in Seq(Elems)
  <2>1. <<n>> \in Elems /\ <<n, environment>> \in Elems
    BY <1>1
  <2>2. rest(n) \in Seq(Elems)
    <3>1. CASE environment = ""
      <4>1. profiles = <<>>
        BY <3>1
      <4>2. DOMAIN <<>> = 1..0
        OBVIOUS
      <4>. HIDE DEF profiles, Elems
      <4>3. rest(n) \in [1..0 -> Elems]
        BY <4>1, <4>2
      <4>. QED  BY <4>3, SeqOf
    <3>2. CASE environment # ""
      <4>1. profiles = <<environment>>
        BY <3>2
      <4>2. DOMAIN <<environment>> = 1..1 /\ <<environment>>[1] = environment
        OBVIOUS
      <4>. HIDE DEF profiles, Elems
      <4>3. rest(n) \in [1..1 -> Elems]
        BY <2>1, <4>1, <4>2
      <4>. QED  BY <4>3, SeqOf
    <3>. QED  BY <3>1, <3>2
  <2>. HIDE DEF Elems, rest
  <2>. QED  BY <2>1, <2>2, Beginning
<1>. DEFINE named == IF name \in {"", "application"} THEN <<>> ELSE folders(name)
<1>2. cs = folders("application") \o named
  BY DEF T!ContextsOf
<1>. HIDE DEF folders, Elems, cs
<1>3. folders("application") \in Seq(Elems) /\ named \in Seq(Elems)
  <2>1. <<>> \in Seq(Elems)
    OBVIOUS
  <2>. QED  BY <1>1, <2>1
<1>. HIDE DEF named
<1>4. cs \in Seq(Elems)
  BY <1>2, <1>3
<1>5. cs \in Seq(Range(cs))
  BY <1>4, SeqOfRange
<1>. QED  BY <1>5 DEF cs

\* What a field is due depends on what was read and on the destination before.
LEMMA SameDue ==
  ASSUME UNCHANGED <<seen, before>>, NEW f
  PROVE  T!SpelledAlike(f)' = T!SpelledAlike(f) /\ T!Due(f)' = T!Due(f)
<1>1. T!Read' = T!Read
  BY DEF T!Read
<1>2. T!SectionRead(f)' = T!SectionRead(f) /\ T!PathsOf(f)' = T!PathsOf(f)
  BY <1>1 DEF T!SectionRead, T!PathsOf
<1>3. T!Speakers(f)' = T!Speakers(f)
  BY <1>2 DEF T!Speakers
<1>. QED  BY <1>2, <1>3 DEF T!Due, T!SpelledAlike

\* A load that succeeds leaves every field as it is due,
LEMMA BindStep ==
  ASSUME LoadingInv, T!BindTree
  PROVE  T!HighestContextWins'
<1>. DEFINE bound == [f \in DOMAIN Schema |-> T!BindField(f, merged)]
<1>1. /\ outcome = "reading" /\ UNCHANGED <<seen, before>>
      /\ dst' = T!Assign(bound)
      /\ outcome' = IF \E f \in DOMAIN Schema : bound[f].error \/ <<f, dst'[f]>> \in Rejected
                    THEN "invalid" ELSE "ok"
  BY DEF T!BindTree
<1>2. SUFFICES ASSUME outcome' = "ok", NEW f \in DOMAIN Schema, T!SpelledAlike(f)'
               PROVE  dst'[f] = T!Due(f)'
  BY DEF T!HighestContextWins
<1>3. \A g \in DOMAIN Schema : ~bound[g].error
  BY <1>1, <1>2
<1>4. dst'[f] = bound[f].value
  BY <1>1, <1>3 DEF T!Assign
<1>5. T!SpelledAlike(f) /\ T!Due(f)' = T!Due(f)
  BY <1>1, <1>2, SameDue
<1>6. ~T!BindField(f, merged).error
  BY <1>3
<1>7. Len(f) = 1 \/ Len(f) = 2
  BY TreeAssumption DEF T!DataOK, T!IsPath
<1>8. T!BindField(f, merged).value = T!Due(f)
  BY <1>1, <1>5, <1>6, <1>7, BoundField, BoundInSection DEF LoadingInv
<1>. QED  BY <1>4, <1>5, <1>8

\* no other step of the loader undoes it,
LEMMA LoadStep == ASSUME LoadingInv, T!Next PROVE LoadingInv'
<1>1. CASE T!LoadBegins
  BY <1>1, MergedFirst DEF T!LoadBegins, LoadingInv, T!HighestContextWins
<1>2. CASE T!ReadFolder
  <2>. DEFINE pairs == store[contexts[Len(seen) + 1]]
  <2>1. pairs \in Contents
    <3>1. Len(seen) + 1 \in DOMAIN contexts
      BY <1>2 DEF T!ReadFolder, LoadingInv
    <3>2. contexts[Len(seen) + 1] \in Range(contexts)
      BY <3>1 DEF Range
    <3>. QED  BY <3>2 DEF LoadingInv
  <2>2. /\ outcome = "reading" /\ UNCHANGED <<contexts, store, dst, before>>
        /\ seen' = Append(seen, pairs)
        /\ \/ outcome' = "invalid"
           \/ /\ ~T!Conflicting(pairs)
              /\ merged' = T!Merge(merged, T!Decode(pairs)) /\ outcome' = "reading"
    BY <1>2 DEF T!ReadFolder
  <2>3. seen' \in Seq(Contents)
    BY <2>1, <2>2 DEF LoadingInv
  <2>4. outcome' = "reading" => MergedOK(merged', seen') /\ dst' = before'
    BY <2>1, <2>2, MergedNext DEF LoadingInv
  <2>. QED  BY <2>2, <2>3, <2>4 DEF LoadingInv, T!HighestContextWins
<1>3. CASE T!ReadFails
  BY <1>3 DEF T!ReadFails, LoadingInv, T!HighestContextWins
<1>4. CASE T!BindTree
  <2>1. outcome' # "reading" /\ UNCHANGED <<contexts, store, seen>>
    BY <1>4 DEF T!BindTree
  <2>. QED  BY <1>4, <2>1, BindStep DEF LoadingInv
<1>5. ASSUME NEW c \in Range(contexts), T!Write(c) PROVE LoadingInv'
  <2>1. store' \in [Range(contexts) -> Contents]
    BY <1>5 DEF T!Write, LoadingInv
  <2>2. UNCHANGED <<contexts, seen, merged, dst, before, outcome>>
    BY <1>5 DEF T!Write
  <2>3. T!HighestContextWins'
    BY <2>2, SameDue DEF LoadingInv, T!HighestContextWins
  <2>. QED  BY <2>1, <2>2, <2>3 DEF LoadingInv
<1>. QED  BY <1>1, <1>2, <1>3, <1>4, <1>5 DEF T!Next, Range, T!Range

\* and no step of the composition does.
LEMMA LoaderStep == LoaderInv /\ [Next]_vars => LoaderInv'
<1>. SUFFICES ASSUME LoaderInv, [Next]_vars PROVE LoaderInv'
  OBVIOUS
<1>1. ASSUME UNCHANGED treeVars, UNCHANGED stage \/ (stage # "loading" /\ stage' # "loading")
      PROVE  LoaderInv'
  <2>1. LoadingInv => LoadingInv'
    <3>1. LoadingInv => T!HighestContextWins'
      BY <1>1, SameDue DEF treeVars, LoadingInv, T!HighestContextWins
    <3>2. MergedOK(merged, seen) => MergedOK(merged', seen')
      BY <1>1 DEF treeVars
    <3>. QED  BY <1>1, <3>1, <3>2 DEF treeVars, LoadingInv
  <2>. QED  BY <1>1, <2>1 DEF LoaderInv, treeVars
<1>2. CASE Settle \/ Registers
  BY <1>1, <1>2 DEF Settle, Registers, SettingsDone
<1>3. CASE Register(R!RegistrarStep) \/ Register(R!Stop) \/ Register(R!WorldStep)
  BY <1>1, <1>3 DEF Register
<1>4. CASE UNCHANGED vars
  BY <1>1, <1>4 DEF vars
<1>5. CASE Loads
  <2>1. stage = "new" /\ stage' = "loading" /\ UNCHANGED <<seen, outcome>>
    BY <1>5 DEF Loads, SettingsDone
  <2>2. contexts' \in Seq(Range(contexts')) /\ store' \in [Range(contexts') -> Contents]
    BY <1>5, ContextsSeq DEF Loads
  <2>3. outcome' = "idle" /\ seen' \in Seq(Contents)
    BY <2>1 DEF LoaderInv
  <2>. QED  BY <2>1, <2>2, <2>3 DEF LoaderInv, LoadingInv, T!HighestContextWins
<1>6. CASE Load
  BY <1>6, LoadStep DEF Load, LoaderInv
<1>. QED  BY <1>2, <1>3, <1>4, <1>5, <1>6 DEF Next

\* After every load that succeeds, each field that the folders spell alike has
\* the value of the last context that gives it one, or its default.
THEOREM HighestContextAlwaysWins == Spec => []HighestContextWins
<1>1. Init => LoaderInv
  BY DEF Init, T!Fresh, LoaderInv
<1>2. LoaderInv => HighestContextWins
  BY DEF LoaderInv, LoadingInv, HighestContextWins, T!HighestContextWins
<1>. QED  BY <1>1, <1>2, LoaderStep, PTL DEF Spec

-----------------------------------------------------------------------------
(***************************************************************************)
(* The types.  What registration reads of the configuration has its type   *)
(* because every source says what it says in the type of the field, each   *)
(* way to apply it keeps the types, and validation lets only known         *)
(* strategies through.                                                     *)
(***************************************************************************)

SettingsTypes ==
  /\ env \in Environments
  /\ Len(args) <= MaxArguments
  /\ S!Typed(cfg)
  /\ DOMAIN mem = S!Places
  /\ bad \subseteq S!Fields \union {"argument"}
  /\ phase \in {"applying", "ready", "failed"}
  /\ phase = "ready" => cfg.strategy \in {"hostname-port", "random"}

LEMMA TypedSetting ==
  ASSUME NEW c, S!Typed(c), NEW sets, S!Typed(sets)
  PROVE  S!Typed(S!Setting(c, sets))
  BY DEF S!Typed, S!Setting

LEMMA TypedOverlay ==
  ASSUME NEW c, S!Typed(c), NEW layer, S!Typed(layer), DOMAIN layer = S!Fields
  PROVE  S!Typed(S!Overlay(c, layer))
<1>. DEFINE said == S!Restrict(layer, {g \in S!Plain : layer[g] # S!Zero[g]})
<1>1. S!Typed(said)
  BY DEF S!Typed, S!Restrict, S!Plain
<1>. QED  BY <1>1, TypedSetting DEF S!Overlay

\* A copy or a merge sets a reference, and the places stay.
LEMMA TypedReferences ==
  ASSUME NEW c, S!Typed(c), NEW m, NEW ref
  PROVE  /\ S!Typed(S!Cloned(c, m, ref)[1]) /\ DOMAIN S!Cloned(c, m, ref)[2] = DOMAIN m
         /\ S!Typed(S!Merged(c, m, ref)[1]) /\ DOMAIN S!Merged(c, m, ref)[2] = DOMAIN m
<1>. DEFINE tagged == S!Setting(c, [tags |-> "tags"])
            noted == S!Setting(c, [meta |-> "meta"])
<1>1. S!Typed(tagged) /\ S!Typed(noted)
  <2>1. S!Typed([tags |-> "tags"]) /\ S!Typed([meta |-> "meta"])
    BY DEF S!Typed, S!References
  <2>. QED  BY <2>1, TypedSetting
<1>. DEFINE x == m[ref]
            y == S!Copied(m[ref], IF c.meta = "" THEN <<>> ELSE m[c.meta])
            copied == [m EXCEPT !["tags"] = x]
            joined == [m EXCEPT !["meta"] = y]
<1>2. S!Cloned(c, m, ref) = <<c, m>> \/ S!Cloned(c, m, ref) = <<tagged, copied>>
  BY Zenon DEF S!Cloned
<1>3. S!Merged(c, m, ref) = <<c, m>> \/ S!Merged(c, m, ref) = <<noted, joined>>
  BY Zenon DEF S!Merged
<1>. HIDE DEF x, y
<1>. HIDE DEF tagged, noted
<1>4. S!Typed(S!Cloned(c, m, ref)[1]) /\ DOMAIN S!Cloned(c, m, ref)[2] = DOMAIN m
  BY <1>1, <1>2
<1>5. S!Typed(S!Merged(c, m, ref)[1]) /\ DOMAIN S!Merged(c, m, ref)[2] = DOMAIN m
  BY <1>1, <1>3
<1>. QED  BY <1>4, <1>5

LEMMA TypedLayered ==
  ASSUME NEW c, S!Typed(c), NEW m, NEW layer, S!Typed(layer), DOMAIN layer = S!Fields
  PROVE  /\ S!Typed(S!Layered(c, m, layer)[1])
         /\ DOMAIN S!Layered(c, m, layer)[2] = DOMAIN m
<1>. DEFINE sliced == S!Cloned(S!Overlay(c, layer), m, layer.tags)
<1>1. S!Typed(sliced[1]) /\ DOMAIN sliced[2] = DOMAIN m
  BY TypedOverlay, TypedReferences
<1>2. S!Layered(c, m, layer) = S!Merged(sliced[1], sliced[2], layer.meta)
  BY DEF S!Layered
<1>. HIDE DEF sliced
<1>. QED  BY <1>1, <1>2, TypedReferences

LEMMA AllFields ==
  S!Fields = {"name", "id", "strategy", "environment", "kvName", "address", "addressEnv",
              "allowLoopback", "preferIPv6", "port", "ports", "enabled", "endpoints", "check",
              "checkPath", "interval", "timeout", "failFast", "autoRegister", "tags", "meta"}
  BY DEF S!Fields, S!Zero

LEMMA EmptyText == "" \in STRING
<1>1. "" \in S!OwnTexts
  BY Zenon DEF S!OwnTexts
<1>. QED  BY <1>1, TextsAssumption, Zenon

LEMMA ZeroTyped == ASSUME NEW f \in S!Plain PROVE S!HasType(f, S!Zero[f])
<1>1. ASSUME f \in S!Flags PROVE S!Zero[f] \in BOOLEAN
  <2>1. /\ S!Zero["addressEnv"] = FALSE /\ S!Zero["allowLoopback"] = FALSE
        /\ S!Zero["preferIPv6"] = FALSE /\ S!Zero["ports"] = FALSE
        /\ S!Zero["enabled"] = FALSE /\ S!Zero["failFast"] = FALSE
    BY Zenon DEF S!Zero
  <2>. QED  BY <1>1, <2>1 DEF S!Flags
<1>2. ASSUME f \in S!Counts PROVE S!Zero[f] \in Int
  <2>1. S!Zero["port"] = 0 /\ S!Zero["interval"] = 0 /\ S!Zero["timeout"] = 0
    BY Zenon DEF S!Zero
  <2>. QED  BY <1>2, <2>1 DEF S!Counts
<1>3. S!Zero["endpoints"] \in [health: STRING, ready: STRING]
  <2>. DEFINE nothing == ""
  <2>1. S!Zero["endpoints"] = [health |-> nothing, ready |-> nothing]
    BY Zenon DEF S!Zero, S!NoPaths
  <2>2. nothing \in STRING
    BY EmptyText, Zenon
  <2>. HIDE DEF nothing
  <2>. QED  BY <2>1, <2>2
<1>4. ASSUME f \in S!Texts PROVE S!Zero[f] \in STRING
  <2>1. f \in {"name", "id", "strategy", "environment", "kvName", "address", "check",
                "checkPath", "autoRegister"}
    BY <1>4, AllFields DEF S!Texts, S!Plain, S!References, S!Counts, S!Flags
  <2>2. /\ S!Zero["name"] \in STRING /\ S!Zero["id"] \in STRING /\ S!Zero["strategy"] \in STRING
        /\ S!Zero["environment"] \in STRING /\ S!Zero["kvName"] \in STRING
        /\ S!Zero["address"] \in STRING /\ S!Zero["check"] \in STRING
        /\ S!Zero["checkPath"] \in STRING /\ S!Zero["autoRegister"] \in STRING
    BY EmptyText, Zenon DEF S!Zero
  <2>. QED  BY <2>1, <2>2
<1>. QED  BY <1>1, <1>2, <1>3, <1>4 DEF S!HasType

\* The environment says what it says in the types of the fields.
LEMMA TypedLookup ==
  ASSUME NEW e \in Environments
  PROVE  S!Typed(S!FromLookup(e)) /\ DOMAIN S!FromLookup(e) = S!Fields
<1>1. S!Typed(e.sets) /\ DOMAIN e.sets \subseteq S!Fields
  BY SourcesAssumption DEF S!SourcesTyped
<1>2. ASSUME NEW f \in S!Plain PROVE S!HasType(f, S!FromLookup(e)[f])
  BY <1>1, ZeroTyped DEF S!FromLookup, S!Typed, S!Plain
<1>3. DOMAIN S!FromLookup(e) = S!Fields
  BY DEF S!FromLookup
<1>. QED  BY <1>2, <1>3 DEF S!Typed, S!Plain

LEMMA TypedApplied ==
  ASSUME env \in Environments, S!Typed(cfg), NEW a \in Arguments
  PROVE  S!Typed(S!Applied(a)[1]) /\ DOMAIN S!Applied(a)[2] = DOMAIN mem
<1>1. CASE a.kind = "layer"
  <2>1. S!Typed(a.cfg) /\ DOMAIN a.cfg = S!Fields
    BY <1>1, SetupAssumption, SourcesAssumption DEF S!ArgumentsOK, S!SourcesTyped
  <2>2. S!Applied(a) = S!Layered(cfg, mem, a.cfg)
    BY <1>1 DEF S!Applied
  <2>. QED  BY <2>1, <2>2, TypedLayered
<1>2. CASE a.kind = "file"
  <2>1. S!Typed(a.cfg) /\ DOMAIN a.cfg = S!Fields
    BY <1>2, SetupAssumption, SourcesAssumption DEF S!ArgumentsOK, S!SourcesTyped
  <2>2. S!Applied(a) = S!Layered(cfg, mem, S!FromFile(a.cfg))
    BY <1>2 DEF S!Applied
  <2>3. S!Typed(S!FromFile(a.cfg)) /\ DOMAIN S!FromFile(a.cfg) = S!Fields
    <3>1. DOMAIN S!FromFile(a.cfg) = S!Fields
      BY <2>1 DEF S!FromFile, S!Overlay, S!Setting
    <3>. QED  BY <2>1, <3>1, TypedLookup, TypedOverlay DEF S!FromFile
  <2>. QED  BY <2>2, <2>3, TypedLayered
<1>3. CASE a.kind = "assign"
  <2>1. S!Applied(a) = S!Assigned(cfg, mem, a.sets)
    BY <1>3 DEF S!Applied
  <2>2. CASE "tags" \in DOMAIN a.sets
    BY <2>1, <2>2, TypedReferences DEF S!Assigned
  <2>3. CASE "tags" \notin DOMAIN a.sets
    <3>. DEFINE c == S!Setting(cfg, a.sets)
    <3>1. S!Typed(c)
      BY <1>3, SourcesAssumption, TypedSetting DEF S!SourcesTyped
    <3>2. S!Applied(a) = <<c, mem>>
      BY <2>1, <2>3 DEF S!Assigned
    <3>. HIDE DEF c
    <3>. QED  BY <3>1, <3>2
  <2>. QED  BY <2>2, <2>3
<1>4. CASE a.kind = "metadata"
  <2>1. S!Applied(a) = S!WithMetadata(cfg, mem, a.ref)
    BY <1>4 DEF S!Applied
  <2>2. CASE cfg.meta = ""
    <3>1. S!Applied(a) = S!Merged(cfg, mem, a.ref)
      BY <2>1, <2>2, Zenon DEF S!WithMetadata
    <3>. QED  BY <3>1, TypedReferences
  <2>3. CASE cfg.meta # ""
    <3>. DEFINE entries == S!Copied(mem[a.ref], mem[cfg.meta])
                n == [mem EXCEPT ![cfg.meta] = entries]
    <3>1. S!Applied(a) = <<cfg, n>>
      BY <2>1, <2>3 DEF S!WithMetadata
    <3>. HIDE DEF entries
    <3>2. DOMAIN n = DOMAIN mem
      OBVIOUS
    <3>. HIDE DEF n
    <3>. QED  BY <3>1, <3>2
  <2>. QED  BY <2>2, <2>3
<1>5. CASE a.kind = "invalid"
  BY <1>5 DEF S!Applied
<1>. QED  BY <1>1, <1>2, <1>3, <1>4, <1>5, SetupAssumption DEF S!ArgumentsOK, S!Kinds

\* Defaults are of the types of their fields.
LEMMA MinOfTwo == ASSUME NEW i \in Int, NEW j \in Int PROVE S!Min({i, j}) \in Int
<1>. DEFINE pair == {i, j}
            IsMin(x) == \A y \in pair : x <= y
<1>1. S!Min(pair) = CHOOSE x \in pair : IsMin(x)
  BY DEF S!Min
<1>2. \E x \in pair : IsMin(x)
  <2>1. CASE i <= j
    BY <2>1
  <2>2. CASE j <= i
    BY <2>2
  <2>. QED  BY <2>1, <2>2
<1>3. pair \subseteq Int
  OBVIOUS
<1>. HIDE DEF pair, IsMin
<1>4. S!Min(pair) \in Int
  BY <1>1, <1>2, <1>3
<1>. QED  BY <1>4 DEF pair

\* The fields that have defaults, and what they may be.
LEMMA DefaultsTyped ==
  ASSUME S!Typed(cfg), DOMAIN cfg = S!Fields
  PROVE  LET c == S!Defaulted(cfg)
         IN  /\ c.strategy \in STRING /\ c.checkPath \in STRING /\ c.check \in STRING
             /\ c.autoRegister \in STRING
             /\ c.endpoints \in [health: STRING, ready: STRING]
             /\ c.interval \in Int /\ c.timeout \in Int
<1>. DEFINE paths == IF cfg.enabled /\ cfg.endpoints = S!NoPaths
                     THEN [health |-> "/health", ready |-> "/health/ready"]
                     ELSE cfg.endpoints
            path == S!CheckPath(cfg, paths)
            interval == S!Or(cfg.interval, 10, 0)
            c == S!Defaulted(cfg)
<1>1. /\ "strategy" \in DOMAIN cfg /\ "checkPath" \in DOMAIN cfg /\ "check" \in DOMAIN cfg
      /\ "autoRegister" \in DOMAIN cfg /\ "endpoints" \in DOMAIN cfg
      /\ "interval" \in DOMAIN cfg /\ "timeout" \in DOMAIN cfg
  BY AllFields
<1>2. /\ cfg.strategy \in STRING /\ cfg.checkPath \in STRING /\ cfg.check \in STRING
      /\ cfg.autoRegister \in STRING
      /\ cfg.endpoints \in [health: STRING, ready: STRING]
      /\ cfg.interval \in Int /\ cfg.timeout \in Int
  <2>1. /\ {"strategy", "checkPath", "check", "autoRegister"} \subseteq S!Texts
        /\ {"interval", "timeout"} \subseteq S!Counts
    BY AllFields DEF S!Texts, S!Plain, S!References, S!Counts, S!Flags
  <2>2. {"strategy", "checkPath", "check", "autoRegister", "endpoints", "interval", "timeout"}
          \intersect S!References = {}
    BY DEF S!References
  <2>3. \A f \in {"strategy", "checkPath", "check", "autoRegister", "endpoints", "interval", "timeout"} :
          S!HasType(f, cfg[f])
    BY <1>1, <2>2 DEF S!Typed
  <2>. QED  BY <2>1, <2>3 DEF S!HasType
<1>3. /\ "hostname-port" \in STRING /\ "/health" \in STRING /\ "/health/ready" \in STRING
      /\ "http" \in STRING /\ "ttl" \in STRING /\ "true" \in STRING
  <2>1. /\ "hostname-port" \in S!OwnTexts /\ "/health" \in S!OwnTexts
        /\ "/health/ready" \in S!OwnTexts
        /\ "http" \in S!OwnTexts /\ "ttl" \in S!OwnTexts /\ "true" \in S!OwnTexts
    BY Zenon DEF S!OwnTexts
  <2>. QED  BY <2>1, TextsAssumption
<1>4. paths \in [health: STRING, ready: STRING]
  BY <1>2, <1>3
<1>5. /\ c.strategy = S!Or(cfg.strategy, "hostname-port", "")
      /\ c.autoRegister = S!Or(cfg.autoRegister, "true", "")
      /\ c.endpoints = paths /\ c.checkPath = path /\ c.check = S!Check(cfg, path)
      /\ c.interval = interval /\ c.timeout = S!Or(cfg.timeout, S!Min({5, interval}), 0)
  <2>. DEFINE strategy == S!Or(cfg.strategy, "hostname-port", "")
              register == S!Or(cfg.autoRegister, "true", "")
              timeout == S!Or(cfg.timeout, S!Min({5, interval}), 0)
              check == S!Check(cfg, path)
  <2>1. c = [cfg EXCEPT !.strategy = strategy, !.endpoints = paths, !.checkPath = path,
                        !.check = check, !.interval = interval, !.timeout = timeout,
                        !.autoRegister = register]
    BY DEF S!Defaulted
  <2>. HIDE DEF strategy, register, timeout, check, interval, path, paths, c
  <2>2. /\ c.strategy = strategy /\ c.autoRegister = register /\ c.endpoints = paths
        /\ c.checkPath = path /\ c.check = check /\ c.interval = interval /\ c.timeout = timeout
    BY <1>1, <2>1
  <2>. QED  BY <2>2 DEF strategy, register, timeout, check
<1>. HIDE DEF paths, c
<1>6. path \in STRING
  <2>1. paths.ready \in STRING /\ paths.health \in STRING
    BY <1>4
  <2>2. \/ path = paths.health \/ path = paths.ready \/ path = cfg.checkPath
    BY Zenon DEF S!CheckPath, S!Or
  <2>. QED  BY <1>2, <2>1, <2>2
<1>. HIDE DEF path
<1>7. S!Check(cfg, path) \in STRING
  <2>1. S!Check(cfg, path) = cfg.check \/ S!Check(cfg, path) = "http" \/ S!Check(cfg, path) = "ttl"
    BY Zenon DEF S!Check
  <2>. QED  BY <1>2, <1>3, <2>1
<1>8. c.strategy \in STRING /\ c.autoRegister \in STRING
  BY <1>2, <1>3, <1>5, Zenon DEF S!Or
<1>9. interval \in Int
  BY <1>2 DEF S!Or
<1>10. c.timeout \in Int
  <2>. HIDE DEF interval
  <2>1. c.timeout = cfg.timeout \/ c.timeout = S!Min({5, interval})
    BY <1>5, Zenon DEF S!Or
  <2>2. S!Min({5, interval}) \in Int
    BY <1>9, MinOfTwo
  <2>. QED  BY <1>2, <2>1, <2>2
<1>. HIDE DEF interval
<1>. QED  BY <1>4, <1>5, <1>6, <1>7, <1>8, <1>9, <1>10 DEF c

LEMMA DefaultedTyped ==
  ASSUME S!Typed(cfg), DOMAIN cfg = S!Fields
  PROVE  S!Typed(S!Defaulted(cfg))
<1>. DEFINE c == S!Defaulted(cfg)
            defaulted == {"strategy", "endpoints", "checkPath", "check", "interval", "timeout",
                          "autoRegister"}
<1>1. DOMAIN c = S!Fields
  BY DEF S!Defaulted
<1>2. ASSUME NEW f \in S!Fields \ defaulted PROVE c[f] = cfg[f]
  BY <1>2 DEF S!Defaulted
<1>3. /\ c.strategy \in STRING /\ c.checkPath \in STRING /\ c.check \in STRING
      /\ c.autoRegister \in STRING
      /\ c.endpoints \in [health: STRING, ready: STRING]
      /\ c.interval \in Int /\ c.timeout \in Int
  BY DefaultsTyped
<1>. HIDE DEF c
<1>4. ASSUME NEW f \in defaulted PROVE S!HasType(f, c[f])
  <2>1. f \in {"interval", "timeout"} <=> f \in S!Counts
    BY <1>4 DEF S!Counts
  <2>2. f \notin S!Flags
    BY <1>4 DEF S!Flags
  <2>3. f \in S!Texts => f \notin {"endpoints", "interval", "timeout"}
    BY DEF S!Texts, S!Counts
  <2>. QED  BY <1>3, <1>4, <2>1, <2>2, <2>3 DEF S!HasType
<1>5. ASSUME NEW f \in S!Fields \ S!References PROVE S!HasType(f, c[f])
  BY <1>2, <1>4 DEF S!Typed
<1>. QED  BY <1>1, <1>5 DEF S!Typed, c

LEMMA SettingsInit == Init => SettingsTypes
<1>. SUFFICES ASSUME Init PROVE SettingsTypes
  OBVIOUS
<1>1. /\ env \in Environments /\ args = <<>> /\ cfg = S!FromLookup(env)
      /\ DOMAIN mem = S!Places /\ bad = env.malformed
      /\ phase \in {"applying", "failed"}
  BY DEF Init, S!Init
<1>2. Len(args) <= MaxArguments
  BY <1>1, BoundsAssumption
<1>3. S!Typed(cfg) /\ bad \subseteq S!Fields
  BY <1>1, TypedLookup, SourcesAssumption DEF S!SourcesTyped
<1>. QED  BY <1>1, <1>2, <1>3 DEF SettingsTypes

LEMMA ApplyTypes ==
  ASSUME PrecedenceInv, SettingsTypes, NEW a \in Arguments, S!Apply(a)
  PROVE  SettingsTypes'
<1>1. /\ args' = Append(args, a) /\ cfg' = S!Applied(a)[1] /\ mem' = S!Applied(a)[2]
      /\ bad' \in {bad, bad \union {"argument"}}
      /\ phase = "applying" /\ Len(args) < MaxArguments /\ UNCHANGED <<env, phase>>
  BY DEF S!Apply
<1>2. Len(args') <= MaxArguments
  <2>1. args \in Seq(Arguments)
    BY DEF PrecedenceInv
  <2>2. Len(args') = Len(args) + 1 /\ Len(args) \in Nat
    BY <1>1, <2>1
  <2>. QED  BY <1>1, <2>2, BoundsAssumption
<1>3. S!Typed(cfg') /\ DOMAIN mem' = S!Places
  BY <1>1, TypedApplied DEF SettingsTypes
<1>. QED  BY <1>1, <1>2, <1>3 DEF SettingsTypes

\* Validation names fields, and an unknown strategy is among them.
LEMMA ProblemsAreFields ==
  ASSUME NEW c
  PROVE  /\ S!Problems(c) \subseteq S!Fields
         /\ S!Problems(c) = {} => c.strategy \in {"hostname-port", "random"}
<1>. DEFINE name == {f \in {"name"} : (c.autoRegister = "true" /\ c.name = "") \/ c.name = "a/b"}
            strategy == {f \in {"strategy"} : c.strategy \notin {"hostname-port", "random"}}
            port == {f \in {"port"} : c.port < 0}
            check == {f \in {"check"} : c.check \notin {"http", "tcp", "ttl", "grpc", "none"}}
            path == {f \in {"checkPath"} : c.check = "http" /\ c.checkPath = ""}
            endpoints == {f \in {"endpoints"} : c.endpoints.health # ""
                                                 /\ c.endpoints.health = c.endpoints.ready}
            interval == {f \in {"interval"} : c.interval <= 0}
            timeout == {f \in {"timeout"} : c.timeout <= 0 \/ c.timeout > c.interval}
<1>1. S!Problems(c) = name \union strategy \union port \union check \union path
                        \union endpoints \union interval \union timeout
  BY Zenon DEF S!Problems
<1>2. name \subseteq {"name"} /\ path \subseteq {"checkPath"} /\ endpoints \subseteq {"endpoints"}
  BY Zenon
<1>. HIDE DEF name, path, endpoints
<1>3. S!Problems(c) \subseteq S!Fields
  BY <1>1, <1>2, AllFields
<1>4. strategy = {} => c.strategy \in {"hostname-port", "random"}
  OBVIOUS
<1>. HIDE DEF strategy, port, check, interval, timeout
<1>. QED  BY <1>1, <1>3, <1>4

LEMMA FinishTypes == ASSUME PrecedenceInv, SettingsTypes, S!Finish PROVE SettingsTypes'
<1>. DEFINE c == S!Defaulted(cfg)
<1>1. UNCHANGED <<env, args, mem>> /\ phase' = IF bad' = {} THEN "ready" ELSE "failed"
  BY DEF S!Finish
<1>2. CASE bad = {}
  <2>1. cfg' = c /\ bad' = S!Problems(c)
    BY <1>2 DEF S!Finish
  <2>2. S!Typed(cfg')
    BY <2>1, DefaultedTyped DEF PrecedenceInv, SettingsTypes
  <2>. HIDE DEF c
  <2>3. bad' \subseteq S!Fields /\ (bad' = {} => cfg'.strategy \in {"hostname-port", "random"})
    BY <2>1, ProblemsAreFields
  <2>. QED  BY <1>1, <2>2, <2>3 DEF SettingsTypes
<1>3. CASE bad # {}
  <2>1. UNCHANGED <<cfg, bad>>
    BY <1>3 DEF S!Finish
  <2>. QED  BY <1>1, <1>3, <2>1 DEF SettingsTypes
<1>. QED  BY <1>2, <1>3

LEMMA SettingsStep ==
  ASSUME PrecedenceInv, SettingsTypes, S!Next \/ UNCHANGED settingsVars
  PROVE  SettingsTypes'
<1>1. ASSUME NEW p \in DOMAIN AppData, S!AppWrites(p) PROVE SettingsTypes'
  <2>1. DOMAIN mem' = DOMAIN mem
    BY <1>1 DEF S!AppWrites
  <2>. QED  BY <1>1, <2>1 DEF S!AppWrites, SettingsTypes
<1>2. CASE UNCHANGED settingsVars
  BY <1>2 DEF settingsVars, SettingsTypes
<1>. QED  BY <1>1, <1>2, ApplyTypes, FinishTypes DEF S!Next

-----------------------------------------------------------------------------

IDGiven == conf.id # ""

\* No more UUIDs are drawn than processes were started, and none of this process
\* before it generates its ID, which is the last one drawn.
DrawnOK(id, uuids, incarnation) ==
  /\ uuids < incarnation \/ (uuids = incarnation /\ id # <<>>)
  /\ id # <<>> /\ id[1] = "uuid" => id[2] = uuids
  /\ IDGiven => id = <<>>

RegistrationTypes ==
  /\ conf \in R!ConfigType
  /\ DOMAIN network = {"variable", "route", "interfaces"}
  /\ agent \in [version: HostVersions, readable: BOOLEAN, up: BOOLEAN]
  /\ DOMAIN services \subseteq R!IDs
  /\ process \in [incarnation: Nat \ {0}, uuids: Nat, running: BOOLEAN]
  /\ process.incarnation <= changes + 1
  /\ DrawnOK(generated, process.uuids, process.incarnation)
  /\ generated \in R!IDs \union {<<>>}
  /\ cached \in HostVersions \union {R!Unknown}
  /\ current \in [id: R!IDs \union {<<>>}, registered: BOOLEAN]
  /\ attempt.step \in {"idle", "detected", "sending"}
  /\ attempt.step = "sending" => attempt.def.id \in R!IDs
  /\ changes \in 0..MaxChanges

LEMMA SameIDs == UNCHANGED conf => R!IDs' = R!IDs /\ IDGiven' = IDGiven
  BY Zenon DEF R!IDs, IDGiven

LEMMA KindsOfID ==
  /\ IDGiven => R!IDs = {Configured} /\ R!ServiceID = Configured
  /\ ~IDGiven => /\ R!IDs = {"host", "uuid"} \X (Nat \ {0})
                 /\ R!ServiceID = IF generated # <<>> THEN generated
                                  ELSE IF conf.strategy = "random"
                                       THEN <<"uuid", process.uuids + 1>>
                                  ELSE <<"host", R!ResolvePort>>
  BY Zenon DEF IDGiven, R!IDs, R!ServiceID, Configured

\* An ID that is built is typed, and the account of the UUIDs is kept.
LEMMA Built ==
  ASSUME RegistrationTypes
  PROVE  LET drawn == IF ~IDGiven /\ R!ServiceID[1] = "uuid" THEN R!ServiceID[2]
                      ELSE process.uuids
         IN  /\ R!ServiceID \in R!IDs
             /\ drawn \in Nat
             /\ DrawnOK(IF ~IDGiven THEN R!ServiceID ELSE <<>>, drawn, process.incarnation)
<1>. DEFINE id == R!ServiceID
            drawn == IF ~IDGiven /\ id[1] = "uuid" THEN id[2] ELSE process.uuids
<1>1. process.incarnation \in Nat \ {0} /\ process.uuids \in Nat
  BY DEF RegistrationTypes
<1>2. DrawnOK(generated, process.uuids, process.incarnation)
  BY DEF RegistrationTypes
<1>3. CASE IDGiven
  <2>1. id \in R!IDs
    BY <1>3, KindsOfID
  <2>. HIDE DEF id
  <2>2. drawn = process.uuids /\ generated = <<>>
    BY <1>2, <1>3 DEF DrawnOK
  <2>. QED  BY <1>1, <1>2, <1>3, <2>1, <2>2 DEF DrawnOK, id
<1>4. CASE ~IDGiven /\ generated # <<>>
  <2>1. id = generated /\ R!IDs = {"host", "uuid"} \X (Nat \ {0})
    BY <1>4, KindsOfID
  <2>2. id \in R!IDs
    BY <1>4, <2>1 DEF RegistrationTypes
  <2>. HIDE DEF id
  <2>3. drawn = process.uuids
    BY <1>2, <1>4, <2>1 DEF DrawnOK
  <2>. QED  BY <1>1, <1>2, <1>4, <2>1, <2>2, <2>3 DEF DrawnOK, id
<1>5. CASE ~IDGiven /\ generated = <<>> /\ conf.strategy = "random"
  <2>. DEFINE n == process.uuids + 1
              uuid == <<"uuid", n>>
  <2>1. id = uuid /\ R!IDs = {"host", "uuid"} \X (Nat \ {0})
    BY <1>5, KindsOfID
  <2>2. n \in Nat \ {0} /\ n <= process.incarnation
    BY <1>1, <1>2, <1>5 DEF DrawnOK
  <2>. HIDE DEF id, n
  <2>3. uuid \in R!IDs /\ uuid[1] = "uuid" /\ uuid[2] = n /\ uuid # <<>>
    BY <2>1, <2>2
  <2>. HIDE DEF uuid
  <2>4. drawn = n
    BY <1>5, <2>1, <2>3
  <2>5. DrawnOK(id, n, process.incarnation)
    BY <1>1, <1>5, <2>1, <2>2, <2>3 DEF DrawnOK
  <2>. QED  BY <1>5, <2>1, <2>2, <2>3, <2>4, <2>5 DEF id
<1>6. CASE ~IDGiven /\ generated = <<>> /\ conf.strategy # "random"
  <2>. DEFINE port == R!ResolvePort
              host == <<"host", port>>
  <2>1. id = host /\ R!IDs = {"host", "uuid"} \X (Nat \ {0})
    BY <1>6, KindsOfID
  <2>2. port \in Nat \ {0}
    BY <1>1 DEF R!ResolvePort
  <2>. HIDE DEF id, port
  <2>3. host \in R!IDs /\ host[1] # "uuid" /\ host # <<>>
    BY <2>1, <2>2
  <2>. HIDE DEF host
  <2>4. drawn = process.uuids
    BY <2>1, <2>3
  <2>5. DrawnOK(id, process.uuids, process.incarnation)
    BY <1>1, <1>2, <1>6, <2>1, <2>3 DEF DrawnOK
  <2>. QED  BY <1>1, <1>6, <2>1, <2>3, <2>4, <2>5 DEF id
<1>. QED  BY <1>3, <1>4, <1>5, <1>6

\* What the configuration gives to the registration.
LEMMA RegistrantTyped ==
  ASSUME PrecedenceInv, SettingsTypes, phase = "ready"
  PROVE  Registrant(cfg) \in R!ConfigType
<1>1. /\ {"id", "address"} \subseteq S!Texts
      /\ {"addressEnv", "allowLoopback", "preferIPv6", "ports"} \subseteq S!Flags
      /\ {"id", "address", "addressEnv", "allowLoopback", "preferIPv6", "ports"}
           \subseteq S!Fields \ S!References
  BY AllFields DEF S!Texts, S!Plain, S!References, S!Counts, S!Flags
<1>2. \A f \in S!Fields \ S!References : S!HasType(f, cfg[f])
  BY DEF PrecedenceInv, SettingsTypes, S!Typed
<1>3. /\ cfg.id \in STRING /\ cfg.address \in STRING
      /\ cfg.addressEnv \in BOOLEAN /\ cfg.allowLoopback \in BOOLEAN
      /\ cfg.preferIPv6 \in BOOLEAN /\ cfg.ports \in BOOLEAN
  BY <1>1, <1>2 DEF S!HasType
<1>4. cfg.strategy \in {"hostname-port", "random"}
  BY DEF SettingsTypes
<1>. DEFINE fixed == cfg.port # 0 \/ cfg.ports
<1>5. fixed \in BOOLEAN
  OBVIOUS
<1>6. Registrant(cfg) =
        [id |-> cfg.id, strategy |-> cfg.strategy, address |-> cfg.address,
         addressEnv |-> cfg.addressEnv, allowLoopback |-> cfg.allowLoopback,
         preferIPv6 |-> cfg.preferIPv6, fixedPort |-> fixed, ports |-> cfg.ports]
  BY DEF Registrant
<1>. HIDE DEF fixed
<1>. QED  BY <1>3, <1>4, <1>5, <1>6 DEF R!ConfigType

\* How the registration begins.
Beginner ==
  /\ R!Fresh
  /\ conf \in R!ConfigType
  /\ DOMAIN network = {"variable", "route", "interfaces"}
  /\ agent \in [version: HostVersions, readable: BOOLEAN, up: BOOLEAN]

LEMMA FirstTypes == Beginner => RegistrationTypes
<1>. SUFFICES ASSUME Beginner PROVE RegistrationTypes
  OBVIOUS
<1>1. /\ DOMAIN services = {} /\ generated = <<>> /\ cached = R!Unknown
      /\ attempt.step = "idle" /\ changes = 0
      /\ process.incarnation = 1 /\ process.uuids = 0
      /\ process \in [incarnation: Nat \ {0}, uuids: Nat, running: BOOLEAN]
  BY DEF Beginner, R!Fresh, R!Idle
<1>2. current \in [id: R!IDs \union {<<>>}, registered: BOOLEAN]
  BY DEF Beginner, R!Fresh, R!None
<1>3. DrawnOK(generated, process.uuids, process.incarnation)
  BY <1>1 DEF DrawnOK
<1>4. changes \in 0..MaxChanges
  BY <1>1, BoundsAssumption
<1>. QED  BY <1>1, <1>2, <1>3, <1>4 DEF Beginner, RegistrationTypes

\* A step that leaves the configuration and the process alone.
LEMMA SameProcess ==
  ASSUME RegistrationTypes, UNCHANGED <<conf, process, generated>>,
         DOMAIN network' = {"variable", "route", "interfaces"},
         agent' \in [version: HostVersions, readable: BOOLEAN, up: BOOLEAN],
         DOMAIN services' \subseteq R!IDs,
         cached' \in HostVersions \union {R!Unknown},
         current' \in [id: R!IDs \union {<<>>}, registered: BOOLEAN],
         attempt' = attempt \/ attempt'.step \in {"idle", "detected"},
         changes' \in {changes, changes + 1}, changes' <= MaxChanges
  PROVE  RegistrationTypes'
<1>1. R!IDs' = R!IDs
  BY SameIDs
<1>2. DrawnOK(generated, process.uuids, process.incarnation)'
  BY SameIDs DEF RegistrationTypes, DrawnOK
<1>3. changes' \in 0..MaxChanges /\ process'.incarnation <= changes' + 1
  BY BoundsAssumption DEF RegistrationTypes
<1>4. attempt'.step = "sending" => attempt'.def.id \in R!IDs
  BY DEF RegistrationTypes
<1>5. R!Unknown' = R!Unknown
  BY DEF R!Unknown
<1>. QED  BY <1>1, <1>2, <1>3, <1>4, <1>5 DEF RegistrationTypes

LEMMA TypesNow ==
  ASSUME RegistrationTypes
  PROVE  /\ DOMAIN network = {"variable", "route", "interfaces"}
         /\ agent \in [version: HostVersions, readable: BOOLEAN, up: BOOLEAN]
         /\ DOMAIN services \subseteq R!IDs
         /\ cached \in HostVersions \union {R!Unknown}
         /\ current \in [id: R!IDs \union {<<>>}, registered: BOOLEAN]
         /\ changes \in 0..MaxChanges /\ changes <= MaxChanges
  BY BoundsAssumption DEF RegistrationTypes

\* The agent's services after it has taken a definition.
LEMMA TakenTyped ==
  ASSUME RegistrationTypes, R!InFlight
  PROVE  attempt.def.id \in R!IDs /\ DOMAIN R!Registered(attempt.def) \subseteq R!IDs
<1>1. attempt.def.id \in R!IDs
  BY DEF R!InFlight, RegistrationTypes
<1>. QED  BY <1>1 DEF RegistrationTypes, R!Registered

LEMMA PrepareTypes == ASSUME RegistrationTypes, R!Prepare PROVE RegistrationTypes'
<1>. DEFINE id == R!ServiceID
            address == R!ResolveAddress(conf, network)
            def == [id |-> id, address |-> address]
            drawn == IF ~IDGiven /\ id[1] = "uuid" THEN id[2] ELSE process.uuids
<1>1. UNCHANGED <<conf, network, agent, services, cached, current, changes>>
  BY DEF R!Prepare, R!worldVars
<1>2. CASE address = R!NotFound
  <2>1. attempt'.step = "idle" /\ UNCHANGED <<generated, process>>
    BY <1>2 DEF R!Prepare, R!Idle
  <2>. QED  BY <1>1, <2>1, TypesNow, SameProcess
<1>3. CASE address # R!NotFound
  <2>1. generated' = IF ~IDGiven THEN id ELSE <<>>
    BY <1>3, Zenon DEF R!Prepare, IDGiven
  <2>2. process' = [process EXCEPT !.uuids = drawn]
    <3>. DEFINE uuids == IF conf.id = "" /\ def.id[1] = "uuid" THEN def.id[2] ELSE process.uuids
    <3>1. process' = [process EXCEPT !.uuids = uuids]
      BY <1>3 DEF R!Prepare
    <3>2. def.id = id
      OBVIOUS
    <3>3. uuids = drawn
      BY <3>2, Zenon DEF IDGiven
    <3>. QED  BY <3>1, <3>3
  <2>3. attempt' \in {[step |-> "sending", def |-> def], R!Idle}
    BY <1>3 DEF R!Prepare
  <2>4. id \in R!IDs /\ drawn \in Nat
        /\ DrawnOK(IF ~IDGiven THEN id ELSE <<>>, drawn, process.incarnation)
    BY Built
  <2>. HIDE DEF id, drawn, address
  <2>5. R!IDs' = R!IDs /\ IDGiven' = IDGiven /\ R!Unknown' = R!Unknown
    BY <1>1, SameIDs DEF R!Unknown
  <2>6. /\ process' \in [incarnation: Nat \ {0}, uuids: Nat, running: BOOLEAN]
        /\ process'.uuids = drawn /\ process'.incarnation = process.incarnation
    BY <2>2, <2>4 DEF RegistrationTypes
  <2>7. DrawnOK(generated, process.uuids, process.incarnation)'
    BY <2>1, <2>4, <2>5, <2>6 DEF DrawnOK
  <2>8. attempt'.step \in {"idle", "sending"} /\ (attempt'.step = "sending" => attempt'.def.id = id)
    <3>1. def.id = id
      OBVIOUS
    <3>. HIDE DEF def
    <3>2. CASE attempt' = [step |-> "sending", def |-> def]
      BY <3>1, <3>2
    <3>3. CASE attempt' = R!Idle
      BY <3>3 DEF R!Idle
    <3>. QED  BY <2>3, <3>2, <3>3
  <2>9. generated' \in R!IDs \union {<<>>}
    BY <2>1, <2>4
  <2>. QED  BY <1>1, <2>4, <2>5, <2>6, <2>7, <2>8, <2>9 DEF RegistrationTypes
<1>. QED  BY <1>2, <1>3

\* A process that is started again may draw a UUID of its own.
LEMMA RestartTypes == ASSUME RegistrationTypes, R!Restart PROVE RegistrationTypes'
<1>1. /\ UNCHANGED <<conf, network, agent>> /\ generated' = <<>> /\ cached' = R!Unknown
      /\ current' = R!None /\ attempt' = R!Idle
      /\ changes < MaxChanges /\ changes' = changes + 1
      /\ process' = [process EXCEPT !.incarnation = @ + 1, !.running = TRUE]
      /\ services' = services \/ (R!InFlight /\ services' = R!Registered(attempt.def))
  BY DEF R!Restart, R!Change, R!worldVars
<1>2. R!IDs' = R!IDs /\ IDGiven' = IDGiven /\ R!Unknown' = R!Unknown
  BY <1>1, SameIDs DEF R!Unknown
<1>3. DOMAIN services' \subseteq R!IDs
  <2>1. CASE services' = services
    BY <2>1, TypesNow
  <2>2. CASE R!InFlight /\ services' = R!Registered(attempt.def)
    BY <2>2, TakenTyped
  <2>. QED  BY <1>1, <2>1, <2>2
<1>4. /\ process' \in [incarnation: Nat \ {0}, uuids: Nat, running: BOOLEAN]
      /\ process'.uuids = process.uuids /\ process'.incarnation = process.incarnation + 1
      /\ process.uuids \in Nat /\ process.incarnation \in Nat
  <2>1. process \in [incarnation: Nat \ {0}, uuids: Nat, running: BOOLEAN]
    BY DEF RegistrationTypes
  <2>2. process' = [process EXCEPT !.incarnation = @ + 1, !.running = TRUE]
    BY <1>1
  <2>3. process.incarnation + 1 \in Nat \ {0}
    BY <2>1
  <2>. QED  BY <2>1, <2>2, <2>3
<1>5. process'.incarnation <= changes' + 1 /\ changes' \in 0..MaxChanges
  BY <1>1, <1>4, BoundsAssumption DEF RegistrationTypes
<1>6. DrawnOK(generated, process.uuids, process.incarnation)'
  <2>1. process.uuids <= process.incarnation
    BY <1>4 DEF RegistrationTypes, DrawnOK
  <2>. QED  BY <1>1, <1>4, <2>1 DEF DrawnOK
<1>7. current' \in [id: R!IDs \union {<<>>}, registered: BOOLEAN]
  BY <1>1 DEF R!None
<1>8. attempt'.step = "idle"
  BY <1>1 DEF R!Idle
<1>. QED  BY <1>1, <1>2, <1>3, <1>4, <1>5, <1>6, <1>7, <1>8 DEF RegistrationTypes

LEMMA RegistrarTypes == ASSUME RegistrationTypes, R!RegistrarStep PROVE RegistrationTypes'
<1>1. CASE R!Detect
  <2>1. /\ UNCHANGED <<conf, network, agent, services, process, generated, current, changes>>
        /\ attempt'.step = "detected" /\ cached' \in {cached, agent.version}
    BY <1>1 DEF R!Detect, R!worldVars
  <2>2. agent.version \in HostVersions
    BY TypesNow
  <2>. QED  BY <2>1, <2>2, TypesNow, SameProcess
<1>2. CASE R!Prepare
  BY <1>2, PrepareTypes
<1>3. CASE R!Send
  <2>1. /\ UNCHANGED <<conf, network, agent, process, generated, cached, changes>>
        /\ attempt'.step = "idle"
    BY <1>3 DEF R!Send, R!worldVars, R!Idle
  <2>2. /\ DOMAIN services' \subseteq R!IDs
        /\ current' \in [id: R!IDs \union {<<>>}, registered: BOOLEAN]
    <3>1. CASE R!InFlight
      <4>1. /\ services' = R!Registered(attempt.def)
            /\ current' = [id |-> attempt.def.id, registered |-> TRUE]
        BY <1>3, <3>1 DEF R!Send
      <4>. QED  BY <3>1, <4>1, TakenTyped
    <3>2. CASE ~R!InFlight
      BY <1>3, <3>2, TypesNow DEF R!Send
    <3>. QED  BY <3>1, <3>2
  <2>. QED  BY <2>1, <2>2, TypesNow, SameProcess
<1>4. CASE R!SendFails
  <2>1. /\ UNCHANGED <<conf, network, agent, services, process, generated, cached, current, changes>>
        /\ attempt'.step = "idle"
    BY <1>4 DEF R!SendFails, R!worldVars, R!Idle
  <2>. QED  BY <2>1, TypesNow, SameProcess
<1>5. CASE R!LossNoticed
  <2>1. /\ UNCHANGED <<conf, network, agent, services, process, generated, cached, attempt, changes>>
        /\ current' = [current EXCEPT !.registered = FALSE]
    BY <1>5 DEF R!LossNoticed, R!worldVars
  <2>2. current' \in [id: R!IDs \union {<<>>}, registered: BOOLEAN]
    BY <2>1, TypesNow
  <2>. QED  BY <2>1, <2>2, TypesNow, SameProcess
<1>. QED  BY <1>1, <1>2, <1>3, <1>4, <1>5 DEF R!RegistrarStep

LEMMA StopTypes == ASSUME RegistrationTypes, R!Stop PROVE RegistrationTypes'
<1>1. /\ UNCHANGED <<conf, network, agent, generated, cached, attempt, changes>>
      /\ process' = [process EXCEPT !.running = FALSE]
      /\ DOMAIN services' \subseteq DOMAIN services
      /\ current' \in {current, [current EXCEPT !.registered = FALSE]}
  BY DEF R!Stop, R!worldVars, R!Restrict
<1>2. R!IDs' = R!IDs /\ IDGiven' = IDGiven /\ R!Unknown' = R!Unknown
  BY <1>1, SameIDs DEF R!Unknown
<1>3. /\ process' \in [incarnation: Nat \ {0}, uuids: Nat, running: BOOLEAN]
      /\ process'.uuids = process.uuids /\ process'.incarnation = process.incarnation
  BY <1>1 DEF RegistrationTypes
<1>4. current' \in [id: R!IDs \union {<<>>}, registered: BOOLEAN]
  BY <1>1, TypesNow
<1>5. DrawnOK(generated, process.uuids, process.incarnation)'
  BY <1>1, <1>2, <1>3 DEF RegistrationTypes, DrawnOK
<1>. QED  BY <1>1, <1>2, <1>3, <1>4, <1>5 DEF RegistrationTypes

LEMMA WorldTypes == ASSUME RegistrationTypes, R!WorldStep PROVE RegistrationTypes'
<1>1. CASE R!AnswerLost
  <2>1. /\ UNCHANGED <<conf, network, agent, process, generated, cached, current>>
        /\ attempt'.step = "idle" /\ R!InFlight /\ services' = R!Registered(attempt.def)
        /\ changes < MaxChanges /\ changes' = changes + 1
    BY <1>1 DEF R!AnswerLost, R!Change, R!worldVars, R!Idle
  <2>2. changes' <= MaxChanges
    BY <2>1, TypesNow, BoundsAssumption
  <2>. QED  BY <2>1, <2>2, TakenTyped, TypesNow, SameProcess
<1>2. CASE R!Restart
  BY <1>2, RestartTypes
<1>3. CASE R!NetworkChanges
  <2>1. /\ UNCHANGED <<conf, agent, services, process, generated, cached, current, attempt>>
        /\ DOMAIN network' = {"variable", "route", "interfaces"}
        /\ changes < MaxChanges /\ changes' = changes + 1
    BY <1>3 DEF R!NetworkChanges, R!Change, R!clientVars
  <2>2. changes' <= MaxChanges
    BY <2>1, TypesNow, BoundsAssumption
  <2>. QED  BY <2>1, <2>2, TypesNow, SameProcess
<1>4. CASE R!AgentChanges
  <2>1. /\ UNCHANGED <<conf, network, process, generated, cached, current, attempt>>
        /\ agent' \in [version: HostVersions, readable: BOOLEAN, up: BOOLEAN]
        /\ DOMAIN services' \subseteq DOMAIN services
        /\ changes < MaxChanges /\ changes' = changes + 1
    BY <1>4 DEF R!AgentChanges, R!Change, R!clientVars
  <2>2. changes' <= MaxChanges
    BY <2>1, TypesNow, BoundsAssumption
  <2>. QED  BY <2>1, <2>2, TypesNow, SameProcess
<1>. QED  BY <1>1, <1>2, <1>3, <1>4 DEF R!WorldStep

LEMMA SameRegistration ==
  ASSUME RegistrationTypes, UNCHANGED registrationVars
  PROVE  RegistrationTypes'
  BY SameProcess, TypesNow DEF registrationVars, clientVars

-----------------------------------------------------------------------------

\* The loader reads at most the folders of its contexts, and always into the same
\* fields.
TreeTypes ==
  /\ DOMAIN dst = DOMAIN Schema /\ DOMAIN before = DOMAIN Schema
  /\ outcome \in {"idle", "reading", "ok", "invalid", "unreadable"}
  /\ loads \in 0..MaxLoads
  /\ writes \in 0..MaxWrites
  /\ stage = "loading" => Len(seen) <= Len(contexts)

LEMMA TreeInit == Init => TreeTypes
<1>. SUFFICES ASSUME Init PROVE TreeTypes
  OBVIOUS
<1>1. /\ DOMAIN dst = DOMAIN Schema /\ before = dst /\ outcome = "idle"
      /\ loads = 0 /\ writes = 0 /\ stage = "new"
  BY DEF Init, T!Fresh
<1>. QED  BY <1>1, BoundsAssumption DEF TreeTypes

LEMMA LoadTypes ==
  ASSUME TreeTypes, LoadingInv, UNCHANGED stage, T!Next
  PROVE  TreeTypes'
<1>1. CASE T!LoadBegins
  <2>1. /\ UNCHANGED <<contexts, dst, writes>> /\ before' = dst /\ seen' = <<>>
        /\ outcome' = "reading" /\ loads < MaxLoads /\ loads' = loads + 1
    BY <1>1 DEF T!LoadBegins
  <2>2. loads' \in 0..MaxLoads
    BY <2>1, BoundsAssumption DEF TreeTypes
  <2>3. Len(seen') <= Len(contexts')
    BY <2>1 DEF LoadingInv
  <2>. QED  BY <2>1, <2>2, <2>3 DEF TreeTypes
<1>2. CASE T!ReadFolder
  <2>1. PICK pairs : seen' = Append(seen, pairs)
    BY <1>2 DEF T!ReadFolder
  <2>2. /\ UNCHANGED <<contexts, dst, before, loads, writes>>
        /\ Len(seen) < Len(contexts) /\ outcome' \in {"invalid", outcome}
    BY <1>2 DEF T!ReadFolder
  <2>3. Len(seen') = Len(seen) + 1 /\ Len(seen) \in Nat /\ Len(contexts) \in Nat
    BY <2>1 DEF LoadingInv
  <2>. QED  BY <2>2, <2>3 DEF TreeTypes
<1>3. CASE T!ReadFails
  BY <1>3 DEF T!ReadFails, TreeTypes
<1>4. CASE T!BindTree
  <2>1. /\ UNCHANGED <<contexts, seen, before, loads, writes>>
        /\ DOMAIN dst' = DOMAIN Schema /\ outcome' \in {"invalid", "ok"}
    BY <1>4 DEF T!BindTree, T!Assign
  <2>. QED  BY <2>1 DEF TreeTypes
<1>5. ASSUME NEW c \in Range(contexts), T!Write(c) PROVE TreeTypes'
  <2>1. /\ UNCHANGED <<contexts, seen, dst, before, outcome, loads>>
        /\ writes < MaxWrites /\ writes' = writes + 1
    BY <1>5 DEF T!Write
  <2>2. writes' \in 0..MaxWrites
    BY <2>1, BoundsAssumption DEF TreeTypes
  <2>. QED  BY <2>1, <2>2 DEF TreeTypes
<1>. QED  BY <1>1, <1>2, <1>3, <1>4, <1>5 DEF T!Next, Range, T!Range

-----------------------------------------------------------------------------

TypesInv ==
  /\ stage \in {"new", "registering", "loading"}
  /\ stage = "new" => SettingsTypes
  /\ stage = "registering" => RegistrationTypes
  /\ TreeTypes

\* The types, with what was proved before.
AllInv == SetupInv /\ SettledInv /\ LayeredInv /\ LoaderInv /\ TypesInv

LEMMA AllInit == Init => AllInv
<1>1. Init => LoaderInv
  BY DEF Init, T!Fresh, LoaderInv
<1>2. Init => stage = "new"
  BY DEF Init
<1>. QED  BY <1>1, <1>2, SetupInit, SettledInit, LayeredInit, SettingsInit, TreeInit
          DEF AllInv, TypesInv

LEMMA TypesStep == AllInv /\ [Next]_vars => TypesInv'
<1>. SUFFICES ASSUME AllInv, [Next]_vars PROVE TypesInv'
  OBVIOUS
<1>1. ASSUME UNCHANGED treeVars, UNCHANGED stage \/ stage' # "loading" PROVE TreeTypes'
  BY <1>1 DEF treeVars, AllInv, TypesInv, TreeTypes
<1>2. CASE Settle
  <2>1. /\ stage = "new" /\ S!Next /\ UNCHANGED <<stage, treeVars>>
    BY <1>2 DEF Settle
  <2>2. SettingsTypes'
    BY <2>1, SettingsStep DEF AllInv, LayeredInv, TypesInv
  <2>3. TreeTypes'
    BY <1>1, <2>1
  <2>. QED  BY <2>1, <2>2, <2>3 DEF TypesInv
<1>3. CASE Registers
  <2>1. /\ stage = "new" /\ phase = "ready" /\ stage' = "registering"
        /\ conf' = Registrant(cfg)
        /\ network' \in [variable: {""}, route: {"127.0.0.1"}, interfaces: Interfaces]
        /\ agent' \in [version: HostVersions, readable: BOOLEAN, up: {TRUE}]
        /\ UNCHANGED <<services, clientVars, changes, treeVars>>
    BY <1>3 DEF Registers, SettingsDone
  <2>2. R!Fresh'
    BY <2>1 DEF AllInv, SetupInv, R!Fresh, clientVars
  <2>3. conf' \in R!ConfigType
    BY <2>1, RegistrantTyped DEF AllInv, LayeredInv, TypesInv
  <2>4. DOMAIN network' = {"variable", "route", "interfaces"}
    <3>. DEFINE nothing == ""
    <3>1. network' \in [variable: {nothing}, route: {"127.0.0.1"}, interfaces: Interfaces]
      BY <2>1
    <3>. HIDE DEF nothing
    <3>. QED  BY <3>1
  <2>5. agent' \in [version: HostVersions, readable: BOOLEAN, up: BOOLEAN]
    <3>1. agent' \in [version: HostVersions, readable: BOOLEAN, up: {TRUE}]
      BY <2>1, Zenon
    <3>. QED  BY <3>1
  <2>6. R!ConfigType' = R!ConfigType
    BY Zenon DEF R!ConfigType
  <2>7. RegistrationTypes'
    <3>1. Beginner'
      BY <2>2, <2>3, <2>4, <2>5, <2>6, Zenon DEF Beginner
    <3>. QED  BY <3>1, FirstTypes, PTL
  <2>8. stage' = "registering" /\ UNCHANGED treeVars
    BY <2>1, Zenon
  <2>9. TreeTypes'
    BY <1>1, <2>8
  <2>. QED  BY <2>7, <2>8, <2>9 DEF TypesInv
<1>4. CASE Loads
  <2>1. /\ stage = "new" /\ stage' = "loading"
        /\ UNCHANGED <<seen, dst, before, outcome, loads, writes>>
    BY <1>4 DEF Loads, SettingsDone
  <2>2. contexts' \in Seq(Range(contexts'))
    BY <1>4, ContextsSeq DEF Loads
  <2>3. seen = <<>> /\ Len(contexts') \in Nat
    BY <2>1, <2>2 DEF AllInv, LoaderInv
  <2>4. TreeTypes'
    BY <2>1, <2>3 DEF AllInv, TypesInv, TreeTypes
  <2>. QED  BY <2>1, <2>4 DEF TypesInv
<1>5. CASE Register(R!RegistrarStep) \/ Register(R!Stop) \/ Register(R!WorldStep)
  <2>1. /\ stage = "registering" /\ UNCHANGED <<stage, treeVars>>
        /\ R!RegistrarStep \/ R!Stop \/ R!WorldStep
    BY <1>5 DEF Register
  <2>2. RegistrationTypes'
    BY <2>1, RegistrarTypes, StopTypes, WorldTypes DEF AllInv, TypesInv
  <2>3. TreeTypes'
    BY <1>1, <2>1
  <2>. QED  BY <2>1, <2>2, <2>3 DEF TypesInv
<1>6. CASE Load
  <2>1. stage = "loading" /\ T!Next /\ UNCHANGED stage
    BY <1>6 DEF Load
  <2>2. TreeTypes'
    BY <2>1, LoadTypes DEF AllInv, LoaderInv, TypesInv
  <2>. QED  BY <2>1, <2>2 DEF TypesInv
<1>7. CASE UNCHANGED vars
  <2>1. UNCHANGED <<stage, settingsVars, registrationVars, treeVars>>
    BY <1>7 DEF vars
  <2>2. TreeTypes'
    BY <1>1, <2>1
  <2>. QED  BY <2>1, <2>2, SettingsStep, SameRegistration DEF AllInv, LayeredInv, TypesInv
<1>. QED  BY <1>2, <1>3, <1>4, <1>5, <1>6, <1>7 DEF Next

LEMMA AllStep == AllInv /\ [Next]_vars => AllInv'
  BY SetupStep, SettledStep, LayeredStep, LoaderStep, TypesStep DEF AllInv

\* The parts are typed at each stage.
LEMMA SettingsTyped == AllInv /\ stage = "new" => S!TypeOK
<1>. SUFFICES ASSUME AllInv, stage = "new" PROVE S!TypeOK
  OBVIOUS
<1>1. SettingsTypes /\ PrecedenceInv /\ MemoryInv
  BY DEF AllInv, TypesInv, LayeredInv, SettledInv
<1>2. args \in S!BoundedSeq(Arguments, MaxArguments)
  <2>1. /\ args \in [1..Len(args) -> Arguments] /\ Len(args) \in 0..MaxArguments
    BY <1>1, BoundsAssumption DEF SettingsTypes, PrecedenceInv
  <2>. QED  BY <2>1, Zenon DEF S!BoundedSeq, S!SeqOf
<1>3. cfg.tags \in S!Places \union {""} /\ cfg.meta \in S!Places \union {""}
  BY <1>1, Zenon DEF MemoryInv, S!Places, S!References
<1>. QED  BY <1>1, <1>2, <1>3 DEF SettingsTypes, PrecedenceInv, S!TypeOK

LEMMA RegistrationTyped == AllInv /\ stage = "registering" => R!TypeOK
<1>. SUFFICES ASSUME RegistrationTypes PROVE R!TypeOK
  BY DEF AllInv, TypesInv
<1>1. /\ process.incarnation \in Nat \ {0} /\ process.uuids \in Nat
      /\ process.incarnation <= changes + 1 /\ changes \in 0..MaxChanges
      /\ process.uuids <= process.incarnation
  BY DEF RegistrationTypes, DrawnOK
<1>2. /\ process.incarnation \in 1..(MaxChanges + 1)
      /\ process.uuids \in 0..(MaxChanges + 1)
  BY <1>1, BoundsAssumption
<1>3. process \in [incarnation: 1..(MaxChanges + 1), uuids: 0..(MaxChanges + 1), running: BOOLEAN]
  BY <1>2 DEF RegistrationTypes
<1>. QED  BY <1>3 DEF RegistrationTypes, R!TypeOK

LEMMA TreeTyped == AllInv /\ stage = "loading" => T!TypeOK
<1>. SUFFICES ASSUME LoadingInv, TreeTypes, stage = "loading" PROVE T!TypeOK
  BY DEF AllInv, TypesInv, LoaderInv
<1>1. T!Range(seen) \subseteq Contents
  BY DEF LoadingInv, T!Range
<1>2. T!Range(contexts) = Range(contexts)
  BY DEF T!Range, Range
<1>. QED  BY <1>1, <1>2 DEF LoadingInv, TreeTypes, T!TypeOK

\* At each stage the part at work has its types. The configuration that New has
\* accepted is one that registration can go by, no more UUIDs are drawn than
\* processes were started, and the loader reads no more folders than it has
\* contexts.
THEOREM TypeCorrect == Spec => []TypeOK
<1>1. AllInv => TypeOK
  BY SettingsTyped, RegistrationTyped, TreeTyped DEF AllInv, TypesInv, TypeOK
<1>. QED  BY <1>1, AllInit, AllStep, PTL DEF Spec

=============================================================================
