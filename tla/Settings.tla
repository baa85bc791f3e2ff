------------------------------ MODULE Settings ------------------------------
(***************************************************************************)
(* How New builds the configuration of a Client: the environment first,    *)
(* then every argument in order, then the defaults and the validation.     *)
(* Maps and slices are references into a memory that the application and   *)
(* the Client could share.                                                 *)
(*                                                                         *)
(* Config has the fields that Registration and ConfigTree go on with, and  *)
(* for the others one of their kind: interval and timeout for the          *)
(* durations, failFast for the flags, autoRegister for the pointers, tags  *)
(* for the slices and meta for the maps.                                   *)
(***************************************************************************)
EXTENDS Integers, FiniteSets, FiniteSetsExt, Functions, Sequences, SequencesExt, TLC

CONSTANTS
  Environments,  \* what the environment variables may say
  Arguments,     \* the options New may be called with
  MaxArguments,  \* bound on their number
  AppData        \* the application's own slices and maps: reference -> content

VARIABLES
  env,   \* the environment variables that are set, by their field, and the
         \* malformed ones
  args,  \* the arguments applied so far
  cfg,   \* settings.cfg
  mem,   \* contents of the slices and maps
  bad,   \* arguments and fields that were refused
  phase  \* applying, ready or failed

vars == <<env, args, cfg, mem, bad, phase>>

NoPaths == [health |-> "", ready |-> ""]

\* The zero Config: nothing is set. "" is also the nil pointer, slice or map.
Zero ==
  [name |-> "", id |-> "", strategy |-> "", environment |-> "", kvName |-> "",
   address |-> "", addressEnv |-> FALSE, allowLoopback |-> FALSE, preferIPv6 |-> FALSE,
   port |-> 0, ports |-> FALSE,
   enabled |-> FALSE, endpoints |-> NoPaths, check |-> "", checkPath |-> "",
   interval |-> 0, timeout |-> 0, failFast |-> FALSE, autoRegister |-> "",
   tags |-> "", meta |-> ""]

Fields     == DOMAIN Zero
References == {"tags", "meta"}
Plain      == Fields \ References

Flags  == {"addressEnv", "allowLoopback", "preferIPv6", "ports", "enabled", "failFast"}
Counts == {"port", "interval", "timeout"}

Texts  == Plain \ (Flags \union Counts \union {"endpoints"})

\* The texts that New sets of its own accord.
OwnTexts == {"", "hostname-port", "/health", "/health/ready", "http", "ttl", "true"}

HasType(f, value) ==
  /\ f \in Flags      => value \in BOOLEAN
  /\ f \in Counts     => value \in Int
  /\ f = "endpoints" => value \in [health: STRING, ready: STRING]
  /\ f \in Texts      => value \in STRING

\* What says something of a plain field says it in its type.
Typed(sets) == \A f \in DOMAIN sets \ References : HasType(f, sets[f])

\* Where a slice or map lives: in the application's data or in a copy that
\* only the Client knows, named after its field.
Places == References \union DOMAIN AppData

-----------------------------------------------------------------------------
(***************************************************************************)
(* The environment.  A boolean that is false looks like one that is unset. *)
(***************************************************************************)

\* configFromLookup: the variables that are set, in the fields they belong to.
FromLookup(e) ==
  [f \in Fields |-> IF f \notin DOMAIN e.sets THEN Zero[f]
                    ELSE IF f \in References THEN f ELSE e.sets[f]]

-----------------------------------------------------------------------------
(***************************************************************************)
(* Layers.  A layer only sets the fields that are not zero.                *)
(***************************************************************************)

\* A Config with some of its fields set.
Setting(c, sets) == [f \in DOMAIN c |-> IF f \in DOMAIN sets THEN sets[f] ELSE c[f]]

\* Config.overlay of the fields that are plain values.
Overlay(c, layer) == Setting(c, Restrict(layer, {f \in Plain : layer[f] # Zero[f]}))

\* Variant of Cloned that keeps the reference it was given.
Shared(c, m, ref) ==
  IF ref = "" THEN <<c, m>> ELSE <<Setting(c, [tags |-> ref]), m>>

\* setSlice: the slice is replaced by a copy.
Cloned(c, m, ref) ==
  IF ref = "" THEN <<c, m>>
  ELSE <<Setting(c, [tags |-> "tags"]), [m EXCEPT !["tags"] = m[ref]]>>

\* maps.Copy: the new entries over the old ones.
Copied(new, old) == new @@ old

\* mergeMap: a new map with the old entries and the new ones over them.
Merged(c, m, ref) ==
  IF ref = "" THEN <<c, m>>
  ELSE <<Setting(c, [meta |-> "meta"]),
         [m EXCEPT !["meta"] = Copied(m[ref], IF c.meta = "" THEN <<>> ELSE m[c.meta])]>>

\* A whole layer, references included: the new Config and memory.
Layered(c, m, layer) ==
  LET sliced == Cloned(Overlay(c, layer), m, layer.tags)
  IN  Merged(sliced[1], sliced[2], layer.meta)

-----------------------------------------------------------------------------
(***************************************************************************)
(* Arguments: a Config or a With function that overlays one (a layer), a   *)
(* file read by LoadConfig, and the With functions that assign fields.     *)
(***************************************************************************)

\* With functions assign the field whatever its value; WithTags clones.
Assigned(c, m, sets) ==
  IF "tags" \in DOMAIN sets THEN Cloned(c, m, sets.tags) ELSE <<Setting(c, sets), m>>

\* WithMetadata copies into the map in place, or into a new one.
WithMetadata(c, m, ref) ==
  IF c.meta = "" THEN Merged(c, m, ref)
  ELSE <<c, [m EXCEPT ![c.meta] = Copied(m[ref], @)]>>

\* LoadConfig: the environment over the file.
FromFile(file) == Overlay(file, FromLookup(env))

Kinds == {"layer", "file", "assign", "metadata", "invalid"}

\* A With function assigns plain fields, or the tags, and the application cannot
\* name the memory of the Client.
ArgumentsOK ==
  /\ \A a \in Arguments :
       /\ a.kind \in Kinds
       /\ a.kind \in {"layer", "file"} => DOMAIN a.cfg = Fields
       /\ a.kind = "assign" => DOMAIN a.sets \subseteq Plain \/ DOMAIN a.sets = {"tags"}
  /\ References \intersect DOMAIN AppData = {}

\* So does every source.
SourcesTyped ==
  /\ \A e \in Environments : DOMAIN e.sets \subseteq Fields /\ Typed(e.sets) /\ e.malformed \subseteq Fields
  /\ \A a \in Arguments :
       /\ a.kind \in {"layer", "file"} => Typed(a.cfg)
       /\ a.kind = "assign" => Typed(a.sets)

Applied(a) ==
  CASE a.kind = "layer"    -> Layered(cfg, mem, a.cfg)
    [] a.kind = "file"     -> Layered(cfg, mem, FromFile(a.cfg))
    [] a.kind = "assign"   -> Assigned(cfg, mem, a.sets)
    [] a.kind = "metadata" -> WithMetadata(cfg, mem, a.ref)
    [] a.kind = "invalid"  -> <<cfg, mem>>

-----------------------------------------------------------------------------
(***************************************************************************)
(* Defaults and validation.                                                *)
(***************************************************************************)

Or(x, default, zero) == IF x = zero THEN default ELSE x

\* The readiness endpoint is probed, or the health endpoint without one.
CheckPath(c, paths) ==
  IF c.checkPath = "" /\ c.enabled THEN Or(paths.ready, paths.health, "")
  ELSE c.checkPath

Check(c, path) ==
  IF c.check \notin {"", "auto"} THEN c.check
  ELSE IF path # "" THEN "http" ELSE "ttl"

\* Config.applyDefaults, with a check timeout of 5 and an interval of 10.
Defaulted(c) ==
  LET paths == IF c.enabled /\ c.endpoints = NoPaths
               THEN [health |-> "/health", ready |-> "/health/ready"]
               ELSE c.endpoints
      path == CheckPath(c, paths)
      interval == Or(c.interval, 10, 0)
  IN  [c EXCEPT !.strategy = Or(@, "hostname-port", ""),
                !.endpoints = paths, !.checkPath = path, !.check = Check(c, path),
                !.interval = interval, !.timeout = Or(@, Min({5, interval}), 0),
                !.autoRegister = Or(@, "true", "")]

\* Variant of Problems that takes any ID strategy.
ProblemsButStrategy(c) ==
  {f \in {"name"} : (c.autoRegister = "true" /\ c.name = "") \/ c.name = "a/b"}

\* Config.validate: the fields it reports.
Problems(c) ==
  {f \in {"name"} : (c.autoRegister = "true" /\ c.name = "") \/ c.name = "a/b"}
  \union {f \in {"strategy"} : c.strategy \notin {"hostname-port", "random"}}
  \union {f \in {"port"} : c.port < 0}
  \union {f \in {"check"} : c.check \notin {"http", "tcp", "ttl", "grpc", "none"}}
  \union {f \in {"checkPath"} : c.check = "http" /\ c.checkPath = ""}
  \union {f \in {"endpoints"} : c.endpoints.health # "" /\ c.endpoints.health = c.endpoints.ready}
  \union {f \in {"interval"} : c.interval <= 0}
  \union {f \in {"timeout"} : c.timeout <= 0 \/ c.timeout > c.interval}

-----------------------------------------------------------------------------

Init ==
  /\ env \in Environments
  /\ args = <<>>
  /\ cfg = FromLookup(env)
  /\ mem = [p \in Places |-> IF p \in DOMAIN AppData THEN AppData[p]
                             ELSE IF p \in DOMAIN env.sets THEN env.sets[p] ELSE <<>>]
  /\ bad = env.malformed
  /\ phase = IF env.malformed = {} THEN "applying" ELSE "failed"

\* Variant of Apply that overlays the earlier arguments on the new one.
ApplyFirstWins(a) ==
  /\ phase = "applying"
  /\ Len(args) < MaxArguments
  /\ args' = Append(args, a)
  /\ cfg' = IF a.kind = "layer" THEN Overlay(Layered(cfg, mem, a.cfg)[1], cfg)
            ELSE Applied(a)[1]
  /\ mem' = Applied(a)[2]
  /\ bad' = IF a.kind = "invalid" THEN bad \union {"argument"} ELSE bad
  /\ UNCHANGED <<env, phase>>

\* One round of newSettings' loop: later arguments run even after a bad one.
Apply(a) ==
  /\ phase = "applying"
  /\ Len(args) < MaxArguments
  /\ args' = Append(args, a)
  /\ cfg' = Applied(a)[1]
  /\ mem' = Applied(a)[2]
  /\ bad' = IF a.kind = "invalid" THEN bad \union {"argument"} ELSE bad
  /\ UNCHANGED <<env, phase>>

\* The arguments are exhausted: defaults, then validation.
Finish ==
  /\ phase = "applying"
  /\ LET c == IF bad = {} THEN Defaulted(cfg) ELSE cfg
     IN  /\ cfg' = c
         /\ bad' = IF bad = {} THEN Problems(c) ELSE bad
         /\ phase' = IF bad' = {} THEN "ready" ELSE "failed"
  /\ UNCHANGED <<env, args, mem>>

\* The application goes on using the slices and maps it passed.
AppWrites(p) ==
  /\ phase = "ready"
  /\ mem[p] = AppData[p]
  /\ mem' = [mem EXCEPT ![p] = <<>>]
  /\ UNCHANGED <<env, args, cfg, bad, phase>>

Next ==
  \/ \E a \in Arguments : Apply(a)
  \/ Finish
  \/ \E p \in DOMAIN AppData : AppWrites(p)

Spec == Init /\ [][Next]_vars

-----------------------------------------------------------------------------
(***************************************************************************)
(* Properties.                                                             *)
(***************************************************************************)

\* Type correctness of every variable, within the named bounds.
TypeOK ==
  /\ env \in Environments
  /\ args \in BoundedSeq(Arguments, MaxArguments)
  /\ DOMAIN cfg = Fields /\ Typed(cfg)
  /\ cfg.tags \in Places \union {""} /\ cfg.meta \in Places \union {""}
  /\ DOMAIN mem = Places
  /\ bad \subseteq Fields \union {"argument"}
  /\ phase \in {"applying", "ready", "failed"}

\* What a source says of a plain field, if anything: a layer speaks of the
\* fields that are not zero, an assignment of its own fields only.
Says(a, f) ==
  CASE a.kind = "layer"  -> a.cfg[f] # Zero[f]
    [] a.kind = "file"   -> a.cfg[f] # Zero[f] \/ FromLookup(env)[f] # Zero[f]
    [] a.kind = "assign" -> f \in DOMAIN a.sets
    [] OTHER             -> FALSE

Said(a, f) ==
  CASE a.kind = "layer"  -> a.cfg[f]
    [] a.kind = "file"   -> Or(FromLookup(env)[f], a.cfg[f], Zero[f])
    [] a.kind = "assign" -> a.sets[f]

Speakers(f) == {i \in DOMAIN args : Says(args[i], f)}

Asked(f) ==
  IF Speakers(f) = {} THEN FromLookup(env)[f] ELSE Said(args[Max(Speakers(f))], f)

\* The argument that set a field last decides it, in any mix of Config values,
\* files and With functions; the environment decides what no argument sets. No
\* default then overrides what was asked for (only the automatic check gives
\* way to the check it stands for).
LastSetterWins ==
  /\ phase = "applying" => \A f \in Plain : cfg[f] = Asked(f)
  /\ phase = "ready" =>
       \A f \in Plain : Asked(f) # Zero[f] /\ ~(f = "check" /\ Asked(f) = "auto")
                          => cfg[f] = Asked(f)

\* What the Client reads through its references.
Effective == [f \in References |-> IF cfg[f] = "" THEN <<>> ELSE mem[cfg[f]]]

\* The Client and the application share no slice and no map: building the
\* Config writes to nothing of the application's, and what the application
\* writes after New does not reach the Client.
Separate ==
  /\ phase # "ready" => \A p \in DOMAIN AppData : mem'[p] = mem[p]
  /\ phase = "ready" => Effective' = Effective

SharesNothing == [][Separate]_vars

=============================================================================
