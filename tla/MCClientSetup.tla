--------------------------- MODULE MCClientSetup ---------------------------
(***************************************************************************)
(* Model checking of ClientSetup: the arguments that tell the layers       *)
(* apart, with the application's own data in some of them; a network and   *)
(* an agent that start out wrong in every way that can be mended; and      *)
(* folders that override, misspell, contradict and truncate each other.    *)
(***************************************************************************)
EXTENDS ClientSetup, TLC

\* Settings without any arguments, for its Zero: the arguments are made from it.
Plain == INSTANCE Settings WITH Environments <- {}, Arguments <- {}, MaxArguments <- 0, AppData <- <<>>

ConfigWith(sets) == sets @@ Plain!Zero
Layer(sets)  == [kind |-> "layer", cfg |-> ConfigWith(sets)]
Assign(sets) == [kind |-> "assign", sets |-> sets]

TestEnvironments ==
  {[sets |-> [failFast |-> TRUE], malformed |-> {}],
   [sets |-> [name |-> "web", environment |-> "dev", interval |-> 3, tags |-> <<"env">>,
              meta |-> [a |-> "env"]], malformed |-> {}],
   [sets |-> [name |-> "web"], malformed |-> {"interval"}]}

TestArguments ==
  {Layer([name |-> "web", kvName |-> "application", ports |-> TRUE]),
   Layer([enabled |-> TRUE, check |-> "auto", timeout |-> 5, tags |-> "appTags", meta |-> "appMeta"]),
   Layer([preferIPv6 |-> TRUE, id |-> "mine"]),
   Assign([strategy |-> "random"]),
   Layer([addressEnv |-> TRUE, allowLoopback |-> TRUE, strategy |-> "sequential"]),
   Assign([failFast |-> FALSE]),
   Assign([name |-> ""]),
   Assign([enabled |-> TRUE, endpoints |-> [health |-> "/h", ready |-> ""]]),
   Assign([tags |-> "appTags"]),
   [kind |-> "metadata", ref |-> "appMeta"],
   [kind |-> "file", cfg |-> ConfigWith([name |-> "filed", failFast |-> TRUE, interval |-> 6])],
   [kind |-> "invalid"]}

TestAppData == [appTags |-> <<"x">>, appMeta |-> [a |-> "app", b |-> "app"]]

Interface(addr, virtual) == [up |-> TRUE, virtual |-> virtual, addr |-> addr]
TestInterfaces ==
  {<<>>, <<Interface("10.0.0.2", TRUE), Interface("10.0.0.1", FALSE), Interface("fd00::1", FALSE)>>}

TestVersions == {<<1, 21, 9>>, <<2, 0, 0>>}

Name(n)  == <<n, 1>>
Other(n) == <<n, 0>>  \* another spelling
Field(kind, default, required, pointer) ==
  [kind |-> kind, default |-> default, required |-> required, pointer |-> pointer]

TestSchema ==
  <<Name("db"), Name("host")>> :> Field("string", "none", TRUE, FALSE)
    @@ <<Name("db"), Name("port")>> :> Field("int", "1", FALSE, FALSE)
    @@ <<Name("tls"), Name("cert")>> :> Field("string", "none", TRUE, TRUE)
    @@ <<Name("tls"), Name("name")>> :> Field("string", "none", FALSE, TRUE)
    @@ <<Name("mode")>> :> Field("string", "none", FALSE, FALSE)

TestContents ==
  {<<>>,
   <<Name("db"), Name("host")>> :> "a" @@ <<Name("db"), Name("port")>> :> "2"
     @@ <<Name("mode")>> :> "fast",
   <<Name("db"), Other("host")>> :> "b" @@ <<Other("mode")>> :> "slow"
     @@ <<Name("tls"), Name("cert")>> :> "c",
   <<Name("db"), Name("host")>> :> "c" @@ <<Name("tls"), Name("name")>> :> "n",
   <<Name("db"), Name("port")>> :> "bad" @@ <<Name("tls")>> :> "leaf",
   <<Name("db"), Name("host")>> :> "d" @@ <<Name("db")>> :> "leaf"}

TestNumbers  == {"1", "2"}
TestRejected == {<<<<Name("mode")>>, "slow">>}

=============================================================================
