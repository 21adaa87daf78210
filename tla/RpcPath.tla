------------------------------ MODULE RpcPath ------------------------------
(***************************************************************************)
(* The way of a request from a client to the handler of its method, and of *)
(* a macaroon from the request that bakes it to the request that shows it. *)
(*                                                                         *)
(*   client or REST gateway -> state of the daemon -> macaroon -> handler  *)
(*                                                                         *)
(* The tables are those of src/lanirpc (which methods and routes there     *)
(* are), src/core/rpcserver.go (permissions) and                           *)
(* src/intercept/grpc_intercept.go (which methods are checked how).        *)
(* Streaming methods of PluginAPI pass the interceptor unchecked: their    *)
(* handlers check the macaroon themselves (src/plugins/service.go).        *)
(*                                                                         *)
(* The steps of a request are steps of the model: time passes and the      *)
(* daemon's startup goes on between them.  What handlers do is in the other*)
(* modules; here BakeMacaroon matters.  Arithmetic wraps around at Top,    *)
(* units of time are shorter, and the order of the conversions is kept.    *)
(***************************************************************************)
EXTENDS Integers, Sequences, SequencesExt

CONSTANTS
  Calls,        \* Calls of RPCs.
  Names,        \* Plugin names.
  Within,       \* Pairs of names of which the first is a part of the second.
  UnitSeconds,  \* Seconds in each TimeoutType: 1, 60, 3600 and 86400.
  Second,       \* time.Second in units of time.Duration: 10^9.
  Top,          \* The first integer too large for int64 and time.Duration: 2^63.
  Lifetimes,    \* Bound of the model: timeouts that are asked for, with their unit.
  MaxTime,      \* Bound of the model: seconds that pass.
  MaxBakes      \* Bound of the model: macaroons baked by BakeMacaroon.

Units == {"SECOND", "MINUTE", "HOUR", "DAY"}

ASSUME NamesAssumption == Within \subseteq Names \X Names
ASSUME NumbersAssumption ==
  /\ UnitSeconds \in [Units -> Nat \ {0}]
  /\ Second \in Nat \ {0} /\ Top \in Nat \ {0}
  /\ Lifetimes \subseteq Int \X Units /\ MaxTime \in Nat /\ MaxBakes \in Nat

NoName == "no name"
NoMacaroon == 0
AdminMacaroon == 1

-----------------------------------------------------------------------------
(***************************************************************************)
(* Tables.                                                                 *)
(***************************************************************************)
Deprecated == {"SetTemperature", "SetPressure", "StartRecording", "StopRecording",
               "SubscribeDataStream", "LoadTestPlan", "StartTestPlan", "StopTestPlan",
               "InsertROIMarker"}

(* The services' methods, with their handlers.                             *)
Lani == {"StopDaemon", "AdminTest", "TestCommand", "BakeMacaroon"} \cup Deprecated
Unlocker == {"Login", "SetPassword", "ChangePassword"}
Health == {"Check"}
Streaming == {"Subscribe", "Command", "SubscribePluginState"}
PluginAPI == Streaming \cup
  {"StartRecord", "StopRecord", "StartPlugin", "StopPlugin", "ListPlugins", "AddPlugin",
   "GetPlugin"}
Methods == Lani \cup Unlocker \cup Health \cup PluginAPI

(* Routes of the gateway: verb, path and method; "*" stands for any name.  *)
LaniRoutes == <<
  <<"POST", <<"v1", "stop">>, "StopDaemon">>,
  <<"GET", <<"v1", "admin", "test">>, "AdminTest">>,
  <<"GET", <<"v1", "test">>, "TestCommand">>,
  <<"POST", <<"v1", "bake", "macaroon">>, "BakeMacaroon">> >>

DeprecatedRoutes == <<
  <<"GET", <<"v1", "set", "temperature">>, "SetTemperature">>,
  <<"GET", <<"v1", "set", "pressure">>, "SetPressure">>,
  <<"GET", <<"v1", "start", "recording">>, "StartRecording">>,
  <<"GET", <<"v1", "stop", "recording">>, "StopRecording">>,
  <<"GET", <<"v1", "subscribe", "datastream">>, "SubscribeDataStream">>,
  <<"GET", <<"v1", "load", "testplan">>, "LoadTestPlan">>,
  <<"GET", <<"v1", "start", "testplan">>, "StartTestPlan">>,
  <<"GET", <<"v1", "stop", "testplan">>, "StopTestPlan">>,
  <<"GET", <<"v1", "insert", "roi">>, "InsertROIMarker">> >>

UnlockerRoutes == <<
  <<"POST", <<"v1", "login">>, "Login">>,
  <<"POST", <<"v1", "setpassword">>, "SetPassword">>,
  <<"POST", <<"v1", "changepassword">>, "ChangePassword">> >>

PluginRoutes == <<
  <<"PUT", <<"v2", "plugin", "start", "record", "*">>, "StartRecord">>,
  <<"PUT", <<"v2", "plugin", "stop", "record", "*">>, "StopRecord">>,
  <<"GET", <<"v2", "plugin", "subscribe", "*">>, "Subscribe">>,
  <<"PUT", <<"v2", "plugin", "start", "*">>, "StartPlugin">>,
  <<"PUT", <<"v2", "plugin", "stop", "*">>, "StopPlugin">>,
  <<"POST", <<"v2", "plugin", "command">>, "Command">>,
  <<"GET", <<"v2", "plugins">>, "ListPlugins">>,
  <<"POST", <<"v2", "plugin", "add">>, "AddPlugin">>,
  <<"GET", <<"v2", "plugin", "*">>, "GetPlugin">> >>

HealthRoutes == << <<"GET", <<"v2", "health", "check", "*">>, "Check">> >>

(* In the order of their registration.                                     *)
Routes ==
  UnlockerRoutes \o LaniRoutes \o DeprecatedRoutes \o UnlockerRoutes \o PluginRoutes
    \o HealthRoutes

Matches(route, verb, path) ==
  /\ route[1] = verb
  /\ Len(route[2]) = Len(path)
  /\ \A i \in DOMAIN path : route[2][i] \in {"*", path[i]}

(* The mux takes the matching route that was registered last.              *)
RoutedTo(verb, path) ==
  Routes[SelectLastInSeq(Routes, LAMBDA r : Matches(r, verb, path))][3]

Read == {<<"laniakea", "read">>, <<"macaroon", "read">>, <<"plugins", "read">>}
Write == {<<"laniakea", "write">>, <<"macaroon", "generate">>, <<"macaroon", "write">>,
          <<"plugins", "write">>}

(* MainGrpcServerPermissions, and for streams StreamingPluginAPIPermission.*)
Permissions ==
  [m \in (PluginAPI \cup Health \cup {"StopDaemon", "AdminTest", "BakeMacaroon"}) |->
     CASE m = "StopDaemon"             -> <<"laniakea", "write">>
       [] m \in {"AdminTest", "Check"} -> <<"laniakea", "read">>
       [] m = "BakeMacaroon"           -> <<"macaroon", "generate">>
       [] m \in {"Subscribe", "SubscribePluginState", "ListPlugins", "GetPlugin"}
                                       -> <<"plugins", "read">>
       [] OTHER                        -> <<"plugins", "write">>]

Whitelist == {"TestCommand", "Check"} \cup Unlocker \cup Deprecated

(* Unary methods whose plugin's name the interceptor puts in the context.  *)
PluginMethodNames == {"StartRecord", "StopRecord", "StartPlugin", "StopPlugin", "GetPlugin"}

(* Methods that need it there.                                             *)
KnownPluginMethods ==
  {"StartRecord", "StopRecord", "StartPlugin", "StopPlugin", "GetPlugin", "Subscribe",
   "Command", "SubscribePluginState"}

-----------------------------------------------------------------------------
VARIABLES
  registered,   \* Plugins of the configuration: Service.registeredPlugins.
  stage,        \* How far core.Main is.
  now,          \* Seconds.
  macaroons,    \* The macaroons that were baked.
  call          \* The calls.

rpcVars == <<registered, stage, now, macaroons, call>>

StartupStages == <<"waitingToStart", "locked", "unlocked", "baked", "interceptor", "rpcServer",
                   "pluginManager">>

(* What a macaroon may allow: validEntities and validActions, or a method. *)
Ops == ({"laniakea", "macaroon", "plugins"} \X {"read", "write", "generate"})
         \cup ({"uri"} \X DOMAIN Permissions)

NoCall == [at |-> "idle", wanted |-> "Login", method |-> "Login", name |-> NoName,
           mac |-> NoMacaroon, limit |-> {}, active |-> FALSE, checked |-> 0]

RpcInit ==
  /\ registered \in SUBSET Names
  /\ stage = 1 /\ now = 0
  /\ macaroons = << >>
  /\ call = [c \in Calls |-> NoCall]

-----------------------------------------------------------------------------
(***************************************************************************)
(* Baking.                                                                 *)
(***************************************************************************)

(* What x becomes as an int64.                                             *)
Wrap(x) == ((x + Top) % (2 * Top)) - Top

(* Faulty variant: hours are taken for minutes.                            *)
TimeoutSecondsShort(n, unit) ==
  IF n <= 0 THEN 0
  ELSE Wrap(n * UnitSeconds[IF unit = "HOUR" THEN "MINUTE" ELSE unit])

(* BakeMacaroon: no timeout unless it is positive.                         *)
TimeoutSeconds(n, unit) == IF n <= 0 THEN 0 ELSE Wrap(n * UnitSeconds[unit])

(* TimeoutCaveat, in units of time.Duration.                               *)
TimeoutCaveat(seconds) == now * Second + Wrap(seconds * Second)

(* bakeMacaroons: a caveat for the time, and one for the plugins.          *)
Bake(ops, seconds, plugins, asked) ==
  [ops |-> ops,
   deadline |-> IF seconds = 0 THEN {} ELSE {TimeoutCaveat(seconds)},
   plugins |-> plugins, baked |-> now, asked |-> asked]

Unlimited == [n |-> 0, unit |-> "SECOND"]

(* core.Main goes on.  It bakes the macaroon files: that of the admin, and *)
(* that for tests, for 120 seconds and the configured plugins.             *)
MainStep ==
  /\ stage < Len(StartupStages)
  /\ stage' = stage + 1
  /\ macaroons' =
       IF StartupStages[stage + 1] = "baked"
         THEN <<Bake(Read \cup Write, 0, {"all"}, Unlimited),
                Bake(Read, 2 * UnitSeconds["MINUTE"], registered,
                     [n |-> 2, unit |-> "MINUTE"])>>
         ELSE macaroons
  /\ UNCHANGED <<registered, now, call>>

Reached(s) == \E i \in 1..stage : StartupStages[i] = s

Tick ==
  /\ now < MaxTime
  /\ now' = now + 1
  /\ UNCHANGED <<registered, stage, macaroons, call>>

-----------------------------------------------------------------------------
(***************************************************************************)
(* The client's side.                                                      *)
(***************************************************************************)

(* The request path of a method, which has the plugin's name in it or not. *)
PathOf(m, name) ==
  LET route == CHOOSE r \in ToSet(Routes) : r[3] = m
  IN  [i \in DOMAIN route[2] |-> IF route[2][i] = "*" THEN name ELSE route[2][i]]

VerbOf(m) == (CHOOSE r \in ToSet(Routes) : r[3] = m)[1]

OnRest == {r[3] : r \in ToSet(Routes)}

Gateway ==
  [m \in OnRest |->
     [name \in Names \cup {NoName} |-> RoutedTo(VerbOf(m), PathOf(m, name))]]

(* lanicli tightens the macaroon of its file by a minute (the timeout is   *)
(* added to what the macaroon says already); other clients send theirs as  *)
(* it is.  Bound of the model: its file is the admin's, as by default.     *)
Constraints(mac) ==
  {{}} \cup (IF mac = AdminMacaroon THEN {{TimeoutCaveat(UnitSeconds["MINUTE"])}} ELSE {})

Send(c, m, reached, name, mac, limit) ==
  /\ m \in KnownPluginMethods \/ name = NoName
  /\ call' = [call EXCEPT ![c] =
       [at |-> "sent", wanted |-> m, method |-> reached, name |-> name, mac |-> mac,
        limit |-> limit, active |-> Reached("pluginManager"), checked |-> 0]]
  /\ UNCHANGED <<registered, stage, now, macaroons>>

(* A stub of the gRPC client names the method itself.                      *)
SendGrpc(c, m, name, mac, limit) == Send(c, m, m, name, mac, limit)

(* A REST client names a path, from which the gateway takes method and name. *)
SendRest(c, m, name, mac, limit) ==
  m \in OnRest /\ Send(c, m, Gateway[m][name], name, mac, limit)

-----------------------------------------------------------------------------
(***************************************************************************)
(* The server's side.                                                      *)
(***************************************************************************)
GoesTo(c, place) ==
  call' = [call EXCEPT ![c].at = place,
             ![c].checked = IF place \in {"admitted", "stream"} THEN 0 ELSE now]

(* Unlocked and active are the same to the interceptor.                    *)
StateAllows(m) ==
  /\ Reached("locked")
  /\ m \in Unlocker <=> ~Reached("unlocked")

CheckRPCState(c) ==
  /\ call[c].at = "sent"
  /\ GoesTo(c, IF StateAllows(call[c].method) THEN "admitted" ELSE "refused")
  /\ UNCHANGED <<registered, stage, now, macaroons>>

Expired(k) ==
  \E d \in macaroons[call[k].mac].deadline \cup call[k].limit : now * Second >= d

(* The plugins of a macaroon: several are compared, one also stands for    *)
(* the names it is a part of, and "all" for every name.  A macaroon of no  *)
(* plugins has no such caveat.                                             *)
Covers(plugins, name) ==
  \/ name \in plugins
  \/ plugins = {"all"}
  \/ \E p \in Names : plugins = {p} /\ <<p, name>> \in Within

PluginAllowed(c, inContext) ==
  call[c].method \in KnownPluginMethods =>
    /\ inContext /\ call[c].name # NoName
    /\ registered # {} => Covers(macaroons[call[c].mac].plugins, call[c].name)

(* ValidateMacaroon: the operation, or the method by its uri.              *)
Valid(c, inContext) ==
  /\ call[c].mac # NoMacaroon
  /\ PluginAllowed(c, inContext)
  /\ ~Expired(c)
  /\ {Permissions[call[c].method], <<"uri", call[c].method>>}
       \cap macaroons[call[c].mac].ops # {}

(* The interceptor: streams of PluginAPI are left to their handlers.       *)
CheckMacaroon(c) ==
  LET m == call[c].method
      ok == \/ m \in Whitelist \cup Streaming
            \/ /\ Reached("interceptor")
               /\ Valid(c, m \in PluginMethodNames)
  IN  /\ call[c].at = "admitted"
      /\ GoesTo(c, IF ~ok THEN "refused"
                   ELSE CASE m \in Streaming    -> "stream"
                          [] m = "BakeMacaroon" -> "handling"
                          [] OTHER              -> "handled")
      /\ UNCHANGED <<registered, stage, now, macaroons>>

(* PluginManager.checkMacaroon, with the service it was given last.        *)
StreamChecks(c) ==
  /\ call[c].at = "stream"
  /\ GoesTo(c, IF Reached("pluginManager") /\ Valid(c, TRUE) THEN "handled" ELSE "refused")
  /\ UNCHANGED <<registered, stage, now, macaroons>>

(* An operation with an unknown entity, action or uri is an invalid        *)
(* argument; so are none.  (Faulty variant: unknown ones are baked.)       *)
OpsValidUnlessUnknown(ops) == ops # {}

OpsValid(ops) == ops # {} /\ ops \subseteq Ops

BakeMacaroon(c, ops, n, unit, plugins) ==
  /\ Len(macaroons) < 2 + MaxBakes
  /\ IF Reached("rpcServer") /\ OpsValid(ops)
       THEN /\ macaroons' = Append(macaroons,
                 Bake(ops, TimeoutSeconds(n, unit), plugins, [n |-> n, unit |-> unit]))
            /\ call' = [call EXCEPT ![c].at = "handled"]
       ELSE /\ call' = [call EXCEPT ![c].at = "refused"]
            /\ UNCHANGED macaroons
  /\ UNCHANGED <<registered, stage, now>>

(* The response: the caller may call again.                                *)
Respond(c) ==
  /\ call[c].at \in {"handled", "refused"}
  /\ call' = [call EXCEPT ![c] = NoCall]
  /\ UNCHANGED <<registered, stage, now, macaroons>>

-----------------------------------------------------------------------------
(* Bound of the model: what BakeMacaroon is asked for.                     *)
OpsAsked == {{}, {<<"plugins", "write">>}, {<<"uri", "GetPlugin">>}, {<<"plugins", "own">>}}
PluginsAsked == {{}, Names} \cup {{p} : p \in {q \in Names : \E r \in Names \ {q} : <<q, r>> \in Within}}

ClientStep(c) ==
  call[c].at = "idle" /\
  \E m \in Methods, name \in Names \cup {NoName}, mac \in 0..Len(macaroons) :
    \E limit \in Constraints(mac) :
      SendGrpc(c, m, name, mac, limit) \/ SendRest(c, m, name, mac, limit)

BakeStep(c) ==
  call[c].at = "handling" /\
  \E ops \in OpsAsked, life \in Lifetimes, plugins \in PluginsAsked :
    BakeMacaroon(c, ops, life[1], life[2], plugins)

ServerStep(c) ==
  CheckRPCState(c) \/ CheckMacaroon(c) \/ StreamChecks(c) \/ BakeStep(c)

RpcNext ==
  \/ MainStep \/ Tick
  \/ \E c \in Calls : ClientStep(c) \/ ServerStep(c) \/ Respond(c)

RpcSpec == RpcInit /\ [][RpcNext]_rpcVars

-----------------------------------------------------------------------------
(***************************************************************************)
(* Properties.                                                             *)
(***************************************************************************)
(* Type invariant.                                                         *)
RpcTypeOK ==
  /\ registered \subseteq Names /\ stage \in 1..Len(StartupStages) /\ now \in 0..MaxTime
  /\ Len(macaroons) <= 2 + MaxBakes
  /\ \A i \in DOMAIN macaroons :
       /\ macaroons[i].ops \subseteq Ops /\ macaroons[i].ops # {}
       /\ macaroons[i].plugins \subseteq Names \cup {"all"}
       /\ macaroons[i].baked \in 0..MaxTime
  /\ \A c \in Calls :
       /\ call[c].method \in Methods /\ call[c].mac \in 0..Len(macaroons)
       /\ call[c].checked \in 0..MaxTime

(* What was asked for, in whole numbers: none unless positive.             *)
Lifetime(mac) == mac.asked.n * UnitSeconds[mac.asked.unit]
Limited(mac) == mac.asked.n > 0

(* A lifetime whose nanoseconds do not fit into an int64.                  *)
Overflows(mac) == Limited(mac) /\ Lifetime(mac) * Second >= Top

(* The macaroon was baked for this method, this plugin and this time.      *)
MeantFor(c, mac) ==
  /\ {Permissions[call[c].wanted], <<"uri", call[c].wanted>>} \cap mac.ops # {}
  /\ Limited(mac) => call[c].checked < mac.baked + Lifetime(mac)
  /\ call[c].wanted \in KnownPluginMethods /\ registered # {} =>
       Covers(mac.plugins, call[c].name)

(* A handler runs only for a request that was meant for it, on either way  *)
(* in: its method is in no need of a macaroon or its macaroon was baked for*)
(* the method, the plugin and the time, in the units it was asked for in.  *)
(* Real exception: with a lifetime that overflows, anything may be.        *)
HandledAsMeant(c) ==
  call[c].at = "handled" =>
    /\ call[c].method = call[c].wanted
    /\ call[c].wanted \in Whitelist \/
         /\ call[c].mac # NoMacaroon
         /\ Overflows(macaroons[call[c].mac]) \/ MeantFor(c, macaroons[call[c].mac])

(* Conversely no request is refused, once Main has handed the macaroon     *)
(* service out, that was meant for the method: the tables of methods agree.*)
(* (A request of lanicli also has to arrive within its minute.)            *)
RefusedUnlessMeant(c) ==
  call[c].at = "refused" /\ call[c].active
    /\ call[c].wanted \in PluginAPI \cup {"StopDaemon", "AdminTest"}
    /\ (call[c].wanted \in KnownPluginMethods => call[c].name # NoName)
    /\ call[c].mac # NoMacaroon /\ call[c].limit = {} =>
    LET mac == macaroons[call[c].mac]
    IN  Overflows(mac) \/ ~MeantFor(c, mac)

GrantsHold == \A c \in Calls : HandledAsMeant(c) /\ RefusedUnlessMeant(c)
=============================================================================
