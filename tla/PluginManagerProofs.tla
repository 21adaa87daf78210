------------------------- MODULE PluginManagerProofs -------------------------
(***************************************************************************)
(* Proofs about module PluginManager, for any plugins, any number of RPC   *)
(* handlers and of calls, and any cfg.MaxTimeouts.                         *)
(***************************************************************************)
EXTENDS PluginManager, TLAPS

-----------------------------------------------------------------------------
(***************************************************************************)
(* Who is at work on which instance.                                       *)
(***************************************************************************)
Resting == {"idle", "gone"}
Adding == {"lookSource", "register", "create", "exchange"}
Working == Places \ (Adding \cup Resting)

(* Instances that are in the registry, or were.                            *)
Known == registry \cup overwritten

(* An AddPlugin is alone on an instance that nobody else can know yet; who *)
(* stops or starts one found it in the registry.                           *)
WorkInv ==
  /\ \A a \in Actors : pc[a] \in Adding => a \in Callers /\ on[a] \in given \ Known
  /\ \A a \in Actors : pc[a] \in Working => on[a] \in Known
  /\ \A a, b \in Actors : pc[a] \in Adding /\ pc[b] \in Adding /\ on[a] = on[b] => a = b

LEMMA AtWork ==
  ASSUME TypeOK, WorkInv, NEW a \in Actors, pc[a] \notin Resting
  PROVE  /\ on[a] \in Instances /\ on[a] \in given
         /\ pc[a] \in Working => on[a] \in Known
         /\ pc[a] \in Adding => a \in Callers /\ on[a] \notin Known
<1>1. pc[a] \in Adding \/ pc[a] \in Working
  BY DEF TypeOK, Working
<1>2. Known \subseteq given /\ given \subseteq Instances
  BY DEF TypeOK, Known
<1> QED BY <1>1, <1>2 DEF WorkInv, Working

LEMMA GotoType ==
  ASSUME TypeOK, NEW a \in Actors, NEW place \in Places, Goto(a, place)
  PROVE  /\ pc' \in [Actors -> Places] /\ on' \in [Actors -> Instances \cup {NoInstance}]
         /\ pc' = [pc EXCEPT ![a] = place]
         /\ \A b \in Actors : b # a => pc'[b] = pc[b] /\ on'[b] = on[b]
         /\ place # "idle" => on' = on
  BY DEF TypeOK, Goto

(* Where a stop goes on.                                                   *)
LEMMA AfterPlaces ==
  ASSUME NEW a \in Actors, NEW err, After(a, err)
  PROVE  \E place \in {"idle", "cleanKill", "unregister", "monKill", "monKilled", "bootCheck"} :
           Goto(a, place) /\ (place \in {"cleanKill", "unregister"} => a = Main)
                          /\ (place = "unregister" => ~err)
  BY DEF After

-----------------------------------------------------------------------------
(***************************************************************************)
(* Type correctness.                                                       *)
(***************************************************************************)
(* Numbers of clients stay numbers of clients.                             *)
LEMMA Numbers ==
  ASSUME TypeOK
  PROVE  /\ made + 1 \in Nat /\ made + 1 \in 1..(made + 1)
         /\ 0..made \subseteq 0..(made + 1) /\ 1..made \subseteq 1..(made + 1)
         /\ NoClient \in 0..made /\ made + 1 \notin 1..made
         /\ 1..made = (0..made) \ {NoClient}
  BY DEF TypeOK, NoClient

LEMMA NewType ==
  ASSUME TypeOK, made' = made + 1, UNCHANGED <<using, dialed>>,
         \E i \in Instances : client' = [client EXCEPT ![i] = made + 1]
  PROVE  /\ made' \in Nat /\ client' \in [Instances -> 0..made']
         /\ using' \in [Instances -> 0..made'] /\ dialed' \in [Actors -> 0..made']
<1>1. made + 1 \in 0..(made + 1) /\ 0..made \subseteq 0..(made + 1) /\ made + 1 \in Nat
  BY DEF TypeOK
<1>2. /\ client \in [Instances -> 0..made] /\ using \in [Instances -> 0..made]
      /\ dialed \in [Actors -> 0..made]
  BY DEF TypeOK
<1> QED BY <1>1, <1>2

LEMMA NewSets ==
  ASSUME TypeOK, NEW set, set \subseteq 1..made
  PROVE  /\ set \subseteq 1..(made + 1) /\ set \cup {made + 1} \subseteq 1..(made + 1)
         /\ made + 1 \notin set
  BY DEF TypeOK

LEMMA KillType ==
  ASSUME TypeOK, NEW i, Kill(i)
  PROVE  /\ client' \in [Instances -> 0..made'] /\ made' = made
         /\ fresh' \subseteq 1..made' /\ running' \subseteq (1..made') \ fresh'
         /\ forgotten' \subseteq 1..made' /\ UNCHANGED <<overwritten, late, fresh>>
<1>1. NoClient \in 0..made /\ client \in [Instances -> 0..made]
  BY DEF TypeOK, NoClient
<1>2. client' \in [Instances -> 0..made]
  BY <1>1 DEF Kill
<1>3. /\ fresh \subseteq 1..made /\ running \subseteq (1..made) \ fresh
      /\ forgotten \subseteq 1..made
  BY DEF TypeOK
<1> QED BY <1>2, <1>3 DEF Kill

LEMMA LaunchType ==
  ASSUME TypeOK, NEW k, Launch(k)
  PROVE  /\ made' = made /\ fresh' \subseteq 1..made' /\ running' \subseteq (1..made') \ fresh'
<1>1. fresh \subseteq 1..made /\ running \subseteq (1..made) \ fresh
  BY DEF TypeOK
<1> QED BY <1>1 DEF Launch

LEMMA HaltType ==
  ASSUME TypeOK, WorkInv, NEW a \in Actors, HaltStep(a)
  PROVE  TypeOK'
<1> USE DEF At, registryVars, instanceVars, processVars, mainVars, lossVars
<1>1. \A place \in {"idle", "cleanKill", "unregister", "monKill", "monKilled", "bootCheck",
                    "haltSet", "haltDial", "haltLaunch", "haltKill", "haltDone"} :
        Goto(a, place) => /\ pc' \in [Actors -> Places]
                          /\ on' \in [Actors -> Instances \cup {NoInstance}]
  BY GotoType DEF Places
<1>2. \A err : After(a, err) => /\ pc' \in [Actors -> Places]
                                /\ on' \in [Actors -> Instances \cup {NoInstance}]
  BY <1>1, AfterPlaces
<1>3. CASE HaltRefused(a)
  BY <1>2, <1>3 DEF HaltRefused, TypeOK
<1>4. CASE HaltCheck(a)
  BY <1>1, <1>4 DEF HaltCheck, TypeOK
<1>5. CASE HaltSet(a)
  BY <1>1, <1>5 DEF HaltSet, SetState, States, TypeOK
<1>6. CASE HaltDial(a)
  <2>1. on[a] \in Instances
    BY <1>6, AtWork DEF HaltDial, Resting
  <2> QED BY <1>1, <1>6, <2>1 DEF HaltDial, TypeOK
<1>7. CASE HaltDialNil(a)
  BY <1>7 DEF HaltDialNil, TypeOK, actorVars
<1>8. ASSUME NEW err \in BOOLEAN, HaltLaunch(a, err)
      PROVE  TypeOK'
  <2>1. /\ made' = made /\ fresh' \subseteq 1..made' /\ running' \subseteq (1..made') \ fresh'
    BY <1>8, LaunchType DEF HaltLaunch
  <2>2. dialed' \in [Actors -> 0..made] /\ failed' \in [Actors -> BOOLEAN]
    BY <1>8, Numbers DEF HaltLaunch, TypeOK
  <2> QED BY <1>1, <1>8, <2>1, <2>2 DEF HaltLaunch, TypeOK
<1>9. CASE HaltKill(a)
  BY <1>1, <1>9, KillType DEF HaltKill, TypeOK
<1>10. CASE HaltDone(a)
  BY <1>2, <1>10 DEF HaltDone, SetState, States, TypeOK
<1> QED BY <1>3, <1>4, <1>5, <1>6, <1>7, <1>8, <1>9, <1>10 DEF HaltStep

LEMMA BootType ==
  ASSUME TypeOK, WorkInv, NEW a \in Actors, BootStep(a)
  PROVE  TypeOK'
<1> USE DEF At, registryVars, instanceVars, processVars, mainVars, lossVars
<1>1. \A place \in {"idle", "bootClient", "bootReady"} :
        Goto(a, place) => /\ pc' \in [Actors -> Places]
                          /\ on' \in [Actors -> Instances \cup {NoInstance}]
  BY GotoType DEF Places
<1>2. CASE BootCheck(a)
  BY <1>1, <1>2 DEF BootCheck, TypeOK
<1>3. CASE BootClient(a)
  <2>1. on[a] \in Instances
    BY <1>3, AtWork DEF BootClient, Resting
  <2>2. made' = made + 1 /\ client[on[a]] \in 0..made
    BY <1>3, <2>1 DEF BootClient, MakeClient, TypeOK
  <2>3. /\ client' \in [Instances -> 0..made'] /\ using' \in [Instances -> 0..made']
        /\ dialed' \in [Actors -> 0..made'] /\ made' \in Nat
    BY <1>3, <2>1, <2>2, NewType DEF BootClient, MakeClient
  <2>4. /\ fresh' \subseteq 1..made' /\ running' \subseteq (1..made') \ fresh'
        /\ forgotten' \subseteq 1..made' /\ late' \subseteq 0..made'
    <3>1. /\ fresh' \subseteq 1..made' /\ running' \subseteq (1..made') \ fresh'
      BY <1>3, <2>2, NewSets DEF BootClient, TypeOK
    <3>2. forgotten' \subseteq 1..made
      BY <1>3, <2>2, Numbers DEF BootClient, TypeOK
    <3>3. late' \subseteq 0..made'
      BY <1>3, <2>2, Numbers DEF BootClient, TypeOK
    <3> QED BY <2>2, <3>1, <3>2, <3>3, Numbers
  <2> QED BY <1>1, <1>3, <2>3, <2>4 DEF BootClient, TypeOK
<1>4. CASE BootReady(a)
  BY <1>1, <1>4 DEF BootReady, SetState, States, TypeOK
<1> QED BY <1>2, <1>3, <1>4 DEF BootStep

LEMMA AddType ==
  ASSUME TypeOK, WorkInv, NEW a \in Callers, AddStep(a)
  PROVE  TypeOK'
<1> USE DEF At, instanceVars, processVars, mainVars, lossVars
<1>1. a \in Actors
  BY DEF Actors
<1>2. \A place \in {"idle", "register", "create", "exchange"} :
        Goto(a, place) => /\ pc' \in [Actors -> Places]
                          /\ on' \in [Actors -> Instances \cup {NoInstance}]
  BY <1>1, GotoType DEF Places
<1>3. CASE LookSource(a)
  BY <1>2, <1>3 DEF LookSource, registryVars, TypeOK
<1>4. CASE Register(a)
  <2>1. on[a] \in given
    BY <1>1, <1>4, AtWork DEF Register, Resting
  <2> QED BY <1>2, <1>4, <2>1 DEF Register, Put, Named, TypeOK
<1>5. CASE Create(a)
  <2>1. made' = made + 1
    BY <1>5 DEF Create, MakeClient
  <2>2. /\ client' \in [Instances -> 0..made'] /\ using' \in [Instances -> 0..made']
        /\ dialed' \in [Actors -> 0..made'] /\ made' \in Nat
    <3>1. on[a] \in Instances
      BY <1>1, <1>5, AtWork DEF Create, Resting
    <3> QED BY <1>5, <2>1, <3>1, NewType DEF Create, MakeClient
  <2>3. /\ fresh' \subseteq 1..made' /\ running' \subseteq (1..made') \ fresh'
        /\ forgotten' \subseteq 1..made' /\ late' \subseteq 0..made'
    BY <1>5, <2>1, NewSets, Numbers DEF Create, TypeOK
  <2> QED BY <1>2, <1>5, <2>2, <2>3 DEF Create, registryVars, TypeOK
<1>6. CASE ExchangeFails(a)
  BY <1>2, <1>6, KillType DEF ExchangeFails, registryVars, TypeOK
<1>7. CASE Publish(a)
  <2>1. on[a] \in given /\ on[a] \in Instances
    BY <1>1, <1>7, AtWork DEF Publish, Resting
  <2>2. client[on[a]] \in 0..made
    BY <2>1 DEF TypeOK
  <2>3. registry' \subseteq given /\ overwritten' \subseteq given
    BY <1>7, <2>1 DEF Publish, Put, Named, TypeOK
  <2>4. late' \subseteq 0..made
    BY <1>7, <2>2 DEF Publish, TypeOK
  <2> QED BY <1>2, <1>7, <2>3, <2>4 DEF Publish, TypeOK
<1>8. CASE PublishRaces(a)
  BY <1>8 DEF PublishRaces, registryVars, actorVars, TypeOK
<1> QED BY <1>3, <1>4, <1>5, <1>6, <1>7, <1>8 DEF AddStep

LEMMA CallType ==
  ASSUME TypeOK, NEW a \in Callers, NEW i \in Instances, Call(a, i)
  PROVE  TypeOK'
<1>1. /\ pc' \in [Actors -> Places] /\ on' \in [Actors -> Instances \cup {NoInstance}]
      /\ given' \subseteq Instances /\ given \subseteq given' /\ UNCHANGED <<sources, registry>>
  BY DEF Call, AddPlugin, StopPlugin, StartPlugin, registryVars, TypeOK, Places
<1>2. calls' \in 0..MaxCalls
  BY BoundsAssumption DEF Call, TypeOK
<1> QED BY <1>1, <1>2 DEF Call, instanceVars, processVars, mainVars, lossVars, TypeOK

LEMMA MonitorType ==
  ASSUME TypeOK, WorkInv, MonitorStep
  PROVE  TypeOK'
<1> USE DEF At, registryVars, instanceVars, processVars, mainVars, lossVars
<1>1. Monitor \in Actors
  BY DEF Actors
<1>2. \A place \in {"idle", "gone", "bootCheck", "monSet", "monKilled"} :
        Goto(Monitor, place) => /\ pc' \in [Actors -> Places]
                                /\ on' \in [Actors -> Instances \cup {NoInstance}]
  BY <1>1, GotoType DEF Places
<1>3. ASSUME NEW i \in Instances, Tick(i)
      PROVE  TypeOK'
  <2>1. giveUp' \in BOOLEAN /\ (~giveUp' => timeoutCnt[i] + 1 \in 0..MaxTimeouts)
    <3>1. timeoutCnt[i] \in 0..MaxTimeouts /\ giveUp' = (timeoutCnt[i] >= MaxTimeouts)
      BY <1>3 DEF Tick, TypeOK
    <3>2. timeoutCnt[i] >= MaxTimeouts \/ timeoutCnt[i] + 1 \in 0..MaxTimeouts
      BY <3>1, BoundsAssumption
    <3>3. giveUp' \in BOOLEAN
      BY <3>1
    <3> QED BY <3>1, <3>2, <3>3
  <2>2. timeoutCnt' \in [Instances -> 0..MaxTimeouts]
    BY <1>3, <2>1 DEF Tick, TypeOK
  <2>3. pc' \in [Actors -> Places] /\ on' \in [Actors -> Instances \cup {NoInstance}]
    BY <1>3 DEF Tick, TypeOK, Places
  <2> QED BY <1>3, <2>1, <2>2, <2>3 DEF Tick, TypeOK
<1>4. CASE MonKill
  BY <1>2, <1>4, KillType DEF MonKill, TypeOK
<1>5. CASE MonitorSet
  BY <1>2, <1>5 DEF MonitorSet, MonitorSets, SetState, States, TypeOK
<1>6. CASE MonitorQuits
  BY <1>2, <1>6 DEF MonitorQuits, TypeOK
<1>7. CASE Restart
  <2>1. on[Monitor] \in Instances
    BY <1>1, <1>7, AtWork DEF Restart, Resting
  <2>2. PICK i \in Named(registry, NameOf[on[Monitor]]) :
          /\ on' = [on EXCEPT ![Monitor] = i]
          /\ pc' = [pc EXCEPT ![Monitor] = IF Bootable(i) THEN "bootClient" ELSE "monBlame"]
    BY <1>7 DEF Restart
  <2>3. pc \in [Actors -> Places] /\ on \in [Actors -> Instances \cup {NoInstance}]
    BY DEF TypeOK
  <2>4. i \in Instances
    BY <2>2 DEF Named, TypeOK
  <2>5. on' \in [Actors -> Instances \cup {NoInstance}]
    BY <2>2, <2>3, <2>4
  <2>6. pc' \in [Actors -> Places]
    BY <2>2, <2>3 DEF Places
  <2> QED BY <1>7, <2>1, <2>5, <2>6 DEF Restart, TypeOK
<1> QED BY <1>1, <1>3, <1>4, <1>5, <1>6, <1>7, HaltType, BootType DEF MonitorStep

LEMMA MainType ==
  ASSUME TypeOK, WorkInv, MainStep
  PROVE  TypeOK'
<1> USE DEF At, instanceVars, processVars, actorVars, lossVars, MainPlaces
<1>1. Main \in Actors
  BY DEF Actors
<1>2. \A place \in {"idle", "gone", "unregister"} :
        Goto(Main, place) => /\ pc' \in [Actors -> Places]
                             /\ on' \in [Actors -> Instances \cup {NoInstance}]
  BY <1>1, GotoType DEF Places
<1>3. ASSUME NEW i \in Instances, CleanUp(i)
      PROVE  TypeOK'
  BY <1>3 DEF CleanUp, registryVars, mainVars, TypeOK, Places
<1>4. CASE CleanKill
  BY <1>2, <1>4, KillType DEF CleanKill, registryVars, mainVars, TypeOK
<1>5. CASE Unregister
  <2>1. NameOf[on[Main]] \in Names
    BY <1>1, <1>5, AtWork, InstancesAssumption DEF Unregister, Resting
  <2> QED BY <1>2, <1>5, <2>1 DEF Unregister, Named, TypeOK
<1>6. CASE CleanedUp \/ MonitorGone \/ Stopped
  BY <1>6 DEF CleanedUp, MonitorGone, Stopped, registryVars, TypeOK
<1>7. CASE ForwarderStuck
  BY <1>2, <1>7 DEF ForwarderStuck, registryVars, TypeOK
<1> QED BY <1>1, <1>3, <1>4, <1>5, <1>6, <1>7, HaltType DEF MainStep

LEMMA TypeNext ==
  ASSUME TypeOK, WorkInv, [Next]_vars
  PROVE  TypeOK'
<1> USE DEF actorVars, mainVars, lossVars
<1>1. CASE UNCHANGED vars
  BY <1>1 DEF vars, registryVars, instanceVars, processVars, TypeOK
<1>2. ASSUME NEW i \in Instances, Use(i)
      PROVE  TypeOK'
  <2> USE DEF registryVars, TypeOK
  <2>1. CASE UseReads(i)
    BY <1>2, <2>1, BoundsAssumption DEF UseReads, instanceVars, processVars
  <2>2. CASE UseDials(i)
    BY <1>2, <2>2 DEF UseDials, Launch, instanceVars
  <2>3. CASE UseEnds(i)
    BY <1>2, <2>3 DEF UseEnds, States, processVars, NoClient
  <2> QED BY <1>2, <2>1, <2>2, <2>3 DEF Use
<1>3. ASSUME NEW i \in Instances, NEW ok \in BOOLEAN, StartOne(i, ok)
      PROVE  TypeOK'
  <2>1. sources' \subseteq given' /\ given' \subseteq Instances /\ given \subseteq given'
    BY <1>3 DEF StartOne, Put, Named, TypeOK
  <2>2. CASE ok
    <3>1. made' = made + 1 /\ registry' \subseteq given' /\ UNCHANGED mainPc
      BY <1>3, <2>2 DEF StartOne, MakeClient, Put, Named, TypeOK
    <3>2. /\ client' \in [Instances -> 0..made'] /\ using' \in [Instances -> 0..made']
          /\ dialed' \in [Actors -> 0..made'] /\ made' \in Nat
      BY <1>3, <2>2, <3>1, NewType DEF StartOne, MakeClient
    <3>3. /\ fresh' \subseteq 1..made' /\ running' \subseteq (1..made') \ fresh'
          /\ forgotten' \subseteq 1..made' /\ late' \subseteq 0..made'
      <4>1. /\ fresh \subseteq 1..made /\ running \subseteq (1..made) \ fresh
            /\ forgotten \subseteq 1..made /\ late \subseteq 0..made
        BY DEF TypeOK
      <4>2. running' = running \cup {made + 1} /\ UNCHANGED <<fresh, forgotten, late>>
        BY <1>3, <2>2 DEF StartOne
      <4>3. /\ made + 1 \in 1..made' /\ made + 1 \notin 1..made
            /\ 1..made \subseteq 1..made' /\ 0..made \subseteq 0..made'
        BY <3>1, Numbers
      <4> HIDE DEF TypeOK
      <4>4. fresh' \subseteq 1..made' /\ forgotten' \subseteq 1..made' /\ late' \subseteq 0..made'
        BY <4>1, <4>2, <4>3, Zenon
      <4>5. made + 1 \notin fresh
        BY <4>1, <4>3, Zenon
      <4>6. running' \subseteq (1..made') \ fresh'
        BY <4>1, <4>2, <4>3, <4>5, Zenon
      <4> QED BY <4>4, <4>6
    <3> QED BY <1>3, <2>1, <3>1, <3>2, <3>3 DEF StartOne, TypeOK
  <2>3. CASE ~ok
    BY <1>3, <2>1, <2>3 DEF StartOne, TypeOK, MainPlaces
  <2> QED BY <2>2, <2>3
<1>4. ASSUME NEW i \in Instances, StartDuplicate(i)
      PROVE  TypeOK'
  BY <1>4 DEF StartDuplicate, registryVars, instanceVars, processVars, TypeOK, MainPlaces
<1>5. CASE Started
  BY <1>5 DEF Started, registryVars, instanceVars, processVars, TypeOK, MainPlaces
<1>6. CASE StopBegins
  BY <1>6, InstancesAssumption
  DEF StopBegins, registryVars, instanceVars, processVars, TypeOK, MainPlaces
<1>7. ASSUME NEW a \in Callers,
             AddStep(a) \/ HaltStep(a) \/ BootStep(a) \/ \E i \in Instances : Call(a, i)
      PROVE  TypeOK'
  BY <1>7, AddType, HaltType, BootType, CallType DEF Actors
<1> QED BY <1>1, <1>2, <1>3, <1>4, <1>5, <1>6, <1>7, MonitorType, MainType DEF Next

LEMMA InitType == Init => TypeOK
<1> SUFFICES ASSUME Init PROVE TypeOK
  OBVIOUS
<1>1. configured \subseteq Instances
  BY InstancesAssumption DEF Init
<1>2. 0 \in 0..MaxTimeouts /\ 0 \in 0..MaxCalls /\ NoClient \in 0..0
  BY BoundsAssumption DEF NoClient
<1> QED BY <1>1, <1>2 DEF Init, TypeOK, Places, MainPlaces, States

-----------------------------------------------------------------------------
(***************************************************************************)
(* What the steps do to the instances, the clients and those at work.      *)
(***************************************************************************)
clientVars == <<client, fresh, running, forgotten, late>>

(* Nothing to any of them.                                                 *)
Quiet ==
  UNCHANGED <<given, registry, overwritten, clientVars, made, pc, on, mainPc, listed, cleaned>>

(* An actor goes on, and may launch the process of a client.               *)
Moves(a, place) ==
  /\ pc[a] \notin Resting /\ place \in Places /\ Goto(a, place)
  /\ pc[a] \in Adding => place \in (Adding \ {"exchange"}) \cup {"idle"}
  /\ pc[a] = "exchange" => FALSE
  /\ pc[a] \in Working => place \in Working \cup {"idle"}
  /\ place = "haltDone" => FALSE
  /\ place = "unregister" => a # Main \/ pc[a] = "haltDone"
  /\ fresh' \cup running' = fresh \cup running
  /\ UNCHANGED <<given, registry, overwritten, client, forgotten, late, made, mainPc, listed,
                 cleaned>>

(* The kill of a stop, of the monitor, of cleanUp or of an AddPlugin.      *)
Kills(a, place) ==
  /\ pc[a] \in Working \cup {"exchange"} /\ Goto(a, place)
  /\ pc[a] = "exchange" => a \in Callers /\ place = "idle"
  /\ pc[a] \in Working => place \in Working \cup {"idle"}
  /\ place \in Places /\ Kill(on[a])
  /\ UNCHANGED <<given, registry, mainPc, listed, cleaned>>

(* A stop or a start of i begins.                                          *)
Begins(a, i, place) ==
  /\ pc[a] = "idle" /\ i \in registry /\ (a = Main => mainPc = "clean")
  /\ place \in Working \ {"haltDone"}
  /\ place = "unregister" => client[i] = NoClient
  /\ pc' = [pc EXCEPT ![a] = place] /\ on' = [on EXCEPT ![a] = i]
  /\ UNCHANGED <<given, registry, overwritten, clientVars, made, mainPc, listed, cleaned>>

LEMMA HaltEffect ==
  ASSUME NEW a \in Actors, HaltStep(a)
  PROVE  Quiet \/ (\E place : Moves(a, place)) \/ \E place : Kills(a, place)
<1> USE DEF At, registryVars, instanceVars, processVars, mainVars, lossVars, clientVars,
            Working, Adding, Resting, Places
<1>1. CASE HaltRefused(a)
  BY <1>1, AfterPlaces DEF HaltRefused, Moves
<1>2. CASE HaltCheck(a)
  BY <1>2 DEF HaltCheck, Moves
<1>3. CASE HaltSet(a)
  BY <1>3 DEF HaltSet, Moves
<1>4. CASE HaltDial(a)
  BY <1>4 DEF HaltDial, Moves
<1>5. CASE HaltDialNil(a)
  BY <1>5 DEF HaltDialNil, Quiet, actorVars
<1>6. CASE \E err \in BOOLEAN : HaltLaunch(a, err)
  BY <1>6 DEF HaltLaunch, Launch, Moves
<1>7. CASE HaltKill(a)
  BY <1>7 DEF HaltKill, Kills
<1>8. CASE HaltDone(a)
  BY <1>8, AfterPlaces DEF HaltDone, Moves
<1> QED BY <1>1, <1>2, <1>3, <1>4, <1>5, <1>6, <1>7, <1>8 DEF HaltStep

LEMMA OtherEffect ==
  ASSUME NEW a \in Actors,
         \/ BootCheck(a) \/ BootReady(a)
         \/ a \in Callers /\ (LookSource(a) \/ Register(a))
         \/ a = Monitor /\ MonitorSet
  PROVE  \E place : Moves(a, place)
<1> USE ActorsAssumption
    DEF At, registryVars, instanceVars, processVars, mainVars, lossVars, Working, Adding,
        Resting, Places, Moves
<1>1. CASE BootCheck(a)
  BY <1>1 DEF BootCheck
<1>2. CASE BootReady(a)
  BY <1>2 DEF BootReady
<1>3. CASE a \in Callers /\ LookSource(a)
  BY <1>3 DEF LookSource
<1>4. CASE a \in Callers /\ Register(a)
  BY <1>4 DEF Register
<1>5. CASE a = Monitor /\ MonitorSet
  BY <1>5 DEF MonitorSet, MonitorSets
<1> QED BY <1>1, <1>2, <1>3, <1>4, <1>5

LEMMA KillEffect ==
  ASSUME NEW a \in Actors,
         \/ a \in Callers /\ ExchangeFails(a)
         \/ a = Monitor /\ MonKill
         \/ a = Main /\ CleanKill
  PROVE  \E place : Kills(a, place)
<1> USE DEF At, registryVars, mainVars, Working, Adding, Resting, Places, Kills
<1>1. CASE a \in Callers /\ ExchangeFails(a)
  BY <1>1 DEF ExchangeFails
<1>2. CASE a = Monitor /\ MonKill
  BY <1>2 DEF MonKill
<1>3. CASE a = Main /\ CleanKill
  BY <1>3 DEF CleanKill
<1> QED BY <1>1, <1>2, <1>3

LEMMA BeginEffect ==
  ASSUME NEW a \in Actors, NEW i \in Instances,
         \/ a \in Callers /\ Call(a, i) /\ ~AddPlugin(a, i)
         \/ a = Monitor /\ Tick(i)
         \/ a = Main /\ CleanUp(i)
  PROVE  \E place : Begins(a, i, place)
<1> USE ActorsAssumption
    DEF At, registryVars, instanceVars, processVars, mainVars, lossVars, clientVars, Working,
        Adding, Resting, Places, Begins
<1>1. CASE a \in Callers /\ Call(a, i) /\ ~AddPlugin(a, i)
  BY <1>1 DEF Call, StopPlugin, StartPlugin
<1>2. CASE a = Monitor /\ Tick(i)
  BY <1>2 DEF Tick
<1>3. CASE a = Main /\ CleanUp(i)
  BY <1>3 DEF CleanUp
<1> QED BY <1>1, <1>2, <1>3

-----------------------------------------------------------------------------
(***************************************************************************)
(* The inductive invariant of ProcessesHeld.                               *)
(***************************************************************************)

(* A client that may have a process, now or later, is that of an instance, *)
(* or forgotten.                                                           *)
HeldInv == \A k \in fresh \cup running : k \in forgotten \/ \E i \in Instances : client[i] = k

(* An instance that nobody can know has a client only while its AddPlugin  *)
(* exchanges versions.                                                     *)
OutsideInv ==
  \A i \in Instances :
    \/ client[i] = NoClient \/ i \in Known
    \/ \E a \in Callers : pc[a] = "exchange" /\ on[a] = i

(* pluginRegistry is a map by name.                                        *)
NamesInv == \A i, j \in registry : NameOf[i] = NameOf[j] => i = j

Swept(i) == client[i] \in late \cup {NoClient}

(* What Stop is done with has no client but a late one.                    *)
CleanInv ==
  /\ pc[Main] \notin Resting => mainPc = "clean"
  /\ mainPc \in {"boot", "run"} => cleaned = {}
  /\ mainPc = "clean" =>
       \A i \in registry : NameOf[i] \in cleaned \/ NameOf[i] \notin listed => Swept(i)
  /\ pc[Main] \in Working =>
       \A i \in registry : NameOf[i] = NameOf[on[Main]] => i = on[Main] \/ Swept(i)
  /\ pc[Main] \in {"haltDone", "unregister"} => Swept(on[Main])
  /\ mainPc \in {"wait", "shutdown", "done"} => \A i \in registry : Swept(i)

(* All but the types, which TypeNext has.                                  *)
Rest == WorkInv /\ HeldInv /\ OutsideInv /\ NamesInv /\ CleanInv

(* Steps that sweep no instance back.                                      *)
LEMMA SweptKept ==
  ASSUME CleanInv, TypeOK, WorkInv, UNCHANGED <<mainPc, listed, cleaned>>,
         \A i \in registry' : i \in registry \/ Swept(i)',
         mainPc \in {"clean", "wait", "shutdown", "done"} =>
           \A i \in Instances : Swept(i) => Swept(i)',
         \/ UNCHANGED <<pc[Main], on[Main]>>
         \/ /\ pc[Main] \in Working /\ pc'[Main] \in {"idle", "gone"}
         \/ /\ pc[Main] \in Working /\ pc'[Main] \in Working /\ UNCHANGED on[Main]
            /\ pc'[Main] \in {"haltDone", "unregister"} => Swept(on[Main])'
  PROVE  CleanInv'
<1>1. Main \in Actors /\ registry \subseteq Instances
  BY DEF Actors, TypeOK
<1>2. pc[Main] \in Working => on[Main] \in Instances /\ mainPc = "clean"
  BY <1>1, AtWork DEF Working, CleanInv
<1>3. "haltDone" \in Working /\ "unregister" \in Working /\ Working \cap Resting = {}
  BY DEF Working, Places, Adding, Resting
<1>4. /\ pc'[Main] \notin Resting => pc[Main] \notin Resting
      /\ pc'[Main] \in Working => pc[Main] \in Working /\ UNCHANGED on[Main]
  BY <1>3 DEF Resting
<1>5. pc'[Main] \in {"haltDone", "unregister"} => Swept(on[Main])'
  <2>1. CASE UNCHANGED <<pc[Main], on[Main]>>
    BY <1>2, <1>3, <2>1 DEF CleanInv, Swept
  <2> QED BY <1>3, <2>1 DEF Resting
<1>6. mainPc = "clean" =>
        \A i \in registry' : NameOf[i] \in cleaned \/ NameOf[i] \notin listed => Swept(i)'
  BY <1>1 DEF CleanInv
<1>7. pc'[Main] \in Working =>
        \A i \in registry' : NameOf[i] = NameOf[on[Main]] => i = on[Main] \/ Swept(i)'
  BY <1>1, <1>2, <1>4 DEF CleanInv
<1>8. mainPc \in {"wait", "shutdown", "done"} => \A i \in registry' : Swept(i)'
  BY <1>1 DEF CleanInv
<1> QED BY <1>4, <1>5, <1>6, <1>7, <1>8 DEF CleanInv, Swept

LEMMA QuietInv ==
  ASSUME Rest, Quiet
  PROVE  Rest'
BY DEF Rest, WorkInv, HeldInv, OutsideInv, NamesInv, CleanInv, Swept, Known, Quiet, clientVars

LEMMA MovesInv ==
  ASSUME TypeOK, Rest, NEW a \in Actors, NEW place, Moves(a, place)
  PROVE  Rest'
<1> USE DEF Rest
<1>1. /\ \A b \in Actors : pc'[b] = IF b = a THEN place ELSE pc[b]
      /\ \A b \in Actors : b # a \/ place # "idle" => on'[b] = on[b]
  BY GotoType DEF Moves, TypeOK
<1>2. WorkInv'
  <2>1. given' = given /\ Known' = Known
    BY DEF Moves, Known
  <2>2. "idle" \notin Adding /\ "idle" \notin Working /\ Working \cap Adding = {}
    BY DEF Adding, Working, Resting
  <2>3. pc[a] \in Adding \/ pc[a] \in Working
    BY DEF Moves, Working, TypeOK
  <2>4. /\ place \in Adding => pc[a] \in Adding
        /\ place \in Working => pc[a] \in Working
    BY <2>2, <2>3 DEF Moves
  <2>5. ASSUME NEW b \in Actors
        PROVE  /\ pc'[b] \in Adding => pc[b] \in Adding /\ on'[b] = on[b]
               /\ pc'[b] \in Working => pc[b] \in Working /\ on'[b] = on[b]
    BY <1>1, <2>2, <2>4
  <2>6. ASSUME NEW b \in Actors
        PROVE  /\ pc'[b] \in Adding => b \in Callers /\ on'[b] \in given' \ Known'
               /\ pc'[b] \in Working => on'[b] \in Known'
    <3>1. /\ pc[b] \in Adding => b \in Callers /\ on[b] \in given \ Known
          /\ pc[b] \in Working => on[b] \in Known
      BY DEF WorkInv
    <3> QED BY <2>1, <2>5, <3>1
  <2>7. ASSUME NEW b \in Actors, NEW c \in Actors,
               pc'[b] \in Adding, pc'[c] \in Adding, on'[b] = on'[c]
        PROVE  b = c
    <3>1. pc[b] \in Adding /\ pc[c] \in Adding /\ on[b] = on[c]
      BY <2>5, <2>7
    <3> QED BY <3>1 DEF WorkInv
  <2> QED BY <2>6, <2>7 DEF WorkInv
<1>3. HeldInv' /\ NamesInv'
  BY DEF HeldInv, NamesInv, Moves
<1>4. OutsideInv'
  BY <1>1 DEF OutsideInv, Known, Moves, Actors
<1>5. CleanInv'
  <2>1. Main \in Actors /\ registry' = registry
    BY DEF Actors, Moves
  <2>2. \A i \in Instances : Swept(i) => Swept(i)'
    BY DEF Swept, Moves
  <2>3. a = Main => pc[Main] \in Working
    BY ActorsAssumption, AtWork DEF Moves, TypeOK, Working
  <2>4. CASE a # Main
    BY <1>1, <2>1, <2>2, <2>4, SweptKept DEF Moves
  <2>5. CASE a = Main
    <3>1. pc'[Main] = place /\ place \in Working \cup {"idle"} /\ place # "haltDone"
      BY <1>1, <2>1, <2>3, <2>5 DEF Moves
    <3>2. place # "idle" => on'[Main] = on[Main]
      BY <1>1, <2>1
    <3>3. place = "unregister" => Swept(on[Main])'
      BY <2>5, <3>2 DEF Moves, CleanInv, Swept
    <3> QED BY <2>1, <2>2, <2>3, <2>5, <3>1, <3>2, <3>3, SweptKept DEF Moves
  <2> QED BY <2>4, <2>5
<1> QED BY <1>2, <1>3, <1>4, <1>5

LEMMA KillsInv ==
  ASSUME TypeOK, Rest, NEW a \in Actors, NEW place, Kills(a, place)
  PROVE  Rest'
<1> USE DEF Rest
<1>1. /\ \A b \in Actors : pc'[b] = IF b = a THEN place ELSE pc[b]
      /\ \A b \in Actors : b # a \/ place # "idle" => on'[b] = on[b]
  BY GotoType DEF Kills, TypeOK
<1>2. /\ on[a] \in Instances /\ client \in [Instances -> 0..made]
      /\ client' = [client EXCEPT ![on[a]] = NoClient]
      /\ UNCHANGED <<fresh, made, overwritten, late>>
  BY AtWork DEF Kills, Kill, Working, Adding, Resting, TypeOK
<1>3. WorkInv'
  BY <1>1, <1>2 DEF WorkInv, Known, Kills, Working, Adding, Resting
<1>4. HeldInv'
  <2> SUFFICES ASSUME NEW k \in fresh \cup running', k \notin forgotten'
               PROVE  \E i \in Instances : client'[i] = k
    BY <1>2 DEF HeldInv
  <2>1. k \in fresh \cup running /\ k \notin forgotten /\ k # client[on[a]]
    BY DEF Kills, Kill, TypeOK
  <2>2. PICK i \in Instances : client[i] = k
    BY <2>1 DEF HeldInv
  <2> QED BY <1>2, <2>1, <2>2
<1>5. NamesInv'
  BY DEF NamesInv, Kills
<1>6. OutsideInv'
  <2> SUFFICES ASSUME NEW i \in Instances, client'[i] # NoClient, i \notin Known'
               PROVE  \E b \in Callers : pc'[b] = "exchange" /\ on'[b] = i
    BY DEF OutsideInv
  <2>1. i # on[a] /\ client[i] # NoClient /\ i \notin Known
    BY <1>2 DEF Known, Kills
  <2>2. PICK b \in Callers : pc[b] = "exchange" /\ on[b] = i
    BY <2>1 DEF OutsideInv
  <2> QED BY <1>1, <2>1, <2>2 DEF Actors
<1>7. CleanInv'
  <2>1. Main \in Actors /\ registry' = registry
    BY DEF Actors, Kills
  <2>2. \A i \in Instances : (Swept(i) \/ i = on[a]) => Swept(i)'
    BY <1>2 DEF Swept
  <2>3. CASE a # Main
    BY <1>1, <2>1, <2>2, <2>3, SweptKept DEF Kills
  <2>4. CASE a = Main
    <3>1. pc[Main] \in Working
      BY <2>4, ActorsAssumption DEF Kills
    <3>2. pc'[Main] = place /\ place \in Working \cup {"idle"}
      BY <1>1, <2>1, <2>4, <3>1 DEF Kills
    <3>3. place # "idle" => on'[Main] = on[Main]
      BY <1>1, <2>1
    <3>4. place # "idle" => Swept(on[Main])'
      BY <1>2, <2>2, <2>4, <3>3 DEF Swept
    <3> QED BY <2>1, <2>2, <3>1, <3>2, <3>3, <3>4, SweptKept DEF Kills, Working, Resting
  <2> QED BY <2>3, <2>4
<1> QED BY <1>3, <1>4, <1>5, <1>6, <1>7

LEMMA BeginsInv ==
  ASSUME TypeOK, Rest, NEW a \in Actors, NEW i \in Instances, NEW place, Begins(a, i, place)
  PROVE  Rest'
<1> USE DEF Rest
<1>1. /\ \A b \in Actors : pc'[b] = IF b = a THEN place ELSE pc[b]
      /\ \A b \in Actors : on'[b] = IF b = a THEN i ELSE on[b]
  BY DEF Begins, TypeOK
<1>2. WorkInv'
  BY <1>1 DEF WorkInv, Known, Begins, Working
<1>3. HeldInv' /\ NamesInv'
  BY DEF HeldInv, NamesInv, Begins, clientVars
<1>4. OutsideInv'
  BY <1>1 DEF OutsideInv, Known, Begins, clientVars, Actors
<1>5. CleanInv'
  <2>1. Main \in Actors /\ registry' = registry /\ \A j \in Instances : Swept(j)' <=> Swept(j)
    BY DEF Actors, Begins, clientVars, Swept
  <2>2. CASE a # Main
    BY <1>1, <2>1, <2>2, SweptKept DEF Begins
  <2>3. CASE a = Main
    <3>1. pc'[Main] = place /\ on'[Main] = i /\ mainPc = "clean"
      BY <1>1, <2>1, <2>3 DEF Begins
    <3>2. \A j \in registry : NameOf[j] = NameOf[i] => j = i
      BY DEF NamesInv, Begins
    <3>3. place \in {"haltDone", "unregister"} => Swept(i)
      BY DEF Begins, Swept
    <3> QED BY <2>1, <3>1, <3>2, <3>3 DEF CleanInv, Begins, Swept, clientVars
  <2> QED BY <2>2, <2>3
<1> QED BY <1>2, <1>3, <1>4, <1>5

-----------------------------------------------------------------------------
(***************************************************************************)
(* The steps that make clients, and those that fill the registry.          *)
(***************************************************************************)
LEMMA CreateInv ==
  ASSUME TypeOK, Rest, NEW a \in Callers, Create(a)
  PROVE  Rest'
<1> USE DEF Rest
<1>1. /\ a \in Actors /\ a # Main /\ pc[a] = "create" /\ pc[a] \in Adding
      /\ on[a] \in Instances /\ on[a] \in given \ Known
  BY ActorsAssumption, AtWork DEF Create, At, Actors, Adding, Resting
<1>2. /\ pc' = [pc EXCEPT ![a] = "exchange"] /\ on' = on
      /\ client' = [client EXCEPT ![on[a]] = made + 1]
      /\ running' = running \cup {made + 1}
      /\ UNCHANGED <<given, registry, overwritten, fresh, forgotten, late, mainPc, listed, cleaned>>
  BY DEF Create, Goto, MakeClient, registryVars, mainVars, lossVars
<1>3. client[on[a]] = NoClient
  BY <1>1 DEF OutsideInv, WorkInv, Adding, Actors
<1>4. WorkInv'
  BY <1>1, <1>2 DEF WorkInv, Known, TypeOK, Adding, Working, Resting
<1>5. HeldInv'
  <2> SUFFICES ASSUME NEW k \in fresh' \cup running', k \notin forgotten'
               PROVE  \E i \in Instances : client'[i] = k
    BY DEF HeldInv
  <2>1. CASE k = made + 1
    BY <1>1, <1>2, <2>1 DEF TypeOK
  <2>2. CASE k # made + 1
    <3>1. k \in fresh \cup running /\ k \in 1..made
      BY <1>2, <2>2 DEF TypeOK
    <3>2. PICK i \in Instances : client[i] = k
      BY <1>2, <3>1 DEF HeldInv
    <3>3. i # on[a]
      BY <1>3, <3>1, <3>2 DEF NoClient
    <3> QED BY <1>2, <3>2, <3>3 DEF TypeOK
  <2> QED BY <2>1, <2>2
<1>6. OutsideInv'
  <2> SUFFICES ASSUME NEW i \in Instances, client'[i] # NoClient, i \notin Known'
               PROVE  \E b \in Callers : pc'[b] = "exchange" /\ on'[b] = i
    BY DEF OutsideInv
  <2>1. pc'[a] = "exchange" /\ on'[a] = on[a]
    BY <1>1, <1>2 DEF TypeOK
  <2>2. CASE i # on[a]
    <3>1. client[i] # NoClient /\ i \notin Known
      BY <1>2, <2>2 DEF TypeOK, Known
    <3>2. PICK b \in Callers : pc[b] = "exchange" /\ on[b] = i
      BY <3>1 DEF OutsideInv
    <3> QED BY <1>2, <2>1, <3>2 DEF TypeOK, Actors
  <2> QED BY <2>1, <2>2
<1>7. NamesInv'
  BY <1>2 DEF NamesInv
<1>8. CleanInv'
  <2>1. \A i \in registry : Swept(i)' <=> Swept(i)
    BY <1>1, <1>2 DEF Swept, Known, TypeOK
  <2>2. UNCHANGED <<pc[Main], on[Main]>>
    BY <1>1, <1>2 DEF TypeOK, Actors
  <2>3. Main \in Actors /\ (pc[Main] \in {"haltDone", "unregister"} => on[Main] # on[a])
    BY <1>1 DEF WorkInv, Working, Places, Adding, Resting, Actors
  <2>4. pc[Main] \in {"haltDone", "unregister"} => (Swept(on[Main])' <=> Swept(on[Main]))
    BY <1>2, <2>3 DEF Swept, TypeOK
  <2> QED BY <1>2, <2>1, <2>2, <2>4 DEF CleanInv, Swept
<1> QED BY <1>4, <1>5, <1>6, <1>7, <1>8

LEMMA BootClientInv ==
  ASSUME TypeOK, Rest, NEW a \in Actors, BootClient(a)
  PROVE  Rest'
<1> USE DEF Rest
<1>1. /\ pc[a] = "bootClient" /\ pc[a] \in Working
      /\ on[a] \in Instances /\ on[a] \in Known
  BY AtWork DEF BootClient, At, Working, Places, Adding, Resting
<1>2. /\ pc' = [pc EXCEPT ![a] = "bootReady"] /\ on' = on
      /\ client' = [client EXCEPT ![on[a]] = made + 1]
      /\ fresh' = fresh \cup {made + 1}
      /\ forgotten' = forgotten \cup ({client[on[a]]} \ {NoClient})
      /\ late' = IF mainPc = "run" THEN late ELSE late \cup {made + 1}
      /\ UNCHANGED <<given, registry, overwritten, running, mainPc, listed, cleaned>>
  BY DEF BootClient, Goto, MakeClient, registryVars, mainVars
<1>3. WorkInv'
  BY <1>1, <1>2 DEF WorkInv, Known, TypeOK, Adding, Working, Places, Resting
<1>4. HeldInv'
  <2> SUFFICES ASSUME NEW k \in fresh' \cup running', k \notin forgotten'
               PROVE  \E i \in Instances : client'[i] = k
    BY DEF HeldInv
  <2>1. CASE k = made + 1
    BY <1>1, <1>2, <2>1 DEF TypeOK
  <2>2. CASE k # made + 1
    <3>1. k \in fresh \cup running /\ k \notin forgotten /\ k \in 1..made
      BY <1>2, <2>2 DEF TypeOK
    <3>2. PICK i \in Instances : client[i] = k
      BY <3>1 DEF HeldInv
    <3>3. i # on[a]
      BY <1>2, <3>1, <3>2 DEF NoClient
    <3> QED BY <1>2, <3>2, <3>3 DEF TypeOK
  <2> QED BY <2>1, <2>2
<1>5. OutsideInv'
  <2> SUFFICES ASSUME NEW i \in Instances, client'[i] # NoClient, i \notin Known'
               PROVE  \E b \in Callers : pc'[b] = "exchange" /\ on'[b] = i
    BY DEF OutsideInv
  <2>1. i # on[a] /\ client[i] # NoClient /\ i \notin Known
    BY <1>1, <1>2 DEF TypeOK, Known
  <2>2. PICK b \in Callers : pc[b] = "exchange" /\ on[b] = i
    BY <2>1 DEF OutsideInv
  <2> QED BY <1>1, <1>2, <2>2 DEF TypeOK, Actors
<1>6. NamesInv'
  BY <1>2 DEF NamesInv
<1>7. CleanInv'
  <2>1. mainPc # "run" => \A i \in Instances : Swept(i) => Swept(i)'
    BY <1>1, <1>2 DEF Swept, TypeOK
  <2>2. CASE a # Main
    BY <1>2, <2>1, <2>2, SweptKept DEF TypeOK, Actors
  <2>3. CASE a = Main
    BY <1>1, <1>2, <2>1, <2>3, SweptKept DEF TypeOK, Actors, Working, Places, Adding, Resting
  <2> QED BY <2>2, <2>3
<1> QED BY <1>3, <1>4, <1>5, <1>6, <1>7

LEMMA PublishInv ==
  ASSUME TypeOK, Rest, NEW a \in Callers, Publish(a)
  PROVE  Rest'
<1> USE DEF Rest
<1>0. PICK x : x = on[a]
  OBVIOUS
<1>1. /\ a \in Actors /\ a # Main /\ pc[a] = "exchange" /\ pc[a] \in Adding
      /\ x \in Instances /\ x \in given \ Known
  BY <1>0, ActorsAssumption, AtWork DEF Publish, At, Actors, Adding, Resting
<1>2. /\ \A b \in Actors : pc'[b] = IF b = a THEN "idle" ELSE pc[b]
      /\ \A b \in Actors : b # a => on'[b] = on[b]
  BY <1>1, GotoType DEF Publish, Places
<1>3. /\ registry' = (registry \ Named(registry, NameOf[x])) \cup {x}
      /\ overwritten' = overwritten \cup Named(registry, NameOf[x])
      /\ late' = IF mainPc = "run" THEN late ELSE late \cup {client[x]}
      /\ UNCHANGED <<given, client, fresh, running, forgotten, mainPc, listed, cleaned>>
  BY <1>0 DEF Publish, Put, instanceVars, processVars, mainVars
<1>4. Known' = Known \cup {x}
  BY <1>3 DEF Known, Named
<1>5. WorkInv'
  <2>1. "idle" \notin Adding /\ "idle" \notin Working
    BY DEF Adding, Working, Resting
  <2>2. \A b \in Actors : b # a /\ pc[b] \in Adding => on[b] # x
    BY <1>0, <1>1 DEF WorkInv
  <2> QED BY <1>2, <1>3, <1>4, <2>1, <2>2 DEF WorkInv
<1>6. HeldInv'
  BY <1>3 DEF HeldInv
<1>7. OutsideInv'
  <2> SUFFICES ASSUME NEW i \in Instances, client[i] # NoClient, i \notin Known, i # x
               PROVE  \E b \in Callers : pc'[b] = "exchange" /\ on'[b] = i
    BY <1>3, <1>4 DEF OutsideInv
  <2>1. PICK b \in Callers : pc[b] = "exchange" /\ on[b] = i
    BY DEF OutsideInv
  <2> QED BY <1>0, <1>2, <2>1 DEF Actors
<1>8. NamesInv'
  BY <1>3 DEF NamesInv, Named
<1>9. CleanInv'
  <2>1. mainPc # "run" => Swept(x)'
    BY <1>3 DEF Swept
  <2>2. \A i \in Instances : Swept(i) => Swept(i)'
    BY <1>3 DEF Swept
  <2>3. \A i \in registry' : i \in registry \/ i = x
    BY <1>3
  <2>4. UNCHANGED <<pc[Main], on[Main]>>
    BY <1>1, <1>2 DEF Actors
  <2>5. CASE mainPc # "run"
    BY <1>3, <2>1, <2>2, <2>3, <2>4, <2>5, SweptKept
  <2>6. CASE mainPc = "run"
    <3>1. pc[Main] \in Resting
      BY <2>6 DEF CleanInv
    <3> QED BY <1>3, <2>4, <2>6, <3>1 DEF CleanInv, Working, Resting
  <2> QED BY <2>5, <2>6
<1> QED BY <1>5, <1>6, <1>7, <1>8, <1>9

LEMMA AddPluginInv ==
  ASSUME TypeOK, Rest, NEW a \in Callers, NEW i \in Instances, Call(a, i), AddPlugin(a, i)
  PROVE  Rest'
<1> USE DEF Rest
<1>1. /\ a \in Actors /\ a # Main /\ pc[a] = "idle" /\ i \notin given
      /\ given' = given \cup {i} /\ "lookSource" \in Adding /\ "lookSource" \notin Working
      /\ \A b \in Actors : pc'[b] = IF b = a THEN "lookSource" ELSE pc[b]
      /\ \A b \in Actors : on'[b] = IF b = a THEN i ELSE on[b]
      /\ UNCHANGED <<registry, overwritten, clientVars, mainPc, listed, cleaned>>
  BY ActorsAssumption
  DEF Call, AddPlugin, At, Actors, TypeOK, instanceVars, processVars, mainVars, lossVars,
      clientVars, Adding, Working
<1>2. Known' = Known /\ Known \subseteq given
  BY <1>1 DEF Known, TypeOK
<1>3. WorkInv'
  BY <1>1, <1>2 DEF WorkInv
<1>4. HeldInv' /\ NamesInv'
  BY <1>1 DEF HeldInv, NamesInv, clientVars
<1>5. OutsideInv'
  BY <1>1, <1>2 DEF OutsideInv, clientVars, Actors
<1>6. CleanInv'
  BY <1>1, SweptKept DEF Swept, clientVars, Actors
<1> QED BY <1>3, <1>4, <1>5, <1>6

(* The monitor may go over to the instance that is in the registry now.    *)
LEMMA RestartInv ==
  ASSUME TypeOK, Rest, Restart
  PROVE  Rest'
<1> USE DEF Rest
<1>1. PICK i \in registry, place \in {"bootClient", "monBlame"} :
        /\ pc' = [pc EXCEPT ![Monitor] = place] /\ on' = [on EXCEPT ![Monitor] = i]
  BY DEF Restart, Named
<1>2. /\ pc[Monitor] = "bootCheck"
      /\ UNCHANGED <<given, registry, overwritten, clientVars, mainPc, listed, cleaned>>
  BY DEF Restart, At, registryVars, instanceVars, processVars, mainVars, lossVars, clientVars
<1>3. /\ \A b \in Actors : pc'[b] = IF b = Monitor THEN place ELSE pc[b]
      /\ \A b \in Actors : on'[b] = IF b = Monitor THEN i ELSE on[b]
      /\ Monitor # Main /\ Monitor \notin Callers
  BY <1>1, ActorsAssumption DEF TypeOK, Actors
<1>4. Known' = Known /\ i \in Known /\ place \in Working /\ place \notin Adding
  BY <1>1, <1>2 DEF Known, Working, Places, Adding, Resting
<1>5. WorkInv'
  BY <1>2, <1>3, <1>4 DEF WorkInv
<1>6. HeldInv' /\ NamesInv'
  BY <1>2 DEF HeldInv, NamesInv, clientVars
<1>7. OutsideInv'
  BY <1>2, <1>3, <1>4 DEF OutsideInv, clientVars, Actors
<1>8. CleanInv'
  BY <1>2, <1>3, SweptKept DEF Swept, clientVars, Actors
<1> QED BY <1>5, <1>6, <1>7, <1>8

(* An instance that Start makes is known to nobody yet.                    *)
LEMMA StartOneInv ==
  ASSUME TypeOK, Rest, NEW i \in Instances, NEW ok \in BOOLEAN, StartOne(i, ok)
  PROVE  Rest'
<1> USE DEF Rest
<1>1. /\ mainPc = "boot" /\ i \notin given /\ given' = given \cup {i}
      /\ UNCHANGED <<pc, on, fresh, forgotten, overwritten, late, listed, cleaned>>
  BY DEF StartOne, actorVars, lossVars
<1>2. i \notin Known /\ Known \subseteq given
  BY <1>1 DEF Known, TypeOK
<1>3. pc[Main] \notin Working
  BY <1>1 DEF CleanInv, Working
<1>4. "haltDone" \in Working /\ "unregister" \in Working
  BY DEF Working, Places, Adding, Resting
<1>5. CASE ok
  <2>1. /\ client' = [client EXCEPT ![i] = made + 1] /\ running' = running \cup {made + 1}
        /\ registry' = (registry \ Named(registry, NameOf[i])) \cup {i}
        /\ Named(registry, NameOf[i]) = {} /\ mainPc' = "boot"
    BY <1>1, <1>5 DEF StartOne, MakeClient, Put
  <2>2. registry' = registry \cup {i} /\ Known' = Known \cup {i}
    BY <1>1, <2>1 DEF Known
  <2>3. client[i] = NoClient
    <3>1. ~ \E a \in Callers : pc[a] = "exchange" /\ on[a] = i
      BY <1>1 DEF WorkInv, Adding, Actors
    <3> QED BY <1>2, <3>1 DEF OutsideInv
  <2>4. WorkInv'
    BY <1>1, <2>2 DEF WorkInv
  <2>5. HeldInv'
    <3> SUFFICES ASSUME NEW k \in fresh \cup running', k \notin forgotten
                 PROVE  \E j \in Instances : client'[j] = k
      BY <1>1 DEF HeldInv
    <3>1. CASE k = made + 1
      BY <2>1, <3>1 DEF TypeOK
    <3>2. CASE k # made + 1
      <4>1. k \in fresh \cup running /\ k \in 1..made
        BY <2>1, <3>2 DEF TypeOK
      <4>2. PICK j \in Instances : client[j] = k
        BY <4>1 DEF HeldInv
      <4>3. j # i
        BY <2>3, <4>1, <4>2 DEF NoClient
      <4> QED BY <2>1, <4>2, <4>3 DEF TypeOK
    <3> QED BY <3>1, <3>2
  <2>6. OutsideInv'
    BY <1>1, <2>1, <2>2 DEF OutsideInv, TypeOK
  <2>7. NamesInv'
    BY <2>1, <2>2 DEF NamesInv, Named
  <2>8. CleanInv'
    BY <1>1, <1>3, <1>4, <2>1 DEF CleanInv
  <2> QED BY <2>4, <2>5, <2>6, <2>7, <2>8
<1>6. CASE ~ok
  <2>1. mainPc' = "failed" /\ UNCHANGED <<client, running, registry>>
    BY <1>6 DEF StartOne
  <2> QED BY <1>1, <1>2, <1>3, <1>4, <2>1
          DEF WorkInv, HeldInv, OutsideInv, NamesInv, CleanInv, Known
<1> QED BY <1>5, <1>6

(* The phases of the manager.                                              *)
LEMMA PhaseInv ==
  ASSUME TypeOK, Rest,
         \/ Started \/ StopBegins \/ CleanedUp \/ MonitorGone \/ Stopped
         \/ \E i \in Instances : StartDuplicate(i)
  PROVE  Rest'
<1> USE DEF Rest, registryVars, instanceVars, processVars, actorVars, lossVars, clientVars, At
<1>1. UNCHANGED <<given, registry, overwritten, clientVars, pc, on, cleaned>>
  BY DEF Started, StopBegins, CleanedUp, MonitorGone, Stopped, StartDuplicate
<1>2. WorkInv' /\ HeldInv' /\ OutsideInv' /\ NamesInv'
  BY <1>1 DEF WorkInv, HeldInv, OutsideInv, NamesInv, Known
<1>3. CleanInv'
  <2>1. \A i : Swept(i)' <=> Swept(i)
    BY <1>1 DEF Swept
  <2>2. pc[Main] \in Resting
    BY DEF Started, StopBegins, CleanedUp, MonitorGone, Stopped, StartDuplicate, CleanInv,
           Resting
  <2>3. pc'[Main] \notin Working /\ pc'[Main] \notin {"haltDone", "unregister"}
    BY <1>1, <2>2 DEF Working, Resting
  <2>4. CASE Started \/ MonitorGone \/ Stopped \/ \E i \in Instances : StartDuplicate(i)
    BY <1>1, <2>1, <2>2, <2>3, <2>4
    DEF Started, MonitorGone, Stopped, StartDuplicate, CleanInv
  <2>5. CASE StopBegins
    <3>1. cleaned = {} /\ mainPc' = "clean" /\ \A i \in registry : NameOf[i] \in listed'
      BY <2>5 DEF StopBegins, CleanInv
    <3> QED BY <1>1, <2>1, <2>2, <2>3, <3>1 DEF CleanInv
  <2>6. CASE CleanedUp
    <3>1. mainPc = "clean" /\ listed \subseteq cleaned /\ mainPc' = "wait"
      BY <2>6 DEF CleanedUp
    <3>2. \A i \in registry : Swept(i)
      BY <3>1 DEF CleanInv
    <3> QED BY <1>1, <2>1, <2>2, <2>3, <3>1, <3>2 DEF CleanInv
  <2> QED BY <2>4, <2>5, <2>6
<1> QED BY <1>2, <1>3

(* Main and the monitor come to rest.                                      *)
LEMMA RestInv ==
  ASSUME TypeOK, Rest, Unregister \/ ForwarderStuck \/ MonitorQuits
  PROVE  Rest'
<1> USE DEF Rest, instanceVars, processVars, lossVars, clientVars, At
<1>1. PICK a \in {Main, Monitor}, place \in Resting :
        /\ Goto(a, place)
        /\ (a = Monitor /\ MonitorQuits) \/ (a = Main /\ (Unregister \/ ForwarderStuck))
        /\ UNCHANGED <<given, registry, overwritten, clientVars, listed>>
  <2> USE DEF registryVars, mainVars, Resting
  <2>1. CASE Unregister
    BY <2>1 DEF Unregister
  <2>2. CASE ForwarderStuck
    BY <2>2 DEF ForwarderStuck
  <2>3. CASE MonitorQuits
    BY <2>3 DEF MonitorQuits
  <2> QED BY <2>1, <2>2, <2>3
<1>2. /\ a \in Actors /\ a \notin Callers
      /\ \A b \in Actors : pc'[b] = IF b = a THEN place ELSE pc[b]
      /\ \A b \in Actors : b # a => on'[b] = on[b]
      /\ place \notin Adding /\ place \notin Working
  BY <1>1, GotoType, ActorsAssumption DEF Actors, Resting, Places, Adding, Working
<1>3. Known' = Known /\ given' = given
  BY <1>1 DEF Known
<1>4. WorkInv'
  BY <1>2, <1>3 DEF WorkInv
<1>5. HeldInv' /\ NamesInv'
  BY <1>1 DEF HeldInv, NamesInv
<1>6. OutsideInv'
  BY <1>1, <1>2, <1>3 DEF OutsideInv, Actors
<1>7. \A i : Swept(i)' <=> Swept(i)
  BY <1>1 DEF Swept
<1>8. Main \in Actors /\ Monitor # Main
  BY ActorsAssumption DEF Actors
<1>9. CleanInv'
  <2>1. CASE a = Monitor
    BY <1>1, <1>2, <1>7, <1>8, <2>1, SweptKept DEF MonitorQuits, mainVars
  <2>2. pc'[Main] \in Resting \/ a = Monitor
    BY <1>1, <1>2, <1>8
  <2>3. CASE a = Main /\ ForwarderStuck
    BY <1>1, <1>2, <1>8, <2>2, <2>3 DEF ForwarderStuck, CleanInv, Resting
  <2>4. CASE a = Main /\ Unregister
    <3>1. /\ pc[Main] = "unregister" /\ UNCHANGED mainPc /\ mainPc = "clean"
          /\ cleaned' = cleaned \cup {NameOf[on[Main]]}
      BY <2>4 DEF Unregister, CleanInv, Resting
    <3>2. pc[Main] \in Working
      BY <3>1 DEF Working, Places, Adding, Resting
    <3>3. \A i \in registry : NameOf[i] = NameOf[on[Main]] => Swept(i)
      BY <3>1, <3>2 DEF CleanInv
    <3>4. \A i \in registry : NameOf[i] \in cleaned' \/ NameOf[i] \notin listed => Swept(i)
      BY <3>1, <3>3 DEF CleanInv
    <3> QED BY <1>1, <1>2, <1>7, <1>8, <2>4, <3>1, <3>4 DEF CleanInv, Resting
  <2> QED BY <1>1, <2>1, <2>3, <2>4
<1> QED BY <1>4, <1>5, <1>6, <1>9

-----------------------------------------------------------------------------
LEMMA RestNext ==
  ASSUME TypeOK, Rest, [Next]_vars
  PROVE  Rest'
<1> USE DEF instanceVars, processVars, actorVars, mainVars, lossVars
<1>0. Callers \subseteq Actors /\ Monitor \in Actors /\ Main \in Actors
  BY DEF Actors
<1>1. ASSUME NEW a \in Actors, HaltStep(a) \/ BootStep(a)
      PROVE  Rest'
  <2>1. CASE HaltStep(a)
    BY <2>1, HaltEffect, QuietInv, MovesInv, KillsInv
  <2>2. CASE BootStep(a)
    BY <2>2, OtherEffect, MovesInv, BootClientInv DEF BootStep
  <2> QED BY <1>1, <2>1, <2>2
<1>2. CASE UNCHANGED vars
  BY <1>2, QuietInv DEF vars, Quiet, registryVars, clientVars
<1>3. ASSUME NEW i \in Instances, Use(i)
      PROVE  Rest'
  <2> USE DEF registryVars, clientVars, Quiet
  <2>1. CASE UseReads(i)
    BY <2>1, QuietInv DEF UseReads
  <2>2. CASE UseDials(i)
    <3>1. /\ fresh' \cup running' = fresh \cup running
          /\ UNCHANGED <<given, registry, overwritten, client, forgotten, late, pc, on, mainPc,
                         listed, cleaned>>
      BY <2>2 DEF UseDials, Launch
    <3> QED BY <3>1
            DEF Rest, WorkInv, HeldInv, OutsideInv, NamesInv, CleanInv, Swept, Known
  <2>3. CASE UseEnds(i)
    BY <2>3, QuietInv DEF UseEnds
  <2> QED BY <1>3, <2>1, <2>2, <2>3 DEF Use
<1>4. ASSUME NEW a \in Callers, AddStep(a) \/ \E i \in Instances : Call(a, i)
      PROVE  Rest'
  <2>1. CASE LookSource(a) \/ Register(a)
    BY <1>0, <2>1, OtherEffect, MovesInv
  <2>2. CASE ExchangeFails(a)
    BY <1>0, <2>2, KillEffect, KillsInv
  <2>3. CASE PublishRaces(a)
    BY <2>3, QuietInv DEF PublishRaces, Quiet, registryVars, clientVars
  <2>4. ASSUME NEW i \in Instances, Call(a, i)
        PROVE  Rest'
    BY <1>0, <2>4, AddPluginInv, BeginEffect, BeginsInv
  <2> QED BY <1>4, <2>1, <2>2, <2>3, <2>4, CreateInv, PublishInv DEF AddStep
<1>5. CASE MonitorStep
  <2>1. ASSUME NEW i \in Instances, Tick(i)
        PROVE  Rest'
    BY <1>0, <2>1, BeginEffect, BeginsInv
  <2>2. CASE MonKill
    BY <1>0, <2>2, KillEffect, KillsInv
  <2>3. CASE MonitorSet
    BY <1>0, <2>3, OtherEffect, MovesInv
  <2> QED BY <1>0, <1>1, <1>5, <2>1, <2>2, <2>3, RestInv, RestartInv DEF MonitorStep
<1>6. CASE MainStep
  <2>1. ASSUME NEW i \in Instances, CleanUp(i)
        PROVE  Rest'
    BY <1>0, <2>1, BeginEffect, BeginsInv
  <2>2. CASE CleanKill
    BY <1>0, <2>2, KillEffect, KillsInv
  <2> QED BY <1>0, <1>1, <1>6, <2>1, <2>2, RestInv, PhaseInv DEF MainStep
<1>7. CASE Started \/ StopBegins \/ \E i \in Instances :
             StartDuplicate(i) \/ \E ok \in BOOLEAN : StartOne(i, ok)
  BY <1>7, PhaseInv, StartOneInv
<1> QED BY <1>0, <1>1, <1>2, <1>3, <1>4, <1>5, <1>6, <1>7 DEF Next

LEMMA InitInv == Init => Rest
BY DEF Init, Rest, WorkInv, HeldInv, OutsideInv, NamesInv, CleanInv, Adding, Working, Resting,
       Actors

(* Every variable keeps to its type, and the monitor counts no timeouts of *)
(* an instance beyond cfg.MaxTimeouts, for any number of calls.            *)
THEOREM TypeCorrect == Spec => []TypeOK
<1>1. TypeOK /\ Rest /\ [Next]_vars => TypeOK' /\ Rest'
  BY TypeNext, RestNext DEF Rest
<1> QED BY InitType, InitInv, <1>1, PTL DEF Spec

(* Every running process is within reach of a stop, and none outlives the  *)
(* Stop of the manager, but for the exceptions that the properties name:   *)
(* for any plugins with any names, however AddPlugin, StartPlugin, the     *)
(* monitor and Stop interleave.                                            *)
THEOREM ProcessesCorrect == Spec => []ProcessesHeld
<1>1. TypeOK /\ Rest /\ [Next]_vars => TypeOK' /\ Rest'
  BY TypeNext, RestNext DEF Rest
<1>2. TypeOK /\ Rest => ProcessesHeld
  <2> SUFFICES ASSUME TypeOK, Rest, NEW k \in running, ~Lost(k), ~Unpublished(k)
               PROVE  /\ \E i \in registry : client[i] = k
                      /\ mainPc \in {"wait", "shutdown", "done"} => k \in late
    BY DEF ProcessesHeld, WithinReach, NoneOutlivesStop
  <2>1. PICK i \in Instances : client[i] = k
    BY DEF Rest, HeldInv, Lost
  <2>2. k # NoClient
    BY DEF TypeOK, NoClient
  <2>3. i \in registry
    BY <2>1, <2>2 DEF Rest, OutsideInv, Known, Lost, Unpublished
  <2> QED BY <2>1, <2>2, <2>3 DEF Rest, CleanInv, Swept
<1> QED BY InitType, InitInv, <1>1, <1>2, PTL DEF Spec

=============================================================================
