---------------------------- MODULE PluginManager ----------------------------
(***************************************************************************)
(* The plugin processes of src/plugins/service.go: which process belongs   *)
(* to which plugin instance, who starts it and who kills it.               *)
(*                                                                         *)
(* PluginManager.Start makes an instance of each configured plugin,        *)
(* AddPlugin of one more; StartPlugin, StopPlugin and the monitor replace  *)
(* and kill its process; PluginManager.Stop cleans all instances up while  *)
(* RPCs and the monitor go on.  A go-plugin client launches its process    *)
(* at the first call of Client(), not when it is made.                     *)
(*                                                                         *)
(* A name may get several instances: AddPlugin looks into the registry and *)
(* into the queue manager's map before it writes either.  registry and     *)
(* sources are maps by name, here the sets of their values.                *)
(*                                                                         *)
(* Module PluginInstance has the RPCs on one instance check by check; here *)
(* a check of state and client is one step and what identifies a process   *)
(* is modelled instead: a call reads the pointer client in one step and    *)
(* launches the process of the client it points to in another.             *)
(***************************************************************************)
EXTENDS Naturals

CONSTANTS
  Names,        \* Names of plugins.
  Instances,    \* The PluginInstances that may be made.
  NameOf,       \* The name each is made with.
  NoInstance,   \* None of them.
  Configs,      \* The configurations that Start may meet: sets of instances.
  Callers,      \* Handlers of AddPlugin, StartPlugin and StopPlugin.
  Monitor,      \* The goroutine monitorPlugins.
  Main,         \* core.Main, which calls Start and Stop.
  MaxTimeouts,  \* cfg.MaxTimeouts, the same for all plugins.
  MaxCalls      \* Bound of the model: how many RPCs are called, recordings too.

ASSUME InstancesAssumption ==
  /\ NoInstance \notin Instances
  /\ NameOf \in [Instances -> Names] /\ Configs \subseteq SUBSET Instances
ASSUME ActorsAssumption == Monitor # Main /\ {Monitor, Main} \cap Callers = {}
ASSUME BoundsAssumption == MaxTimeouts \in Nat /\ MaxCalls \in Nat

Actors == Callers \cup {Monitor, Main}
NoClient == 0

VARIABLES
  configured,   \* Instances for the entries of the configuration file.
  given,        \* Instances that createPluginInstance was called for.
  sources,      \* Whose source is registered with the queue manager.
  registry,     \* Instances in p.pluginRegistry.
  state,        \* PluginInstance.state; UP: READY, BUSY, RECORDING, UNKNOWN.
  client,       \* PluginInstance.client.
  timeoutCnt,   \* PluginInstance.timeoutCount.
  made,         \* How many clients were made: they are 1..made.
  fresh,        \* Those that have launched nothing yet.
  running,      \* Those whose process runs.
  using,        \* Client that a recording or command on an instance has read.
  pc,           \* What each actor does next.
  on,           \* On which instance.
  dialed,       \* The client whose pointer its stop has read.
  failed,       \* Whether its stop returned an error.
  giveUp,       \* The monitor's present stop is its last for the plugin.
  watched,      \* The instance for which the monitor calls StartPlugin.
  mainPc,       \* The life of the manager.
  listed,       \* Names in the registry when Stop began to range over it.
  cleaned,      \* Names that Stop is done with.
  crashed,      \* The daemon has panicked.
  calls,        \* History: RPCs called.
  forgotten,    \* History: clients replaced by another, or killed before they launched.
  overwritten,  \* History: instances that another of the name replaced.
  late          \* History: clients that came into the registry during Stop.

registryVars == <<given, sources, registry>>
instanceVars == <<state, client, timeoutCnt>>
processVars == <<made, fresh, running>>
actorVars == <<pc, on, dialed, failed, giveUp, watched>>
mainVars == <<mainPc, listed, cleaned>>
lossVars == <<forgotten, overwritten, late>>
vars == <<configured, registryVars, instanceVars, processVars, using, actorVars, mainVars,
          crashed, calls, lossVars>>

States == {"UP", "UNRESPONSIVE", "STOPPING", "STOPPED", "KILLED"}
MainPlaces == {"boot", "failed", "run", "clean", "wait", "shutdown", "done", "stuck"}
Places == {"idle", "gone", "lookSource", "register", "create", "exchange",
           "halt", "haltSet", "haltDial", "haltLaunch", "haltKill", "haltDone",
           "bootCheck", "bootClient", "bootReady",
           "monKill", "monSet", "monKilled", "monBlame", "cleanKill", "unregister"}

Init ==
  /\ configured \in Configs
  /\ given = {} /\ sources = {} /\ registry = {}
  /\ state = [i \in Instances |-> "UP"]
  /\ client = [i \in Instances |-> NoClient]
  /\ timeoutCnt = [i \in Instances |-> 0]
  /\ made = 0 /\ fresh = {} /\ running = {}
  /\ using = [i \in Instances |-> NoClient]
  /\ pc = [a \in Actors |-> "idle"]
  /\ on = [a \in Actors |-> NoInstance]
  /\ dialed = [a \in Actors |-> NoClient]
  /\ failed = [a \in Actors |-> FALSE] /\ giveUp = FALSE /\ watched = NoInstance
  /\ mainPc = "boot" /\ listed = {} /\ cleaned = {} /\ crashed = FALSE
  /\ calls = 0 /\ forgotten = {} /\ overwritten = {} /\ late = {}

At(a, place) == pc[a] = place

Named(S, n) == {i \in S : NameOf[i] = n}

(* m[i.cfg.Name] = i, for the set of the values of the map m.              *)
Put(S, i) == (S \ Named(S, NameOf[i])) \cup {i}

(* An actor at rest is on no instance.                                     *)
Goto(a, place) ==
  /\ pc' = [pc EXCEPT ![a] = place]
  /\ on' = IF place = "idle" THEN [on EXCEPT ![a] = NoInstance] ELSE on

(* plugin.NewClient, and where it is kept.                                 *)
MakeClient(i) ==
  /\ made' = made + 1
  /\ client' = [client EXCEPT ![i] = made + 1]

(* Client() launches the process, the first time it is called.             *)
Launch(k) ==
  /\ fresh' = fresh \ {k}
  /\ running' = running \cup (fresh \cap {k})
  /\ UNCHANGED made

(* PluginInstance.kill: nothing happens without a client, and a client that*)
(* has not launched its process has nothing to kill, but is forgotten.     *)
Kill(i) ==
  /\ running' = running \ {client[i]}
  /\ forgotten' = forgotten \cup (fresh \cap {client[i]})
  /\ client' = [client EXCEPT ![i] = NoClient]
  /\ UNCHANGED <<made, fresh, overwritten, late>>

-----------------------------------------------------------------------------
(***************************************************************************)
(* Start, and AddPlugin.                                                   *)
(***************************************************************************)

(* createPluginInstance: the version exchange launches the process.  When  *)
(* it fails the process is killed and the instance dropped, and Start      *)
(* returns with the processes of the plugins before it still running.      *)
StartOne(i, ok) ==
  /\ mainPc = "boot"
  /\ i \in configured \ given
  /\ Named(registry, NameOf[i]) = {}
  /\ given' = given \cup {i}
  /\ sources' = Put(sources, i)
  /\ IF ok
       THEN /\ MakeClient(i)
            /\ running' = running \cup {made + 1}
            /\ registry' = Put(registry, i)
            /\ UNCHANGED mainPc
       ELSE mainPc' = "failed" /\ UNCHANGED <<made, client, running, registry>>
  /\ UNCHANGED <<configured, state, timeoutCnt, fresh, using, actorVars, listed, cleaned,
                 crashed, calls, lossVars>>

(* ErrDuplicatePluginName, likewise.                                       *)
StartDuplicate(i) ==
  /\ mainPc = "boot"
  /\ i \in configured \ given
  /\ Named(registry, NameOf[i]) # {}
  /\ mainPc' = "failed"
  /\ UNCHANGED <<configured, registryVars, instanceVars, processVars, using, actorVars,
                 listed, cleaned, crashed, calls, lossVars>>

Started ==
  /\ mainPc = "boot"
  /\ configured \subseteq given
  /\ mainPc' = "run"
  /\ UNCHANGED <<configured, registryVars, instanceVars, processVars, using, actorVars,
                 listed, cleaned, crashed, calls, lossVars>>

(* RPCs are served from here on, also while Stop runs.                     *)
Serving == mainPc \in {"run", "clean", "wait", "shutdown", "stuck"}

(* The look-up in the registry finds no plugin of the name.                *)
AddPlugin(a, i) ==
  /\ i \notin given /\ Named(registry, NameOf[i]) = {}
  /\ given' = given \cup {i}
  /\ pc' = [pc EXCEPT ![a] = "lookSource"] /\ on' = [on EXCEPT ![a] = i]
  /\ UNCHANGED <<sources, registry>>

(* RegisterSource: the look-up in incomingQueues, and the write.           *)
LookSource(a) ==
  /\ At(a, "lookSource")
  /\ Goto(a, IF Named(sources, NameOf[on[a]]) = {} THEN "register" ELSE "idle")
  /\ UNCHANGED <<configured, registryVars, instanceVars, processVars, using, dialed, failed,
                 giveUp, watched, mainVars, crashed, calls, lossVars>>

Register(a) ==
  /\ At(a, "register")
  /\ sources' = Put(sources, on[a])
  /\ Goto(a, "create")
  /\ UNCHANGED <<configured, given, registry, instanceVars, processVars, using, dialed,
                 failed, giveUp, watched, mainVars, crashed, calls, lossVars>>

(* pushVersion launches the process.                                       *)
Create(a) ==
  /\ At(a, "create")
  /\ MakeClient(on[a])
  /\ running' = running \cup {made + 1}
  /\ Goto(a, "exchange")
  /\ UNCHANGED <<configured, registryVars, state, timeoutCnt, fresh, using, dialed, failed, giveUp,
                 watched, mainVars, crashed, calls, lossVars>>

ExchangeFails(a) ==
  /\ At(a, "exchange")
  /\ Kill(on[a])
  /\ Goto(a, "idle")
  /\ UNCHANGED <<configured, registryVars, state, timeoutCnt, using, dialed, failed, giveUp,
                 watched, mainVars, crashed, calls>>

(* The registry is written without a second look; Go may see that Stop or  *)
(* the monitor ranges over it.                                             *)
Publish(a) ==
  LET i == on[a]
  IN  /\ At(a, "exchange")
      /\ registry' = Put(registry, i)
      /\ overwritten' = overwritten \cup Named(registry, NameOf[i])
      /\ late' = IF mainPc = "run" THEN late ELSE late \cup {client[i]}
      /\ Goto(a, "idle")
      /\ UNCHANGED <<configured, given, sources, instanceVars, processVars, using, dialed,
                     failed, giveUp, watched, mainVars, crashed, calls, forgotten>>

PublishRaces(a) ==
  /\ At(a, "exchange")
  /\ mainPc = "clean" \/ pc[Monitor] \notin {"idle", "gone"}
  /\ crashed' = TRUE
  /\ UNCHANGED <<configured, registryVars, instanceVars, processVars, using, actorVars,
                 mainVars, calls, lossVars>>

-----------------------------------------------------------------------------
(***************************************************************************)
(* StartRecord, StopRecord or Command, one at a time on an instance: it    *)
(* reads the pointer, calls Client(), and calls the plugin, which answers  *)
(* or does not, whatever has become of the instance meanwhile.             *)
(***************************************************************************)
UseReads(i) ==
  /\ Serving
  /\ i \in registry /\ state[i] = "UP" /\ client[i] # NoClient
  /\ using[i] = NoClient
  /\ calls < MaxCalls
  /\ calls' = calls + 1
  /\ using' = [using EXCEPT ![i] = client[i]]
  /\ UNCHANGED <<configured, registryVars, instanceVars, processVars, actorVars, mainVars,
                 crashed, lossVars>>

UseDials(i) ==
  /\ using[i] \in fresh
  /\ Launch(using[i])
  /\ UNCHANGED <<configured, registryVars, instanceVars, using, actorVars, mainVars,
                 crashed, calls, lossVars>>

UseEnds(i) ==
  /\ using[i] \notin fresh \cup {NoClient}
  /\ using' = [using EXCEPT ![i] = NoClient]
  /\ \E s \in {"UP", "UNRESPONSIVE"} : state' = [state EXCEPT ![i] = s]
  /\ UNCHANGED <<configured, registryVars, client, timeoutCnt, processVars, actorVars,
                 mainVars, crashed, calls, lossVars>>

-----------------------------------------------------------------------------
(***************************************************************************)
(* PluginInstance.stop, of StopPlugin, of the monitor and of cleanUp.      *)
(***************************************************************************)

(* Where an actor goes on when its stop has returned.                      *)
After(a, err) ==
  \/ a \in Callers /\ Goto(a, "idle")
  \/ a = Main /\ Goto(a, IF err THEN "cleanKill" ELSE "unregister")
  \/ a = Monitor /\ Goto(a, IF err THEN "monKill"
                            ELSE IF giveUp THEN "monKilled" ELSE "bootCheck")

StopPlugin(a, i) ==
  /\ i \in registry
  /\ pc' = [pc EXCEPT ![a] = "halt"] /\ on' = [on EXCEPT ![a] = i]
  /\ UNCHANGED registryVars

Halted(i) == state[i] \in {"STOPPING", "STOPPED", "KILLED"}

HaltRefused(a) ==
  /\ At(a, "halt")
  /\ Halted(on[a]) \/ client[on[a]] = NoClient
  /\ After(a, TRUE)
  /\ UNCHANGED <<configured, registryVars, instanceVars, processVars, using, dialed, failed,
                 giveUp, watched, mainVars, crashed, calls, lossVars>>

HaltCheck(a) ==
  /\ At(a, "halt")
  /\ ~Halted(on[a]) /\ client[on[a]] # NoClient
  /\ Goto(a, "haltSet")
  /\ UNCHANGED <<configured, registryVars, instanceVars, processVars, using, dialed, failed,
                 giveUp, watched, mainVars, crashed, calls, lossVars>>

SetState(i, s) == state' = [state EXCEPT ![i] = s]

HaltSet(a) ==
  /\ At(a, "haltSet")
  /\ SetState(on[a], "STOPPING")
  /\ Goto(a, "haltDial")
  /\ UNCHANGED <<configured, registryVars, client, timeoutCnt, processVars, using, dialed,
                 failed, giveUp, watched, mainVars, crashed, calls, lossVars>>

(* The pointer i.client is read for i.client.Client().                     *)
HaltDial(a) ==
  /\ At(a, "haltDial")
  /\ client[on[a]] # NoClient
  /\ dialed' = [dialed EXCEPT ![a] = client[on[a]]]
  /\ Goto(a, "haltLaunch")
  /\ UNCHANGED <<configured, registryVars, instanceVars, processVars, using, failed, giveUp,
                 watched, mainVars, crashed, calls, lossVars>>

(* Another stop has killed the client since the check.                     *)
HaltDialNil(a) ==
  /\ At(a, "haltDial")
  /\ client[on[a]] = NoClient
  /\ crashed' = TRUE
  /\ UNCHANGED <<configured, registryVars, instanceVars, processVars, using, actorVars,
                 mainVars, calls, lossVars>>

(* Client(), and the plugin's own Stop, which succeeds or not within the   *)
(* timeout.  A client that has launched nothing does so now.               *)
HaltLaunch(a, err) ==
  /\ At(a, "haltLaunch")
  /\ Launch(dialed[a])
  /\ dialed' = [dialed EXCEPT ![a] = NoClient]
  /\ failed' = [failed EXCEPT ![a] = err]
  /\ Goto(a, "haltKill")
  /\ UNCHANGED <<configured, registryVars, instanceVars, using, giveUp, watched, mainVars,
                 crashed, calls, lossVars>>

(* The deferred kill, then the deferred setStopped.                        *)
HaltKill(a) ==
  /\ At(a, "haltKill")
  /\ Kill(on[a])
  /\ Goto(a, "haltDone")
  /\ UNCHANGED <<configured, registryVars, state, timeoutCnt, using, dialed, failed, giveUp,
                 watched, mainVars, crashed, calls>>

HaltDone(a) ==
  /\ At(a, "haltDone")
  /\ SetState(on[a], "STOPPED")
  /\ After(a, failed[a])
  /\ failed' = [failed EXCEPT ![a] = FALSE]
  /\ UNCHANGED <<configured, registryVars, client, timeoutCnt, processVars, using, dialed,
                 giveUp, watched, mainVars, crashed, calls, lossVars>>

-----------------------------------------------------------------------------
(***************************************************************************)
(* StartPlugin, as an RPC and as the monitor's restart.                    *)
(***************************************************************************)
StartPlugin(a, i) ==
  /\ i \in registry
  /\ pc' = [pc EXCEPT ![a] = "bootCheck"] /\ on' = [on EXCEPT ![a] = i]
  /\ UNCHANGED registryVars

Bootable(i) == state[i] \in {"STOPPED", "KILLED"}

BootCheck(a) ==
  /\ a # Monitor
  /\ At(a, "bootCheck")
  /\ Goto(a, IF Bootable(on[a]) THEN "bootClient" ELSE "idle")
  /\ UNCHANGED <<configured, registryVars, instanceVars, processVars, using, dialed, failed,
                 giveUp, watched, mainVars, crashed, calls, lossVars>>

(* The monitor names the plugin, and StartPlugin looks the name up anew.   *)
Restart ==
  /\ At(Monitor, "bootCheck")
  /\ watched' = on[Monitor]
  /\ \E i \in Named(registry, NameOf[on[Monitor]]) :
       /\ on' = [on EXCEPT ![Monitor] = i]
       /\ pc' = [pc EXCEPT ![Monitor] = IF Bootable(i) THEN "bootClient" ELSE "monBlame"]
  /\ UNCHANGED <<configured, registryVars, instanceVars, processVars, using, dialed, failed,
                 giveUp, mainVars, crashed, calls, lossVars>>

(* setClient: whatever client the instance had is forgotten.               *)
BootClient(a) ==
  /\ At(a, "bootClient")
  /\ MakeClient(on[a])
  /\ fresh' = fresh \cup {made + 1}
  /\ forgotten' = forgotten \cup ({client[on[a]]} \ {NoClient})
  /\ late' = IF mainPc = "run" THEN late ELSE late \cup {made + 1}
  /\ Goto(a, "bootReady")
  /\ UNCHANGED <<configured, registryVars, state, timeoutCnt, running, using, dialed, failed,
                 giveUp, watched, mainVars, crashed, calls, overwritten>>

BootReady(a) ==
  /\ At(a, "bootReady")
  /\ SetState(on[a], "UP")
  /\ Goto(a, "idle")
  /\ watched' = IF a = Monitor THEN NoInstance ELSE watched
  /\ UNCHANGED <<configured, registryVars, client, timeoutCnt, processVars, using, dialed,
                 failed, giveUp, mainVars, crashed, calls, lossVars>>

-----------------------------------------------------------------------------
(***************************************************************************)
(* monitorPlugins.                                                         *)
(***************************************************************************)

(* Faulty variant: each timeout is counted, the last one too.              *)
TickCounts(i) ==
  /\ Serving /\ At(Monitor, "idle")
  /\ i \in registry /\ state[i] = "UNRESPONSIVE"
  /\ giveUp' = (timeoutCnt[i] > MaxTimeouts)
  /\ timeoutCnt' = IF giveUp' THEN timeoutCnt ELSE [timeoutCnt EXCEPT ![i] = @ + 1]
  /\ pc' = [pc EXCEPT ![Monitor] = "halt"] /\ on' = [on EXCEPT ![Monitor] = i]
  /\ UNCHANGED <<configured, registryVars, state, client, processVars, using, dialed, failed,
                 watched, mainVars, crashed, calls, lossVars>>

(* It finds an unresponsive plugin, counts and calls its stop.             *)
Tick(i) ==
  /\ Serving /\ At(Monitor, "idle")
  /\ i \in registry /\ state[i] = "UNRESPONSIVE"
  /\ giveUp' = (timeoutCnt[i] >= MaxTimeouts)
  /\ timeoutCnt' = IF giveUp' THEN timeoutCnt ELSE [timeoutCnt EXCEPT ![i] = @ + 1]
  /\ pc' = [pc EXCEPT ![Monitor] = "halt"] /\ on' = [on EXCEPT ![Monitor] = i]
  /\ UNCHANGED <<configured, registryVars, state, client, processVars, using, dialed, failed,
                 watched, mainVars, crashed, calls, lossVars>>

(* Its stop failed: kill, then setStopped or, the last time, setKilled.    *)
MonKill ==
  /\ At(Monitor, "monKill")
  /\ Kill(on[Monitor])
  /\ Goto(Monitor, IF giveUp THEN "monKilled" ELSE "monSet")
  /\ UNCHANGED <<configured, registryVars, state, timeoutCnt, using, dialed, failed, giveUp,
                 watched, mainVars, crashed, calls>>

MonitorSets(place, i, s, next) ==
  /\ At(Monitor, place)
  /\ SetState(i, s)
  /\ Goto(Monitor, next)
  /\ watched' = NoInstance
  /\ UNCHANGED <<configured, registryVars, client, timeoutCnt, processVars, using, dialed,
                 failed, giveUp, mainVars, crashed, calls, lossVars>>

MonitorSet ==
  \/ MonitorSets("monSet", on[Monitor], "STOPPED", "bootCheck")
  \/ MonitorSets("monKilled", on[Monitor], "KILLED", "idle")
  \/ MonitorSets("monBlame", watched, "UNRESPONSIVE", "idle")


(* quitChan is closed, and the monitor is back in its select.              *)
MonitorQuits ==
  /\ At(Monitor, "idle")
  /\ mainPc = "wait"
  /\ Goto(Monitor, "gone")
  /\ UNCHANGED <<configured, registryVars, instanceVars, processVars, using, dialed, failed,
                 giveUp, watched, mainVars, crashed, calls, lossVars>>

-----------------------------------------------------------------------------
(***************************************************************************)
(* Stop.                                                                   *)
(***************************************************************************)
StopBegins ==
  /\ mainPc = "run"
  /\ mainPc' = "clean"
  /\ listed' = {NameOf[i] : i \in registry}
  /\ UNCHANGED <<configured, registryVars, instanceVars, processVars, using, actorVars,
                 cleaned, crashed, calls, lossVars>>

(* The range loop comes to a name, also to one put in since it began, and  *)
(* to the instance that is there now: cleanUp stops it if it has a client. *)
CleanUp(i) ==
  /\ mainPc = "clean" /\ At(Main, "idle")
  /\ i \in registry /\ NameOf[i] \notin cleaned
  /\ pc' = [pc EXCEPT ![Main] = IF client[i] = NoClient THEN "unregister" ELSE "halt"]
  /\ on' = [on EXCEPT ![Main] = i]
  /\ UNCHANGED <<configured, registryVars, instanceVars, processVars, using, dialed, failed,
                 giveUp, watched, mainVars, crashed, calls, lossVars>>

(* Faulty variant: an instance that is being stopped is left to its stop.  *)
CleanKillSpared ==
  /\ At(Main, "cleanKill")
  /\ Goto(Main, "unregister")
  /\ UNCHANGED <<configured, registryVars, instanceVars, processVars, using, dialed, failed,
                 giveUp, watched, mainVars, crashed, calls, lossVars>>

(* Its stop failed, for instance because another is under way.             *)
CleanKill ==
  /\ At(Main, "cleanKill")
  /\ Kill(on[Main])
  /\ Goto(Main, "unregister")
  /\ UNCHANGED <<configured, registryVars, state, timeoutCnt, using, dialed, failed, giveUp,
                 watched, mainVars, crashed, calls>>

(* unregister() waits for the forwarder of the source, then deletes what is*)
(* registered under its name.                                              *)
Unregister ==
  LET n == NameOf[on[Main]]
  IN  /\ At(Main, "unregister")
      /\ sources' = sources \ Named(sources, n)
      /\ cleaned' = cleaned \cup {n}
      /\ Goto(Main, "idle")
      /\ UNCHANGED <<configured, given, registry, instanceVars, processVars, using, dialed,
                     failed, giveUp, watched, mainPc, listed, crashed, calls, lossVars>>

(* The range loop is over; close(quitChan) and Wait.  It need not come to  *)
(* a name put in since it began.                                           *)
CleanedUp ==
  /\ mainPc = "clean" /\ At(Main, "idle")
  /\ listed \subseteq cleaned
  /\ mainPc' = "wait"
  /\ UNCHANGED <<configured, registryVars, instanceVars, processVars, using, actorVars,
                 listed, cleaned, crashed, calls, lossVars>>

MonitorGone ==
  /\ mainPc = "wait"
  /\ At(Monitor, "gone")
  /\ mainPc' = "shutdown"
  /\ UNCHANGED <<configured, registryVars, instanceVars, processVars, using, actorVars,
                 listed, cleaned, crashed, calls, lossVars>>

(* queueManager.Shutdown() waits for the forwarders that are left.         *)
Stopped ==
  /\ mainPc = "shutdown"
  /\ mainPc' = "done"
  /\ UNCHANGED <<configured, registryVars, instanceVars, processVars, using, actorVars,
                 listed, cleaned, crashed, calls, lossVars>>

(* The forwarder it waits for never ends: module QueueManager says when.   *)
ForwarderStuck ==
  /\ At(Main, "unregister") \/ mainPc = "shutdown"
  /\ mainPc' = "stuck"
  /\ Goto(Main, "gone")
  /\ UNCHANGED <<configured, registryVars, instanceVars, processVars, using, dialed, failed,
                 giveUp, watched, listed, cleaned, crashed, calls, lossVars>>

-----------------------------------------------------------------------------
HaltStep(a) ==
  \/ HaltRefused(a) \/ HaltCheck(a) \/ HaltSet(a) \/ HaltKill(a) \/ HaltDone(a)
  \/ HaltDial(a) \/ HaltDialNil(a) \/ \E err \in BOOLEAN : HaltLaunch(a, err)

BootStep(a) == BootCheck(a) \/ BootClient(a) \/ BootReady(a)

AddStep(a) ==
  \/ LookSource(a) \/ Register(a) \/ Create(a)
  \/ ExchangeFails(a) \/ Publish(a) \/ PublishRaces(a)

Call(a, i) ==
  /\ Serving /\ At(a, "idle")
  /\ calls < MaxCalls
  /\ calls' = calls + 1
  /\ AddPlugin(a, i) \/ StopPlugin(a, i) \/ StartPlugin(a, i)
  /\ UNCHANGED <<configured, instanceVars, processVars, using, dialed, failed, giveUp,
                 watched, mainVars, crashed, lossVars>>

Use(i) == UseReads(i) \/ UseDials(i) \/ UseEnds(i)

MonitorStep ==
  \/ \E i \in Instances : Tick(i)
  \/ MonKill \/ MonitorSet \/ MonitorQuits \/ Restart
  \/ HaltStep(Monitor) \/ BootStep(Monitor)

MainStep ==
  \/ \E i \in Instances : CleanUp(i)
  \/ CleanKill \/ Unregister \/ CleanedUp \/ MonitorGone \/ Stopped \/ ForwarderStuck
  \/ HaltStep(Main)

Next ==
  /\ ~crashed
  /\ \/ \E i \in Instances :
          Use(i) \/ StartDuplicate(i) \/ \E ok \in BOOLEAN : StartOne(i, ok)
     \/ Started \/ StopBegins
     \/ \E a \in Callers :
          \/ AddStep(a) \/ HaltStep(a) \/ BootStep(a)
          \/ \E i \in Instances : Call(a, i)
     \/ MonitorStep \/ MainStep

Spec == Init /\ [][Next]_vars

(* The monitor and core.Main are scheduled, and a stop has a timeout.      *)
Fairness == WF_vars(~crashed /\ MonitorStep) /\ WF_vars(~crashed /\ MainStep)

FairSpec == Spec /\ Fairness

-----------------------------------------------------------------------------
(***************************************************************************)
(* Properties.                                                             *)
(***************************************************************************)

(* Type invariant; the monitor counts no timeouts beyond cfg.MaxTimeouts.  *)
TypeOK ==
  /\ configured \subseteq Instances /\ given \subseteq Instances
  /\ sources \subseteq given /\ registry \subseteq given
  /\ state \in [Instances -> States]
  /\ made \in Nat
  /\ client \in [Instances -> 0..made] /\ using \in [Instances -> 0..made]
  /\ timeoutCnt \in [Instances -> 0..MaxTimeouts]
  /\ fresh \subseteq 1..made /\ running \subseteq (1..made) \ fresh
  /\ pc \in [Actors -> Places]
  /\ on \in [Actors -> Instances \cup {NoInstance}]
  /\ dialed \in [Actors -> 0..made]
  /\ failed \in [Actors -> BOOLEAN] /\ giveUp \in BOOLEAN
  /\ watched \in Instances \cup {NoInstance}
  /\ mainPc \in MainPlaces /\ crashed \in BOOLEAN
  /\ listed \subseteq Names /\ cleaned \subseteq Names
  /\ calls \in 0..MaxCalls
  /\ forgotten \subseteq 1..made /\ late \subseteq 0..made
  /\ overwritten \subseteq given

(* An AddPlugin has not put the instance of the client in the registry yet.*)
Unpublished(k) == \E a \in Callers : pc[a] = "exchange" /\ client[on[a]] = k

(* How a process gets out of reach.  All four are real: of two StartPlugins*)
(* of one plugin that both saw it stopped, or one and the monitor's, the   *)
(* second setClient forgets a client that has launched its process, or may *)
(* yet; a kill forgets a client that a call has read and launches after it;*)
(* and of two AddPlugins of one name that both found it free the second    *)
(* overwrites the instance of the first.                                   *)
Lost(k) == k \in forgotten \/ \E i \in overwritten : client[i] = k

(* A running plugin process is within reach, or got out of it in one of    *)
(* these ways: it is the client of an instance in the registry, where      *)
(* StopPlugin, the monitor and Stop find it, or an AddPlugin will put it   *)
(* there or kill it.                                                       *)
WithinReach ==
  \A k \in running :
    Lost(k) \/ Unpublished(k) \/ \E i \in registry : client[i] = k

(* No plugin process outlives a Stop, also when the monitor restarts a     *)
(* plugin or another stop is at work on it while Stop cleans it up.  The   *)
(* exceptions are real: one that got out of reach, one that StartPlugin,   *)
(* AddPlugin or the monitor brought in after Stop had begun, and that of an*)
(* AddPlugin which is still exchanging versions.                           *)
NoneOutlivesStop ==
  mainPc \in {"wait", "shutdown", "done"} =>
    \A k \in running : Lost(k) \/ k \in late \/ Unpublished(k)

ProcessesHeld == WithinReach /\ NoneOutlivesStop

=============================================================================
