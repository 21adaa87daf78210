---------------------------- MODULE QueueManager ----------------------------
(***************************************************************************)
(* The queue manager of src/queue/manager.go and those who register with   *)
(* it: AddPlugin, through createPluginInstance, registers a source; the    *)
(* RPCs Subscribe and Command register listeners (src/plugins/service.go); *)
(* PluginManager.Stop deregisters the sources and shuts the manager down.  *)
(*                                                                         *)
(* One plugin name is modelled: incoming stands for the entries of the     *)
(* maps incomingQueues, quitChans and wgs under it, which are written      *)
(* together, outgoing for the inner map outgoingQueues[name].  Adders race *)
(* to add a plugin of that name, clients to listen to it.                  *)
(*                                                                         *)
(* Grain: the code looks maps up without the mutex and takes it to write,  *)
(* so these are steps of their own.  Of a source's and of a listener's     *)
(* queue we keep the number of frames and the signals, because a Push that *)
(* waits for room in the Signal channel keeps the queue's mutex, and the   *)
(* consumer needs that mutex for every Pop and to unsubscribe.  Which      *)
(* frame is popped is the business of module Queue.  (A nil that a         *)
(* forwarder pops and passes on ends as badly as the nil a client pops by  *)
(* itself.)                                                                *)
(***************************************************************************)
EXTENDS Naturals, Sequences, FiniteSets

CONSTANTS
  Adders,       \* Calls of AddPlugin for one plugin name.
  Clients,      \* Calls of Subscribe or Command, and the loops of "all".
  Loops,        \* The clients that are subscribeDataLoops.
  Nobody,       \* No adder and no client.
  SourceLimit,  \* defaultSrcQueueSize: 10 in the code.
  Limit,        \* defaultLisQueueSize: 20 in the code.
  SignalCap,    \* Capacity of a Signal channel: 2 in the code.
  MaxLoad       \* Bound of the model: calls that begin and frames recorded in all.

ASSUME NobodyAssumption == Nobody \notin Adders \cup Clients
ASSUME LoopsAssumption == Loops \subseteq Clients
ASSUME BoundsAssumption ==
  /\ SourceLimit \in Nat \ {0} /\ Limit \in Nat \ {0} /\ SignalCap \in Nat \ {0}
  /\ MaxLoad \in Nat

VARIABLES
  incoming,     \* Whose queue, quit channel and WaitGroup are in the maps.
  registry,     \* Whose instance is in the plugin registry.
  adder,        \* Where each AddPlugin is.
  quitClosed,   \* Whether the quit channel an adder made is closed.
  srcHeld,      \* How many frames the queue of each source holds.
  srcSignal,    \* The values in the Signal channel of its forwarder.
  recording,    \* Whether a Push into it waits for room there, mutex held.
  forwarder,    \* Where the goroutine of each source is.
  srcTodo,      \* How often it calls Pop before the next select.
  due,          \* The listeners its range loop has still to visit.
  blocked,      \* The listener whose full channel it waits on, mutex held.
  hasInner,     \* Whether outgoingQueues has a map under the name.
  outgoing,     \* The listeners in that map.
  client,       \* Where each client is.
  held,         \* How many frames its queue holds.
  signal,       \* The values in its Signal channel.
  listening,    \* Its entry in its queue's map of listeners.
  todo,         \* How often it calls Pop before the next select.
  stop,         \* Where PluginManager.Stop is.
  awaited,      \* Whose forwarder it waits for.
  crashed,      \* The process has panicked, or Go saw concurrent map access.
  frames,       \* History: frames pushed by the plugins' recorders.
  late,         \* History: forwarders started after Stop had begun.
  displaced     \* History: entries that another registration overwrote.

sourceVars == <<incoming, registry, adder>>
srcQueueVars == <<srcHeld, srcSignal, recording>>
forwarderVars == <<quitClosed, srcQueueVars, forwarder, srcTodo, due, blocked>>
mapVars == <<hasInner, outgoing>>
queueVars == <<held, signal, listening>>
clientVars == <<client, todo>>
histVars == <<frames, late, displaced>>
stopVars == <<stop, awaited>>
vars == <<sourceVars, forwarderVars, mapVars, queueVars, clientVars, stopVars,
          crashed, histVars>>

AdderPlaces == {"new", "source", "write", "go", "version", "added", "refused",
                "failed"}
ForwarderPlaces == {"none", "select", "pop", "push", "unsub", "done"}
ClientPlaces == {"idle", "makeMap", "register", "subscribe", "select",
                 "pop", "stalled", "unsub", "lock", "remove", "gone"}
StopPlaces == {"run", "cleanUp", "wait", "shutdown", "waitAll", "done"}

Init ==
  /\ incoming = Nobody /\ registry = Nobody
  /\ adder = [a \in Adders |-> "new"]
  /\ quitClosed = [a \in Adders |-> FALSE]
  /\ srcHeld = [a \in Adders |-> 0]
  /\ srcSignal = [a \in Adders |-> << >>]
  /\ recording = [a \in Adders |-> FALSE]
  /\ forwarder = [a \in Adders |-> "none"]
  /\ srcTodo = [a \in Adders |-> 0]
  /\ due = [a \in Adders |-> {}]
  /\ blocked = [a \in Adders |-> Nobody]
  /\ hasInner = FALSE /\ outgoing = {}
  /\ client = [c \in Clients |-> "idle"]
  /\ held = [c \in Clients |-> 0]
  /\ signal = [c \in Clients |-> << >>]
  /\ listening = [c \in Clients |-> "no"]
  /\ todo = [c \in Clients |-> 0]
  /\ stop = "run" /\ awaited = Nobody /\ crashed = FALSE
  /\ frames = 0 /\ late = {} /\ displaced = {}

(* The load: AddPlugins and clients that have begun weigh 2, frames 1.     *)
Load ==
  2 * Cardinality({a \in Adders : adder[a] # "new"})
    + 2 * Cardinality({c \in Clients : client[c] # "idle"}) + frames

(* Only deregister holds the manager's mutex from one step to the next.    *)
MutexFree == stop # "wait"

Running(a) == forwarder[a] \in {"select", "pop", "push", "unsub"}

-----------------------------------------------------------------------------
(***************************************************************************)
(* AddPlugin and RegisterSource.                                           *)
(***************************************************************************)
AdderGoes(a, from, to) == adder[a] = from /\ adder' = [adder EXCEPT ![a] = to]

AddPlugin(a) ==
  /\ Load + 2 <= MaxLoad
  /\ AdderGoes(a, "new", IF registry = Nobody THEN "source" ELSE "refused")
  /\ UNCHANGED <<incoming, registry, forwarderVars, mapVars, queueVars,
                 clientVars, stopVars, crashed, histVars>>

(* The look-up in incomingQueues, before the mutex is taken.               *)
LookSource(a) ==
  /\ AdderGoes(a, "source", IF incoming = Nobody THEN "write" ELSE "refused")
  /\ UNCHANGED <<incoming, registry, forwarderVars, mapVars, queueVars,
                 clientVars, stopVars, crashed, histVars>>

RegisterSource(a) ==
  /\ AdderGoes(a, "write", "go")
  /\ MutexFree
  /\ incoming' = a
  /\ displaced' = displaced \cup ({incoming} \ {Nobody})
  /\ UNCHANGED <<registry, forwarderVars, mapVars, queueVars, clientVars, stopVars,
                 crashed, frames, late>>

(* wg.Add(1) and the go statement; the goroutine subscribes to its queue.  *)
StartForwarder(a) ==
  /\ AdderGoes(a, "go", "version")
  /\ forwarder' = [forwarder EXCEPT ![a] = "select"]
  /\ late' = IF stop = "run" THEN late ELSE late \cup {a}
  /\ UNCHANGED <<incoming, registry, quitClosed, srcQueueVars, srcTodo, due, blocked,
                 mapVars, queueVars, clientVars, stopVars, crashed, frames, displaced>>

(* pushVersion and getVersion succeed and the instance is published.       *)
Publish(a) ==
  /\ AdderGoes(a, "version", "added")
  /\ registry' = a
  /\ UNCHANGED <<incoming, forwarderVars, mapVars, queueVars, clientVars, stopVars,
                 crashed, histVars>>

(* One of them fails: the instance is killed, its source stays registered. *)
VersionFails(a) ==
  /\ AdderGoes(a, "version", "failed")
  /\ UNCHANGED <<incoming, registry, forwarderVars, mapVars, queueVars,
                 clientVars, stopVars, crashed, histVars>>

-----------------------------------------------------------------------------
(***************************************************************************)
(* The queue of a source: a recorder of the plugin pushes into it.         *)
(***************************************************************************)

SourceFull(a) == Len(srcSignal[a]) >= SignalCap

(* outgoingQueue.Push(frame) of a plugin that came into the registry.  With*)
(* a full Signal channel it blocks after the append, mutex held.  (Frames  *)
(* pushed once the forwarder has unsubscribed go nowhere and are left out.)*)
Record(a) ==
  /\ adder[a] = "added" /\ Running(a)
  /\ ~recording[a]
  /\ Load < MaxLoad
  /\ frames' = frames + 1
  /\ srcHeld' = [srcHeld EXCEPT ![a] = IF @ = SourceLimit THEN @ ELSE @ + 1]
  /\ IF SourceFull(a)
       THEN recording' = [recording EXCEPT ![a] = TRUE] /\ UNCHANGED srcSignal
       ELSE /\ srcSignal' = [srcSignal EXCEPT ![a] = Append(@, srcHeld'[a] + 1)]
            /\ UNCHANGED recording
  /\ UNCHANGED <<sourceVars, quitClosed, forwarder, srcTodo, due, blocked, mapVars,
                 queueVars, clientVars, stopVars, crashed, late, displaced>>

(* The forwarder received a signal: the blocked send goes through.         *)
RecordEnds(a) ==
  /\ recording[a]
  /\ ~SourceFull(a)
  /\ srcSignal' = [srcSignal EXCEPT ![a] = Append(@, srcHeld[a] + 1)]
  /\ recording' = [recording EXCEPT ![a] = FALSE]
  /\ UNCHANGED <<sourceVars, quitClosed, srcHeld, forwarder, srcTodo, due, blocked,
                 mapVars, queueVars, clientVars, stopVars, crashed, histVars>>

-----------------------------------------------------------------------------
(***************************************************************************)
(* The forwarder of a source.                                              *)
(***************************************************************************)
ForwarderGoes(a, from, to) ==
  forwarder[a] = from /\ forwarder' = [forwarder EXCEPT ![a] = to]

ReceiveSource(a) ==
  /\ ForwarderGoes(a, "select", "pop")
  /\ srcSignal[a] # << >>
  /\ srcTodo' = [srcTodo EXCEPT ![a] = Head(srcSignal[a]) - 1]
  /\ srcSignal' = [srcSignal EXCEPT ![a] = Tail(@)]
  /\ UNCHANGED <<sourceVars, quitClosed, srcHeld, recording, due, blocked, mapVars,
                 queueVars, clientVars, stopVars, crashed, histVars>>

(* newQ.Pop(), for which the mutex of the source's queue must be free; then*)
(* it begins to range over the listeners, no mutex held.                   *)
TakeFrame(a) ==
  /\ ForwarderGoes(a, "pop", "push")
  /\ ~recording[a]
  /\ srcHeld' = [srcHeld EXCEPT ![a] = IF @ = 0 THEN 0 ELSE @ - 1]
  /\ due' = [due EXCEPT ![a] = outgoing]
  /\ UNCHANGED <<sourceVars, quitClosed, srcSignal, recording, srcTodo, blocked, mapVars,
                 queueVars, clientVars, stopVars, crashed, histVars>>

(* Nobody is inside a Push of c's queue.                                   *)
QueueFree(c) == \A a \in Adders : blocked[a] # c

Full(c) == Len(signal[c]) >= SignalCap

(* Faulty variant: nothing is dropped.                                     *)
AppendedAlways(c) == held[c] + 1

(* A full queue drops its oldest frame.                                    *)
Appended(c) == IF held[c] = Limit THEN Limit ELSE held[c] + 1

(* outQ.Push(frame): see module Queue.  With a full Signal channel it      *)
(* blocks after the append.                                                *)
PushTo(a, c) ==
  /\ forwarder[a] = "push" /\ blocked[a] = Nobody
  /\ c \in due[a] /\ QueueFree(c)
  /\ due' = [due EXCEPT ![a] = @ \ {c}]
  /\ held' = [held EXCEPT ![c] = Appended(c)]
  /\ IF listening[c] = "yes" /\ Full(c)
       THEN blocked' = [blocked EXCEPT ![a] = c] /\ UNCHANGED <<signal, listening>>
       ELSE /\ signal' = IF listening[c] = "yes"
                           THEN [signal EXCEPT ![c] = Append(@, held'[c] + 1)]
                           ELSE signal
            /\ listening' = IF listening[c] = "marked"
                              THEN [listening EXCEPT ![c] = "no"] ELSE listening
            /\ UNCHANGED blocked
  /\ UNCHANGED <<sourceVars, quitClosed, srcQueueVars, forwarder, srcTodo, mapVars,
                 clientVars, stopVars, crashed, histVars>>

(* The listener received a signal: the blocked send goes through.          *)
Unblock(a) ==
  LET c == blocked[a]
  IN  /\ c # Nobody
      /\ ~Full(c)
      /\ signal' = [signal EXCEPT ![c] = Append(@, held[c] + 1)]
      /\ blocked' = [blocked EXCEPT ![a] = Nobody]
      /\ UNCHANGED <<sourceVars, quitClosed, srcQueueVars, forwarder, srcTodo, due, mapVars,
                     held, listening, clientVars, stopVars, crashed, histVars>>

(* The frame is with every listener; the next Pop of the signal, if any.   *)
PushesEnd(a) ==
  /\ ForwarderGoes(a, "push", IF srcTodo[a] = 1 THEN "select" ELSE "pop")
  /\ blocked[a] = Nobody
  /\ due[a] = {}
  /\ srcTodo' = [srcTodo EXCEPT ![a] = @ - 1]
  /\ UNCHANGED <<sourceVars, quitClosed, srcQueueVars, due, blocked, mapVars, queueVars,
                 clientVars, stopVars, crashed, histVars>>

ForwarderQuits(a) ==
  /\ ForwarderGoes(a, "select", "unsub")
  /\ quitClosed[a]
  /\ UNCHANGED <<sourceVars, quitClosed, srcQueueVars, srcTodo, due, blocked, mapVars,
                 queueVars, clientVars, stopVars, crashed, histVars>>

(* The deferred unsub() takes the queue's mutex; then the deferred         *)
(* wg.Done(), for which Stop waits.                                        *)
UnsubSource(a) ==
  /\ ForwarderGoes(a, "unsub", "done")
  /\ ~recording[a]
  /\ UNCHANGED <<sourceVars, quitClosed, srcQueueVars, srcTodo, due, blocked, mapVars,
                 queueVars, clientVars, stopVars, crashed, histVars>>

-----------------------------------------------------------------------------
(***************************************************************************)
(* RegisterListener and the loop in which a client reads its queue.        *)
(***************************************************************************)
ClientGoes(c, from, to) == client[c] = from /\ client' = [client EXCEPT ![c] = to]

(* The look-ups in the registry and, without the mutex, in outgoingQueues: *)
(* is there a map under the name?  (The subscriber's name is random, so it *)
(* is not in that map.)                                                    *)
Open(c) ==
  /\ ClientGoes(c, "idle", IF hasInner THEN "register" ELSE "makeMap")
  /\ Load + 2 <= MaxLoad
  /\ registry # Nobody
  /\ UNCHANGED <<sourceVars, forwarderVars, mapVars, queueVars, todo, stopVars,
                 crashed, histVars>>

(* A new, empty map under the name, still without the mutex.               *)
MakeMap(c) ==
  /\ ClientGoes(c, "makeMap", "register")
  /\ hasInner' = TRUE /\ outgoing' = {}
  /\ displaced' = displaced \cup outgoing
  /\ UNCHANGED <<sourceVars, forwarderVars, queueVars, todo, stopVars, crashed, frames,
                 late>>

(* A forwarder that ranges over the map meanwhile may visit the new entry  *)
(* or not: such are the rules of Go for range.                             *)
RegisterListener(c) ==
  /\ ClientGoes(c, "register", "subscribe")
  /\ MutexFree
  /\ outgoing' = outgoing \cup {c}
  /\ \E seen \in SUBSET {a \in Adders : forwarder[a] = "push"} :
       due' = [a \in Adders |-> IF a \in seen THEN due[a] \cup {c} ELSE due[a]]
  /\ UNCHANGED <<sourceVars, quitClosed, srcQueueVars, forwarder, srcTodo, blocked,
                 hasInner, queueVars, todo, stopVars, crashed, histVars>>

SubscribeQueue(c) ==
  /\ ClientGoes(c, "subscribe", "select")
  /\ QueueFree(c)
  /\ listening' = [listening EXCEPT ![c] = "yes"]
  /\ UNCHANGED <<sourceVars, forwarderVars, mapVars, held, signal, todo, stopVars,
                 crashed, histVars>>

Receive(c) ==
  /\ ClientGoes(c, "select", "pop")
  /\ signal[c] # << >>
  /\ todo' = [todo EXCEPT ![c] = Head(signal[c]) - 1]
  /\ signal' = [signal EXCEPT ![c] = Tail(@)]
  /\ UNCHANGED <<sourceVars, forwarderVars, mapVars, held, listening, stopVars,
                 crashed, histVars>>

(* Pop returns nil when the queue is empty.                                *)
Empty(c) == held[c] = 0

Pop(c, next) ==
  /\ ClientGoes(c, "pop", next)
  /\ QueueFree(c)
  /\ held' = [held EXCEPT ![c] = IF @ = 0 THEN 0 ELSE @ - 1]
  /\ todo' = [todo EXCEPT ![c] = IF next = "pop" THEN @ - 1 ELSE 0]
  /\ UNCHANGED <<sourceVars, forwarderVars, mapVars, signal, listening, stopVars,
                 histVars>>

(* stream.Send(frame), or dataQ.Push(frame) in a loop, returns.            *)
PassOn(c) ==
  /\ c \in Loops \/ ~Empty(c)
  /\ Pop(c, IF todo[c] = 1 THEN "select" ELSE "pop")
  /\ UNCHANGED crashed

(* stream.Send does not return, for the client does not read its stream;   *)
(* dataQ.Push does not, for the handler of "all" does not.                 *)
Stall(c) ==
  /\ c \in Loops \/ ~Empty(c)
  /\ Pop(c, "stalled")
  /\ UNCHANGED crashed

(* stream.Send fails, or the frame is the plugin's EOF.                    *)
EndStream(c) ==
  /\ c \notin Loops /\ ~Empty(c)
  /\ Pop(c, "unsub")
  /\ UNCHANGED crashed

(* frame.Type with frame = nil: the handler panics, and the daemon with it.*)
PopNil(c) ==
  /\ c \notin Loops /\ Empty(c)
  /\ Pop(c, "pop")
  /\ crashed' = TRUE

(* The stream's context is done, or the loop's quit channel closed.  A     *)
(* stalled Send returns with an error then.                                *)
Leave(c) ==
  /\ client[c] \in {"select", "stalled"}
  /\ client' = [client EXCEPT ![c] = "unsub"]
  /\ UNCHANGED <<sourceVars, forwarderVars, mapVars, queueVars, todo, stopVars, crashed,
                 histVars>>

Unsub(c) ==
  /\ ClientGoes(c, "unsub", "lock")
  /\ QueueFree(c)
  /\ listening' = [listening EXCEPT ![c] = "marked"]
  /\ UNCHANGED <<sourceVars, forwarderVars, mapVars, held, signal, todo, stopVars,
                 crashed, histVars>>

(* deregister takes the mutex and, for want of a defer, releases it.       *)
LockUnlock(c) ==
  /\ ClientGoes(c, "lock", "remove")
  /\ MutexFree
  /\ UNCHANGED <<sourceVars, forwarderVars, mapVars, queueVars, todo, stopVars,
                 crashed, histVars>>

(* The delete: a forwarder in its range loop does not visit it any more.   *)
Remove(c) ==
  /\ ClientGoes(c, "remove", "gone")
  /\ outgoing' = outgoing \ {c}
  /\ due' = [a \in Adders |-> IF c \in outgoing THEN due[a] \ {c} ELSE due[a]]
  /\ UNCHANGED <<sourceVars, quitClosed, srcQueueVars, forwarder, srcTodo, blocked,
                 hasInner, queueVars, todo, stopVars, crashed, histVars>>

-----------------------------------------------------------------------------
(***************************************************************************)
(* PluginManager.Stop, as far as the queue manager goes.                   *)
(***************************************************************************)

(* Its range loop takes the instance in the registry, if there is one.     *)
StopBegins ==
  /\ stop = "run"
  /\ awaited' = registry
  /\ stop' = IF registry = Nobody THEN "shutdown" ELSE "cleanUp"
  /\ UNCHANGED <<sourceVars, forwarderVars, mapVars, queueVars, clientVars, crashed,
                 histVars>>

CloseQuit(a) == quitClosed' = [quitClosed EXCEPT ![a] = TRUE]

(* Faulty variant: nobody tells the forwarder to stop.                     *)
CleanUpNoClose ==
  /\ stop = "cleanUp"
  /\ stop' = "wait"
  /\ UNCHANGED <<sourceVars, forwarderVars, mapVars, queueVars, clientVars, awaited,
                 crashed, histVars>>

(* deregister of that instance: it closes the quit channel that is in the  *)
(* map now, which need not be the one its source was made with.            *)
CleanUp ==
  /\ stop = "cleanUp"
  /\ CloseQuit(incoming)
  /\ stop' = "wait"
  /\ UNCHANGED <<sourceVars, srcQueueVars, forwarder, srcTodo, due, blocked, mapVars,
                 queueVars, clientVars, awaited, crashed, histVars>>

(* wg.Wait() for its own forwarder, with the mutex; then the deletes.      *)
Deregistered ==
  /\ stop = "wait"
  /\ ~Running(awaited)
  /\ incoming' = Nobody
  /\ stop' = "shutdown"
  /\ UNCHANGED <<registry, adder, forwarderVars, mapVars, queueVars, clientVars,
                 awaited, crashed, histVars>>

(* Faulty variant: sources that never came into the registry are left.     *)
ShutdownNothing ==
  /\ stop = "shutdown"
  /\ stop' = "done"
  /\ UNCHANGED <<sourceVars, forwarderVars, mapVars, queueVars, clientVars, awaited, crashed,
                 histVars>>

(* Shutdown closes the quit channels that are left and waits for each.     *)
Shutdown ==
  /\ stop = "shutdown"
  /\ awaited' = incoming
  /\ IF incoming = Nobody THEN stop' = "done" /\ UNCHANGED quitClosed
                          ELSE stop' = "waitAll" /\ CloseQuit(incoming)
  /\ UNCHANGED <<sourceVars, srcQueueVars, forwarder, srcTodo, due, blocked, mapVars,
                 queueVars, clientVars, crashed, histVars>>

ShutdownEnds ==
  /\ stop = "waitAll"
  /\ ~Running(awaited)
  /\ stop' = "done"
  /\ UNCHANGED <<sourceVars, forwarderVars, mapVars, queueVars, clientVars,
                 awaited, crashed, histVars>>

-----------------------------------------------------------------------------
(***************************************************************************)
(* Go ends the process when it sees a map written while it is read or      *)
(* written elsewhere.  It need not see it, so this is a possible step.     *)
(***************************************************************************)
WritesMap(c) ==
  \/ client[c] \in {"makeMap", "remove"}
  \/ client[c] = "register" /\ MutexFree

ListenerRace ==
  \E c \in Clients :
    /\ WritesMap(c)
    /\ \/ \E a \in Adders : forwarder[a] = "push"
       \/ \E d \in Clients \ {c} : client[d] \in {"makeMap", "remove"}

SourceRace ==
  \E a \in Adders :
    \/ /\ adder[a] = "write" /\ MutexFree
       /\ stop = "shutdown" \/ \E b \in Adders \ {a} : adder[b] = "source"
    \/ /\ adder[a] = "version"
       /\ \/ stop \in {"cleanUp", "wait"}
          \/ \E b \in Adders \ {a} : adder[b] \in {"new", "version"}

MapRace ==
  /\ ListenerRace \/ SourceRace
  /\ crashed' = TRUE
  /\ UNCHANGED <<sourceVars, forwarderVars, mapVars, queueVars, clientVars,
                 stopVars, histVars>>

-----------------------------------------------------------------------------
(* What goes on in an AddPlugin, then in the Push of its plugin's recorder.*)
AdderStep(a) ==
  \/ LookSource(a) \/ RegisterSource(a) \/ StartForwarder(a)
  \/ Publish(a) \/ VersionFails(a) \/ RecordEnds(a)

ForwarderStep(a) ==
  \/ ReceiveSource(a) \/ TakeFrame(a)
  \/ \E c \in Clients : PushTo(a, c)
  \/ Unblock(a) \/ PushesEnd(a) \/ ForwarderQuits(a) \/ UnsubSource(a)

ClientStep(c) ==
  \/ MakeMap(c) \/ RegisterListener(c) \/ SubscribeQueue(c)
  \/ Receive(c) \/ PassOn(c) \/ EndStream(c) \/ PopNil(c)
  \/ Unsub(c) \/ LockUnlock(c) \/ Remove(c)

StopStep ==
  CleanUp \/ Deregistered \/ Shutdown \/ ShutdownEnds

Next ==
  /\ ~crashed
  /\ \/ \E a \in Adders :
          AddPlugin(a) \/ AdderStep(a) \/ Record(a) \/ ForwarderStep(a)
     \/ \E c \in Clients : Open(c) \/ ClientStep(c) \/ Stall(c) \/ Leave(c)
     \/ StopBegins \/ StopStep
     \/ MapRace

Spec == Init /\ [][Next]_vars

(* Goroutines are scheduled and the version exchange has a timeout.  Nobody*)
(* need call, record frames, go away or stop reading.                     *)
Fairness ==
  /\ \A a \in Adders :
       WF_vars(~crashed /\ AdderStep(a)) /\ WF_vars(~crashed /\ ForwarderStep(a))
  /\ \A c \in Clients : WF_vars(~crashed /\ ClientStep(c))
  /\ WF_vars(~crashed /\ StopStep)

FairSpec == Spec /\ Fairness

-----------------------------------------------------------------------------
(***************************************************************************)
(* Properties.                                                             *)
(***************************************************************************)

(* Type invariant; queues and channels stay within their capacities.       *)
TypeOK ==
  /\ incoming \in Adders \cup {Nobody} /\ registry \in Adders \cup {Nobody}
  /\ adder \in [Adders -> AdderPlaces]
  /\ quitClosed \in [Adders -> BOOLEAN]
  /\ srcHeld \in [Adders -> 0..SourceLimit]
  /\ srcSignal \in [Adders -> Seq(Nat)]
  /\ \A a \in Adders : Len(srcSignal[a]) <= SignalCap
  /\ recording \in [Adders -> BOOLEAN]
  /\ forwarder \in [Adders -> ForwarderPlaces]
  /\ srcTodo \in [Adders -> Nat]
  /\ due \in [Adders -> SUBSET Clients]
  /\ blocked \in [Adders -> Clients \cup {Nobody}]
  /\ hasInner \in BOOLEAN /\ outgoing \subseteq Clients
  /\ client \in [Clients -> ClientPlaces]
  /\ held \in [Clients -> 0..Limit]
  /\ signal \in [Clients -> Seq(Nat)]
  /\ \A c \in Clients : Len(signal[c]) <= SignalCap
  /\ listening \in [Clients -> {"no", "yes", "marked"}]
  /\ todo \in [Clients -> Nat]
  /\ stop \in StopPlaces /\ awaited \in Adders \cup {Nobody}
  /\ crashed \in BOOLEAN /\ frames \in Nat
  /\ late \subseteq Adders /\ displaced \subseteq Adders \cup Clients

(* Once Stop has returned no forwarder runs, also not that of a source     *)
(* whose plugin failed its version exchange and never was in the registry. *)
(* The exceptions are real: a source that another of the same name has     *)
(* displaced from the maps, and one whose forwarder starts during Stop.    *)
StoppedUnlessRaced ==
  stop = "done" =>
    \A a \in Adders : Running(a) => a \in displaced \cup late

(* The listeners in the map are the clients at work: a forwarder pushes to *)
(* all of them and to no queue that was given up, although they come and   *)
(* go without the mutex.  Only a client whose first look-up raced another's*)
(* is displaced, and never gets a frame.                                   *)
AtWork(c) ==
  client[c] \in {"subscribe", "select", "pop", "stalled", "unsub", "lock", "remove"}

ListenersTracked ==
  /\ \A c \in outgoing : AtWork(c)
  /\ \A c \in Clients : AtWork(c) => c \in outgoing \cup displaced

(* What the maps hold is right, unless registrations under one name raced. *)
MapsHold == StoppedUnlessRaced /\ ListenersTracked

(* A forwarder waits in Push for a client that needs the queue's mutex,    *)
(* which the Push holds; or for one that does not read.                    *)
Jammed(a) == blocked[a] # Nobody /\ client[blocked[a]] \in {"pop", "unsub"} /\ Full(blocked[a])
Stalled(a) == blocked[a] # Nobody /\ client[blocked[a]] = "stalled" /\ Full(blocked[a])

(* A recorder waits in Push for the forwarder, which needs the mutex of the*)
(* source's queue, which the Push holds, to Pop or to unsubscribe.         *)
SourceJammed(a) == recording[a] /\ SourceFull(a) /\ forwarder[a] \in {"pop", "unsub"}

(* The forwarder has yet to visit a queue in which another one is stuck.   *)
HeldUp(a) ==
  /\ forwarder[a] = "push"
  /\ \E b \in Adders : (Jammed(b) \/ Stalled(b)) /\ blocked[b] \in due[a]

Stuck(a) == Jammed(a) \/ Stalled(a) \/ SourceJammed(a) \/ HeldUp(a)

(* deregister waits for the forwarder of an instance after it has closed   *)
(* the quit channel of another, with the manager's mutex.                  *)
Crossed == stop = "wait" /\ awaited # incoming

(* The forwarder that Stop waits for is stuck.                             *)
StopStuck == stop \in {"wait", "waitAll"} /\ Stuck(awaited)

(* PluginManager.Stop returns, whatever frames, clients and AddPlugins     *)
(* come, unless the forwarder it waits for is stuck, or two plugins of one *)
(* name were added at the same time, or the process has crashed.           *)
StopEndsUnlessStuck ==
  stop # "run" ~> stop = "done" \/ crashed \/ Crossed \/ StopStuck

(* A client that leaves gets out of its handler, unless a forwarder is     *)
(* blocked in a Push into this client's own full queue, or a Stop that is  *)
(* crossed or stuck holds the manager's mutex.                             *)
ClientEndsUnlessStuck ==
  \A c \in Clients :
    client[c] = "unsub" ~>
      \/ client[c] = "gone" \/ crashed
      \/ \E a \in Adders : blocked[a] = c /\ Jammed(a)
      \/ stop = "wait" /\ (Crossed \/ StopStuck)
=============================================================================
