------------------------------ MODULE StateFeed ------------------------------
(***************************************************************************)
(* The feed of plugin states: the setters of src/plugins/instance.go with  *)
(* updateListeners, subscribeState, and in src/plugins/service.go the      *)
(* handler SubscribePluginState with one subscribeStateLoop per plugin.    *)
(*                                                                         *)
(* A setter holds the instance's mutex while it sends the new state on the *)
(* channel of every listener, one at a time, and waits when one is full.   *)
(* A loop reads its channel and pushes what it reads on the queue of its   *)
(* handler.  That queue is a gux.Queue, which is external: it is taken to  *)
(* be a bounded FIFO that drops its oldest update, whose Push returns, and *)
(* which announces what it holds at each Push, as queue.Queue does.        *)
(* Getters, subscribeState and unsub hold the mutex for one step.          *)
(*                                                                         *)
(* Each subscriber makes one call: its names are random, never used twice. *)
(***************************************************************************)
EXTENDS Integers, Sequences, FiniteSets

CONSTANTS
  Plugins,      \* Names a plugin may have.
  States,       \* PluginState.
  Ready,        \* The state getVersion leaves, before anybody can subscribe.
  Subscribers,  \* Calls of SubscribePluginState.
  SignalCap,    \* Capacity of StateListener.Signal, 2 in the code.
  OneSize,      \* defaultQueueSize.
  AllSize,      \* allQueueSize.
  MaxSets       \* Bound of the model: how often a state is set in all.

ASSUME SignalCapAssumption == SignalCap \in Nat \ {0}
ASSUME SizeAssumption == OneSize \in Nat \ {0} /\ AllSize \in Nat \ {0}
ASSUME PluginsAssumption == IsFiniteSet(Plugins)
ASSUME ReadyAssumption == Ready \in States
ASSUME MaxSetsAssumption == MaxSets \in Nat

None == "none"
ASSUME NoneAssumption == None \notin States

(* What a loop does next: "push" pushes lastState, "select" waits.         *)
LoopPlaces == {"none", "subscribe", "getState", "push", "select", "unsub", "ended"}

(* A handler has not been called, has started its loops, streams, waits    *)
(* for its loops (cleanUp of "all"), or has returned.                      *)
HandlerPlaces == {"idle", "opening", "streaming", "waiting", "returned"}

VARIABLES
  registry,     \* The names in pluginRegistry; nothing is added here.
  state,        \* PluginInstance.state.
  listeners,    \* PluginInstance.listeners: the names in the map.
  isConnected,  \* StateListener.IsConnected.
  signal,       \* StateListener.Signal: what the channel holds.
  closed,       \* Whether that channel is closed.
  setting,      \* Whether a setter holds the instance's mutex.
  toNotify,     \* The listeners updateListeners has not visited yet.
  loop,         \* Where each subscribeStateLoop is.
  lastState,    \* Its lastState.
  handler,      \* Where each handler is.
  all,          \* Whether it was called with "all".
  quit,         \* Its quitChans are closed.
  wg,           \* The counter of its WaitGroup.
  stateQ,       \* Its queue of updates.
  told,         \* Whether the queue has announced an update to it.
  view,         \* What its client was told last of each plugin.
  sets          \* History: how often a state was set.

instVars == <<state, listeners, isConnected, signal, closed, setting, toNotify, sets>>
loopVars == <<loop, lastState>>
handlerVars == <<handler, all, quit, wg, view>>
queueVars == <<stateQ, told>>
vars == <<registry, instVars, loopVars, handlerVars, queueVars>>

Each(x) == [p \in Plugins |-> [s \in Subscribers |-> x]]

Init ==
  /\ registry \in SUBSET Plugins
  /\ state = [p \in Plugins |-> Ready]
  /\ listeners = [p \in Plugins |-> {}]
  /\ isConnected = Each(FALSE) /\ signal = Each(<< >>) /\ closed = Each(FALSE)
  /\ setting = [p \in Plugins |-> FALSE]
  /\ toNotify = [p \in Plugins |-> {}]
  /\ loop = Each("none") /\ lastState = Each(None)
  /\ handler = [s \in Subscribers |-> "idle"]
  /\ all = [s \in Subscribers |-> FALSE]
  /\ quit = [s \in Subscribers |-> FALSE]
  /\ wg = [s \in Subscribers |-> 0]
  /\ stateQ = [s \in Subscribers |-> << >>]
  /\ told = [s \in Subscribers |-> FALSE]
  /\ view = [s \in Subscribers |-> [p \in Plugins |-> None]]
  /\ sets = 0

Full(p, s) == Len(signal[p][s]) >= SignalCap

-----------------------------------------------------------------------------
(***************************************************************************)
(* The setters: setReady, setBusy, setStopping, setStopped, setUnknown,    *)
(* setUnresponsive and setKilled.                                          *)
(***************************************************************************)

SetBegin(p, st) ==
  /\ p \in registry /\ ~setting[p]
  /\ sets < MaxSets
  /\ sets' = sets + 1
  /\ setting' = [setting EXCEPT ![p] = TRUE]
  /\ state' = [state EXCEPT ![p] = st]
  /\ toNotify' = [toNotify EXCEPT ![p] = listeners[p]]
  /\ UNCHANGED <<registry, listeners, isConnected, signal, closed, loopVars,
                 handlerVars, queueVars>>

(* Faulty variants: a full channel is not waited for; it is passed over;   *)
(* a listener that left stays in the map.                                  *)
SetSendUnbounded(p, s) ==
  /\ s \in toNotify[p] /\ isConnected[p][s]
  /\ signal' = [signal EXCEPT ![p][s] = Append(@, state[p])]
  /\ toNotify' = [toNotify EXCEPT ![p] = @ \ {s}]
  /\ UNCHANGED <<registry, state, listeners, isConnected, closed, setting, sets,
                 loopVars, handlerVars, queueVars>>

SetSendUnlessFull(p, s) ==
  /\ s \in toNotify[p] /\ isConnected[p][s]
  /\ signal' = IF Full(p, s) THEN signal
               ELSE [signal EXCEPT ![p][s] = Append(@, state[p])]
  /\ toNotify' = [toNotify EXCEPT ![p] = @ \ {s}]
  /\ UNCHANGED <<registry, state, listeners, isConnected, closed, setting, sets,
                 loopVars, handlerVars, queueVars>>

SetDropKeeps(p, s) ==
  /\ s \in toNotify[p] /\ ~isConnected[p][s]
  /\ closed' = [closed EXCEPT ![p][s] = TRUE]
  /\ toNotify' = [toNotify EXCEPT ![p] = @ \ {s}]
  /\ UNCHANGED <<registry, state, listeners, isConnected, signal, setting, sets,
                 loopVars, handlerVars, queueVars>>

(* l.Signal <- newState, with the mutex held; waits while it is full.      *)
SetSend(p, s) ==
  /\ s \in toNotify[p] /\ isConnected[p][s]
  /\ ~Full(p, s)
  /\ signal' = [signal EXCEPT ![p][s] = Append(@, state[p])]
  /\ toNotify' = [toNotify EXCEPT ![p] = @ \ {s}]
  /\ UNCHANGED <<registry, state, listeners, isConnected, closed, setting, sets,
                 loopVars, handlerVars, queueVars>>

(* A listener that has left is closed and not taken over into the new map. *)
SetDrop(p, s) ==
  /\ s \in toNotify[p] /\ ~isConnected[p][s]
  /\ closed' = [closed EXCEPT ![p][s] = TRUE]
  /\ listeners' = [listeners EXCEPT ![p] = @ \ {s}]
  /\ toNotify' = [toNotify EXCEPT ![p] = @ \ {s}]
  /\ UNCHANGED <<registry, state, isConnected, signal, setting, sets, loopVars,
                 handlerVars, queueVars>>

SetEnd(p) ==
  /\ setting[p] /\ toNotify[p] = {}
  /\ setting' = [setting EXCEPT ![p] = FALSE]
  /\ UNCHANGED <<registry, state, listeners, isConnected, signal, closed, toNotify,
                 sets, loopVars, handlerVars, queueVars>>

-----------------------------------------------------------------------------
(***************************************************************************)
(* subscribeStateLoop.                                                     *)
(***************************************************************************)

LoopSubscribe(p, s) ==
  /\ loop[p][s] = "subscribe" /\ ~setting[p]
  /\ listeners' = [listeners EXCEPT ![p] = @ \cup {s}]
  /\ isConnected' = [isConnected EXCEPT ![p][s] = TRUE]
  /\ loop' = [loop EXCEPT ![p][s] = "getState"]
  /\ UNCHANGED <<registry, state, signal, closed, setting, toNotify, sets, lastState,
                 handlerVars, queueVars>>

(* Faulty variant: the state at the subscription is not pushed.            *)
LoopGetStateOnly(p, s) ==
  /\ loop[p][s] = "getState" /\ ~setting[p]
  /\ lastState' = [lastState EXCEPT ![p][s] = state[p]]
  /\ loop' = [loop EXCEPT ![p][s] = "select"]
  /\ UNCHANGED <<registry, instVars, handlerVars, queueVars>>

(* lastState := instance.getState(), which needs the mutex.                *)
LoopGetState(p, s) ==
  /\ loop[p][s] = "getState" /\ ~setting[p]
  /\ lastState' = [lastState EXCEPT ![p][s] = state[p]]
  /\ loop' = [loop EXCEPT ![p][s] = "push"]
  /\ UNCHANGED <<registry, instVars, handlerVars, queueVars>>

(* The queue of the handler after a Push.                                  *)
Pushed(q, size, u) == IF Len(q) = size THEN Append(Tail(q), u) ELSE Append(q, u)

(* stateQ.Push, which announces what the queue holds to a handler that has *)
(* subscribed to it.                                                       *)
LoopPush(p, s) ==
  /\ loop[p][s] = "push"
  /\ stateQ' = [stateQ EXCEPT ![s] =
       Pushed(@, IF all[s] THEN AllSize ELSE OneSize,
              [name |-> p, state |-> lastState[p][s]])]
  /\ told' = [told EXCEPT ![s] = @ \/ handler[s] = "streaming"]
  /\ loop' = [loop EXCEPT ![p][s] = "select"]
  /\ UNCHANGED <<registry, instVars, lastState, handlerVars>>

(* A state that is the last one again is passed over.                      *)
LoopReceive(p, s) ==
  /\ loop[p][s] = "select" /\ signal[p][s] # << >>
  /\ signal' = [signal EXCEPT ![p][s] = Tail(@)]
  /\ lastState' = [lastState EXCEPT ![p][s] = Head(signal[p][s])]
  /\ loop' = [loop EXCEPT ![p][s] =
       IF Head(signal[p][s]) = lastState[p][s] THEN "select" ELSE "push"]
  /\ UNCHANGED <<registry, state, listeners, isConnected, closed, setting, toNotify,
                 sets, handlerVars, queueVars>>

LoopQuit(p, s) ==
  /\ loop[p][s] = "select" /\ quit[s]
  /\ loop' = [loop EXCEPT ![p][s] = "unsub"]
  /\ UNCHANGED <<registry, instVars, lastState, handlerVars, queueVars>>

(* Faulty variants: unsub without the mutex; unsub forgotten.              *)
LoopUnsubUnlocked(p, s) ==
  /\ loop[p][s] = "unsub"
  /\ isConnected' = [isConnected EXCEPT ![p][s] = FALSE]
  /\ loop' = [loop EXCEPT ![p][s] = "ended"]
  /\ UNCHANGED <<registry, state, listeners, signal, closed, setting, toNotify, sets,
                 lastState, handlerVars, queueVars>>

LoopUnsubForgotten(p, s) ==
  /\ loop[p][s] = "unsub"
  /\ loop' = [loop EXCEPT ![p][s] = "ended"]
  /\ UNCHANGED <<registry, instVars, lastState, handlerVars, queueVars>>

(* The deferred unsub and wg.Done.  The WaitGroup was passed by value, so  *)
(* Done counts down a copy and the handler's own counter stays as it is.   *)
LoopUnsub(p, s) ==
  /\ loop[p][s] = "unsub" /\ ~setting[p]
  /\ isConnected' = [isConnected EXCEPT ![p][s] = FALSE]
  /\ loop' = [loop EXCEPT ![p][s] = "ended"]
  /\ UNCHANGED <<registry, state, listeners, signal, closed, setting, toNotify, sets,
                 lastState, handlerVars, queueVars>>

-----------------------------------------------------------------------------
(***************************************************************************)
(* SubscribePluginState.                                                   *)
(***************************************************************************)

(* A call for the plugins of names, all of them or one: a loop for each is *)
(* started before the handler subscribes to its queue.                     *)
Open(s, names, forAll) ==
  /\ handler[s] = "idle"
  /\ handler' = [handler EXCEPT ![s] = "opening"]
  /\ all' = [all EXCEPT ![s] = forAll]
  /\ wg' = [wg EXCEPT ![s] = Cardinality(names)]
  /\ loop' = [p \in Plugins |->
       IF p \in names THEN [loop[p] EXCEPT ![s] = "subscribe"] ELSE loop[p]]
  /\ UNCHANGED <<registry, instVars, lastState, quit, queueVars, view>>

OpenAll(s) == Open(s, registry, TRUE)

OpenOne(s, p) == p \in registry /\ Open(s, {p}, FALSE)

(* stateQ.Subscribe, which announces nothing of what is there already.     *)
HandlerSubscribe(s) ==
  /\ handler[s] = "opening"
  /\ handler' = [handler EXCEPT ![s] = "streaming"]
  /\ UNCHANGED <<registry, instVars, loopVars, all, quit, wg, view, queueVars>>

(* A Pop and a stream.Send that succeeds.                                  *)
Forward(s) ==
  /\ handler[s] = "streaming" /\ told[s] /\ stateQ[s] # << >>
  /\ view' = [view EXCEPT ![s][Head(stateQ[s]).name] = Head(stateQ[s]).state]
  /\ stateQ' = [stateQ EXCEPT ![s] = Tail(@)]
  /\ UNCHANGED <<registry, instVars, loopVars, handler, all, quit, wg, told>>

(* The client is gone.  Leaving closes the quit channels, after which the  *)
(* handler of "all" waits for its WaitGroup.                               *)
Leave(s) ==
  /\ handler[s] = "streaming"
  /\ handler' = [handler EXCEPT ![s] = IF all[s] THEN "waiting" ELSE "returned"]
  /\ quit' = [quit EXCEPT ![s] = TRUE]
  /\ UNCHANGED <<registry, instVars, loopVars, all, wg, view, queueVars>>

WaitReturns(s) ==
  /\ handler[s] = "waiting" /\ wg[s] = 0
  /\ handler' = [handler EXCEPT ![s] = "returned"]
  /\ UNCHANGED <<registry, instVars, loopVars, all, quit, wg, view, queueVars>>

-----------------------------------------------------------------------------
SetterStep(p) ==
  (\E s \in Subscribers : SetSend(p, s) \/ SetDrop(p, s)) \/ SetEnd(p)

LoopRuns(p, s) == LoopPush(p, s) \/ LoopReceive(p, s)

LoopLocks(p, s) == LoopSubscribe(p, s) \/ LoopGetState(p, s) \/ LoopUnsub(p, s)

HandlerStep(s) == HandlerSubscribe(s) \/ Forward(s) \/ WaitReturns(s)

Next ==
  \/ \E p \in Plugins : SetterStep(p) \/ \E st \in States : SetBegin(p, st)
  \/ \E p \in Plugins, s \in Subscribers :
       LoopRuns(p, s) \/ LoopLocks(p, s) \/ LoopQuit(p, s) \/ OpenOne(s, p)
  \/ \E s \in Subscribers : OpenAll(s) \/ HandlerStep(s) \/ Leave(s)

Spec == Init /\ [][Next]_vars

(* Goroutines that can run do.  No client need call or leave.  Since sets  *)
(* are bounded, mutex and select are contended only finitely often, and    *)
(* weak fairness is enough for what they grant.                            *)
Fairness ==
  /\ \A p \in Plugins : WF_vars(SetterStep(p))
  /\ \A p \in Plugins, s \in Subscribers :
       WF_vars(LoopRuns(p, s)) /\ WF_vars(LoopLocks(p, s)) /\ WF_vars(LoopQuit(p, s))
  /\ \A s \in Subscribers : WF_vars(HandlerStep(s))

FairSpec == Spec /\ Fairness

-----------------------------------------------------------------------------
(***************************************************************************)
(* Properties.                                                             *)
(***************************************************************************)

Updates == [name : Plugins, state : States]

(* Type invariant; no channel and no queue exceeds its capacity, and only  *)
(* a setter has listeners to notify.                                       *)
TypeOK ==
  /\ registry \subseteq Plugins
  /\ state \in [Plugins -> States]
  /\ listeners \in [Plugins -> SUBSET Subscribers]
  /\ isConnected \in [Plugins -> [Subscribers -> BOOLEAN]]
  /\ signal \in [Plugins -> [Subscribers -> Seq(States)]]
  /\ \A p \in Plugins, s \in Subscribers : Len(signal[p][s]) <= SignalCap
  /\ closed \in [Plugins -> [Subscribers -> BOOLEAN]]
  /\ setting \in [Plugins -> BOOLEAN]
  /\ toNotify \in [Plugins -> SUBSET Subscribers]
  /\ \A p \in Plugins : toNotify[p] # {} => setting[p]
  /\ loop \in [Plugins -> [Subscribers -> LoopPlaces]]
  /\ lastState \in [Plugins -> [Subscribers -> States \cup {None}]]
  /\ handler \in [Subscribers -> HandlerPlaces]
  /\ all \in [Subscribers -> BOOLEAN]
  /\ quit \in [Subscribers -> BOOLEAN]
  /\ wg \in [Subscribers -> Int]
  /\ stateQ \in [Subscribers -> Seq(Updates)]
  /\ \A s \in Subscribers : Len(stateQ[s]) <= IF all[s] THEN AllSize ELSE OneSize
  /\ told \in [Subscribers -> BOOLEAN]
  /\ view \in [Subscribers -> [Plugins -> States \cup {None}]]
  /\ sets \in Nat

Active(p, s) == loop[p][s] \in {"getState", "push", "select", "unsub"}

(* What a loop that has read the state will say last, if nothing else is   *)
(* set: the newest state in its channel, or else lastState.                *)
Newest(p, s) ==
  IF signal[p][s] # << >> THEN signal[p][s][Len(signal[p][s])] ELSE lastState[p][s]

(* A feed never rests on an old state: what its channel holds ends with    *)
(* the present state, or else the state it said last is the present one,   *)
(* although the loop subscribes, reads the state and starts to listen in   *)
(* three steps, with setters running between them, and although it may say *)
(* a state that has passed after a later one.                              *)
FeedIsCurrent ==
  \A p \in Plugins, s \in Subscribers :
    loop[p][s] \in {"push", "select"} /\ s \notin toNotify[p]
      => Newest(p, s) = state[p]

(* A client of one plugin that has been sent everything knows the present  *)
(* state: the update its queue drops is never the newest.                  *)
ClientIsCurrent ==
  \A p \in Plugins, s \in Subscribers :
    /\ handler[s] = "streaming" /\ ~all[s] /\ stateQ[s] = << >>
    /\ loop[p][s] = "select" /\ signal[p][s] = << >> /\ s \notin toNotify[p]
    => view[s][p] = state[p]

(* updateListeners never sends on, and never closes, a closed channel      *)
(* (both panic), and the channel of a loop is not closed under it, which   *)
(* would give it the zero state, READY, for ever.                          *)
ReachableChannelsOpen ==
  \A p \in Plugins, s \in Subscribers :
    /\ Active(p, s) => ~closed[p][s]
    /\ s \in toNotify[p] => ~closed[p][s]
    /\ s \in listeners[p] /\ ~setting[p] => ~closed[p][s]

(* unsub writes i.listeners[name].IsConnected without looking whether the  *)
(* name is there; it always is.                                            *)
UnsubFindsListener ==
  \A p \in Plugins, s \in Subscribers :
    Active(p, s) => s \in listeners[p] /\ isConnected[p][s]

(* The listener map and the channels stay sound: both of the above.        *)
ListenersSound == ReachableChannelsOpen /\ UnsubFindsListener

(* The jam: a setter waits on the full channel of a loop that needs the    *)
(* mutex, which the setter holds, before it can receive (or ever will).    *)
Jammed(p) ==
  \E s \in toNotify[p] :
    isConnected[p][s] /\ Full(p, s) /\ loop[p][s] \in {"getState", "unsub"}

(* A jam is for ever: the plugin's state cannot be read or set again, so   *)
(* the monitor, which reads it, stops for all plugins.                     *)
JamIsForever == [][\A p \in Plugins : Jammed(p) => Jammed(p)']_vars

(* The handler of "all" never gets out of wg.Wait once it has started a    *)
(* loop, because the loops count down copies of its WaitGroup.             *)
WaitIsForever ==
  [][\A s \in Subscribers :
       handler[s] = "waiting" /\ registry # {} => handler'[s] = "waiting"]_vars

(* Neither the jam nor the wait ever ends.                                 *)
StuckIsForever == JamIsForever /\ WaitIsForever

(* A setter returns, unless the plugin is jammed.                          *)
SetEndsOrJams == \A p \in Plugins : setting[p] ~> (~setting[p] \/ Jammed(p))

(* The loops of a client that left end, unless their plugin is jammed.     *)
LoopEndsOrJams ==
  \A p \in Plugins, s \in Subscribers :
    handler[s] \in {"waiting", "returned"} ~> (~Active(p, s) \/ Jammed(p))

(* Setters return and loops end, or the plugin is jammed.                  *)
EndsOrJams == SetEndsOrJams /\ LoopEndsOrJams

(* A client that stays hears the present state again and again, unless the *)
(* plugin is jammed, once its queue has announced an update; the one it    *)
(* held before its handler subscribed is announced with the next only.     *)
ClientHearsOrJams ==
  \A p \in Plugins, s \in Subscribers :
    (handler[s] = "streaming" /\ ~all[s] /\ loop[p][s] # "none" /\ told[s])
      ~> (view[s][p] = state[p] \/ handler[s] # "streaming" \/ Jammed(p))
=============================================================================
