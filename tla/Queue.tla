------------------------------- MODULE Queue -------------------------------
(***************************************************************************)
(* The frame queue of src/queue/queue.go and the loop in which every user  *)
(* of a queue reads it (src/queue/manager.go:52-78, the forwarder of a     *)
(* source, and the streaming RPCs of src/plugins/service.go).              *)
(*                                                                         *)
(* A queue is a bounded slice, a map of listeners and one mutex.  Push     *)
(* appends a frame and, STILL HOLDING THE MUTEX, sends "length + 1" on the *)
(* Signal channel of each listener; a channel has room for SignalCap       *)
(* values and a send on a full one blocks.  A consumer receives a signal   *)
(* n + 1 and then calls Pop n times; Pop and unsub need the mutex.         *)
(*                                                                         *)
(* Grain: the critical sections of Pop, Subscribe and unsub are one step   *)
(* each, because they do not block once they hold the mutex.  Push is one  *)
(* step to lock and append, one step per listener (in any order: it ranges *)
(* over a Go map), and one step to install the new listener map and unlock.*)
(***************************************************************************)
EXTENDS Naturals, Sequences, SequencesExt

CONSTANTS
  Pushers,      \* Goroutines that call Push.
  Subscribers,  \* Consumers; each one subscribes under a name of its own.
  NoPusher,     \* Stands for "the mutex is free".
  Limit,        \* q.limit: 10 for a source, 20 for a listener.
  SignalCap,    \* Capacity of a Signal channel: 2 in the code.
  MaxPushes     \* Bound of the model: how many frames are pushed in all.

ASSUME LimitAssumption == Limit \in Nat \ {0}
ASSUME SignalCapAssumption == SignalCap \in Nat \ {0}
ASSUME MaxPushesAssumption == MaxPushes \in Nat
ASSUME NoPusherAssumption == NoPusher \notin Pushers

VARIABLES
  queue,        \* q.queue: numbers of the frames held, oldest first.
  listeners,    \* The names in q.listeners.
  isConnected,  \* QueueListener.IsConnected, by name.
  signal,       \* The values buffered in QueueListener.Signal, by name.
  closed,       \* Whether that channel was closed, by name.
  lock,         \* Who holds the mutex between two steps: a pusher or nobody.
  toNotify,     \* Listeners the holder's loop has still to visit.
  kept,         \* newListenerMap of the holder.
  pc,           \* Where each consumer is in its loop.
  todo,         \* How many more times it calls Pop before the next select.
  quit,         \* Whether it was told to stop (quitChan, stream.Context()).
  pushed,       \* History: frames pushed so far; a frame's number is its rank.
  taken,        \* History: frames that some Pop returned.
  since         \* History: value of pushed when a consumer subscribed.

pushVars == <<lock, toNotify, kept>>
listenerVars == <<listeners, isConnected, signal, closed>>
consumerVars == <<pc, todo, quit, since>>
frameVars == <<queue, pushed, taken>>
vars == <<frameVars, listenerVars, pushVars, consumerVars>>

(***************************************************************************)
(* "out": not subscribed.  "select": waiting for a signal or for the order *)
(* to stop.  "pop": serving a signal.  "leave": about to call unsub.       *)
(***************************************************************************)
Places == {"out", "select", "pop", "leave"}

Init ==
  /\ queue = << >> /\ pushed = 0 /\ taken = {}
  /\ listeners = {}
  /\ isConnected = [s \in Subscribers |-> FALSE]
  /\ signal = [s \in Subscribers |-> << >>]
  /\ closed = [s \in Subscribers |-> FALSE]
  /\ lock = NoPusher /\ toNotify = {} /\ kept = {}
  /\ pc = [s \in Subscribers |-> "out"]
  /\ todo = [s \in Subscribers |-> 0]
  /\ quit = [s \in Subscribers |-> FALSE]
  /\ since = [s \in Subscribers |-> 0]

Unlocked == lock = NoPusher

Full(s) == Len(signal[s]) >= SignalCap

-----------------------------------------------------------------------------
(***************************************************************************)
(* Push.                                                                   *)
(***************************************************************************)

(* Faulty variants, each the slip one could make in the definition that    *)
(* follows: the properties below must tell them from the real one.         *)
TrimmedOneLate == IF Len(queue) > Limit THEN Tail(queue) ELSE queue

TrimmedNewest == IF Len(queue) = Limit THEN Front(queue) ELSE queue

(* The slice before the append: a full one loses its oldest frame.         *)
Trimmed == IF Len(queue) = Limit THEN Tail(queue) ELSE queue

PushBegin(p) ==
  /\ Unlocked
  /\ pushed < MaxPushes
  /\ lock' = p
  /\ pushed' = pushed + 1
  /\ queue' = Append(Trimmed, pushed + 1)
  /\ toNotify' = listeners
  /\ kept' = {}
  /\ UNCHANGED <<taken, listenerVars, consumerVars>>

(* Faulty: a send that gives up when the channel is full.                  *)
SendUnlessFull(p, s) ==
  /\ lock = p
  /\ s \in toNotify /\ isConnected[s]
  /\ signal' = [signal EXCEPT ![s] = IF Full(s) THEN @ ELSE Append(@, Len(queue) + 1)]
  /\ toNotify' = toNotify \ {s}
  /\ kept' = kept \cup {s}
  /\ UNCHANGED <<frameVars, listeners, isConnected, closed, lock, consumerVars>>

(* l.Signal <- len(q.queue) + 1, which blocks while the channel is full.   *)
Send(p, s) ==
  /\ lock = p
  /\ s \in toNotify /\ isConnected[s]
  /\ ~Full(s)
  /\ signal' = [signal EXCEPT ![s] = Append(@, Len(queue) + 1)]
  /\ toNotify' = toNotify \ {s}
  /\ kept' = kept \cup {s}
  /\ UNCHANGED <<frameVars, listeners, isConnected, closed, lock, consumerVars>>

(* A listener that unsubscribed since the last Push: its channel is closed *)
(* and it is not copied to the new map.                                    *)
DropListener(p, s) ==
  /\ lock = p
  /\ s \in toNotify /\ ~isConnected[s]
  /\ closed' = [closed EXCEPT ![s] = TRUE]
  /\ toNotify' = toNotify \ {s}
  /\ UNCHANGED <<frameVars, listeners, isConnected, signal, lock, kept,
                 consumerVars>>

(* Faulty: the old listener map is left in place.                          *)
PushEndOldMap(p) ==
  /\ lock = p
  /\ toNotify = {}
  /\ kept' = {}
  /\ lock' = NoPusher
  /\ UNCHANGED <<frameVars, listeners, isConnected, signal, closed, toNotify,
                 consumerVars>>

PushEnd(p) ==
  /\ lock = p
  /\ toNotify = {}
  /\ listeners' = kept
  /\ kept' = {}
  /\ lock' = NoPusher
  /\ UNCHANGED <<frameVars, isConnected, signal, closed, toNotify, consumerVars>>

-----------------------------------------------------------------------------
(***************************************************************************)
(* The consumer.                                                           *)
(***************************************************************************)

(* Subscribe under a name that is not in the map.  While the map still     *)
(* holds the name, from unsub to the end of the next Push, Subscribe       *)
(* returns ErrAlreadySubscribed and changes nothing.                       *)
Subscribe(s) ==
  /\ Unlocked
  /\ pc[s] = "out"
  /\ s \notin listeners
  /\ listeners' = listeners \cup {s}
  /\ isConnected' = [isConnected EXCEPT ![s] = TRUE]
  /\ signal' = [signal EXCEPT ![s] = << >>]
  /\ closed' = [closed EXCEPT ![s] = FALSE]
  /\ pc' = [pc EXCEPT ![s] = "select"]
  /\ since' = [since EXCEPT ![s] = pushed]
  /\ UNCHANGED <<frameVars, pushVars, todo, quit>>

(* case qLength := <-sigChan.  A closed, drained channel yields 0, which   *)
(* ends the loop.                                                          *)
Receive(s) ==
  LET qLength == IF signal[s] # << >> THEN Head(signal[s]) ELSE 0
  IN  /\ pc[s] = "select"
      /\ signal[s] # << >> \/ closed[s]
      /\ signal' = [signal EXCEPT ![s] = IF @ # << >> THEN Tail(@) ELSE @]
      /\ pc' = [pc EXCEPT ![s] = IF qLength = 0 THEN "leave" ELSE "pop"]
      /\ todo' = [todo EXCEPT ![s] = IF qLength = 0 THEN 0 ELSE qLength - 1]
      /\ UNCHANGED <<frameVars, listeners, isConnected, closed, pushVars, quit,
                     since>>

(* Faulty: the frame is returned and left in the slice.                    *)
PopFrameKept ==
  /\ queue' = queue
  /\ taken' = IF queue # << >> THEN taken \cup {Head(queue)} ELSE taken
  /\ UNCHANGED pushed

(* The frame that Pop removes; with an empty slice it returns nil.         *)
PopFrame ==
  /\ queue' = IF queue # << >> THEN Tail(queue) ELSE queue
  /\ taken' = IF queue # << >> THEN taken \cup {Head(queue)} ELSE taken
  /\ UNCHANGED pushed

(* Faulty: Pop without the mutex.                                          *)
PopUnlocked(s) ==
  /\ pc[s] = "pop"
  /\ PopFrame
  /\ todo' = [todo EXCEPT ![s] = @ - 1]
  /\ pc' = [pc EXCEPT ![s] = IF todo[s] = 1 THEN "select" ELSE "pop"]
  /\ UNCHANGED <<listenerVars, pushVars, quit, since>>

(* One turn of the inner loop: Pop, then pass the frame on.                *)
Pop(s) ==
  /\ pc[s] = "pop"
  /\ Unlocked
  /\ PopFrame
  /\ todo' = [todo EXCEPT ![s] = @ - 1]
  /\ pc' = [pc EXCEPT ![s] = IF todo[s] = 1 THEN "select" ELSE "pop"]
  /\ UNCHANGED <<listenerVars, pushVars, quit, since>>

(* stream.Send(update) fails: the RPC returns with signals unserved.       *)
PopSendFails(s) ==
  /\ pc[s] = "pop"
  /\ Unlocked
  /\ queue # << >>
  /\ PopFrame
  /\ todo' = [todo EXCEPT ![s] = 0]
  /\ pc' = [pc EXCEPT ![s] = "leave"]
  /\ UNCHANGED <<listenerVars, pushVars, quit, since>>

(* Somebody closes quitChan or the client goes away, at any time.          *)
Quit(s) ==
  /\ pc[s] \in {"select", "pop"}
  /\ ~quit[s]
  /\ quit' = [quit EXCEPT ![s] = TRUE]
  /\ UNCHANGED <<frameVars, listenerVars, pushVars, pc, todo, since>>

(* The other case of the select, chosen at random when both are ready.     *)
SelectQuit(s) ==
  /\ pc[s] = "select"
  /\ quit[s]
  /\ pc' = [pc EXCEPT ![s] = "leave"]
  /\ UNCHANGED <<frameVars, listenerVars, pushVars, todo, quit, since>>

(* Faulty: the listener is not marked.                                     *)
UnsubUnmarked(s) ==
  /\ pc[s] = "leave"
  /\ Unlocked
  /\ pc' = [pc EXCEPT ![s] = "out"]
  /\ quit' = [quit EXCEPT ![s] = FALSE]
  /\ UNCHANGED <<frameVars, listenerVars, pushVars, todo, since>>

(* The deferred unsub: the listener stays in the map, marked.              *)
Unsub(s) ==
  /\ pc[s] = "leave"
  /\ Unlocked
  /\ isConnected' = [isConnected EXCEPT ![s] = FALSE]
  /\ pc' = [pc EXCEPT ![s] = "out"]
  /\ quit' = [quit EXCEPT ![s] = FALSE]
  /\ UNCHANGED <<frameVars, listeners, signal, closed, pushVars, todo, since>>

-----------------------------------------------------------------------------
PusherStep(p) ==
  \/ PushBegin(p)
  \/ \E s \in Subscribers : Send(p, s) \/ DropListener(p, s)
  \/ PushEnd(p)

ConsumerStep(s) ==
  \/ Subscribe(s) \/ Receive(s) \/ Pop(s) \/ PopSendFails(s)
  \/ Quit(s) \/ SelectQuit(s) \/ Unsub(s)

Next ==
  \/ \E p \in Pushers : PusherStep(p)
  \/ \E s \in Subscribers : ConsumerStep(s)

Spec == Init /\ [][Next]_vars

(***************************************************************************)
(* Goroutines are scheduled: a Push that has begun continues while it is   *)
(* not blocked, a consumer serves what it can.  The mutex is starvation    *)
(* free and select chooses at random, hence strong fairness where a step   *)
(* competes for either.  Nobody has to push, subscribe or order a stop.    *)
(***************************************************************************)
Fairness ==
  /\ \A p \in Pushers, s \in Subscribers :
        WF_vars(Send(p, s)) /\ WF_vars(DropListener(p, s))
  /\ \A p \in Pushers : WF_vars(PushEnd(p))
  /\ \A s \in Subscribers :
        /\ WF_vars(Receive(s))
        /\ SF_vars(Pop(s)) /\ SF_vars(SelectQuit(s)) /\ SF_vars(Unsub(s))

FairSpec == Spec /\ Fairness

-----------------------------------------------------------------------------
(***************************************************************************)
(* Properties.                                                             *)
(***************************************************************************)

(* Type invariant.  The slice never exceeds the limit Push trims it to, and*)
(* no channel holds more than its capacity.                                *)
TypeOK ==
  /\ queue \in Seq(Nat) /\ Len(queue) <= Limit
  /\ pushed \in Nat /\ taken \subseteq Nat
  /\ listeners \subseteq Subscribers
  /\ isConnected \in [Subscribers -> BOOLEAN]
  /\ signal \in [Subscribers -> Seq(Nat)]
  /\ \A s \in Subscribers : Len(signal[s]) <= SignalCap
  /\ closed \in [Subscribers -> BOOLEAN]
  /\ lock \in Pushers \cup {NoPusher}
  /\ toNotify \subseteq Subscribers /\ kept \subseteq Subscribers
  /\ pc \in [Subscribers -> Places]
  /\ todo \in [Subscribers -> Nat]
  /\ quit \in [Subscribers -> BOOLEAN]
  /\ since \in [Subscribers -> Nat]

Active(s) == pc[s] \in {"select", "pop", "leave"}

(* Whether a Push since its subscription has already visited s.            *)
Notified(s) == pushed > since[s] /\ s \notin toNotify

(* The frames held are the newest ones pushed, in the order of the pushes, *)
(* and every frame that some Pop returned is older than all of them: Pop   *)
(* returns frames in order, and never one frame twice, whatever the        *)
(* interleaving of the pushers and of the consumers.                       *)
FramesInOrder ==
  /\ \A i \in 1..Len(queue) : queue[i] = pushed - Len(queue) + i
  /\ \A f \in taken : f + Len(queue) <= pushed

(* No frame is stranded: the newest signal a consumer has not served yet,  *)
(* or else the Pops it still owes, cover everything in the queue.  So a    *)
(* consumer that waits in its select with an empty channel left no frame   *)
(* behind, although Push signals lengths and not frames, although other    *)
(* consumers pop the same queue and although Push drops frames.            *)
Covered(s) ==
  IF signal[s] # << >> THEN Last(signal[s]) > Len(queue)
                       ELSE todo[s] >= Len(queue)

NoStrandedFrame ==
  \A s \in Subscribers :
    pc[s] \in {"select", "pop"} /\ Notified(s) => Covered(s)

(* Push never sends on, and never closes, a closed channel (both panic):   *)
(* a channel it may still reach is open, and the channel of an active      *)
(* consumer is never closed under it, so no consumer ever receives the 0   *)
(* that its loop tests for.                                                *)
ReachableChannelsOpen ==
  /\ \A s \in Subscribers : Active(s) => ~closed[s]
  /\ \A s \in IF Unlocked THEN listeners ELSE toNotify \cup kept : ~closed[s]

(* unsub writes q.listeners[name].IsConnected without looking whether the  *)
(* name is there; it always is: no Push removes the listener of a consumer *)
(* that has not called unsub.                                              *)
UnsubFindsListener ==
  \A s \in Subscribers :
    Active(s) => /\ s \in listeners /\ isConnected[s]
                 /\ ~Unlocked => s \in toNotify \cup kept

(* The listener map and the channels stay sound: both of the above.        *)
ListenersSound == ReachableChannelsOpen /\ UnsubFindsListener

(* The queue implements the bounded FIFO that drops its oldest frame.      *)
Fifo == INSTANCE LossyFifo WITH held <- queue, produced <- pushed

ImplementsFifo == Fifo!FifoSpec

(* The jam: a Push blocks on the full channel of a consumer that needs the *)
(* mutex, which the Push holds, before it can receive again.               *)
Jammed ==
  \E s \in toNotify : isConnected[s] /\ Full(s) /\ pc[s] \in {"pop", "leave"}

(* A jam is for ever: no step of anybody gets the two out of it.           *)
JamIsForever == [][Jammed => Jammed']_vars

(* A consumer told to stop does stop, unless the queue is jammed.          *)
QuitEndsOrJams ==
  \A s \in Subscribers : quit[s] ~> (pc[s] = "out" \/ Jammed)

(* A Push that has begun returns, unless the queue is jammed.              *)
PushEndsOrJams == ~Unlocked ~> (Unlocked \/ Jammed)

(* Frames pushed under the eyes of a consumer that stays are all removed   *)
(* once the pushes pause, unless the queue is jammed.                      *)
DrainedOrJams ==
  \A s \in Subscribers :
    pc[s] \in {"select", "pop"} /\ Notified(s)
      ~> (queue = << >> \/ pc[s] \in {"leave", "out"} \/ Jammed)

(* Stopping a consumer and pushing a frame end and what was pushed is read,*)
(* or the queue is jammed.                                                 *)
EndsOrJams == QuitEndsOrJams /\ PushEndsOrJams /\ DrainedOrJams

(* What the comment of Pop says, src/queue/queue.go:34: "Pop returns the   *)
(* first item in the queue".  A consumer calls Pop only because a signal   *)
(* told it to, so the item is there.                                       *)
PopReturnsItem == \A s \in Subscribers : pc[s] = "pop" /\ Unlocked => queue # << >>
=============================================================================
