--------------------------- MODULE PluginInstance ---------------------------
(***************************************************************************)
(* One plugin of laniakea: the PluginInstance of src/plugins/instance.go,  *)
(* the RPCs of src/plugins/service.go that act on it, and the monitor that *)
(* restarts it when it stops answering.                                    *)
(*                                                                         *)
(* Several goroutines act on the instance at once: the handlers of RPCs    *)
(* (Callers), the monitor, and the goroutines these leave behind, which    *)
(* wait for the plugin process and outlive the call that started them.     *)
(* Each field has its getter and setter under the instance's mutex, and    *)
(* NOTHING holds the mutex from a check to the action it guards; so a step *)
(* here is one getter or one setter.                                       *)
(*                                                                         *)
(* The instance starts as createPluginInstance publishes it: both version  *)
(* exchanges have succeeded.  The plugin process is external: it answers,  *)
(* fails, ends its data stream or stays silent as it likes.  A guard that  *)
(* reads the state twice (!= READY && != UNKNOWN) is one read.             *)
(***************************************************************************)
EXTENDS Naturals

CONSTANTS
  Callers,      \* Goroutines that serve RPCs on this plugin.
  Monitor,      \* The goroutine of monitorPlugins.
  MaxTimeouts,  \* cfg.MaxTimeouts.
  MaxCalls      \* Bound of the model: how many RPCs are made in all.

ASSUME MaxTimeoutsAssumption == MaxTimeouts \in Nat
ASSUME MaxCallsAssumption == MaxCalls \in Nat
ASSUME MonitorAssumption == Monitor \notin Callers

Actors == Callers \cup {Monitor}

States == {"READY", "BUSY", "STOPPING", "STOPPED", "UNKNOWN", "UNRESPONSIVE",
           "KILLED"}

Kinds == {"datasource", "controller"}

(* "graceful" is the stopRecord that stop makes by itself.                 *)
Requests == {"startRecord", "stopRecord", "graceful", "command"}

(* The RPCs: StartRecord, StopRecord, Command, StopPlugin, StartPlugin.    *)
RPCs == {"startRecord", "stopRecord", "command", "stop", "start"}

(* The goroutines that nobody waits for (any more), by what they do next:  *)
(*   starting, commanding, stopping   wait for the plugin to answer;       *)
(*   failed      was refused and is about to set the state to UNKNOWN;     *)
(*   started     is about to set the record state;                         *)
(*   recording, commanded   read the data stream with a timer;             *)
(*   blame       is about to set the state to UNRESPONSIVE;                *)
(*   ending      is about to run its deferred setNotRecording.             *)
Phases == {"starting", "commanding", "stopping", "failed", "started", "recording",
           "commanded", "blame", "ending"}

(* Where an actor is, named for what it does next.                         *)
Places ==
  {"idle",
   "checkState", "checkRecord", "checkClient", "setBusy", "dial", "wait",
   "haltState", "haltClient", "haltSet", "haltRecord", "haltGraceful",
   "haltDial", "haltKill", "haltDone",
   "bootState", "bootClient", "bootReady",
   "monCount", "monFail", "monSet", "monKilled", "monBlame"}

VARIABLES
  kind,         \* cfg.Type; never changes.
  state,        \* PluginInstance.state.
  recordState,  \* PluginInstance.recordState = RECORDING.
  client,       \* PluginInstance.client # nil.
  timeoutCnt,   \* PluginInstance.timeoutCnt.
  pc,           \* Where each actor is.
  op,           \* Which request each actor is making, if any.
  answer,       \* What the errChan an actor selects on holds.
  failed,       \* Error of the graceful stopRecord, then of the stop, by actor.
  giveUp,       \* Which branch the monitor took: TRUE for the last timeout.
  jobs,         \* How many goroutines are in each phase.
  panicked,     \* A nil client was dereferenced: the daemon is gone.
  calls         \* History: RPCs made so far.

instVars == <<state, recordState, client, timeoutCnt>>
actorVars == <<pc, op, answer, failed>>
restVars == <<kind, giveUp, panicked, calls>>
vars == <<instVars, actorVars, jobs, restVars>>

Init ==
  /\ kind \in Kinds
  /\ state = "READY" /\ recordState = FALSE /\ client = TRUE /\ timeoutCnt = 0
  /\ pc = [a \in Actors |-> "idle"]
  /\ op = [a \in Actors |-> "stop"]
  /\ answer = [a \in Actors |-> "none"]
  /\ failed = [a \in Actors |-> FALSE]
  /\ giveUp = FALSE
  /\ jobs = [f \in Phases |-> 0]
  /\ panicked = FALSE /\ calls = 0

(* a can take the step it is at, goroutines in phase f can go on: not once *)
(* the daemon has panicked.                                                *)
At(a, q) == pc[a] = q /\ ~panicked

Running(f) == jobs[f] > 0 /\ ~panicked

(* a goes to place q; nothing else about the actors changes.               *)
Goto(a, q) ==
  /\ pc' = [pc EXCEPT ![a] = q]
  /\ UNCHANGED <<op, answer, failed>>

(* a's request or stop returns: the handler is done, stop goes on after    *)
(* its graceful stopRecord, the monitor goes on after its stop.            *)
Return(a, err) ==
  /\ failed' = [failed EXCEPT ![a] = err /\ op[a] = "graceful"]
  /\ pc' = [pc EXCEPT ![a] =
       CASE op[a] = "graceful" -> "haltGraceful"
         [] op[a] # "graceful" /\ a \in Callers -> "idle"
         [] OTHER -> IF err THEN "monFail"
                     ELSE IF giveUp THEN "monKilled" ELSE "bootState"]
  /\ op' = [op EXCEPT ![a] = "stop"]
  /\ answer' = [answer EXCEPT ![a] = "none"]

SetState(st) ==
  /\ state' = st
  /\ UNCHANGED <<recordState, client, timeoutCnt>>

(* One goroutine moves between phases; "none" is the outside.              *)
Move(from, to) ==
  jobs' = [f \in Phases |-> jobs[f] - (IF f = from THEN 1 ELSE 0)
                                    + (IF f = to THEN 1 ELSE 0)]

-----------------------------------------------------------------------------
(***************************************************************************)
(* startRecord, stopRecord and command.                                    *)
(***************************************************************************)

(* An RPC arrives.  StopPlugin begins in stop, StartPlugin in its own code *)
(* (op matters to requests only; elsewhere it is "stop").                  *)
Call(c, o) ==
  /\ At(c, "idle")
  /\ calls < MaxCalls
  /\ calls' = calls + 1
  /\ op' = [op EXCEPT ![c] = IF o = "start" THEN "stop" ELSE o]
  /\ pc' = [pc EXCEPT ![c] = CASE o = "stop"  -> "haltState"
                               [] o = "start" -> "bootState"
                               [] OTHER       -> "checkState"]
  /\ UNCHANGED <<instVars, answer, failed, jobs, kind, giveUp, panicked>>

(* ErrPluginNotReady unless READY or UNKNOWN.                              *)
CheckState(a) ==
  /\ At(a, "checkState")
  /\ IF state \in {"READY", "UNKNOWN"}
     THEN Goto(a, IF op[a] = "command" THEN "checkClient" ELSE "checkRecord")
     ELSE Return(a, TRUE)
  /\ UNCHANGED <<instVars, jobs, restVars>>

(* ErrAlreadyRecording, or ErrAlreadyStoppedRecording.                     *)
CheckRecord(a) ==
  /\ At(a, "checkRecord")
  /\ IF recordState = (op[a] # "startRecord")
     THEN Goto(a, "checkClient")
     ELSE Return(a, TRUE)
  /\ UNCHANGED <<instVars, jobs, restVars>>

(* ErrPluginNotStarted if the client is nil; read without the mutex.       *)
CheckClient(a) ==
  /\ At(a, "checkClient")
  /\ IF client THEN Goto(a, "setBusy") ELSE Return(a, TRUE)
  /\ UNCHANGED <<instVars, jobs, restVars>>

SetBusy(a) ==
  /\ At(a, "setBusy")
  /\ SetState("BUSY")
  /\ Goto(a, "dial")
  /\ UNCHANGED <<jobs, restVars>>

(* Whether the plugin, once dispensed, has the method that is asked for.   *)
RightKind(a) == (op[a] = "command") <=> (kind = "controller")

(* i.client is read again, without the mutex: a nil one panics.            *)
DialNil(a) ==
  /\ At(a, "dial") \/ At(a, "haltDial")
  /\ ~client
  /\ panicked' = TRUE
  /\ UNCHANGED <<instVars, actorVars, jobs, kind, giveUp, calls>>

(* Client, Dispense or the type assertion fails.                           *)
DialFails(a) ==
  /\ At(a, "dial") /\ client
  /\ SetState("UNKNOWN")
  /\ Return(a, TRUE)
  /\ UNCHANGED <<jobs, restVars>>

(* The goroutine is started and its answer awaited.                        *)
Dial(a) ==
  /\ At(a, "dial") /\ client
  /\ RightKind(a)
  /\ pc' = [pc EXCEPT ![a] = "wait"]
  /\ answer' = [answer EXCEPT ![a] = "pending"]
  /\ UNCHANGED <<instVars, op, failed, jobs, restVars>>

(* The phase of the goroutine an actor waits for.                          *)
Waiting(a) ==
  CASE op[a] = "startRecord" -> "starting"
    [] op[a] = "command"     -> "commanding"
    [] OTHER                 -> "stopping"

(* The goroutine of a request gets the plugin's answer.  One that starts a *)
(* stream sends on errChan before it touches the instance, one that stops  *)
(* recording sets the state first; a deserted errChan (answer "none") has  *)
(* room for the value.                                                     *)
PluginAccepts(phase) ==
  CASE phase = "starting"   -> "started"
    [] phase = "commanding" -> "commanded"
    [] OTHER                -> "none"

PluginRefuses(phase) == IF phase = "stopping" THEN "none" ELSE "failed"

(* What the StopRecord goroutine sets; the others set nothing yet.         *)
AfterAnswer(phase, ok) ==
  /\ state' = IF phase = "stopping" /\ ~ok THEN "UNKNOWN" ELSE state
  /\ recordState' = IF phase = "stopping" /\ ok THEN FALSE ELSE recordState
  /\ UNCHANGED <<client, timeoutCnt>>

PluginAnswers(a, ok) ==
  /\ answer[a] = "pending" /\ ~panicked
  /\ answer' = [answer EXCEPT ![a] = IF ok THEN "ok" ELSE "err"]
  /\ Move("none", IF ok THEN PluginAccepts(Waiting(a)) ELSE PluginRefuses(Waiting(a)))
  /\ AfterAnswer(Waiting(a), ok)
  /\ UNCHANGED <<pc, op, failed, restVars>>

(* The same, when the caller has stopped waiting.                          *)
PluginAnswersLate(phase, ok) ==
  /\ Running(phase)
  /\ Move(phase, IF ok THEN PluginAccepts(phase) ELSE PluginRefuses(phase))
  /\ AfterAnswer(phase, ok)
  /\ UNCHANGED <<actorVars, restVars>>

(* Faulty variant: the state stays BUSY after a success.                   *)
GetAnswerBusy(a) ==
  /\ At(a, "wait")
  /\ answer[a] \in {"ok", "err"}
  /\ \/ answer[a] = "ok" /\ UNCHANGED instVars
     \/ answer[a] = "err" /\ Waiting(a) # "stopping" /\ SetState("UNKNOWN")
     \/ answer[a] = "err" /\ Waiting(a) = "stopping" /\ UNCHANGED instVars
  /\ Return(a, answer[a] = "err")
  /\ UNCHANGED <<jobs, restVars>>

(* case err = <-errChan                                                    *)
GetAnswer(a) ==
  /\ At(a, "wait")
  /\ answer[a] \in {"ok", "err"}
  /\ \/ answer[a] = "ok" /\ SetState("READY")
     \/ answer[a] = "err" /\ Waiting(a) # "stopping" /\ SetState("UNKNOWN")
     \/ answer[a] = "err" /\ Waiting(a) = "stopping" /\ UNCHANGED instVars
  /\ Return(a, answer[a] = "err")
  /\ UNCHANGED <<jobs, restVars>>

(* Faulty variant: no timeout while the plugin is silent.                  *)
WaitForEver(a) ==
  /\ At(a, "wait") /\ answer[a] # "pending"
  /\ SetState("UNRESPONSIVE")
  /\ Return(a, TRUE)
  /\ UNCHANGED <<jobs, restVars>>

(* case <-ctx.Done(), after cfg.Timeout seconds or when the client left.   *)
WaitTimesOut(a) ==
  /\ At(a, "wait")
  /\ SetState("UNRESPONSIVE")
  /\ Move("none", IF answer[a] = "pending" THEN Waiting(a) ELSE "none")
  /\ Return(a, TRUE)
  /\ UNCHANGED restVars

-----------------------------------------------------------------------------
(***************************************************************************)
(* stop and kill.                                                          *)
(***************************************************************************)

(* ErrServiceAlreadyStopped.                                               *)
HaltState(a) ==
  /\ At(a, "haltState")
  /\ IF state \in {"STOPPING", "STOPPED", "KILLED"}
     THEN Return(a, TRUE) ELSE Goto(a, "haltClient")
  /\ UNCHANGED <<instVars, jobs, restVars>>

(* ErrPluginNotStarted.                                                    *)
HaltClient(a) ==
  /\ At(a, "haltClient")
  /\ IF client THEN Goto(a, "haltSet") ELSE Return(a, TRUE)
  /\ UNCHANGED <<instVars, jobs, restVars>>

HaltSet(a) ==
  /\ At(a, "haltSet")
  /\ SetState("STOPPING")
  /\ Goto(a, "haltRecord")
  /\ UNCHANGED <<jobs, restVars>>

(* "try to gracefully stop recording if recording": calls stopRecord.      *)
HaltRecord(a) ==
  /\ At(a, "haltRecord")
  /\ IF recordState
     THEN /\ op' = [op EXCEPT ![a] = "graceful"]
          /\ pc' = [pc EXCEPT ![a] = "checkState"]
          /\ UNCHANGED <<answer, failed>>
     ELSE Goto(a, "haltDial")
  /\ UNCHANGED <<instVars, jobs, restVars>>

(* An error makes the state UNKNOWN.  The deadline of an RPC may have      *)
(* passed by now, which makes it UNRESPONSIVE; the monitor has none.       *)
HaltGraceful(a) ==
  /\ At(a, "haltGraceful")
  /\ \/ failed[a] /\ SetState("UNKNOWN")
     \/ ~failed[a] /\ UNCHANGED instVars
     \/ a \in Callers /\ SetState("UNRESPONSIVE")
  /\ Goto(a, "haltDial")
  /\ UNCHANGED <<jobs, restVars>>

(* The plugin's own Stop: it succeeds, fails or times out (err), or there  *)
(* is no connection to send it on (the state becomes UNKNOWN).             *)
HaltDial(a, err) ==
  /\ At(a, "haltDial") /\ client
  /\ \/ UNCHANGED instVars
     \/ err /\ SetState("UNKNOWN")
  /\ failed' = [failed EXCEPT ![a] = err]
  /\ pc' = [pc EXCEPT ![a] = "haltKill"]
  /\ UNCHANGED <<op, answer, jobs, restVars>>

(* kill does nothing the second time.                                      *)
Kill ==
  /\ client' = FALSE
  /\ recordState' = IF client THEN FALSE ELSE recordState
  /\ UNCHANGED <<state, timeoutCnt>>

HaltKill(a) ==
  /\ At(a, "haltKill")
  /\ Kill
  /\ Goto(a, "haltDone")
  /\ UNCHANGED <<jobs, restVars>>

HaltDone(a) ==
  /\ At(a, "haltDone")
  /\ SetState("STOPPED")
  /\ Return(a, failed[a])
  /\ UNCHANGED <<jobs, restVars>>

-----------------------------------------------------------------------------
(***************************************************************************)
(* StartPlugin: a new client for a plugin that is STOPPED or KILLED.       *)
(***************************************************************************)

BootState(a) ==
  /\ At(a, "bootState")
  /\ Goto(a, IF state \in {"STOPPED", "KILLED"} THEN "bootClient"
             ELSE IF a = Monitor THEN "monBlame" ELSE "idle")
  /\ UNCHANGED <<instVars, jobs, restVars>>

BootClient(a) ==
  /\ At(a, "bootClient")
  /\ client' = TRUE
  /\ Goto(a, "bootReady")
  /\ UNCHANGED <<state, recordState, timeoutCnt, jobs, restVars>>

BootReady(a) ==
  /\ At(a, "bootReady")
  /\ SetState("READY")
  /\ Goto(a, "idle")
  /\ UNCHANGED <<jobs, restVars>>

-----------------------------------------------------------------------------
(***************************************************************************)
(* monitorPlugins: one turn of the loop for this plugin.                   *)
(***************************************************************************)

Tick ==
  /\ At(Monitor, "idle")
  /\ state = "UNRESPONSIVE"
  /\ Goto(Monitor, "monCount")
  /\ UNCHANGED <<instVars, jobs, restVars>>

(* Faulty variant: one timeout too many.                                   *)
MonCountOneMore ==
  /\ At(Monitor, "monCount")
  /\ giveUp' = (timeoutCnt > MaxTimeouts)
  /\ timeoutCnt' = IF timeoutCnt > MaxTimeouts THEN timeoutCnt ELSE timeoutCnt + 1
  /\ Goto(Monitor, "haltState")
  /\ UNCHANGED <<state, recordState, client, jobs, kind, panicked, calls>>

(* At the last timeout the plugin is stopped for good, before it is        *)
(* restarted.  Nobody else touches the counter: resetTimeoutCount, "used   *)
(* when plugin is successfully restarted", is never called.                *)
MonCount ==
  /\ At(Monitor, "monCount")
  /\ giveUp' = (timeoutCnt >= MaxTimeouts)
  /\ timeoutCnt' = IF timeoutCnt >= MaxTimeouts THEN timeoutCnt ELSE timeoutCnt + 1
  /\ Goto(Monitor, "haltState")
  /\ UNCHANGED <<state, recordState, client, jobs, kind, panicked, calls>>

(* stop returned an error.                                                 *)
MonFail ==
  /\ At(Monitor, "monFail")
  /\ Kill
  /\ Goto(Monitor, IF giveUp THEN "monKilled" ELSE "monSet")
  /\ UNCHANGED <<jobs, restVars>>

MonSet ==
  /\ At(Monitor, "monSet")
  /\ SetState("STOPPED")
  /\ Goto(Monitor, "bootState")
  /\ UNCHANGED <<jobs, restVars>>

MonKilled ==
  /\ At(Monitor, "monKilled")
  /\ SetState("KILLED")
  /\ giveUp' = FALSE
  /\ Goto(Monitor, "idle")
  /\ UNCHANGED <<jobs, kind, panicked, calls>>

(* StartPlugin returned an error.                                          *)
MonBlame ==
  /\ At(Monitor, "monBlame")
  /\ SetState("UNRESPONSIVE")
  /\ Goto(Monitor, "idle")
  /\ UNCHANGED <<jobs, restVars>>

-----------------------------------------------------------------------------
(***************************************************************************)
(* The goroutines that startRecord and command leave behind.               *)
(***************************************************************************)

JobRefused ==
  /\ Running("failed")
  /\ SetState("UNKNOWN")
  /\ Move("failed", "none")
  /\ UNCHANGED <<actorVars, restVars>>

JobRecords ==
  /\ Running("started")
  /\ recordState' = TRUE
  /\ Move("started", "recording")
  /\ UNCHANGED <<state, client, timeoutCnt, actorVars, restVars>>

(* A nil frame: the plugin closed the stream.                              *)
StreamEnds ==
  /\ \/ Running("recording") /\ Move("recording", "ending")
     \/ Running("commanded") /\ Move("commanded", "none")
  /\ UNCHANGED <<instVars, actorVars, restVars>>

(* No frame for cfg.Timeout seconds.  The recorder first looks whether the *)
(* recording was stopped on request.                                       *)
RecorderTimesOut ==
  /\ Running("recording")
  /\ Move("recording", IF recordState THEN "blame" ELSE "ending")
  /\ UNCHANGED <<instVars, actorVars, restVars>>

RecorderBlames ==
  /\ Running("blame")
  /\ SetState("UNRESPONSIVE")
  /\ Move("blame", "ending")
  /\ UNCHANGED <<actorVars, restVars>>

CommandTimesOut ==
  /\ Running("commanded")
  /\ SetState("UNRESPONSIVE")
  /\ Move("commanded", "none")
  /\ UNCHANGED <<actorVars, restVars>>

(* Faulty variant: the deferred call is missing.                           *)
RecorderEndsSilently ==
  /\ Running("ending")
  /\ Move("ending", "none")
  /\ UNCHANGED <<instVars, actorVars, restVars>>

(* The deferred setNotRecording.                                           *)
RecorderEnds ==
  /\ Running("ending")
  /\ recordState' = FALSE
  /\ Move("ending", "none")
  /\ UNCHANGED <<state, client, timeoutCnt, actorVars, restVars>>

-----------------------------------------------------------------------------
RequestStep(a) ==
  \/ CheckState(a) \/ CheckRecord(a) \/ CheckClient(a) \/ SetBusy(a)
  \/ DialNil(a) \/ DialFails(a) \/ Dial(a) \/ GetAnswer(a) \/ WaitTimesOut(a)

HaltStep(a) ==
  \/ HaltState(a) \/ HaltClient(a) \/ HaltSet(a) \/ HaltRecord(a) \/ HaltGraceful(a)
  \/ \E err \in BOOLEAN : HaltDial(a, err)
  \/ HaltKill(a) \/ HaltDone(a)

BootStep(a) == BootState(a) \/ BootClient(a) \/ BootReady(a)

MonitorStep == MonCount \/ MonFail \/ MonSet \/ MonKilled \/ MonBlame

JobStep ==
  \/ JobRefused \/ JobRecords \/ StreamEnds \/ RecorderTimesOut \/ RecorderBlames
  \/ CommandTimesOut \/ RecorderEnds

ActorStep(a) == RequestStep(a) \/ HaltStep(a) \/ BootStep(a)

PluginStep ==
  \E ok \in BOOLEAN :
    \/ \E a \in Actors : PluginAnswers(a, ok)
    \/ \E f \in {"starting", "commanding", "stopping"} : PluginAnswersLate(f, ok)

Next ==
  \/ \E c \in Callers, o \in RPCs : Call(c, o)
  \/ \E a \in Actors : ActorStep(a)
  \/ Tick \/ MonitorStep
  \/ PluginStep \/ JobStep

Spec == Init /\ [][Next]_vars

(* Handlers and the monitor are scheduled, their waits end by a timeout,   *)
(* and the monitor's ticker ticks.  The plugin need not answer and nobody  *)
(* needs to call.                                                          *)
Fairness ==
  /\ \A a \in Actors : WF_vars(ActorStep(a))
  /\ WF_vars(Tick \/ MonitorStep)
  /\ WF_vars(JobStep)

FairSpec == Spec /\ Fairness

-----------------------------------------------------------------------------
(***************************************************************************)
(* Properties.                                                             *)
(***************************************************************************)

(* Type invariant; the monitor counts no more than cfg.MaxTimeouts.        *)
TypeOK ==
  /\ kind \in Kinds
  /\ state \in States
  /\ recordState \in BOOLEAN /\ client \in BOOLEAN
  /\ timeoutCnt \in 0..MaxTimeouts
  /\ pc \in [Actors -> Places]
  /\ op \in [Actors -> Requests \cup {"stop"}]
  /\ answer \in [Actors -> {"none", "pending", "ok", "err"}]
  /\ failed \in [Actors -> BOOLEAN]
  /\ giveUp \in BOOLEAN
  /\ jobs \in [Phases -> Nat]
  /\ panicked \in BOOLEAN
  /\ calls \in Nat

(* The plugin never counts as RECORDING when nobody reads its data stream: *)
(* whatever is started, stopped, killed or restarted meanwhile, and however*)
(* late its goroutines are, RECORDING goes with the last of them.          *)
Recorders == jobs["recording"] + jobs["blame"] + jobs["ending"]

RecordingIsRead == recordState => Recorders > 0

(* Every RPC and every turn of the monitor ends, whatever the plugin does. *)
CallsReturn == \A a \in Actors : pc[a] # "idle" ~> (pc[a] = "idle" \/ panicked)

(* A plugin does not stay BUSY: the call that made it so, or another,      *)
(* gives it another state.                                                 *)
BusyEnds == state = "BUSY" ~> (state # "BUSY" \/ panicked)

(* An unresponsive plugin is taken care of: the monitor stops it, or some- *)
(* body else changed its state.                                            *)
UnresponsiveIsHandled == state = "UNRESPONSIVE" ~> (state # "UNRESPONSIVE" \/ panicked)

(* No plugin stays BUSY and none stays UNRESPONSIVE.                       *)
StatesPass == BusyEnds /\ UnresponsiveIsHandled

(* Nobody is at work on the plugin.                                        *)
Quiescent ==
  /\ \A a \in Actors : pc[a] = "idle"
  /\ \A f \in Phases : jobs[f] = 0
  /\ ~panicked

(* What StartPlugin is for, src/plugins/service.go:470 ("the PluginAPI     *)
(* command to start an existiing plugin"): a plugin that was stopped can   *)
(* be started again.  It needs the state STOPPED or KILLED, or the monitor *)
(* needs UNRESPONSIVE; every other operation needs a client.               *)
StoppedIsRestartable ==
  Quiescent /\ ~client => state \in {"STOPPED", "KILLED", "UNRESPONSIVE"}
=============================================================================
