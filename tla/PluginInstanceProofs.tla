------------------------ MODULE PluginInstanceProofs ------------------------
(***************************************************************************)
(* Theorems about PluginInstance, for every set of callers, every          *)
(* cfg.MaxTimeouts and every number of calls.                              *)
(***************************************************************************)
EXTENDS PluginInstance, TLAPS

(* What a step does to the goroutines' counters.                           *)
LEMMA MoveType ==
  ASSUME NEW from, NEW to, TypeOK, from \in Phases => jobs[from] > 0, Move(from, to)
  PROVE  jobs' \in [Phases -> Nat]
<1> SUFFICES ASSUME NEW f \in Phases
             PROVE  jobs[f] - (IF f = from THEN 1 ELSE 0)
                            + (IF f = to THEN 1 ELSE 0) \in Nat
  BY DEF Move
<1>1. jobs[f] \in Nat
  BY DEF TypeOK
<1>2. f = from => jobs[f] > 0
  OBVIOUS
<1> QED
  BY <1>1, <1>2

(* Return keeps the types of what it changes.                              *)
LEMMA ReturnType ==
  ASSUME TypeOK, NEW a \in Actors, NEW err \in BOOLEAN, Return(a, err)
  PROVE  /\ pc' \in [Actors -> Places]
         /\ op' \in [Actors -> Requests \cup {"stop"}]
         /\ answer' \in [Actors -> {"none", "pending", "ok", "err"}]
         /\ failed' \in [Actors -> BOOLEAN]
<1>1. pc' \in [Actors -> Places]
  BY DEF TypeOK, Return, Places
<1>2. op' \in [Actors -> Requests \cup {"stop"}]
  BY DEF TypeOK, Return
<1>3. answer' \in [Actors -> {"none", "pending", "ok", "err"}]
  BY DEF TypeOK, Return
<1>4. failed' \in [Actors -> BOOLEAN]
  BY DEF TypeOK, Return
<1> QED
  BY <1>1, <1>2, <1>3, <1>4

(* Goto keeps the types of the actors.                                     *)
LEMMA GotoType ==
  ASSUME TypeOK, NEW a \in Actors, NEW q \in Places, Goto(a, q)
  PROVE  /\ pc' \in [Actors -> Places]
         /\ op' \in [Actors -> Requests \cup {"stop"}]
         /\ answer' \in [Actors -> {"none", "pending", "ok", "err"}]
         /\ failed' \in [Actors -> BOOLEAN]
BY DEF TypeOK, Goto

(* The steps of a request: startRecord, stopRecord and command.            *)
LEMMA RequestType ==
  ASSUME TypeOK, NEW a \in Actors, RequestStep(a)
  PROVE  TypeOK'
<1>1. CASE CheckState(a)
  <2>1. CASE state \in {"READY", "UNKNOWN"}
    <3>1. PICK q \in {"checkClient", "checkRecord"} : Goto(a, q)
      BY <1>1, <2>1 DEF CheckState
    <3> QED
      BY <1>1, <3>1, GotoType DEF CheckState, TypeOK, instVars, restVars, Places
  <2>2. CASE state \notin {"READY", "UNKNOWN"}
    BY <1>1, <2>2, ReturnType DEF CheckState, TypeOK, instVars, restVars
  <2> QED
    BY <2>1, <2>2
<1>2. CASE CheckRecord(a)
  <2>1. \/ Goto(a, "checkClient")
        \/ Return(a, TRUE)
    BY <1>2 DEF CheckRecord
  <2> QED
    BY <1>2, <2>1, GotoType, ReturnType
       DEF CheckRecord, TypeOK, instVars, restVars, Places
<1>3. CASE CheckClient(a)
  <2>1. \/ Goto(a, "setBusy")
        \/ Return(a, TRUE)
    BY <1>3 DEF CheckClient
  <2> QED
    BY <1>3, <2>1, GotoType, ReturnType
       DEF CheckClient, TypeOK, instVars, restVars, Places
<1>4. CASE SetBusy(a)
  BY <1>4, GotoType DEF SetBusy, SetState, TypeOK, States, restVars, Places
<1>5. CASE DialNil(a)
  BY <1>5 DEF DialNil, TypeOK, instVars, actorVars
<1>6. CASE DialFails(a)
  BY <1>6, ReturnType DEF DialFails, SetState, TypeOK, States, restVars
<1>7. CASE Dial(a)
  BY <1>7 DEF Dial, TypeOK, Places, instVars, restVars
<1>8. CASE GetAnswer(a)
  <2>1. Return(a, answer[a] = "err") /\ (answer[a] = "err") \in BOOLEAN
    BY <1>8 DEF GetAnswer
  <2>2. /\ state' \in States
        /\ UNCHANGED <<recordState, client, timeoutCnt, jobs, restVars>>
    BY <1>8 DEF GetAnswer, SetState, instVars, States, TypeOK
  <2> QED
    BY <2>1, <2>2, ReturnType DEF TypeOK, restVars
<1>9. CASE WaitTimesOut(a)
  <2>1. jobs' \in [Phases -> Nat]
    BY <1>9, MoveType DEF WaitTimesOut, Phases
  <2> QED
    BY <1>9, <2>1, ReturnType DEF WaitTimesOut, SetState, TypeOK, States, restVars
<1> QED
  BY <1>1, <1>2, <1>3, <1>4, <1>5, <1>6, <1>7, <1>8, <1>9 DEF RequestStep

(* The steps of stop, with kill.                                           *)
LEMMA HaltType ==
  ASSUME TypeOK, NEW a \in Actors, HaltStep(a)
  PROVE  TypeOK'
<1>1. CASE HaltState(a)
  <2>1. Return(a, TRUE) \/ Goto(a, "haltClient")
    BY <1>1 DEF HaltState
  <2> QED
    BY <1>1, <2>1, GotoType, ReturnType
       DEF HaltState, TypeOK, instVars, restVars, Places
<1>2. CASE HaltClient(a)
  <2>1. Return(a, TRUE) \/ Goto(a, "haltSet")
    BY <1>2 DEF HaltClient
  <2> QED
    BY <1>2, <2>1, GotoType, ReturnType
       DEF HaltClient, TypeOK, instVars, restVars, Places
<1>3. CASE HaltSet(a)
  BY <1>3, GotoType DEF HaltSet, SetState, TypeOK, States, restVars, Places
<1>4. CASE HaltRecord(a)
  <2>1. CASE recordState
    BY <1>4, <2>1 DEF HaltRecord, TypeOK, instVars, restVars, Places, Requests
  <2>2. CASE ~recordState
    BY <1>4, <2>2, GotoType DEF HaltRecord, TypeOK, instVars, restVars, Places
  <2> QED
    BY <2>1, <2>2
<1>5. CASE HaltGraceful(a)
  BY <1>5, GotoType
     DEF HaltGraceful, SetState, TypeOK, States, instVars, restVars, Places
<1>6. ASSUME NEW err \in BOOLEAN, HaltDial(a, err)
      PROVE  TypeOK'
  BY <1>6 DEF HaltDial, SetState, TypeOK, States, instVars, restVars, Places
<1>7. CASE HaltKill(a)
  BY <1>7, GotoType DEF HaltKill, Kill, TypeOK, restVars, Places
<1>8. CASE HaltDone(a)
  <2>1. failed[a] \in BOOLEAN
    BY DEF TypeOK
  <2> QED
    BY <1>8, <2>1, ReturnType DEF HaltDone, SetState, TypeOK, States, restVars
<1> QED
  BY <1>1, <1>2, <1>3, <1>4, <1>5, <1>6, <1>7, <1>8 DEF HaltStep

(* The steps of StartPlugin.                                               *)
LEMMA BootType ==
  ASSUME TypeOK, NEW a \in Actors, BootStep(a)
  PROVE  TypeOK'
<1>1. CASE BootState(a)
  <2>1. PICK q \in {"bootClient", "monBlame", "idle"} : Goto(a, q)
    BY <1>1 DEF BootState
  <2> QED
    BY <1>1, <2>1, GotoType DEF BootState, TypeOK, instVars, restVars, Places
<1>2. CASE BootClient(a)
  BY <1>2, GotoType DEF BootClient, TypeOK, restVars, Places
<1>3. CASE BootReady(a)
  BY <1>3, GotoType DEF BootReady, SetState, TypeOK, States, Places, restVars
<1> QED
  BY <1>1, <1>2, <1>3 DEF BootStep

(* The monitor's own steps.                                                *)
LEMMA MonitorType ==
  ASSUME TypeOK, Tick \/ MonitorStep
  PROVE  TypeOK'
<1>1. Monitor \in Actors
  BY DEF Actors
<1>2. CASE Tick
  BY <1>1, <1>2, GotoType DEF Tick, TypeOK, instVars, restVars, Places
<1>3. CASE MonCount
  <2>1. timeoutCnt' \in 0..MaxTimeouts
    BY <1>3, MaxTimeoutsAssumption DEF MonCount, TypeOK
  <2> QED
    BY <1>1, <1>3, <2>1, GotoType DEF MonCount, TypeOK, Places
<1>4. CASE MonFail
  <2>1. PICK q \in {"monKilled", "monSet"} : Goto(Monitor, q)
    BY <1>4 DEF MonFail
  <2> QED
    BY <1>1, <1>4, <2>1, GotoType DEF MonFail, Kill, TypeOK, restVars, Places
<1>5. CASE MonSet
  BY <1>1, <1>5, GotoType DEF MonSet, SetState, TypeOK, States, restVars, Places
<1>6. CASE MonKilled
  BY <1>1, <1>6, GotoType DEF MonKilled, SetState, TypeOK, States, Places
<1>7. CASE MonBlame
  BY <1>1, <1>7, GotoType DEF MonBlame, SetState, TypeOK, States, restVars, Places
<1> QED
  BY <1>2, <1>3, <1>4, <1>5, <1>6, <1>7 DEF MonitorStep

(* The steps of the goroutines that are left behind.                       *)
LEMMA JobType ==
  ASSUME TypeOK, JobStep
  PROVE  TypeOK'
<1>1. jobs' \in [Phases -> Nat]
  <2>1. PICK from \in Phases, to \in Phases \cup {"none"} : jobs[from] > 0 /\ Move(from, to)
    BY DEF JobStep, JobRefused, JobRecords, StreamEnds, RecorderTimesOut,
           RecorderBlames, CommandTimesOut, RecorderEnds, Running, Phases
  <2> QED
    BY <2>1, MoveType
<1>2. /\ state' \in States /\ recordState' \in BOOLEAN
      /\ UNCHANGED <<client, timeoutCnt, actorVars, restVars>>
  BY DEF JobStep, JobRefused, JobRecords, StreamEnds, RecorderTimesOut,
         RecorderBlames, CommandTimesOut, RecorderEnds, SetState, TypeOK, States,
         instVars, actorVars, restVars
<1> QED
  BY <1>1, <1>2 DEF TypeOK, actorVars, restVars

(* The plugin's answers.                                                   *)
LEMMA PluginType ==
  ASSUME TypeOK, PluginStep
  PROVE  TypeOK'
<1>1. ASSUME NEW ok \in BOOLEAN, NEW a \in Actors, PluginAnswers(a, ok)
      PROVE  TypeOK'
  <2>1. jobs' \in [Phases -> Nat]
    BY <1>1, MoveType DEF PluginAnswers, Phases
  <2>2. /\ state' \in States /\ recordState' \in BOOLEAN
        /\ UNCHANGED <<client, timeoutCnt>>
    BY <1>1 DEF PluginAnswers, AfterAnswer, TypeOK, States
  <2>3. answer' \in [Actors -> {"none", "pending", "ok", "err"}]
    BY <1>1 DEF PluginAnswers, TypeOK
  <2> QED
    BY <1>1, <2>1, <2>2, <2>3 DEF PluginAnswers, TypeOK, restVars
<1>2. ASSUME NEW ok \in BOOLEAN, NEW f \in {"starting", "commanding", "stopping"},
             PluginAnswersLate(f, ok)
      PROVE  TypeOK'
  <2>1. f \in Phases
    BY DEF Phases
  <2>2. jobs[f] > 0
    BY <1>2 DEF PluginAnswersLate, Running
  <2>3. PICK to : Move(f, to)
    BY <1>2 DEF PluginAnswersLate
  <2>4. jobs' \in [Phases -> Nat]
    BY <2>1, <2>2, <2>3, MoveType
  <2>5. /\ state' \in States /\ recordState' \in BOOLEAN
        /\ UNCHANGED <<client, timeoutCnt>>
    BY <1>2 DEF PluginAnswersLate, AfterAnswer, TypeOK, States
  <2> QED
    BY <1>2, <2>4, <2>5 DEF PluginAnswersLate, TypeOK, actorVars, restVars
<1> QED
  BY <1>1, <1>2 DEF PluginStep

(* Type correctness: every goroutine is where the code can be, counters do *)
(* not go negative, and monitorPlugins counts at most cfg.MaxTimeouts.     *)
THEOREM TypeCorrect == Spec => []TypeOK
<1>1. ASSUME Init
      PROVE  TypeOK
  <2>1. /\ kind \in Kinds /\ state \in States
        /\ recordState \in BOOLEAN /\ client \in BOOLEAN
        /\ giveUp \in BOOLEAN /\ panicked \in BOOLEAN
    BY <1>1 DEF Init, States
  <2>2. timeoutCnt \in 0..MaxTimeouts /\ calls \in Nat
    BY <1>1, MaxTimeoutsAssumption DEF Init
  <2>3. pc \in [Actors -> Places] /\ op \in [Actors -> Requests \cup {"stop"}]
    BY <1>1 DEF Init, Places
  <2>4. /\ answer \in [Actors -> {"none", "pending", "ok", "err"}]
        /\ failed \in [Actors -> BOOLEAN]
        /\ jobs \in [Phases -> Nat]
    BY <1>1 DEF Init
  <2> QED
    BY <2>1, <2>2, <2>3, <2>4 DEF TypeOK
<1>2. TypeOK /\ [Next]_vars => TypeOK'
  <2> SUFFICES ASSUME TypeOK, [Next]_vars
               PROVE  TypeOK'
    OBVIOUS
  <2>1. ASSUME NEW c \in Callers, NEW o \in RPCs, Call(c, o)
        PROVE  TypeOK'
    <3>1. c \in Actors
      BY DEF Actors
    <3>2. op' \in [Actors -> Requests \cup {"stop"}]
      BY <2>1, <3>1 DEF Call, TypeOK, RPCs, Requests
    <3>3. pc' \in [Actors -> Places]
      BY <2>1, <3>1 DEF Call, TypeOK, Places
    <3>4. calls' \in Nat
      BY <2>1 DEF Call, TypeOK
    <3> QED
      BY <2>1, <3>2, <3>3, <3>4 DEF Call, TypeOK, instVars
  <2>2. ASSUME NEW a \in Actors, ActorStep(a)
        PROVE  TypeOK'
    BY <2>2, RequestType, HaltType, BootType DEF ActorStep
  <2>3. CASE Tick \/ MonitorStep
    BY <2>3, MonitorType
  <2>4. CASE PluginStep
    BY <2>4, PluginType
  <2>5. CASE JobStep
    BY <2>5, JobType
  <2>6. CASE UNCHANGED vars
    BY <2>6 DEF vars, instVars, actorVars, restVars, TypeOK
  <2> QED
    BY <2>1, <2>2, <2>3, <2>4, <2>5, <2>6 DEF Next
<1> QED
  BY <1>1, <1>2, PTL DEF Spec

(* A recording that is counted as such has its reader.  It is inductive by *)
(* itself: only the recorder's first step sets RECORDING, and only the     *)
(* last step of a recorder, which clears it, lets the number of readers    *)
(* fall.                                                                   *)
THEOREM RecordingCorrect == Spec => []RecordingIsRead
<1> DEFINE Readers == {"recording", "blame", "ending"}
<1>1. Init => RecordingIsRead
  BY DEF Init, RecordingIsRead
<1>2. ASSUME TypeOK, RecordingIsRead, [Next]_vars
      PROVE  RecordingIsRead'
  <2>1. /\ jobs["recording"] \in Nat /\ jobs["blame"] \in Nat /\ jobs["ending"] \in Nat
    BY <1>2 DEF TypeOK, Phases
  <2>2. ASSUME NEW from, NEW to, from \notin Readers, Move(from, to),
               recordState' => recordState
        PROVE  RecordingIsRead'
    BY <1>2, <2>1, <2>2 DEF RecordingIsRead, Recorders, Move, Phases
  <2>3. ASSUME UNCHANGED jobs, recordState' => recordState
        PROVE  RecordingIsRead'
    BY <1>2, <2>3 DEF RecordingIsRead, Recorders
  <2>4. ASSUME NEW c \in Callers, NEW o \in RPCs, Call(c, o)
        PROVE  RecordingIsRead'
    BY <2>3, <2>4 DEF Call, instVars
  <2>5. ASSUME NEW a \in Actors, ActorStep(a)
        PROVE  RecordingIsRead'
    <3>1. CASE WaitTimesOut(a)
      <4>1. PICK to : Move("none", to)
        BY <3>1 DEF WaitTimesOut
      <4> QED
        BY <3>1, <4>1, <2>2 DEF WaitTimesOut, SetState
    <3>2. CASE RequestStep(a) /\ ~WaitTimesOut(a)
      <4>1. UNCHANGED <<jobs, recordState>>
        BY <3>2 DEF RequestStep, CheckState, CheckRecord, CheckClient, SetBusy,
             DialNil, DialFails, Dial, GetAnswer, SetState, instVars
      <4> QED
        BY <4>1, <2>3
    <3>3. CASE HaltStep(a)
      <4>1. UNCHANGED jobs
        BY <3>3 DEF HaltStep, HaltState, HaltClient, HaltSet, HaltRecord,
             HaltGraceful, HaltDial, HaltKill, HaltDone
      <4>2. CASE HaltKill(a)
        BY <4>1, <4>2, <2>3 DEF HaltKill, Kill
      <4>3. CASE ~HaltKill(a)
        <5>1. UNCHANGED recordState
          BY <3>3, <4>3 DEF HaltStep, HaltState, HaltClient, HaltSet, HaltRecord,
               HaltGraceful, HaltDial, HaltDone, SetState, instVars
        <5> QED
          BY <4>1, <5>1, <2>3
      <4> QED
        BY <4>2, <4>3
    <3>4. CASE BootStep(a)
      BY <3>4, <2>3 DEF BootStep, BootState, BootClient, BootReady, SetState, instVars
    <3> QED
      BY <2>5, <3>1, <3>2, <3>3, <3>4 DEF ActorStep
  <2>6. CASE Tick \/ MonitorStep
    <3>1. UNCHANGED jobs
      BY <2>6 DEF Tick, MonitorStep, MonCount, MonFail, MonSet, MonKilled, MonBlame
    <3>2. CASE MonFail
      BY <3>1, <3>2, <2>3 DEF MonFail, Kill
    <3>3. CASE ~MonFail
      <4>1. UNCHANGED recordState
        BY <2>6, <3>3 DEF Tick, MonitorStep, MonCount, MonSet, MonKilled, MonBlame,
             SetState, instVars
      <4> QED
        BY <3>1, <4>1, <2>3
    <3> QED
      BY <3>2, <3>3
  <2>7. CASE PluginStep
    <3>1. ASSUME NEW ok \in BOOLEAN, NEW a \in Actors, PluginAnswers(a, ok)
          PROVE  RecordingIsRead'
      <4>1. PICK to : Move("none", to)
        BY <3>1 DEF PluginAnswers
      <4>2. recordState' => recordState
        BY <3>1 DEF PluginAnswers, AfterAnswer
      <4> QED
        BY <4>1, <4>2, <2>2
    <3>2. ASSUME NEW ok \in BOOLEAN, NEW f \in {"starting", "commanding", "stopping"},
                 PluginAnswersLate(f, ok)
          PROVE  RecordingIsRead'
      <4>1. PICK to : Move(f, to)
        BY <3>2 DEF PluginAnswersLate
      <4>2. recordState' => recordState
        BY <3>2 DEF PluginAnswersLate, AfterAnswer
      <4> QED
        BY <4>1, <4>2, <2>2
    <3> QED
      BY <2>7, <3>1, <3>2 DEF PluginStep
  <2>8. CASE JobStep
    <3>1. CASE JobRefused
      BY <3>1, <2>2 DEF JobRefused, SetState
    <3>2. CASE JobRecords
      BY <3>2, <2>1 DEF JobRecords, Move, RecordingIsRead, Recorders, Phases
    <3>3. CASE StreamEnds
      <4>1. CASE Move("recording", "ending") /\ UNCHANGED instVars
        BY <4>1, <1>2, <2>1 DEF Move, RecordingIsRead, Recorders, Phases, instVars
      <4>2. CASE Move("commanded", "none") /\ UNCHANGED instVars
        BY <4>2, <2>2 DEF instVars
      <4> QED
        BY <3>3, <4>1, <4>2 DEF StreamEnds
    <3>4. CASE RecorderTimesOut
      <4>1. /\ Move("recording", "blame") \/ Move("recording", "ending")
            /\ UNCHANGED recordState
        BY <3>4 DEF RecorderTimesOut, instVars
      <4> QED
        BY <4>1, <1>2, <2>1 DEF Move, RecordingIsRead, Recorders, Phases
    <3>5. CASE RecorderBlames
      BY <3>5, <1>2, <2>1
         DEF RecorderBlames, SetState, Move, RecordingIsRead, Recorders, Phases
    <3>6. CASE CommandTimesOut
      BY <3>6, <2>2 DEF CommandTimesOut, SetState
    <3>7. CASE RecorderEnds
      BY <3>7 DEF RecorderEnds, RecordingIsRead
    <3> QED
      BY <2>8, <3>1, <3>2, <3>3, <3>4, <3>5, <3>6, <3>7 DEF JobStep
  <2>9. CASE UNCHANGED vars
    BY <2>9, <2>3 DEF vars, instVars
  <2> QED
    BY <1>2, <2>4, <2>5, <2>6, <2>7, <2>8, <2>9 DEF Next
<1> QED
  BY <1>1, <1>2, TypeCorrect, PTL DEF Spec
=============================================================================
