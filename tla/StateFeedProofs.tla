--------------------------- MODULE StateFeedProofs ---------------------------
(***************************************************************************)
(* Theorems about StateFeed, for any plugins, states, subscribers and      *)
(* capacities.                                                             *)
(***************************************************************************)
EXTENDS StateFeed, SequenceTheorems, FiniteSetTheorems, TLAPS

(* An entry of a table over plugins and subscribers is replaced.           *)
LEMMA TableUpdate ==
  ASSUME NEW S, NEW f \in [Plugins -> [Subscribers -> S]],
         NEW p \in Plugins, NEW s \in Subscribers, NEW x \in S
  PROVE  /\ [f EXCEPT ![p][s] = x] \in [Plugins -> [Subscribers -> S]]
         /\ \A r \in Plugins, t \in Subscribers :
              [f EXCEPT ![p][s] = x][r][t] = IF r = p /\ t = s THEN x ELSE f[r][t]
OBVIOUS

(* Nobody works for a subscriber that has not called.                      *)
IdleIsEmpty ==
  \A s \in Subscribers :
    handler[s] = "idle" => /\ stateQ[s] = << >>
                           /\ \A p \in Plugins : loop[p][s] = "none"

(* A loop that has read the state knows one to push.                       *)
Known ==
  \A p \in Plugins, s \in Subscribers :
    loop[p][s] \in {"push", "select"} => lastState[p][s] \in States

TypeInv == TypeOK /\ IdleIsEmpty /\ Known

Size(s) == IF all[s] THEN AllSize ELSE OneSize

(* A Push keeps the queue within its size and its newest update last.      *)
LEMMA PushedFacts ==
  ASSUME NEW q \in Seq(Updates), NEW n \in Nat \ {0}, Len(q) <= n, NEW u \in Updates
  PROVE  /\ Pushed(q, n, u) \in Seq(Updates)
         /\ Len(Pushed(q, n, u)) \in 1..n
         /\ Pushed(q, n, u)[Len(Pushed(q, n, u))] = u
<1>1. CASE Len(q) = n
  <2>1. q # << >>
    BY <1>1
  <2>2. Tail(q) \in Seq(Updates) /\ Len(Tail(q)) = n - 1
    BY <1>1, <2>1
  <2> DEFINE r == Tail(q)
  <2>3. r \in Seq(Updates) /\ Len(r) = n - 1 /\ Pushed(q, n, u) = Append(r, u)
    BY <1>1, <2>2 DEF Pushed
  <2> HIDE DEF r
  <2> QED
    BY <2>3
<1>2. CASE Len(q) # n
  <2>1. Pushed(q, n, u) = Append(q, u) /\ Len(q) < n
    BY <1>2 DEF Pushed
  <2> QED
    BY <2>1
<1> QED
  BY <1>1, <1>2

(* The head of a sequence without a tail is its last element.              *)
LEMMA OneElement ==
  ASSUME NEW S, NEW q \in Seq(S), q # << >>, Tail(q) = << >>
  PROVE  Head(q) = q[Len(q)]
<1>1. Len(Tail(q)) = Len(q) - 1 /\ Len(q) \in Nat
  OBVIOUS
<1>2. Len(<< >>) = 0
  OBVIOUS
<1>3. Len(Tail(q)) = 0
  <2>1. Tail(q) = << >>
    OBVIOUS
  <2> QED
    BY <1>2, <2>1, Zenon
<1>4. Len(q) = 1
  BY <1>1, <1>3
<1> QED
  BY <1>4

LEMMA TypeInit == Init => TypeInv
<1> SUFFICES ASSUME Init PROVE TypeInv
  OBVIOUS
<1>1. << >> \in Seq(States) /\ << >> \in Seq(Updates) /\ Len(<< >>) = 0
  OBVIOUS
<1>2. /\ registry \subseteq Plugins
      /\ state \in [Plugins -> States]
      /\ listeners \in [Plugins -> SUBSET Subscribers]
      /\ isConnected \in [Plugins -> [Subscribers -> BOOLEAN]]
      /\ closed \in [Plugins -> [Subscribers -> BOOLEAN]]
      /\ setting \in [Plugins -> BOOLEAN]
  BY ReadyAssumption DEF Init, Each
<1>3. /\ signal \in [Plugins -> [Subscribers -> Seq(States)]]
      /\ \A p \in Plugins, s \in Subscribers : Len(signal[p][s]) <= SignalCap
  BY <1>1, SignalCapAssumption DEF Init, Each
<1>4. /\ toNotify \in [Plugins -> SUBSET Subscribers]
      /\ \A p \in Plugins : toNotify[p] # {} => setting[p]
  BY DEF Init
<1>5. /\ loop \in [Plugins -> [Subscribers -> LoopPlaces]]
      /\ lastState \in [Plugins -> [Subscribers -> States \cup {None}]]
      /\ handler \in [Subscribers -> HandlerPlaces]
      /\ all \in [Subscribers -> BOOLEAN]
      /\ quit \in [Subscribers -> BOOLEAN]
      /\ wg \in [Subscribers -> Int]
      /\ told \in [Subscribers -> BOOLEAN]
      /\ view \in [Subscribers -> [Plugins -> States \cup {None}]]
      /\ sets \in Nat
  BY DEF Init, Each, LoopPlaces, HandlerPlaces
<1>6. /\ stateQ \in [Subscribers -> Seq(Updates)]
      /\ \A s \in Subscribers : Len(stateQ[s]) <= IF all[s] THEN AllSize ELSE OneSize
  BY <1>1, SizeAssumption DEF Init
<1>7. IdleIsEmpty
  BY DEF Init, IdleIsEmpty, Each
<1>8. Known
  BY DEF Init, Known, Each
<1> QED
  BY <1>2, <1>3, <1>4, <1>5, <1>6, <1>7, <1>8 DEF TypeInv, TypeOK

(* The setters.                                                            *)
LEMMA SetterType ==
  ASSUME TypeInv, NEW p \in Plugins,
         SetterStep(p) \/ \E st \in States : SetBegin(p, st)
  PROVE  TypeInv'
<1> USE DEF TypeInv
<1>1. ASSUME NEW st \in States, SetBegin(p, st) PROVE TypeInv'
  BY <1>1 DEF SetBegin, TypeOK, IdleIsEmpty, Known, loopVars, handlerVars, queueVars
<1>2. ASSUME NEW s \in Subscribers, SetSend(p, s) PROVE TypeInv'
  <2> DEFINE new == Append(signal[p][s], state[p])
  <2>1. signal[p][s] \in Seq(States) /\ state[p] \in States
    BY DEF TypeOK
  <2>2. Len(signal[p][s]) < SignalCap
    BY <1>2, <2>1, SignalCapAssumption DEF SetSend, Full
  <2>3. new \in Seq(States) /\ Len(new) <= SignalCap
    BY <2>1, <2>2, SignalCapAssumption
  <2>4. signal' = [signal EXCEPT ![p][s] = new]
    BY <1>2 DEF SetSend
  <2> HIDE DEF new
  <2>5. /\ signal' \in [Plugins -> [Subscribers -> Seq(States)]]
        /\ \A r \in Plugins, t \in Subscribers : Len(signal'[r][t]) <= SignalCap
    BY <2>3, <2>4, TableUpdate DEF TypeOK
  <2>6. /\ toNotify' \in [Plugins -> SUBSET Subscribers]
        /\ \A r \in Plugins : toNotify'[r] # {} => setting'[r]
    BY <1>2 DEF SetSend, TypeOK
  <2> QED
    BY <1>2, <2>5, <2>6 DEF SetSend, TypeOK, IdleIsEmpty, Known, loopVars,
       handlerVars, queueVars
<1>3. ASSUME NEW s \in Subscribers, SetDrop(p, s) PROVE TypeInv'
  <2>1. closed' \in [Plugins -> [Subscribers -> BOOLEAN]]
    BY <1>3 DEF SetDrop, TypeOK
  <2>2. /\ toNotify' \in [Plugins -> SUBSET Subscribers]
        /\ \A r \in Plugins : toNotify'[r] # {} => setting'[r]
        /\ listeners' \in [Plugins -> SUBSET Subscribers]
    BY <1>3 DEF SetDrop, TypeOK
  <2> QED
    BY <1>3, <2>1, <2>2 DEF SetDrop, TypeOK, IdleIsEmpty, Known, loopVars,
       handlerVars, queueVars
<1>4. ASSUME SetEnd(p) PROVE TypeInv'
  <2>1. /\ setting' \in [Plugins -> BOOLEAN]
        /\ \A r \in Plugins : toNotify'[r] # {} => setting'[r]
    BY <1>4 DEF SetEnd, TypeOK
  <2> QED
    BY <1>4, <2>1 DEF SetEnd, TypeOK, IdleIsEmpty, Known, loopVars, handlerVars,
       queueVars
<1> QED
  BY <1>1, <1>2, <1>3, <1>4 DEF SetterStep

LoopStep(p, s) == LoopRuns(p, s) \/ LoopLocks(p, s) \/ LoopQuit(p, s)

(* The loops.                                                              *)
LEMMA LoopType ==
  ASSUME TypeInv, NEW p \in Plugins, NEW s \in Subscribers, LoopStep(p, s)
  PROVE  TypeInv'
<1> USE DEF TypeInv
<1>0. loop[p][s] # "none"
  BY DEF LoopStep, LoopRuns, LoopLocks, LoopSubscribe, LoopGetState, LoopPush,
         LoopReceive, LoopQuit, LoopUnsub
<1>1. handler[s] # "idle"
  BY <1>0 DEF IdleIsEmpty
<1>2. ASSUME NEW place \in LoopPlaces, loop' = [loop EXCEPT ![p][s] = place],
             UNCHANGED handler, \A t \in Subscribers \ {s} : stateQ'[t] = stateQ[t]
      PROVE  loop' \in [Plugins -> [Subscribers -> LoopPlaces]] /\ IdleIsEmpty'
  BY <1>1, <1>2 DEF TypeOK, IdleIsEmpty
<1>9. ASSUME NEW place \in LoopPlaces, loop' = [loop EXCEPT ![p][s] = place],
             NEW st \in States \cup {None}, lastState' = [lastState EXCEPT ![p][s] = st],
             place \in {"push", "select"} => st \in States
      PROVE  Known'
  BY <1>9 DEF TypeOK, Known
<1>3. CASE LoopSubscribe(p, s)
  <2>1. loop' \in [Plugins -> [Subscribers -> LoopPlaces]] /\ IdleIsEmpty'
    BY <1>2, <1>3 DEF LoopSubscribe, LoopPlaces, handlerVars, queueVars
  <2>2. Known'
    BY <1>3 DEF LoopSubscribe, TypeOK, Known
  <2> QED
    BY <1>3, <2>1, <2>2 DEF LoopSubscribe, TypeOK, handlerVars, queueVars
<1>4. CASE LoopGetState(p, s)
  <2>1. loop' \in [Plugins -> [Subscribers -> LoopPlaces]] /\ IdleIsEmpty'
    BY <1>2, <1>4 DEF LoopGetState, LoopPlaces, handlerVars, queueVars
  <2>2. lastState' \in [Plugins -> [Subscribers -> States \cup {None}]]
    BY <1>4 DEF LoopGetState, TypeOK
  <2>3. Known'
    BY <1>4 DEF LoopGetState, TypeOK, Known
  <2> QED
    BY <1>4, <2>1, <2>2, <2>3 DEF LoopGetState, TypeOK, instVars, handlerVars,
       queueVars
<1>5. CASE LoopPush(p, s)
  <2> DEFINE u == [name |-> p, state |-> lastState[p][s]]
             new == Pushed(stateQ[s], Size(s), u)
  <2>1. u \in Updates
    BY <1>5 DEF Updates, LoopPush, Known
  <2>2. /\ stateQ[s] \in Seq(Updates) /\ Size(s) \in Nat \ {0}
        /\ Len(stateQ[s]) <= Size(s)
    BY SizeAssumption DEF TypeOK, Size
  <2>3. new \in Seq(Updates) /\ Len(new) <= Size(s)
    BY <2>1, <2>2, PushedFacts
  <2>4. stateQ' = [stateQ EXCEPT ![s] = new]
    BY <1>5 DEF LoopPush, Size
  <2> HIDE DEF new
  <2>5. /\ stateQ' \in [Subscribers -> Seq(Updates)]
        /\ \A t \in Subscribers : Len(stateQ'[t]) <= Size(t)
    BY <2>3, <2>4 DEF TypeOK, Size
  <2>6. loop' \in [Plugins -> [Subscribers -> LoopPlaces]] /\ IdleIsEmpty'
    BY <1>2, <1>5, <2>4 DEF LoopPush, LoopPlaces, handlerVars, TypeOK
  <2>7. Known'
    BY <1>5 DEF LoopPush, TypeOK, Known
  <2> QED
    BY <1>5, <2>5, <2>6, <2>7 DEF LoopPush, TypeOK, instVars, handlerVars, Size
<1>6. CASE LoopReceive(p, s)
  <2> DEFINE q == signal[p][s]
  <2>1. q \in Seq(States) /\ q # << >> /\ Len(q) <= SignalCap
    BY <1>6 DEF LoopReceive, TypeOK
  <2>2. Tail(q) \in Seq(States) /\ Len(Tail(q)) <= SignalCap /\ Head(q) \in States
    BY <2>1, SignalCapAssumption
  <2>3. /\ signal' = [signal EXCEPT ![p][s] = Tail(q)]
        /\ lastState' = [lastState EXCEPT ![p][s] = Head(q)]
        /\ \E place \in {"select", "push"} : loop' = [loop EXCEPT ![p][s] = place]
        /\ UNCHANGED <<handler, stateQ>>
    BY <1>6 DEF LoopReceive, handlerVars, queueVars
  <2> HIDE DEF q
  <2>4. /\ signal' \in [Plugins -> [Subscribers -> Seq(States)]]
        /\ \A r \in Plugins, t \in Subscribers : Len(signal'[r][t]) <= SignalCap
    BY <2>2, <2>3, TableUpdate DEF TypeOK
  <2>5. lastState' \in [Plugins -> [Subscribers -> States \cup {None}]]
    BY <2>2, <2>3 DEF TypeOK
  <2>6. loop' \in [Plugins -> [Subscribers -> LoopPlaces]] /\ IdleIsEmpty'
    BY <1>2, <2>3 DEF LoopPlaces
  <2>7. Known'
    BY <2>2, <2>3, <1>9 DEF LoopPlaces
  <2> QED
    BY <1>6, <2>4, <2>5, <2>6, <2>7 DEF LoopReceive, TypeOK, handlerVars, queueVars
<1>7. CASE LoopQuit(p, s)
  <2>1. loop' \in [Plugins -> [Subscribers -> LoopPlaces]] /\ IdleIsEmpty'
    BY <1>2, <1>7 DEF LoopQuit, LoopPlaces, handlerVars, queueVars
  <2>2. Known'
    BY <1>7 DEF LoopQuit, TypeOK, Known
  <2> QED
    BY <1>7, <2>1, <2>2 DEF LoopQuit, TypeOK, instVars, handlerVars, queueVars
<1>8. CASE LoopUnsub(p, s)
  <2>1. loop' \in [Plugins -> [Subscribers -> LoopPlaces]] /\ IdleIsEmpty'
    BY <1>2, <1>8 DEF LoopUnsub, LoopPlaces, handlerVars, queueVars
  <2>2. isConnected' \in [Plugins -> [Subscribers -> BOOLEAN]]
    BY <1>8 DEF LoopUnsub, TypeOK
  <2>3. Known'
    BY <1>8 DEF LoopUnsub, TypeOK, Known
  <2> QED
    BY <1>8, <2>1, <2>2, <2>3 DEF LoopUnsub, TypeOK, handlerVars, queueVars
<1> QED
  BY <1>3, <1>4, <1>5, <1>6, <1>7, <1>8 DEF LoopStep, LoopRuns, LoopLocks

(* The handlers.                                                           *)
LEMMA HandlerType ==
  ASSUME TypeInv, NEW s \in Subscribers,
         \/ OpenAll(s) \/ HandlerStep(s) \/ Leave(s)
         \/ \E p \in Plugins : OpenOne(s, p)
  PROVE  TypeInv'
<1> USE DEF TypeInv
<1>1. ASSUME NEW names \in SUBSET Plugins, NEW forAll \in BOOLEAN, Open(s, names, forAll)
      PROVE  TypeInv'
  <2>1. Cardinality(names) \in Int
    BY <1>1, PluginsAssumption, FS_Subset, FS_CardinalityType
  <2>2. handler[s] = "idle" /\ stateQ[s] = << >> /\ Len(stateQ[s]) = 0
    BY <1>1 DEF Open, IdleIsEmpty
  <2>3. /\ handler' \in [Subscribers -> HandlerPlaces]
        /\ all' \in [Subscribers -> BOOLEAN]
        /\ wg' \in [Subscribers -> Int]
    BY <1>1, <2>1 DEF Open, TypeOK, HandlerPlaces
  <2>4. loop' \in [Plugins -> [Subscribers -> LoopPlaces]]
    BY <1>1 DEF Open, TypeOK, LoopPlaces
  <2>5. \A t \in Subscribers : Len(stateQ'[t]) <= IF all'[t] THEN AllSize ELSE OneSize
    BY <1>1, <2>2, SizeAssumption DEF Open, TypeOK, queueVars
  <2>6. IdleIsEmpty'
    BY <1>1 DEF Open, TypeOK, IdleIsEmpty, queueVars
  <2>7. Known'
    BY <1>1 DEF Open, TypeOK, Known
  <2> QED
    BY <1>1, <2>3, <2>4, <2>5, <2>6, <2>7 DEF Open, TypeOK, instVars, queueVars
<1>2. CASE OpenAll(s)
  BY <1>1, <1>2 DEF OpenAll, TypeOK
<1>3. ASSUME NEW p \in Plugins, OpenOne(s, p) PROVE TypeInv'
  BY <1>1, <1>3 DEF OpenOne
<1>4. CASE Forward(s)
  <2> DEFINE q == stateQ[s]
  <2>1. q \in Seq(Updates) /\ q # << >> /\ Len(q) <= IF all[s] THEN AllSize ELSE OneSize
    BY <1>4 DEF Forward, TypeOK
  <2>2. Tail(q) \in Seq(Updates) /\ Len(Tail(q)) = Len(q) - 1 /\ Head(q) \in Updates
    BY <2>1
  <2>3. /\ stateQ' = [stateQ EXCEPT ![s] = Tail(q)]
        /\ view' = [view EXCEPT ![s][Head(q).name] = Head(q).state]
        /\ UNCHANGED <<handler, all, loop, lastState>>
        /\ handler[s] # "idle"
    BY <1>4 DEF Forward, loopVars
  <2>4. /\ stateQ' \in [Subscribers -> Seq(Updates)]
        /\ \A t \in Subscribers : Len(stateQ'[t]) <= IF all'[t] THEN AllSize ELSE OneSize
    <3>1. Len(Tail(q)) <= IF all[s] THEN AllSize ELSE OneSize
      BY <2>1, <2>2, SizeAssumption
    <3> QED
      BY <2>2, <2>3, <3>1 DEF TypeOK
  <2>5. view' \in [Subscribers -> [Plugins -> States \cup {None}]]
    BY <2>2, <2>3 DEF TypeOK, Updates
  <2>6. IdleIsEmpty' /\ Known'
    BY <2>3 DEF TypeOK, IdleIsEmpty, Known
  <2> QED
    BY <1>4, <2>3, <2>4, <2>5, <2>6 DEF Forward, TypeOK, instVars
<1>5. CASE Leave(s)
  BY <1>5 DEF Leave, TypeOK, IdleIsEmpty, Known, HandlerPlaces, instVars, loopVars,
     queueVars
<1>6. CASE WaitReturns(s)
  BY <1>6 DEF WaitReturns, TypeOK, IdleIsEmpty, Known, HandlerPlaces, instVars,
     loopVars, queueVars
<1>7. CASE HandlerSubscribe(s)
  BY <1>7 DEF HandlerSubscribe, TypeOK, IdleIsEmpty, Known, HandlerPlaces, instVars,
     loopVars, queueVars
<1> QED
  BY <1>2, <1>3, <1>4, <1>5, <1>6, <1>7 DEF HandlerStep

LEMMA TypeStep == TypeInv /\ [Next]_vars => TypeInv'
<1> SUFFICES ASSUME TypeInv, [Next]_vars PROVE TypeInv'
  OBVIOUS
<1>1. CASE Next
  BY <1>1, SetterType, LoopType, HandlerType DEF Next, LoopStep
<1>2. CASE UNCHANGED vars
  BY <1>2 DEF TypeInv, TypeOK, IdleIsEmpty, Known, vars, instVars, loopVars,
     handlerVars, queueVars
<1> QED
  BY <1>1, <1>2

LEMMA TypeInvCorrect == Spec => []TypeInv
BY TypeInit, TypeStep, PTL DEF Spec

(* Type correctness: channels and queues stay within their capacities, and *)
(* only a setter that holds the mutex has listeners left to notify.        *)
THEOREM TypeCorrect == Spec => []TypeOK
<1>1. TypeInv => TypeOK
  BY DEF TypeInv
<1> QED
  BY <1>1, TypeInvCorrect, PTL

-----------------------------------------------------------------------------
(***************************************************************************)
(* The map of listeners.                                                   *)
(***************************************************************************)

(* A listener is connected as long as its loop is at work, connected ones  *)
(* are in the map, and what is in the map or still to be visited is open.  *)
Listens(p, s) ==
  /\ Active(p, s) <=> isConnected[p][s]
  /\ isConnected[p][s] => s \in listeners[p]
  /\ s \in listeners[p] => ~closed[p][s] /\ loop[p][s] \notin {"none", "subscribe"}
  /\ s \in toNotify[p] => s \in listeners[p]
  /\ loop[p][s] \in {"none", "subscribe"} => ~closed[p][s] /\ signal[p][s] = << >>

Listening == \A p \in Plugins, s \in Subscribers : Listens(p, s)

LEMMA ListeningInit == Init => Listening
BY DEF Init, Listening, Listens, Active, Each

LEMMA ListeningStep ==
  ASSUME TypeInv, Listening, [Next]_vars
  PROVE  Listening'
<1> USE DEF TypeInv
<1>1. ASSUME NEW p \in Plugins, NEW st \in States, SetBegin(p, st) PROVE Listening'
  BY <1>1 DEF SetBegin, TypeOK, Listening, Listens, Active, loopVars
<1>2. ASSUME NEW p \in Plugins, NEW s \in Subscribers, SetSend(p, s) PROVE Listening'
  <2>1. /\ signal' = [signal EXCEPT ![p][s] = Append(signal[p][s], state[p])]
        /\ toNotify' = [toNotify EXCEPT ![p] = @ \ {s}]
        /\ UNCHANGED <<listeners, isConnected, closed, loop>>
        /\ s \in toNotify[p]
    BY <1>2 DEF SetSend, loopVars
  <2>2. loop[p][s] \notin {"none", "subscribe"}
    BY <2>1 DEF Listening, Listens
  <2>3. \A r \in Plugins, t \in Subscribers :
          signal'[r][t] = IF r = p /\ t = s THEN Append(signal[p][s], state[p])
                          ELSE signal[r][t]
    BY <2>1 DEF TypeOK
  <2>4. \A r \in Plugins : toNotify'[r] \subseteq toNotify[r]
    BY <2>1 DEF TypeOK
  <2> SUFFICES ASSUME NEW r \in Plugins, NEW t \in Subscribers PROVE Listens(r, t)'
    BY DEF Listening
  <2>5. Listens(r, t)
    BY DEF Listening
  <2>6. loop[r][t] \in {"none", "subscribe"} => signal'[r][t] = signal[r][t]
    BY <2>2, <2>3
  <2> QED
    BY <2>1, <2>4, <2>5, <2>6 DEF Listens, Active
<1>3. ASSUME NEW p \in Plugins, NEW s \in Subscribers, SetDrop(p, s) PROVE Listening'
  <2>1. /\ UNCHANGED <<isConnected, signal, loop>>
        /\ ~isConnected[p][s] /\ s \in toNotify[p]
    BY <1>3 DEF SetDrop, loopVars
  <2>2. \A r \in Plugins, t \in Subscribers :
          /\ closed'[r][t] = IF r = p /\ t = s THEN TRUE ELSE closed[r][t]
          /\ t \in listeners'[r] <=> t \in listeners[r] /\ ~(r = p /\ t = s)
          /\ t \in toNotify'[r] <=> t \in toNotify[r] /\ ~(r = p /\ t = s)
    BY <1>3 DEF SetDrop, TypeOK
  <2>3. loop[p][s] \notin {"none", "subscribe"} /\ ~Active(p, s)
    BY <2>1 DEF Listening, Listens
  <2> SUFFICES ASSUME NEW r \in Plugins, NEW t \in Subscribers PROVE Listens(r, t)'
    BY DEF Listening
  <2>4. CASE r = p /\ t = s
    BY <2>1, <2>2, <2>3, <2>4 DEF Listens, Active
  <2>5. CASE ~(r = p /\ t = s)
    <3>1. closed'[r][t] = closed[r][t] /\ Listens(r, t)
      BY <2>2, <2>5 DEF Listening
    <3> QED
      BY <2>1, <2>2, <2>5, <3>1 DEF Listens, Active
  <2> QED
    BY <2>4, <2>5
<1>4. ASSUME NEW p \in Plugins, SetEnd(p) PROVE Listening'
  BY <1>4 DEF SetEnd, Listening, Listens, Active, loopVars
<1>5. ASSUME NEW p \in Plugins, NEW s \in Subscribers, LoopSubscribe(p, s)
      PROVE  Listening'
  <2>1. \A r \in Plugins, t \in Subscribers :
          /\ isConnected'[r][t] = IF r = p /\ t = s THEN TRUE ELSE isConnected[r][t]
          /\ t \in listeners'[r] <=> t \in listeners[r] \/ (r = p /\ t = s)
          /\ loop'[r][t] = IF r = p /\ t = s THEN "getState" ELSE loop[r][t]
    BY <1>5 DEF LoopSubscribe, TypeOK
  <2>2. UNCHANGED <<closed, signal, toNotify>> /\ loop[p][s] = "subscribe"
    BY <1>5 DEF LoopSubscribe
  <2> SUFFICES ASSUME NEW r \in Plugins, NEW t \in Subscribers PROVE Listens(r, t)'
    BY DEF Listening
  <2>3. Listens(r, t)
    BY DEF Listening
  <2>4. CASE r = p /\ t = s
    BY <2>1, <2>2, <2>3, <2>4 DEF Listens, Active
  <2>5. CASE ~(r = p /\ t = s)
    <3>1. isConnected'[r][t] = isConnected[r][t] /\ loop'[r][t] = loop[r][t]
      BY <2>1, <2>5
    <3> QED
      BY <2>1, <2>2, <2>3, <2>5, <3>1 DEF Listens, Active
  <2> QED
    BY <2>4, <2>5
<1>6. ASSUME NEW p \in Plugins, NEW s \in Subscribers, NEW from, NEW to,
             loop[p][s] = from, loop' = [loop EXCEPT ![p][s] = to],
             from \in {"getState", "push", "select", "unsub"},
             to \in {"getState", "push", "select", "unsub"},
             UNCHANGED <<isConnected, listeners, closed, toNotify>>,
             \A r \in Plugins, t \in Subscribers :
               signal[r][t] = << >> => signal'[r][t] = << >>
      PROVE  Listening'
  <2>1. \A r \in Plugins, t \in Subscribers :
          loop'[r][t] = IF r = p /\ t = s THEN to ELSE loop[r][t]
    BY <1>6 DEF TypeOK
  <2> QED
    BY <1>6, <2>1 DEF Listening, Listens, Active
<1>7. ASSUME NEW p \in Plugins, NEW s \in Subscribers,
             LoopGetState(p, s) \/ LoopPush(p, s) \/ LoopQuit(p, s)
      PROVE  Listening'
  BY <1>6, <1>7 DEF LoopGetState, LoopPush, LoopQuit, instVars
<1>8. ASSUME NEW p \in Plugins, NEW s \in Subscribers, LoopReceive(p, s)
      PROVE  Listening'
  <2>1. \A r \in Plugins, t \in Subscribers :
          signal[r][t] = << >> => signal'[r][t] = << >>
    BY <1>8 DEF LoopReceive, TypeOK
  <2>2. PICK to \in {"push", "select"} : loop' = [loop EXCEPT ![p][s] = to]
    BY <1>8 DEF LoopReceive
  <2> QED
    BY <1>6, <1>8, <2>1, <2>2 DEF LoopReceive
<1>9. ASSUME NEW p \in Plugins, NEW s \in Subscribers, LoopUnsub(p, s)
      PROVE  Listening'
  <2>1. \A r \in Plugins, t \in Subscribers :
          /\ isConnected'[r][t] = IF r = p /\ t = s THEN FALSE ELSE isConnected[r][t]
          /\ loop'[r][t] = IF r = p /\ t = s THEN "ended" ELSE loop[r][t]
    BY <1>9 DEF LoopUnsub, TypeOK
  <2>2. UNCHANGED <<listeners, closed, signal, toNotify>>
    BY <1>9 DEF LoopUnsub
  <2> SUFFICES ASSUME NEW r \in Plugins, NEW t \in Subscribers PROVE Listens(r, t)'
    BY DEF Listening
  <2>3. Listens(r, t)
    BY DEF Listening
  <2>4. CASE r = p /\ t = s
    <3>1. ~isConnected'[p][s] /\ loop'[p][s] = "ended" /\ loop[p][s] = "unsub"
      BY <1>9, <2>1 DEF LoopUnsub
    <3> QED
      BY <2>2, <2>3, <2>4, <3>1 DEF Listens, Active
  <2>5. CASE ~(r = p /\ t = s)
    <3>1. isConnected'[r][t] = isConnected[r][t] /\ loop'[r][t] = loop[r][t]
      BY <2>1, <2>5
    <3> QED
      BY <2>2, <2>3, <3>1 DEF Listens, Active
  <2> QED
    BY <2>4, <2>5
<1>10. ASSUME NEW s \in Subscribers, NEW names \in SUBSET Plugins, NEW forAll,
              Open(s, names, forAll)
       PROVE  Listening'
  <2>1. /\ UNCHANGED instVars
        /\ \A r \in Plugins, t \in Subscribers :
             \/ loop'[r][t] = loop[r][t]
             \/ loop[r][t] = "none" /\ loop'[r][t] = "subscribe"
    BY <1>10 DEF Open, IdleIsEmpty, TypeOK
  <2> QED
    BY <2>1 DEF Listening, Listens, Active, instVars
<1>11. ASSUME UNCHANGED <<instVars, loopVars>> PROVE Listening'
  BY <1>11 DEF Listening, Listens, Active, instVars, loopVars
<1>12. ASSUME NEW s \in Subscribers, HandlerStep(s) \/ Leave(s) PROVE Listening'
  BY <1>11, <1>12 DEF HandlerStep, HandlerSubscribe, Forward, WaitReturns, Leave
<1>13. ASSUME NEW s \in Subscribers, OpenAll(s) \/ \E p \in Plugins : OpenOne(s, p)
       PROVE  Listening'
  BY <1>10, <1>13 DEF OpenAll, OpenOne, TypeOK
<1>14. CASE UNCHANGED vars
  BY <1>11, <1>14 DEF vars
<1> QED
  BY <1>1, <1>2, <1>3, <1>4, <1>5, <1>7, <1>8, <1>9, <1>12, <1>13, <1>14
     DEF Next, SetterStep, LoopRuns, LoopLocks

LEMMA ListeningCorrect == Spec => []Listening
BY ListeningInit, ListeningStep, TypeInvCorrect, PTL DEF Spec

(* No setter ever sends on, or closes, a channel that was closed before,   *)
(* and the channel of a loop at work is open.                              *)
THEOREM ChannelsCorrect == Spec => []ReachableChannelsOpen
<1>1. Listening => ReachableChannelsOpen
  BY DEF Listening, Listens, ReachableChannelsOpen
<1> QED
  BY <1>1, ListeningCorrect, PTL

(* The name that unsub looks up is always in the map.                      *)
THEOREM UnsubCorrect == Spec => []UnsubFindsListener
<1>1. Listening => UnsubFindsListener
  BY DEF Listening, Listens, UnsubFindsListener
<1> QED
  BY <1>1, ListeningCorrect, PTL

(* Both of the above, as the run checks them.                              *)
THEOREM ListenersCorrect == Spec => []ListenersSound
<1>1. ReachableChannelsOpen /\ UnsubFindsListener => ListenersSound
  BY DEF ListenersSound
<1> QED
  BY <1>1, ChannelsCorrect, UnsubCorrect, PTL

-----------------------------------------------------------------------------
(***************************************************************************)
(* What is for ever.                                                       *)
(***************************************************************************)

(* A setter waits on a full channel of a loop that needs the mutex: while  *)
(* the mutex is held, neither can move.                                    *)
LEMMA JamStep ==
  ASSUME TypeInv, [Next]_vars, NEW p \in Plugins, Jammed(p)
  PROVE  Jammed(p)'
<1> USE DEF TypeInv
<1> DEFINE Stuck(s) == /\ s \in toNotify[p] /\ isConnected[p][s] /\ Full(p, s)
                       /\ loop[p][s] \in {"getState", "unsub"}
<1>1. PICK s \in Subscribers : Stuck(s)
  BY DEF Jammed, TypeOK
<1>2. setting[p] /\ toNotify[p] # {}
  BY <1>1 DEF TypeOK
<1> SUFFICES Stuck(s)'
  BY DEF Jammed
<1>3. ASSUME NEW r \in Plugins, NEW st \in States, SetBegin(r, st) PROVE Stuck(s)'
  BY <1>1, <1>2, <1>3 DEF SetBegin, TypeOK, Full, loopVars
<1>4. ASSUME NEW r \in Plugins, NEW t \in Subscribers, SetSend(r, t) PROVE Stuck(s)'
  <2>1. ~(r = p /\ t = s)
    BY <1>1, <1>4 DEF SetSend
  <2>2. signal'[p][s] = signal[p][s] /\ s \in toNotify'[p]
    BY <1>1, <1>4, <2>1 DEF SetSend, TypeOK
  <2> QED
    BY <1>1, <1>4, <2>2 DEF SetSend, Full, loopVars
<1>5. ASSUME NEW r \in Plugins, NEW t \in Subscribers, SetDrop(r, t) PROVE Stuck(s)'
  <2>1. ~(r = p /\ t = s)
    BY <1>1, <1>5 DEF SetDrop
  <2>2. s \in toNotify'[p]
    BY <1>1, <1>5, <2>1 DEF SetDrop, TypeOK
  <2> QED
    BY <1>1, <1>5, <2>2 DEF SetDrop, Full, loopVars
<1>6. ASSUME NEW r \in Plugins, SetEnd(r) PROVE Stuck(s)'
  BY <1>1, <1>6 DEF SetEnd, Full, loopVars
<1>7. ASSUME NEW r \in Plugins, NEW t \in Subscribers, LoopStep(r, t) PROVE Stuck(s)'
  <2>1. ~(r = p /\ t = s)
    BY <1>1, <1>2, <1>7 DEF LoopStep, LoopRuns, LoopLocks, LoopSubscribe,
       LoopGetState,
       LoopUnsub, LoopPush, LoopReceive, LoopQuit, Full
  <2>2. /\ isConnected'[p][s] = isConnected[p][s]
        /\ signal'[p][s] = signal[p][s]
        /\ loop'[p][s] = loop[p][s]
        /\ toNotify' = toNotify
    BY <1>7, <2>1 DEF LoopStep, LoopRuns, LoopLocks, LoopSubscribe, LoopGetState,
       LoopUnsub, LoopPush, LoopReceive, LoopQuit, instVars, TypeOK
  <2> QED
    BY <1>1, <2>2 DEF Full
<1>8. ASSUME NEW t \in Subscribers, NEW names \in SUBSET Plugins, NEW forAll,
             Open(t, names, forAll)
      PROVE  Stuck(s)'
  <2>1. s # t
    BY <1>1, <1>8 DEF Open, IdleIsEmpty
  <2>2. loop'[p][s] = loop[p][s] /\ UNCHANGED instVars
    BY <1>8, <2>1 DEF Open, TypeOK
  <2> QED
    BY <1>1, <2>2 DEF Full, instVars
<1>9. ASSUME UNCHANGED <<instVars, loopVars>> PROVE Stuck(s)'
  BY <1>1, <1>9 DEF Full, instVars, loopVars
<1>10. ASSUME NEW t \in Subscribers, HandlerStep(t) \/ Leave(t) PROVE Stuck(s)'
  BY <1>9, <1>10 DEF HandlerStep, HandlerSubscribe, Forward, WaitReturns, Leave
<1>11. ASSUME NEW t \in Subscribers, OpenAll(t) \/ \E r \in Plugins : OpenOne(t, r)
       PROVE  Stuck(s)'
  BY <1>8, <1>11 DEF OpenAll, OpenOne, TypeOK
<1>12. CASE UNCHANGED vars
  BY <1>9, <1>12 DEF vars
<1> QED
  BY <1>3, <1>4, <1>5, <1>6, <1>7, <1>10, <1>11, <1>12
     DEF Next, SetterStep, LoopStep

(* A jam is for ever: no step of anybody ends it.                          *)
THEOREM JamPermanent == Spec => JamIsForever
<1>1. TypeInv /\ [Next]_vars => [\A p \in Plugins : Jammed(p) => Jammed(p)']_vars
  BY JamStep
<1> QED
  BY <1>1, TypeInvCorrect, PTL DEF Spec, JamIsForever

(* The counter of a WaitGroup stays at the number of loops started.        *)
Counted ==
  \A s \in Subscribers :
    /\ handler[s] = "waiting" => all[s]
    /\ handler[s] # "idle" /\ all[s] => wg[s] = Cardinality(registry)

LEMMA CountedStep == TypeInv /\ Counted /\ [Next]_vars => Counted'
<1> SUFFICES ASSUME TypeInv, Counted, [Next]_vars PROVE Counted'
  OBVIOUS
<1> USE DEF TypeInv
<1>1. ASSUME UNCHANGED <<registry, handlerVars>> PROVE Counted'
  BY <1>1 DEF Counted, handlerVars
<1>2. ASSUME NEW p \in Plugins, SetterStep(p) \/ \E st \in States : SetBegin(p, st)
      PROVE  Counted'
  BY <1>1, <1>2 DEF SetterStep, SetSend, SetDrop, SetEnd, SetBegin
<1>3. ASSUME NEW p \in Plugins, NEW s \in Subscribers, LoopStep(p, s) PROVE Counted'
  BY <1>1, <1>3 DEF LoopStep, LoopRuns, LoopLocks, LoopSubscribe, LoopGetState,
     LoopUnsub, LoopPush, LoopReceive, LoopQuit
<1>4. ASSUME NEW s \in Subscribers, NEW p \in Plugins, OpenOne(s, p) PROVE Counted'
  BY <1>4 DEF OpenOne, Open, TypeOK, Counted
<1>5. ASSUME NEW s \in Subscribers, OpenAll(s) PROVE Counted'
  BY <1>5 DEF OpenAll, Open, TypeOK, Counted
<1>6. ASSUME NEW s \in Subscribers, HandlerStep(s) \/ Leave(s) PROVE Counted'
  BY <1>6 DEF HandlerStep, HandlerSubscribe, Forward, WaitReturns, Leave, TypeOK,
     Counted
<1>7. CASE UNCHANGED vars
  BY <1>1, <1>7 DEF vars
<1> QED
  BY <1>2, <1>3, <1>4, <1>5, <1>6, <1>7 DEF Next, LoopStep

(* The handler of "all" never returns once it has started a loop.          *)
THEOREM WaitPermanent == Spec => WaitIsForever
<1>1. Init => Counted
  BY DEF Init, Counted
<1>2. Spec => []Counted
  BY <1>1, CountedStep, TypeInvCorrect, PTL DEF Spec
<1>3. TypeInv /\ Counted /\ [Next]_vars
        => [\A s \in Subscribers :
              handler[s] = "waiting" /\ registry # {} => handler'[s] = "waiting"]_vars
  <2> SUFFICES ASSUME TypeInv, Counted, Next, NEW s \in Subscribers,
                      handler[s] = "waiting", registry # {}
               PROVE  handler'[s] = "waiting"
    OBVIOUS
  <2> USE DEF TypeInv
  <2>1. wg[s] # 0
    <3>1. IsFiniteSet(registry)
      BY PluginsAssumption, FS_Subset DEF TypeOK
    <3>2. Cardinality(registry) # 0
      BY <3>1, FS_EmptySet
    <3> QED
      BY <3>2 DEF Counted
  <2>2. ASSUME UNCHANGED handler PROVE handler'[s] = "waiting"
    BY <2>2
  <2>3. ASSUME NEW p \in Plugins, SetterStep(p) \/ \E st \in States : SetBegin(p, st)
        PROVE  UNCHANGED handler
    BY <2>3 DEF SetterStep, SetSend, SetDrop, SetEnd, SetBegin, handlerVars
  <2>4. ASSUME NEW p \in Plugins, NEW t \in Subscribers, LoopStep(p, t)
        PROVE  UNCHANGED handler
    BY <2>4 DEF LoopStep, LoopRuns, LoopLocks, LoopSubscribe, LoopGetState,
       LoopUnsub, LoopPush, LoopReceive, LoopQuit, handlerVars
  <2>5. ASSUME NEW t \in Subscribers,
               OpenAll(t) \/ (\E p \in Plugins : OpenOne(t, p)) \/ HandlerStep(t) \/ Leave(t)
        PROVE  handler'[s] = "waiting"
    BY <2>1, <2>5 DEF OpenAll, OpenOne, Open, HandlerStep, HandlerSubscribe,
       Forward, WaitReturns, Leave, TypeOK
  <2> QED
    BY <2>2, <2>3, <2>4, <2>5 DEF Next, LoopStep
<1> QED
  BY <1>2, <1>3, TypeInvCorrect, PTL DEF Spec, WaitIsForever

(* The jam and the wait, as the run checks them.                           *)
THEOREM StuckPermanent == Spec => StuckIsForever
BY JamPermanent, WaitPermanent DEF StuckIsForever

-----------------------------------------------------------------------------
(***************************************************************************)
(* What subscribers know.                                                  *)
(***************************************************************************)

(* What a channel holds ends with the present state, from the subscription *)
(* on; when it holds nothing, a loop that has read the state knows it.     *)
IsFresh(p, s) ==
  s \notin toNotify[p] =>
    /\ loop[p][s] \in {"getState", "push", "select"} /\ signal[p][s] # << >>
         => signal[p][s][Len(signal[p][s])] = state[p]
    /\ loop[p][s] \in {"push", "select"} /\ signal[p][s] = << >>
         => lastState[p][s] = state[p]

Fresh == \A p \in Plugins, s \in Subscribers : IsFresh(p, s)

(* A step that leaves what IsFresh is about alone.                         *)
Untouched(p, s) ==
  /\ state'[p] = state[p] /\ toNotify'[p] = toNotify[p]
  /\ signal'[p][s] = signal[p][s] /\ lastState'[p][s] = lastState[p][s]
  /\ loop'[p][s] = loop[p][s]

LEMMA FreshStep ==
  ASSUME TypeInv, Listening, Fresh, [Next]_vars,
         NEW p \in Plugins, NEW s \in Subscribers
  PROVE  IsFresh(p, s)'
<1> USE DEF TypeInv
<1>1. IsFresh(p, s) /\ Listens(p, s)
  BY DEF Fresh, Listening
<1>2. ASSUME Untouched(p, s) PROVE IsFresh(p, s)'
  BY <1>1, <1>2 DEF Untouched, IsFresh
<1>3. ASSUME NEW r \in Plugins, NEW st \in States, SetBegin(r, st) PROVE IsFresh(p, s)'
  <2>1. CASE r # p
    BY <1>2, <1>3, <2>1 DEF SetBegin, TypeOK, Untouched, loopVars
  <2>2. CASE r = p
    <3>1. toNotify'[p] = listeners[p] /\ loop'[p][s] = loop[p][s]
      BY <1>3, <2>2 DEF SetBegin, TypeOK, loopVars
    <3> QED
      BY <1>1, <3>1 DEF Listens, Active, IsFresh
  <2> QED
    BY <2>1, <2>2
<1>4. ASSUME NEW r \in Plugins, NEW t \in Subscribers, SetSend(r, t)
      PROVE  IsFresh(p, s)'
  <2>1. CASE r = p /\ t = s
    <3>1. signal[p][s] \in Seq(States) /\ state[p] \in States
      BY DEF TypeOK
    <3>2. signal'[p][s] = Append(signal[p][s], state[p]) /\ state' = state
      BY <1>4, <2>1 DEF SetSend, TypeOK
    <3>3. signal'[p][s] # << >> /\ signal'[p][s][Len(signal'[p][s])] = state'[p]
      BY <3>1, <3>2
    <3> QED
      BY <3>3 DEF IsFresh
  <2>2. CASE ~(r = p /\ t = s)
    <3>1. /\ state' = state /\ lastState' = lastState /\ loop' = loop
          /\ signal'[p][s] = signal[p][s]
          /\ s \in toNotify'[p] <=> s \in toNotify[p]
      BY <1>4, <2>2 DEF SetSend, TypeOK, loopVars
    <3> QED
      BY <1>1, <3>1 DEF IsFresh
  <2> QED
    BY <2>1, <2>2
<1>5. ASSUME NEW r \in Plugins, NEW t \in Subscribers, SetDrop(r, t)
      PROVE  IsFresh(p, s)'
  <2>1. state' = state /\ lastState' = lastState /\ loop' = loop /\ signal' = signal
    BY <1>5 DEF SetDrop, loopVars
  <2>2. CASE r = p /\ t = s
    <3>1. loop'[p][s] \notin {"getState", "push", "select"}
      BY <1>1, <1>5, <2>1, <2>2 DEF SetDrop, Listens, Active
    <3> QED
      BY <3>1 DEF IsFresh
  <2>3. CASE ~(r = p /\ t = s)
    <3>1. s \in toNotify'[p] <=> s \in toNotify[p]
      BY <1>5, <2>3 DEF SetDrop, TypeOK
    <3> QED
      BY <1>1, <2>1, <3>1 DEF IsFresh
  <2> QED
    BY <2>2, <2>3
<1>6. ASSUME NEW r \in Plugins, SetEnd(r) PROVE IsFresh(p, s)'
  BY <1>2, <1>6 DEF SetEnd, Untouched, loopVars
<1>7. ASSUME NEW r \in Plugins, NEW t \in Subscribers, LoopStep(r, t),
             ~(r = p /\ t = s)
      PROVE  IsFresh(p, s)'
  <2>1. Untouched(p, s)
    BY <1>7 DEF LoopStep, LoopRuns, LoopLocks, LoopSubscribe, LoopGetState, LoopUnsub,
       LoopPush, LoopReceive, LoopQuit, instVars, TypeOK, Untouched
  <2> QED
    BY <1>2, <2>1
<1>8. ASSUME LoopStep(p, s) PROVE IsFresh(p, s)'
  <2>1. CASE LoopSubscribe(p, s)
    <3>1. loop'[p][s] = "getState" /\ signal'[p][s] = << >>
      BY <1>1, <2>1 DEF LoopSubscribe, TypeOK, Listens
    <3> QED
      BY <3>1 DEF IsFresh
  <2>2. CASE LoopGetState(p, s)
    <3>1. /\ loop[p][s] = "getState" /\ lastState'[p][s] = state[p]
          /\ UNCHANGED <<state, toNotify, signal>>
      BY <2>2 DEF LoopGetState, TypeOK, instVars
    <3> QED
      BY <1>1, <3>1 DEF IsFresh
  <2>3. CASE LoopPush(p, s)
    <3>1. loop[p][s] = "push" /\ UNCHANGED <<state, toNotify, signal, lastState>>
      BY <2>3 DEF LoopPush, instVars
    <3> QED
      BY <1>1, <3>1 DEF IsFresh
  <2>4. CASE LoopReceive(p, s)
    <3> DEFINE q == signal[p][s]
    <3>1. /\ loop[p][s] = "select" /\ q # << >>
          /\ signal'[p][s] = Tail(q) /\ lastState'[p][s] = Head(q)
          /\ UNCHANGED <<state, toNotify>>
      BY <2>4 DEF LoopReceive, TypeOK
    <3>2. q \in Seq(States)
      BY DEF TypeOK
    <3>3. CASE Tail(q) = << >>
      <4>1. Head(q) = q[Len(q)]
        BY <3>1, <3>2, <3>3, OneElement
      <4> QED
        BY <1>1, <3>1, <3>3, <4>1 DEF IsFresh
    <3>4. CASE Tail(q) # << >>
      <4>1. Tail(q)[Len(Tail(q))] = q[Len(q)]
        BY <3>1, <3>2, <3>4
      <4> QED
        BY <1>1, <3>1, <3>4, <4>1 DEF IsFresh
    <3> QED
      BY <3>3, <3>4
  <2>5. CASE LoopQuit(p, s) \/ LoopUnsub(p, s)
    <3>1. loop'[p][s] \in {"unsub", "ended"}
      BY <2>5 DEF LoopQuit, LoopUnsub, TypeOK
    <3> QED
      BY <3>1 DEF IsFresh
  <2> QED
    BY <1>8, <2>1, <2>2, <2>3, <2>4, <2>5 DEF LoopStep, LoopRuns, LoopLocks
<1>9. ASSUME NEW t \in Subscribers, NEW names \in SUBSET Plugins, NEW forAll,
             Open(t, names, forAll)
      PROVE  IsFresh(p, s)'
  <2>1. CASE loop'[p][s] = "subscribe"
    BY <2>1 DEF IsFresh
  <2>2. CASE loop'[p][s] = loop[p][s]
    BY <1>2, <1>9, <2>2 DEF Open, Untouched, instVars
  <2> QED
    BY <1>9, <2>1, <2>2 DEF Open, TypeOK
<1>10. ASSUME UNCHANGED <<instVars, loopVars>> PROVE IsFresh(p, s)'
  BY <1>2, <1>10 DEF Untouched, instVars, loopVars
<1>11. ASSUME NEW t \in Subscribers, HandlerStep(t) \/ Leave(t) PROVE IsFresh(p, s)'
  BY <1>10, <1>11 DEF HandlerStep, HandlerSubscribe, Forward, WaitReturns, Leave
<1>12. ASSUME NEW t \in Subscribers, OpenAll(t) \/ \E r \in Plugins : OpenOne(t, r)
       PROVE  IsFresh(p, s)'
  BY <1>9, <1>12 DEF OpenAll, OpenOne, TypeOK
<1>13. CASE UNCHANGED vars
  BY <1>10, <1>13 DEF vars
<1> QED
  BY <1>3, <1>4, <1>5, <1>6, <1>7, <1>8, <1>11, <1>12, <1>13
     DEF Next, SetterStep, LoopStep

LEMMA FreshCorrect == Spec => []Fresh
<1>1. Init => Fresh
  BY DEF Init, Fresh, IsFresh, Each
<1>2. TypeInv /\ Listening /\ Fresh /\ [Next]_vars => Fresh'
  BY FreshStep DEF Fresh
<1> QED
  BY <1>1, <1>2, TypeInvCorrect, ListeningCorrect, PTL DEF Spec

(* No feed rests on an old state.                                          *)
THEOREM FeedCorrect == Spec => []FeedIsCurrent
<1>1. TypeInv /\ Fresh => FeedIsCurrent
  BY DEF Fresh, IsFresh, FeedIsCurrent, Newest
<1> QED
  BY <1>1, TypeInvCorrect, FreshCorrect, PTL

(* The last update a client of one plugin gets, or has got.                *)
IsDelivered(p, s) ==
  handler[s] \in {"opening", "streaming"} /\ ~all[s] /\ loop[p][s] = "select" =>
    IF stateQ[s] # << >>
    THEN stateQ[s][Len(stateQ[s])] = [name |-> p, state |-> lastState[p][s]]
    ELSE view[s][p] = lastState[p][s]

(* A client of one plugin has one loop.                                    *)
OnlyOne ==
  \A s \in Subscribers : \A p, r \in Plugins :
    handler[s] # "idle" /\ ~all[s] /\ loop[p][s] # "none" /\ loop[r][s] # "none"
      => p = r

Delivered == OnlyOne /\ \A p \in Plugins, s \in Subscribers : IsDelivered(p, s)

LEMMA OnlyOneStep == TypeInv /\ OnlyOne /\ [Next]_vars => OnlyOne'
<1> SUFFICES ASSUME TypeInv, OnlyOne, [Next]_vars PROVE OnlyOne'
  OBVIOUS
<1> USE DEF TypeInv
<1>1. ASSUME \A s \in Subscribers : handler'[s] # "idle" => handler[s] # "idle",
             UNCHANGED all,
             \A p \in Plugins, s \in Subscribers : loop'[p][s] # "none" => loop[p][s] # "none"
      PROVE  OnlyOne'
  BY <1>1 DEF OnlyOne
<1>2. ASSUME NEW p \in Plugins, SetterStep(p) \/ \E st \in States : SetBegin(p, st)
      PROVE  OnlyOne'
  BY <1>1, <1>2 DEF SetterStep, SetSend, SetDrop, SetEnd, SetBegin, loopVars,
     handlerVars, queueVars
<1>3. ASSUME NEW p \in Plugins, NEW s \in Subscribers, LoopStep(p, s) PROVE OnlyOne'
  <2>1. UNCHANGED <<handler, all>>
    BY <1>3 DEF LoopStep, LoopRuns, LoopLocks, LoopSubscribe, LoopGetState, LoopUnsub,
       LoopPush, LoopReceive, LoopQuit, handlerVars
  <2>2. loop[p][s] # "none"
    BY <1>3 DEF LoopStep, LoopRuns, LoopLocks, LoopSubscribe, LoopGetState, LoopUnsub,
       LoopPush, LoopReceive, LoopQuit
  <2>3. PICK to : loop' = [loop EXCEPT ![p][s] = to]
    BY <1>3 DEF LoopStep, LoopRuns, LoopLocks, LoopSubscribe, LoopGetState, LoopUnsub,
       LoopPush, LoopReceive, LoopQuit
  <2>4. \A r \in Plugins, t \in Subscribers :
          loop'[r][t] # "none" => loop[r][t] # "none"
    BY <2>2, <2>3 DEF TypeOK
  <2> QED
    BY <1>1, <2>1, <2>4
<1>4. ASSUME NEW s \in Subscribers, NEW p \in Plugins, OpenOne(s, p) PROVE OnlyOne'
  <2>1. \A r \in Plugins : loop'[r][s] # "none" => r = p
    BY <1>4 DEF OpenOne, Open, IdleIsEmpty, TypeOK
  <2>2. \A t \in Subscribers \ {s} :
          /\ handler'[t] = handler[t] /\ all'[t] = all[t]
          /\ \A r \in Plugins : loop'[r][t] = loop[r][t]
    BY <1>4 DEF OpenOne, Open, TypeOK
  <2> QED
    BY <2>1, <2>2 DEF OnlyOne
<1>5. ASSUME NEW s \in Subscribers, OpenAll(s) PROVE OnlyOne'
  <2>1. all'[s]
    BY <1>5 DEF OpenAll, Open, TypeOK
  <2>2. \A t \in Subscribers \ {s} :
          /\ handler'[t] = handler[t] /\ all'[t] = all[t]
          /\ \A r \in Plugins : loop'[r][t] = loop[r][t]
    BY <1>5 DEF OpenAll, Open, TypeOK
  <2> QED
    BY <2>1, <2>2 DEF OnlyOne
<1>6. ASSUME NEW s \in Subscribers, HandlerStep(s) \/ Leave(s) PROVE OnlyOne'
  BY <1>1, <1>6 DEF HandlerStep, HandlerSubscribe, Forward, WaitReturns, Leave,
     TypeOK, loopVars
<1>7. CASE UNCHANGED vars
  BY <1>1, <1>7 DEF vars, loopVars, handlerVars, queueVars
<1> QED
  BY <1>2, <1>3, <1>4, <1>5, <1>6, <1>7 DEF Next, LoopStep

LEMMA DeliveredStep ==
  ASSUME TypeInv, Delivered, [Next]_vars, NEW p \in Plugins, NEW s \in Subscribers
  PROVE  IsDelivered(p, s)'
<1> USE DEF TypeInv
<1>1. IsDelivered(p, s)
  BY DEF Delivered
<1>2. ASSUME loop'[p][s] = "select" => loop[p][s] = "select",
             loop'[p][s] = "select" => lastState'[p][s] = lastState[p][s],
             UNCHANGED <<handler, all, view>>, stateQ'[s] = stateQ[s]
      PROVE  IsDelivered(p, s)'
  BY <1>1, <1>2 DEF IsDelivered
<1>3. ASSUME NEW r \in Plugins, SetterStep(r) \/ \E st \in States : SetBegin(r, st)
      PROVE  IsDelivered(p, s)'
  BY <1>2, <1>3 DEF SetterStep, SetSend, SetDrop, SetEnd, SetBegin, loopVars,
     handlerVars, queueVars
<1>4. ASSUME NEW r \in Plugins, NEW t \in Subscribers,
             LoopSubscribe(r, t) \/ LoopGetState(r, t) \/ LoopUnsub(r, t) \/ LoopQuit(r, t)
      PROVE  IsDelivered(p, s)'
  <2>1. UNCHANGED <<handler, all, view, stateQ>>
    BY <1>4 DEF LoopSubscribe, LoopGetState, LoopUnsub, LoopQuit, handlerVars,
       queueVars
  <2>2. CASE r = p /\ t = s
    BY <1>4, <2>2 DEF LoopSubscribe, LoopGetState, LoopUnsub, LoopQuit, TypeOK,
       IsDelivered
  <2>3. CASE ~(r = p /\ t = s)
    <3>1. loop'[p][s] = loop[p][s] /\ lastState'[p][s] = lastState[p][s]
      BY <1>4, <2>3 DEF LoopSubscribe, LoopGetState, LoopUnsub, LoopQuit, TypeOK
    <3> QED
      BY <1>2, <2>1, <3>1
  <2> QED
    BY <2>2, <2>3
<1>5. ASSUME NEW r \in Plugins, NEW t \in Subscribers, LoopReceive(r, t)
      PROVE  IsDelivered(p, s)'
  <2>1. UNCHANGED <<handler, all, view, stateQ>>
    BY <1>5 DEF LoopReceive, handlerVars, queueVars
  <2>2. loop'[p][s] = "select" => /\ loop[p][s] = "select"
                                  /\ lastState'[p][s] = lastState[p][s]
    BY <1>5 DEF LoopReceive, TypeOK
  <2> QED
    BY <1>2, <2>1, <2>2
<1>6. ASSUME NEW r \in Plugins, NEW t \in Subscribers, LoopPush(r, t)
      PROVE  IsDelivered(p, s)'
  <2>1. /\ UNCHANGED <<handler, all, view, lastState>> /\ loop[r][t] = "push"
        /\ loop' = [loop EXCEPT ![r][t] = "select"]
    BY <1>6 DEF LoopPush, handlerVars
  <2>2. CASE t # s
    <3>1. stateQ'[s] = stateQ[s] /\ loop'[p][s] = loop[p][s]
      BY <1>6, <2>1, <2>2 DEF LoopPush, TypeOK
    <3> QED
      BY <1>2, <2>1, <3>1
  <2>3. CASE t = s /\ r # p
    <3>1. loop'[p][s] = loop[p][s]
      BY <2>1, <2>3 DEF TypeOK
    <3>2. loop[p][s] = "select" => handler[s] = "idle" \/ all[s]
      BY <2>1, <2>3 DEF Delivered, OnlyOne
    <3> QED
      BY <2>1, <3>1, <3>2 DEF IsDelivered
  <2>4. CASE t = s /\ r = p
    <3> DEFINE u == [name |-> p, state |-> lastState[p][s]]
               n == IF all[s] THEN AllSize ELSE OneSize
               q == stateQ[s]
    <3>1. u \in Updates /\ n \in Nat \ {0}
      BY <2>1, <2>4, SizeAssumption DEF Updates, Known
    <3>2. q \in Seq(Updates) /\ Len(q) <= n
      BY DEF TypeOK
    <3>3. stateQ'[s] = Pushed(q, n, u)
      BY <1>6, <2>4 DEF LoopPush, TypeOK
    <3> HIDE DEF u, n, q
    <3>4. /\ Pushed(q, n, u) \in Seq(Updates)
          /\ Len(Pushed(q, n, u)) \in 1..n
          /\ Pushed(q, n, u)[Len(Pushed(q, n, u))] = u
      BY <3>1, <3>2, PushedFacts
    <3>5. Pushed(q, n, u) # << >>
      BY <3>1, <3>4
    <3> DEFINE new == Pushed(q, n, u)
    <3>6. stateQ'[s] = new /\ new # << >> /\ new[Len(new)] = u
      BY <3>3, <3>4, <3>5
    <3> HIDE DEF new
    <3> QED
      BY <2>1, <3>6 DEF IsDelivered, u
  <2> QED
    BY <2>2, <2>3, <2>4
<1>7. ASSUME NEW t \in Subscribers, NEW names \in SUBSET Plugins, NEW forAll,
             Open(t, names, forAll)
      PROVE  IsDelivered(p, s)'
  <2>1. CASE t # s
    BY <1>1, <1>7, <2>1 DEF Open, TypeOK, IsDelivered, queueVars
  <2>2. CASE t = s
    <3>1. loop'[p][s] # "select"
      BY <1>7, <2>2 DEF Open, TypeOK, IdleIsEmpty
    <3> QED
      BY <3>1 DEF IsDelivered
  <2> QED
    BY <2>1, <2>2
<1>8. ASSUME NEW t \in Subscribers, Leave(t) \/ WaitReturns(t) \/ HandlerSubscribe(t)
      PROVE  IsDelivered(p, s)'
  <2>1. UNCHANGED <<loop, lastState, all, view, stateQ>>
    BY <1>8 DEF Leave, WaitReturns, HandlerSubscribe, loopVars, queueVars
  <2>2. handler'[s] \in {"opening", "streaming"} => handler[s] \in {"opening", "streaming"}
    BY <1>8 DEF Leave, WaitReturns, HandlerSubscribe, TypeOK
  <2> QED
    BY <1>1, <2>1, <2>2 DEF IsDelivered
<1>9. ASSUME NEW t \in Subscribers, Forward(t) PROVE IsDelivered(p, s)'
  <2>1. UNCHANGED <<loop, lastState, handler, all>>
    BY <1>9 DEF Forward, loopVars
  <2>2. CASE t # s
    BY <1>1, <1>9, <2>1, <2>2 DEF Forward, TypeOK, IsDelivered
  <2>3. CASE t = s
    <3> DEFINE q == stateQ[s]
    <3>1. q \in Seq(Updates) /\ q # << >> /\ stateQ'[s] = Tail(q)
      BY <1>9, <2>3 DEF Forward, TypeOK
    <3>2. view' = [view EXCEPT ![s][Head(q).name] = Head(q).state]
      BY <1>9, <2>3 DEF Forward
    <3>4. CASE Tail(q) = << >>
      <4>2. Head(q) = q[Len(q)]
        BY <3>1, <3>4, OneElement
      <4>3. Head(q) = [name |-> p, state |-> lastState[p][s]]
              => view'[s][p] = lastState[p][s]
        BY <3>2 DEF TypeOK
      <4> QED
        BY <1>1, <2>1, <3>1, <3>4, <4>2, <4>3 DEF IsDelivered
    <3>5. CASE Tail(q) # << >>
      <4>1. Tail(q)[Len(Tail(q))] = q[Len(q)]
        BY <3>1, <3>5
      <4> QED
        BY <1>1, <2>1, <3>1, <3>5, <4>1 DEF IsDelivered
    <3> QED
      BY <3>4, <3>5
  <2> QED
    BY <2>2, <2>3
<1>10. ASSUME NEW t \in Subscribers, OpenAll(t) \/ \E r \in Plugins : OpenOne(t, r)
       PROVE  IsDelivered(p, s)'
  BY <1>7, <1>10 DEF OpenAll, OpenOne, TypeOK
<1>11. CASE UNCHANGED vars
  BY <1>2, <1>11 DEF vars, loopVars, handlerVars, queueVars
<1> QED
  BY <1>3, <1>4, <1>5, <1>6, <1>8, <1>9, <1>10, <1>11
     DEF Next, LoopRuns, LoopLocks, HandlerStep

(* A client of one plugin that has been sent everything knows the present  *)
(* state.                                                                  *)
THEOREM ClientCorrect == Spec => []ClientIsCurrent
<1>1. Init => Delivered
  BY DEF Init, Delivered, OnlyOne, IsDelivered, Each
<1>2. TypeInv /\ Delivered /\ [Next]_vars => Delivered'
  BY OnlyOneStep, DeliveredStep DEF Delivered
<1>3. Spec => []Delivered
  BY <1>1, <1>2, TypeInvCorrect, PTL DEF Spec
<1>4. Fresh /\ Delivered => ClientIsCurrent
  BY DEF Fresh, IsFresh, Delivered, IsDelivered, ClientIsCurrent
<1> QED
  BY <1>3, <1>4, FreshCorrect, PTL
=============================================================================
