------------------------- MODULE QueueManagerProofs -------------------------
(***************************************************************************)
(* Proofs about module QueueManager, for any adders and clients of one     *)
(* plugin name and any capacities.                                         *)
(***************************************************************************)
EXTENDS QueueManager, TLAPS

(* A signal is the length of a queue with a frame in it, and one.          *)
SignalsInv == \A c \in Clients : \A i \in 1..Len(signal[c]) : signal[c][i] >= 2

(* The queue in which a Push waits holds the frame pushed.                 *)
BlockedInv == \A a \in Adders : blocked[a] # Nobody => held[blocked[a]] >= 1

(* A client that pops has a pop left, which keeps todo natural.            *)
PopsInv == ~crashed => \A c \in Clients : client[c] = "pop" => todo[c] >= 1

(* The same of the queues of the sources and of the forwarders that pop.   *)
SourceInv ==
  \A a \in Adders :
    /\ \A i \in 1..Len(srcSignal[a]) : srcSignal[a][i] >= 2
    /\ recording[a] => srcHeld[a] >= 1
    /\ forwarder[a] \in {"pop", "push"} => srcTodo[a] >= 1

TypeInv == TypeOK /\ SignalsInv /\ BlockedInv /\ PopsInv /\ SourceInv

LEMMA AppendFacts ==
  ASSUME NEW s \in Seq(Nat), NEW n \in Nat, n >= 2, \A i \in 1..Len(s) : s[i] >= 2
  PROVE  /\ Append(s, n) \in Seq(Nat) /\ Len(Append(s, n)) = Len(s) + 1
         /\ \A i \in 1..Len(Append(s, n)) : Append(s, n)[i] >= 2
OBVIOUS

LEMMA TailFacts ==
  ASSUME NEW s \in Seq(Nat), s # << >>, \A i \in 1..Len(s) : s[i] >= 2
  PROVE  /\ Head(s) \in Nat /\ Head(s) >= 2
         /\ Tail(s) \in Seq(Nat) /\ Len(Tail(s)) = Len(s) - 1
         /\ \A i \in 1..Len(Tail(s)) : Tail(s)[i] >= 2
OBVIOUS

-----------------------------------------------------------------------------
LEMMA InitType == Init => TypeInv
<1> SUFFICES ASSUME Init PROVE TypeInv
  OBVIOUS
<1> USE NobodyAssumption, BoundsAssumption DEF Init
<1>1. \A c \in Clients : signal[c] \in Seq(Nat) /\ Len(signal[c]) = 0
  OBVIOUS
<1>2. signal \in [Clients -> Seq(Nat)]
  BY <1>1
<1>3. held \in [Clients -> 0..Limit] /\ \A c \in Clients : Len(signal[c]) <= SignalCap
  BY <1>1
<1>4. TypeOK
  <2>1. \A a \in Adders : srcSignal[a] \in Seq(Nat) /\ Len(srcSignal[a]) = 0
    OBVIOUS
  <2>2. srcSignal \in [Adders -> Seq(Nat)]
    BY <2>1
  <2>3. srcHeld \in [Adders -> 0..SourceLimit]
    OBVIOUS
  <2>4. /\ frames \in Nat /\ todo \in [Clients -> Nat] /\ srcTodo \in [Adders -> Nat]
        /\ \A a \in Adders : Len(srcSignal[a]) <= SignalCap
    BY <2>1
  <2> QED
    BY <1>2, <1>3, <2>2, <2>3, <2>4, Zenon
    DEF TypeOK, AdderPlaces, ForwarderPlaces, ClientPlaces, StopPlaces
<1>5. SignalsInv
  BY <1>1 DEF SignalsInv
<1>6. BlockedInv /\ PopsInv /\ SourceInv
  BY DEF BlockedInv, PopsInv, SourceInv
<1> QED BY <1>4, <1>5, <1>6 DEF TypeInv

(* An appended signal keeps the channels of the sources in order.          *)
LEMMA SourceAppend ==
  ASSUME TypeInv, NEW a \in Adders, Len(srcSignal[a]) < SignalCap, NEW n \in Nat, n >= 2,
         srcSignal' = [srcSignal EXCEPT ![a] = Append(@, n)]
  PROVE  /\ srcSignal' \in [Adders -> Seq(Nat)]
         /\ \A b \in Adders : Len(srcSignal'[b]) <= SignalCap
         /\ \A b \in Adders : \A i \in 1..Len(srcSignal'[b]) : srcSignal'[b][i] >= 2
<1> USE BoundsAssumption DEF TypeInv, TypeOK, SourceInv
<1>1. srcSignal[a] \in Seq(Nat) /\ \A i \in 1..Len(srcSignal[a]) : srcSignal[a][i] >= 2
  OBVIOUS
<1>2. /\ Append(srcSignal[a], n) \in Seq(Nat)
      /\ Len(Append(srcSignal[a], n)) = Len(srcSignal[a]) + 1
      /\ \A i \in 1..Len(Append(srcSignal[a], n)) : Append(srcSignal[a], n)[i] >= 2
  BY <1>1, AppendFacts
<1>3. \A b \in Adders :
        srcSignal'[b] = IF b = a THEN Append(srcSignal[a], n) ELSE srcSignal[b]
  OBVIOUS
<1>4. srcSignal' \in [Adders -> Seq(Nat)]
  BY <1>2
<1>5. Len(srcSignal[a]) \in Nat
  BY <1>1
<1>6. Len(Append(srcSignal[a], n)) <= SignalCap
  BY <1>2, <1>5
<1>7. \A b \in Adders : Len(srcSignal'[b]) <= SignalCap
  BY <1>3, <1>6
<1>8. \A b \in Adders : \A i \in 1..Len(srcSignal'[b]) : srcSignal'[b][i] >= 2
  BY <1>2, <1>3
<1> QED BY <1>4, <1>7, <1>8

(* A recorder's Push begins or ends.                                       *)
LEMMA RecordType ==
  ASSUME TypeInv, NEW a \in Adders, Record(a) \/ RecordEnds(a)
  PROVE  TypeInv'
<1>1. /\ Len(srcSignal[a]) \in Nat /\ SignalCap \in Nat
      /\ SourceLimit \in Nat \ {0} /\ srcHeld[a] \in 0..SourceLimit
  BY BoundsAssumption DEF TypeInv, TypeOK
<1>2. CASE Record(a)
  <2>1. /\ srcHeld' = [srcHeld EXCEPT ![a] = IF @ = SourceLimit THEN @ ELSE @ + 1]
        /\ frames' = frames + 1
    BY <1>2 DEF Record
  <2>2. srcHeld' \in [Adders -> 0..SourceLimit] /\ srcHeld'[a] >= 1 /\ srcHeld'[a] \in Nat
    <3>1. srcHeld \in [Adders -> 0..SourceLimit]
      BY DEF TypeInv, TypeOK
    <3>2. PICK n \in 0..SourceLimit :
            n >= 1 /\ n = IF srcHeld[a] = SourceLimit THEN srcHeld[a] ELSE srcHeld[a] + 1
      BY <1>1
    <3>3. srcHeld' = [srcHeld EXCEPT ![a] = n] /\ n \in Nat
      BY <2>1, <3>2
    <3> QED BY <3>1, <3>2, <3>3
  <2>3. \A b \in Adders : b # a => srcHeld'[b] = srcHeld[b]
    BY <2>1 DEF TypeInv, TypeOK
  <2>6. frames' \in Nat
    BY <2>1 DEF TypeInv, TypeOK
  <2>7. /\ UNCHANGED <<sourceVars, quitClosed, forwarder, srcTodo, due, blocked, mapVars>>
        /\ UNCHANGED <<queueVars, clientVars, stopVars, crashed, late, displaced>>
    BY <1>2 DEF Record
  <2>8. SignalsInv' /\ BlockedInv' /\ PopsInv'
    BY <2>7 DEF TypeInv, SignalsInv, BlockedInv, PopsInv, queueVars, clientVars
  <2>4. CASE SourceFull(a)
    <3>1. /\ UNCHANGED srcSignal /\ recording' \in [Adders -> BOOLEAN]
          /\ \A b \in Adders : b # a => recording'[b] = recording[b]
      BY <1>2, <2>4 DEF Record, TypeInv, TypeOK
    <3>2. SourceInv'
      BY <2>2, <2>3, <2>7, <3>1 DEF TypeInv, SourceInv
    <3>3. TypeOK'
      BY <2>2, <2>6, <2>7, <3>1
      DEF TypeInv, TypeOK, sourceVars, mapVars, queueVars, clientVars, stopVars
    <3> QED BY <2>8, <3>2, <3>3 DEF TypeInv
  <2>5. CASE ~SourceFull(a)
    <3>1. srcSignal' = [srcSignal EXCEPT ![a] = Append(@, srcHeld'[a] + 1)]
      BY <1>2, <2>5 DEF Record
    <3>2. Len(srcSignal[a]) < SignalCap
      BY <1>1, <2>5 DEF SourceFull
    <3>3. srcHeld'[a] + 1 \in Nat /\ srcHeld'[a] + 1 >= 2
      BY <2>2
    <3>4. /\ srcSignal' \in [Adders -> Seq(Nat)]
          /\ \A b \in Adders : Len(srcSignal'[b]) <= SignalCap
          /\ \A b \in Adders : \A i \in 1..Len(srcSignal'[b]) : srcSignal'[b][i] >= 2
      BY <3>1, <3>2, <3>3, SourceAppend
    <3>5. UNCHANGED recording
      BY <1>2, <2>5 DEF Record
    <3>6. SourceInv'
      BY <2>2, <2>3, <2>7, <3>4, <3>5 DEF TypeInv, SourceInv
    <3>7. TypeOK'
      BY <2>2, <2>6, <2>7, <3>4, <3>5
      DEF TypeInv, TypeOK, sourceVars, mapVars, queueVars, clientVars, stopVars
    <3> QED BY <2>8, <3>6, <3>7 DEF TypeInv
  <2> QED BY <2>4, <2>5
<1>3. CASE RecordEnds(a)
  <2>1. /\ srcSignal' = [srcSignal EXCEPT ![a] = Append(@, srcHeld[a] + 1)]
        /\ recording' = [recording EXCEPT ![a] = FALSE]
    BY <1>3 DEF RecordEnds
  <2>2. srcHeld[a] + 1 \in Nat /\ srcHeld[a] + 1 >= 2
    BY <1>1, <1>3 DEF RecordEnds, TypeInv, SourceInv
  <2>3. Len(srcSignal[a]) < SignalCap
    BY <1>1, <1>3 DEF RecordEnds, SourceFull
  <2>4. /\ srcSignal' \in [Adders -> Seq(Nat)]
        /\ \A b \in Adders : Len(srcSignal'[b]) <= SignalCap
        /\ \A b \in Adders : \A i \in 1..Len(srcSignal'[b]) : srcSignal'[b][i] >= 2
    BY <2>1, <2>2, <2>3, SourceAppend
  <2> QED
    BY <1>3, <2>1, <2>4
    DEF RecordEnds, TypeInv, TypeOK, SignalsInv, BlockedInv, PopsInv, SourceInv, sourceVars,
        mapVars, queueVars, clientVars, stopVars, histVars
<1> QED BY <1>2, <1>3

(* The steps of AddPlugin and of Stop leave the queues alone.              *)
LEMMA AdderType ==
  ASSUME TypeInv, NEW a \in Adders, AddPlugin(a) \/ AdderStep(a)
  PROVE  TypeInv'
<1>1. CASE RecordEnds(a)
  BY <1>1, RecordType
<1> USE DEF TypeInv, TypeOK, SignalsInv, BlockedInv, PopsInv, SourceInv, AdderPlaces, AdderGoes,
        srcQueueVars, forwarderVars, mapVars, queueVars, clientVars, stopVars, histVars
<1>2. CASE AddPlugin(a)
  BY <1>2 DEF AddPlugin
<1>3. CASE LookSource(a)
  BY <1>3 DEF LookSource
<1>4. CASE RegisterSource(a)
  BY <1>4 DEF RegisterSource
<1>5. CASE StartForwarder(a)
  BY <1>5 DEF StartForwarder, ForwarderPlaces
<1>6. CASE Publish(a)
  BY <1>6 DEF Publish
<1>7. CASE VersionFails(a)
  BY <1>7 DEF VersionFails
<1> QED BY <1>1, <1>2, <1>3, <1>4, <1>5, <1>6, <1>7 DEF AdderStep

LEMMA StopType ==
  ASSUME TypeInv, StopBegins \/ StopStep \/ MapRace
  PROVE  TypeInv'
<1> USE DEF TypeInv, TypeOK, SignalsInv, BlockedInv, PopsInv, SourceInv, StopPlaces, CloseQuit,
        sourceVars, srcQueueVars, forwarderVars, mapVars, queueVars, clientVars, stopVars,
        histVars
<1>1. CASE StopBegins
  BY <1>1 DEF StopBegins
<1>2. CASE CleanUp
  BY <1>2 DEF CleanUp
<1>4. CASE Deregistered
  BY <1>4 DEF Deregistered
<1>5. CASE Shutdown
  BY <1>5 DEF Shutdown
<1>6. CASE ShutdownEnds
  BY <1>6 DEF ShutdownEnds
<1>7. CASE MapRace
  BY <1>7 DEF MapRace
<1> QED BY <1>1, <1>2, <1>4, <1>5, <1>6, <1>7 DEF StopStep

(* What is not touched by a step on the listeners' queues.                 *)
LEMMA SourceKept ==
  ASSUME TypeInv,
         UNCHANGED <<sourceVars, quitClosed, srcQueueVars, forwarder, srcTodo, mapVars>>,
         UNCHANGED <<clientVars, stopVars, crashed, histVars>>,
         due' \in [Adders -> SUBSET Clients], blocked' \in [Adders -> Clients \cup {Nobody}],
         held' \in [Clients -> 0..Limit], signal' \in [Clients -> Seq(Nat)],
         \A d \in Clients : Len(signal'[d]) <= SignalCap,
         listening' \in [Clients -> {"no", "yes", "marked"}],
         SignalsInv', BlockedInv'
  PROVE  TypeInv'
<1>1. TypeOK'
  BY DEF TypeInv, TypeOK, sourceVars, srcQueueVars, mapVars, clientVars, stopVars, histVars
<1>2. PopsInv'
  BY DEF TypeInv, PopsInv, clientVars
<1>3. SourceInv'
  BY DEF TypeInv, SourceInv, srcQueueVars
<1> QED BY <1>1, <1>2, <1>3 DEF TypeInv

(* An appended signal keeps the channels of the listeners in order.        *)
LEMMA SignalAppend ==
  ASSUME TypeInv, NEW c \in Clients, Len(signal[c]) < SignalCap, NEW n \in Nat, n >= 2,
         signal' = [signal EXCEPT ![c] = Append(@, n)]
  PROVE  /\ signal' \in [Clients -> Seq(Nat)]
         /\ \A d \in Clients : Len(signal'[d]) <= SignalCap
         /\ SignalsInv'
<1> USE BoundsAssumption
<1>1. /\ signal \in [Clients -> Seq(Nat)] /\ signal[c] \in Seq(Nat)
      /\ \A d \in Clients : Len(signal[d]) <= SignalCap
      /\ \A d \in Clients : \A i \in 1..Len(signal[d]) : signal[d][i] >= 2
  BY DEF TypeInv, TypeOK, SignalsInv
<1>2. /\ Append(signal[c], n) \in Seq(Nat)
      /\ Len(Append(signal[c], n)) = Len(signal[c]) + 1
      /\ \A i \in 1..Len(Append(signal[c], n)) : Append(signal[c], n)[i] >= 2
  BY <1>1, AppendFacts
<1>3. \A d \in Clients : signal'[d] = IF d = c THEN Append(signal[c], n) ELSE signal[d]
  BY <1>1
<1>4. signal' \in [Clients -> Seq(Nat)]
  BY <1>1, <1>2
<1>5. Len(signal[c]) \in Nat
  BY <1>1
<1>6. Len(Append(signal[c], n)) <= SignalCap
  BY <1>2, <1>5
<1>7. \A d \in Clients : Len(signal'[d]) <= SignalCap
  BY <1>1, <1>3, <1>6
<1>8. SignalsInv'
  BY <1>1, <1>2, <1>3 DEF SignalsInv
<1> QED BY <1>4, <1>7, <1>8

(* outQ.Push(frame): the frame is appended, then announced or it waits.    *)
LEMMA PushType ==
  ASSUME TypeInv, NEW a \in Adders, NEW c \in Clients, PushTo(a, c)
  PROVE  TypeInv'
<1>1. /\ due \in [Adders -> SUBSET Clients] /\ blocked \in [Adders -> Clients \cup {Nobody}]
      /\ held \in [Clients -> 0..Limit] /\ signal \in [Clients -> Seq(Nat)]
      /\ \A d \in Clients : Len(signal[d]) <= SignalCap
      /\ listening \in [Clients -> {"no", "yes", "marked"}]
      /\ Limit \in Nat \ {0} /\ SignalCap \in Nat /\ Nobody \notin Clients
  BY BoundsAssumption, NobodyAssumption DEF TypeInv, TypeOK
<1>2. /\ due' = [due EXCEPT ![a] = @ \ {c}]
      /\ held' = [held EXCEPT ![c] = Appended(c)]
      /\ UNCHANGED <<sourceVars, quitClosed, srcQueueVars, forwarder, srcTodo, mapVars>>
      /\ UNCHANGED <<clientVars, stopVars, crashed, histVars>>
  BY DEF PushTo
<1>3. held[c] \in 0..Limit
  BY <1>1
<1>4. Appended(c) \in 1..Limit
  BY <1>1, <1>3 DEF Appended
<1>5. held' \in [Clients -> 0..Limit] /\ held'[c] \in Nat /\ held'[c] >= 1
  BY <1>1, <1>2, <1>4
<1>6. due' \in [Adders -> SUBSET Clients]
  BY <1>1, <1>2
<1>7. \A b \in Adders : blocked[b] # Nobody => held[blocked[b]] >= 1
  BY DEF TypeInv, BlockedInv
<1>8. \A d \in Clients : d # c => held'[d] = held[d]
  BY <1>1, <1>2
<1>9. CASE listening[c] = "yes" /\ Full(c)
  <2>1. blocked' = [blocked EXCEPT ![a] = c] /\ UNCHANGED <<signal, listening>>
    BY <1>9 DEF PushTo
  <2>2. blocked' \in [Adders -> Clients \cup {Nobody}]
    BY <1>1, <2>1
  <2>3. \A b \in Adders : blocked'[b] = IF b = a THEN c ELSE blocked[b]
    BY <1>1, <2>1
  <2>4. BlockedInv'
    BY <1>1, <1>5, <1>7, <1>8, <2>3 DEF BlockedInv
  <2>5. SignalsInv'
    BY <2>1 DEF TypeInv, SignalsInv
  <2>6. /\ signal' \in [Clients -> Seq(Nat)]
        /\ \A d \in Clients : Len(signal'[d]) <= SignalCap
        /\ listening' \in [Clients -> {"no", "yes", "marked"}]
    BY <1>1, <2>1
  <2> QED BY <1>2, <1>5, <1>6, <2>2, <2>4, <2>5, <2>6, SourceKept
<1>10. CASE ~(listening[c] = "yes" /\ Full(c))
  <2>1. /\ UNCHANGED blocked
        /\ signal' = IF listening[c] = "yes"
                       THEN [signal EXCEPT ![c] = Append(@, held'[c] + 1)] ELSE signal
        /\ listening' = IF listening[c] = "marked"
                          THEN [listening EXCEPT ![c] = "no"] ELSE listening
    BY <1>10 DEF PushTo
  <2>2. BlockedInv'
    BY <1>1, <1>5, <1>7, <1>8, <2>1 DEF BlockedInv
  <2>3. listening' \in [Clients -> {"no", "yes", "marked"}]
    BY <1>1, <2>1
  <2>4. /\ signal' \in [Clients -> Seq(Nat)]
        /\ \A d \in Clients : Len(signal'[d]) <= SignalCap
        /\ SignalsInv'
    <3>1. CASE listening[c] = "yes"
      <4>1. Len(signal[c]) \in Nat /\ held'[c] + 1 \in Nat /\ held'[c] + 1 >= 2
        BY <1>1, <1>5
      <4>2. Len(signal[c]) < SignalCap
        BY <1>1, <1>10, <3>1, <4>1 DEF Full
      <4>3. signal' = [signal EXCEPT ![c] = Append(@, held'[c] + 1)]
        BY <2>1, <3>1
      <4> QED BY <4>1, <4>2, <4>3, SignalAppend
    <3>2. CASE listening[c] # "yes"
      BY <1>1, <2>1, <3>2 DEF TypeInv, SignalsInv
    <3> QED BY <3>1, <3>2
  <2>5. blocked' \in [Adders -> Clients \cup {Nobody}]
    BY <1>1, <2>1
  <2> QED BY <1>2, <1>5, <1>6, <2>2, <2>3, <2>4, <2>5, SourceKept
<1> QED BY <1>9, <1>10

LEMMA UnblockType ==
  ASSUME TypeInv, NEW a \in Adders, Unblock(a)
  PROVE  TypeInv'
<1> DEFINE c == blocked[a]
<1>1. /\ due \in [Adders -> SUBSET Clients] /\ blocked \in [Adders -> Clients \cup {Nobody}]
      /\ held \in [Clients -> 0..Limit] /\ signal \in [Clients -> Seq(Nat)]
      /\ listening \in [Clients -> {"no", "yes", "marked"}]
      /\ Limit \in Nat \ {0} /\ SignalCap \in Nat
  BY BoundsAssumption DEF TypeInv, TypeOK
<1>2. /\ c # Nobody /\ ~Full(c)
      /\ signal' = [signal EXCEPT ![c] = Append(@, held[c] + 1)]
      /\ blocked' = [blocked EXCEPT ![a] = Nobody]
      /\ UNCHANGED <<sourceVars, quitClosed, srcQueueVars, forwarder, srcTodo, due, mapVars>>
      /\ UNCHANGED <<held, listening, clientVars, stopVars, crashed, histVars>>
  BY DEF Unblock
<1>3. c \in Clients /\ held[c] \in Nat /\ held[c] >= 1
  BY <1>1, <1>2 DEF TypeInv, BlockedInv
<1>4. Len(signal[c]) < SignalCap
  <2>1. Len(signal[c]) \in Nat
    BY <1>1, <1>3
  <2> QED BY <1>1, <1>2, <2>1 DEF Full
<1>5. held[c] + 1 \in Nat /\ held[c] + 1 >= 2
  BY <1>3
<1>6. /\ signal' \in [Clients -> Seq(Nat)]
      /\ \A d \in Clients : Len(signal'[d]) <= SignalCap
      /\ SignalsInv'
  BY <1>2, <1>3, <1>4, <1>5, SignalAppend
<1>7. /\ blocked' \in [Adders -> Clients \cup {Nobody}]
      /\ \A b \in Adders : blocked'[b] = IF b = a THEN Nobody ELSE blocked[b]
  BY <1>1, <1>2
<1>8. BlockedInv'
  BY <1>2, <1>7 DEF TypeInv, BlockedInv
<1> QED BY <1>1, <1>2, <1>6, <1>7, <1>8, SourceKept

(* The steps of a forwarder.                                               *)
LEMMA ForwarderType ==
  ASSUME TypeInv, NEW a \in Adders, ForwarderStep(a)
  PROVE  TypeInv'
<1>6. CASE ReceiveSource(a)
  <2>1. /\ srcSignal[a] \in Seq(Nat) /\ srcSignal[a] # << >>
        /\ \A i \in 1..Len(srcSignal[a]) : srcSignal[a][i] >= 2
        /\ Len(srcSignal[a]) <= SignalCap
    BY <1>6 DEF ReceiveSource, TypeInv, TypeOK, SourceInv
  <2>2. /\ Head(srcSignal[a]) \in Nat /\ Head(srcSignal[a]) >= 2
        /\ Tail(srcSignal[a]) \in Seq(Nat) /\ Len(Tail(srcSignal[a])) = Len(srcSignal[a]) - 1
        /\ \A i \in 1..Len(Tail(srcSignal[a])) : Tail(srcSignal[a])[i] >= 2
    BY <2>1, TailFacts
  <2>3. /\ srcSignal' = [srcSignal EXCEPT ![a] = Tail(srcSignal[a])]
        /\ srcTodo' = [srcTodo EXCEPT ![a] = Head(srcSignal[a]) - 1]
        /\ forwarder' = [forwarder EXCEPT ![a] = "pop"]
    BY <1>6 DEF ReceiveSource, ForwarderGoes
  <2>4. /\ srcTodo' \in [Adders -> Nat] /\ srcTodo'[a] >= 1
        /\ \A b \in Adders : b # a => srcTodo'[b] = srcTodo[b]
    <3>1. srcTodo \in [Adders -> Nat]
      BY DEF TypeInv, TypeOK
    <3>2. Head(srcSignal[a]) - 1 \in Nat /\ Head(srcSignal[a]) - 1 >= 1
      BY <2>2
    <3> QED BY <2>3, <3>1, <3>2
  <2>5. /\ srcSignal' \in [Adders -> Seq(Nat)]
        /\ \A b \in Adders : Len(srcSignal'[b]) <= SignalCap
        /\ \A b \in Adders : \A i \in 1..Len(srcSignal'[b]) : srcSignal'[b][i] >= 2
    <3>1. \A b \in Adders :
            srcSignal'[b] = IF b = a THEN Tail(srcSignal[a]) ELSE srcSignal[b]
      BY <2>3 DEF TypeInv, TypeOK
    <3>2. srcSignal' \in [Adders -> Seq(Nat)]
      BY <2>2, <2>3 DEF TypeInv, TypeOK
    <3>3. Len(Tail(srcSignal[a])) <= SignalCap
      BY <2>1, <2>2, BoundsAssumption
    <3>4. \A b \in Adders : Len(srcSignal'[b]) <= SignalCap
      BY <3>1, <3>3 DEF TypeInv, TypeOK
    <3>5. \A b \in Adders : \A i \in 1..Len(srcSignal'[b]) : srcSignal'[b][i] >= 2
      BY <2>2, <3>1 DEF TypeInv, SourceInv
    <3> QED BY <3>2, <3>4, <3>5
  <2>6. /\ forwarder' \in [Adders -> ForwarderPlaces] /\ forwarder'[a] = "pop"
        /\ \A b \in Adders : b # a => forwarder'[b] = forwarder[b]
    BY <2>3 DEF TypeInv, TypeOK, ForwarderPlaces
  <2>7. /\ UNCHANGED <<sourceVars, quitClosed, srcHeld, recording, due, blocked, mapVars>>
        /\ UNCHANGED <<queueVars, clientVars, stopVars, crashed, histVars>>
    BY <1>6 DEF ReceiveSource
  <2>8. SourceInv'
    <3> SUFFICES ASSUME NEW b \in Adders
                 PROVE  /\ recording'[b] => srcHeld'[b] >= 1
                        /\ forwarder'[b] \in {"pop", "push"} => srcTodo'[b] >= 1
      BY <2>5 DEF SourceInv
    <3> QED BY <2>4, <2>6, <2>7 DEF TypeInv, SourceInv
  <2>9. TypeOK' /\ SignalsInv' /\ BlockedInv' /\ PopsInv'
    BY <2>4, <2>5, <2>6, <2>7
    DEF TypeInv, TypeOK, SignalsInv, BlockedInv, PopsInv, sourceVars, mapVars, queueVars,
        clientVars, stopVars, histVars
  <2> QED BY <2>8, <2>9 DEF TypeInv
<1> USE DEF TypeInv, TypeOK, SignalsInv, BlockedInv, PopsInv, SourceInv, ForwarderGoes,
        ForwarderPlaces, sourceVars, srcQueueVars, mapVars, queueVars, clientVars, stopVars,
        histVars
<1>1. ASSUME NEW c \in Clients, PushTo(a, c)
      PROVE  TypeInv'
  BY <1>1, PushType
<1>2. CASE Unblock(a)
  BY <1>2, UnblockType
<1>3. CASE PushesEnd(a)
  <2>1. srcTodo[a] \in Nat /\ srcTodo[a] >= 1
    BY <1>3 DEF PushesEnd
  <2>2. srcTodo' = [srcTodo EXCEPT ![a] = srcTodo[a] - 1] /\ srcTodo' \in [Adders -> Nat]
    BY <1>3, <2>1 DEF PushesEnd
  <2>3. \A b \in Adders : forwarder'[b] \in {"pop", "push"} => srcTodo'[b] >= 1
    BY <1>3, <2>1, <2>2 DEF PushesEnd
  <2>4. /\ forwarder' \in [Adders -> ForwarderPlaces]
        /\ UNCHANGED <<sourceVars, quitClosed, srcQueueVars, due, blocked, mapVars, queueVars,
                       clientVars, stopVars, crashed, histVars>>
    BY <1>3 DEF PushesEnd
  <2>5. SourceInv' /\ SignalsInv' /\ BlockedInv' /\ PopsInv'
    BY <2>3, <2>4
  <2> QED BY <2>2, <2>4, <2>5
<1>4. CASE ForwarderQuits(a)
  BY <1>4 DEF ForwarderQuits
<1>5. CASE TakeFrame(a)
  <2>1. srcHeld[a] \in 0..SourceLimit /\ SourceLimit \in Nat
    BY BoundsAssumption
  <2>2. srcHeld' = [srcHeld EXCEPT ![a] = IF @ = 0 THEN 0 ELSE @ - 1] /\ ~recording[a]
    BY <1>5 DEF TakeFrame
  <2>3. srcHeld' \in [Adders -> 0..SourceLimit]
    BY <2>1, <2>2
  <2>4. \A b \in Adders : recording[b] => srcHeld'[b] >= 1
    BY <2>2
  <2>5. \A b \in Adders : forwarder'[b] \in {"pop", "push"} => srcTodo[b] >= 1
    BY <1>5 DEF TakeFrame
  <2>6. /\ forwarder' \in [Adders -> ForwarderPlaces] /\ due' \in [Adders -> SUBSET Clients]
        /\ UNCHANGED <<sourceVars, quitClosed, srcSignal, recording, srcTodo, blocked, mapVars,
                       queueVars, clientVars, stopVars, crashed, histVars>>
    BY <1>5 DEF TakeFrame
  <2>7. SourceInv' /\ SignalsInv' /\ BlockedInv' /\ PopsInv'
    BY <2>4, <2>5, <2>6
  <2> QED BY <2>3, <2>6, <2>7
<1>7. CASE UnsubSource(a)
  BY <1>7 DEF UnsubSource
<1> QED BY <1>1, <1>2, <1>3, <1>4, <1>5, <1>6, <1>7 DEF ForwarderStep

(* A Pop keeps the types; none is left when the client goes elsewhere.     *)
LEMMA PopType ==
  ASSUME TypeInv, ~crashed, NEW c \in Clients, NEW next \in {"select", "pop", "stalled", "unsub"},
         Pop(c, next), crashed' \in BOOLEAN,
         next = "pop" /\ todo[c] = 1 => crashed'
  PROVE  TypeInv'
<1> USE DEF TypeInv, TypeOK, Pop, ClientGoes
<1>1. todo[c] >= 1 /\ client[c] = "pop"
  BY DEF PopsInv
<1>2. held' \in [Clients -> 0..Limit] /\ todo' \in [Clients -> Nat]
  <2>1. /\ held' = [held EXCEPT ![c] = IF @ = 0 THEN 0 ELSE @ - 1]
        /\ todo' = [todo EXCEPT ![c] = IF next = "pop" THEN @ - 1 ELSE 0]
    OBVIOUS
  <2>2. held[c] \in 0..Limit /\ todo[c] \in Nat /\ Limit \in Nat
    BY BoundsAssumption
  <2> HIDE DEF TypeInv, TypeOK, Pop, ClientGoes
  <2>3. held \in [Clients -> 0..Limit] /\ todo \in [Clients -> Nat]
    BY DEF TypeInv, TypeOK
  <2> QED BY <1>1, <2>1, <2>2, <2>3
<1>3. client' \in [Clients -> ClientPlaces]
  BY DEF ClientPlaces
<1>4. SignalsInv'
  BY DEF SignalsInv
<1>5. BlockedInv'
  BY DEF BlockedInv, QueueFree, forwarderVars
<1>6. PopsInv' /\ SourceInv'
  BY <1>1 DEF PopsInv, SourceInv, forwarderVars, srcQueueVars
<1> QED
  BY <1>2, <1>3, <1>4, <1>5, <1>6
  DEF sourceVars, srcQueueVars, forwarderVars, mapVars, stopVars, histVars

(* The steps of a client.                                                  *)
LEMMA ClientType ==
  ASSUME TypeInv, ~crashed, NEW c \in Clients,
         Open(c) \/ ClientStep(c) \/ Stall(c) \/ Leave(c)
  PROVE  TypeInv'
<1>1. CASE PassOn(c)
  BY <1>1, PopType DEF PassOn, TypeInv, TypeOK
<1>2. CASE EndStream(c)
  BY <1>2, PopType DEF EndStream, TypeInv, TypeOK
<1>3. CASE PopNil(c)
  BY <1>3, PopType DEF PopNil
<1>4. CASE Stall(c)
  BY <1>4, PopType DEF Stall, TypeInv, TypeOK
<1>7. CASE RegisterListener(c)
  <2>1. /\ due' \in [Adders -> SUBSET Clients] /\ outgoing' \subseteq Clients
        /\ client' \in [Clients -> ClientPlaces]
    <3>1. /\ due \in [Adders -> SUBSET Clients] /\ outgoing \subseteq Clients
          /\ client \in [Clients -> ClientPlaces]
      BY DEF TypeInv, TypeOK
    <3>2. PICK seen \in SUBSET {a \in Adders : forwarder[a] = "push"} :
            due' = [a \in Adders |-> IF a \in seen THEN due[a] \cup {c} ELSE due[a]]
      BY <1>7 DEF RegisterListener
    <3>3. due' \in [Adders -> SUBSET Clients]
      BY <3>1, <3>2
    <3>4. outgoing' \subseteq Clients
      BY <1>7, <3>1 DEF RegisterListener
    <3>5. client' \in [Clients -> ClientPlaces]
      BY <1>7, <3>1 DEF RegisterListener, ClientGoes, ClientPlaces
    <3> QED BY <3>3, <3>4, <3>5
  <2>2. \A d \in Clients : client'[d] = "pop" => client[d] = "pop"
    BY <1>7 DEF RegisterListener, ClientGoes, TypeInv, TypeOK
  <2>3. /\ UNCHANGED <<sourceVars, quitClosed, srcQueueVars, forwarder, srcTodo, blocked>>
        /\ UNCHANGED <<hasInner, queueVars, todo, stopVars, crashed, histVars>>
    BY <1>7 DEF RegisterListener
  <2>4. TypeOK'
    BY <2>1, <2>3
    DEF TypeInv, TypeOK, sourceVars, srcQueueVars, queueVars, stopVars, histVars
  <2>5. SignalsInv' /\ BlockedInv' /\ PopsInv' /\ SourceInv'
    BY <2>2, <2>3
    DEF TypeInv, SignalsInv, BlockedInv, PopsInv, SourceInv, srcQueueVars, queueVars
  <2> QED BY <2>4, <2>5 DEF TypeInv
<1> USE DEF TypeInv, TypeOK, SignalsInv, BlockedInv, PopsInv, SourceInv, ClientGoes,
        ClientPlaces, sourceVars, srcQueueVars, forwarderVars, mapVars, queueVars, clientVars,
        stopVars, histVars
<1>5. CASE Open(c)
  BY <1>5 DEF Open
<1>6. CASE MakeMap(c)
  BY <1>6 DEF MakeMap
<1>8. CASE SubscribeQueue(c)
  BY <1>8 DEF SubscribeQueue
<1>9. CASE Receive(c)
  <2>1. /\ Head(signal[c]) \in Nat /\ Head(signal[c]) >= 2
        /\ Tail(signal[c]) \in Seq(Nat) /\ Len(Tail(signal[c])) = Len(signal[c]) - 1
        /\ \A i \in 1..Len(Tail(signal[c])) : Tail(signal[c])[i] >= 2
    BY <1>9, TailFacts DEF Receive
  <2>2. /\ signal' = [signal EXCEPT ![c] = Tail(signal[c])]
        /\ todo' = [todo EXCEPT ![c] = Head(signal[c]) - 1]
    BY <1>9 DEF Receive
  <2>3. /\ signal' \in [Clients -> Seq(Nat)]
        /\ \A d \in Clients : Len(signal'[d]) <= SignalCap
        /\ SignalsInv'
    <3>1. \A d \in Clients : signal'[d] = IF d = c THEN Tail(signal[c]) ELSE signal[d]
      BY <2>2
    <3>2. signal' \in [Clients -> Seq(Nat)]
      BY <2>1, <2>2
    <3>3. Len(Tail(signal[c])) <= SignalCap
      BY <2>1, BoundsAssumption
    <3>4. \A d \in Clients : Len(signal'[d]) <= SignalCap
      BY <3>1, <3>3
    <3>5. SignalsInv'
      BY <2>1, <3>1
    <3> QED BY <3>2, <3>4, <3>5
  <2>4. todo' \in [Clients -> Nat] /\ todo'[c] >= 1
    <3>1. todo \in [Clients -> Nat]
      OBVIOUS
    <3> HIDE DEF TypeInv, TypeOK, SignalsInv, BlockedInv, PopsInv, SourceInv
    <3>2. PICK n \in Nat : n = Head(signal[c]) - 1 /\ n >= 1
      BY <2>1
    <3>3. todo' = [todo EXCEPT ![c] = n]
      BY <2>2, <3>2
    <3> QED BY <3>1, <3>2, <3>3
  <2>5. PopsInv'
    BY <1>9, <2>2, <2>4 DEF Receive
  <2> QED BY <1>9, <2>3, <2>4, <2>5 DEF Receive
<1>10. CASE Leave(c)
  BY <1>10 DEF Leave
<1>11. CASE Unsub(c)
  BY <1>11 DEF Unsub
<1>12. CASE LockUnlock(c)
  BY <1>12 DEF LockUnlock
<1>13. CASE Remove(c)
  BY <1>13 DEF Remove
<1> QED
  BY <1>1, <1>2, <1>3, <1>4, <1>5, <1>6, <1>7, <1>8, <1>9, <1>10, <1>11, <1>12, <1>13
  DEF ClientStep

LEMMA StutterType ==
  ASSUME TypeInv, UNCHANGED vars
  PROVE  TypeInv'
BY DEF TypeInv, TypeOK, SignalsInv, BlockedInv, PopsInv, SourceInv, vars, sourceVars,
   srcQueueVars, forwarderVars, mapVars, queueVars, clientVars, stopVars, histVars

(* Type correctness: the queues and the Signal channels of any listeners   *)
(* stay within their capacities, and no client ever counts pops below 0.   *)
THEOREM TypeCorrect == Spec => []TypeOK
<1>1. TypeInv /\ [Next]_vars => TypeInv'
  BY AdderType, RecordType, StopType, ForwarderType, ClientType, StutterType DEF Next
<1>2. TypeInv => TypeOK
  BY DEF TypeInv
<1> QED BY <1>1, <1>2, InitType, PTL DEF Spec

LEMMA TypeInvariant == Spec => []TypeInv
<1>1. TypeInv /\ [Next]_vars => TypeInv'
  BY AdderType, RecordType, StopType, ForwarderType, ClientType, StutterType DEF Next
<1> QED BY <1>1, InitType, PTL DEF Spec

-----------------------------------------------------------------------------
(***************************************************************************)
(* The forwarders and Stop.                                                *)
(***************************************************************************)
Started(a) == adder[a] \in {"version", "added", "failed"}

(* What an adder has done, and how a forwarder ends.  Until Stop begins a  *)
(* source that is registered is in the maps or displaced.                  *)
SourcesInv ==
  /\ \A a \in Adders : Started(a) <=> forwarder[a] # "none"
  /\ registry # Nobody => adder[registry] = "added"
  /\ \A a \in Adders : forwarder[a] \in {"unsub", "done"} => quitClosed[a]
  /\ \A a \in Adders : adder[a] = "go" => incoming = a \/ a \in displaced \/ stop # "run"

(* While deregister waits, one quit channel is closed; so it can only end  *)
(* when that is the one of the forwarder it waits for.                     *)
StoppingInv ==
  /\ stop \in {"run", "cleanUp"} => \A a \in Adders : ~quitClosed[a]
  /\ stop \in {"cleanUp", "wait"} => awaited \in Adders /\ Started(awaited)
  /\ stop = "wait" => \A a \in Adders : quitClosed[a] => a = incoming

(* A forwarder that runs is one that Stop will find and wait for.          *)
RunningInv ==
  \A a \in Adders : Running(a) =>
    \/ a \in displaced \cup late
    \/ stop \in {"run", "cleanUp", "wait", "shutdown"} /\ incoming = a
    \/ stop = "waitAll" /\ awaited = a

Inv == TypeInv /\ SourcesInv /\ StoppingInv /\ RunningInv

LEMMA InitInv == Init => SourcesInv /\ StoppingInv /\ RunningInv
BY DEF Init, SourcesInv, StoppingInv, RunningInv, Started, Running

(* Nothing else touches what the invariants speak of.                      *)
LEMMA ElsewhereInv ==
  ASSUME Inv, UNCHANGED <<sourceVars, quitClosed, forwarder, stopVars, late>>,
         displaced \subseteq displaced'
  PROVE  SourcesInv' /\ StoppingInv' /\ RunningInv'
BY DEF Inv, SourcesInv, StoppingInv, RunningInv, Started, Running, sourceVars, stopVars

LEMMA AdderInv ==
  ASSUME Inv, NEW a \in Adders, AddPlugin(a) \/ AdderStep(a)
  PROVE  SourcesInv' /\ StoppingInv' /\ RunningInv'
<1> USE NobodyAssumption
    DEF Inv, TypeInv, TypeOK, SourcesInv, StoppingInv, RunningInv, Started, Running,
        AdderGoes, forwarderVars, stopVars, histVars
<1>1. CASE AddPlugin(a)
  BY <1>1 DEF AddPlugin
<1>2. CASE LookSource(a)
  BY <1>2 DEF LookSource
<1>3. CASE RegisterSource(a)
  <2>1. SourcesInv'
    BY <1>3 DEF RegisterSource
  <2>2. StoppingInv'
    BY <1>3 DEF RegisterSource, MutexFree
  <2>3. RunningInv'
    <3> SUFFICES ASSUME NEW b \in Adders, Running(b), b \notin displaced' \cup late',
                        ~(stop = "waitAll" /\ awaited = b)
                 PROVE  stop \in {"run", "cleanUp", "wait", "shutdown"} /\ incoming' = b
      BY <1>3 DEF RegisterSource
    <3>1. incoming = b
      BY <1>3 DEF RegisterSource
    <3>2. b \in displaced'
      BY <1>3, <3>1 DEF RegisterSource
    <3> QED BY <3>2
  <2> QED BY <2>1, <2>2, <2>3
<1>4. CASE StartForwarder(a)
  <2>1. SourcesInv'
    BY <1>4 DEF StartForwarder
  <2>2. StoppingInv'
    BY <1>4 DEF StartForwarder
  <2>3. RunningInv'
    BY <1>4 DEF StartForwarder
  <2> QED BY <2>1, <2>2, <2>3
<1>5. CASE VersionFails(a)
  BY <1>5 DEF VersionFails
<1>6. CASE Publish(a)
  BY <1>6 DEF Publish
<1>7. CASE RecordEnds(a)
  BY <1>7 DEF RecordEnds, sourceVars
<1> QED BY <1>1, <1>2, <1>3, <1>4, <1>5, <1>6, <1>7 DEF AdderStep

LEMMA ForwarderInv ==
  ASSUME Inv, NEW a \in Adders, ForwarderStep(a) \/ Record(a)
  PROVE  SourcesInv' /\ StoppingInv' /\ RunningInv'
<1>1. CASE (\E c \in Clients : PushTo(a, c)) \/ Unblock(a) \/ Record(a)
  BY <1>1, ElsewhereInv DEF PushTo, Unblock, Record, histVars
<1> USE DEF Inv, TypeInv, TypeOK, SourcesInv, StoppingInv, RunningInv, Started, Running,
            ForwarderGoes, sourceVars, stopVars, histVars
<1>2. CASE PushesEnd(a)
  BY <1>2 DEF PushesEnd
<1>3. CASE ForwarderQuits(a)
  BY <1>3 DEF ForwarderQuits
<1>4. CASE TakeFrame(a)
  BY <1>4 DEF TakeFrame
<1>5. CASE ReceiveSource(a)
  BY <1>5 DEF ReceiveSource
<1>6. CASE UnsubSource(a)
  BY <1>6 DEF UnsubSource
<1> QED BY <1>1, <1>2, <1>3, <1>4, <1>5, <1>6 DEF ForwarderStep

LEMMA ClientInv ==
  ASSUME Inv, NEW c \in Clients, Open(c) \/ ClientStep(c) \/ Stall(c) \/ Leave(c)
  PROVE  SourcesInv' /\ StoppingInv' /\ RunningInv'
<1>1. UNCHANGED <<sourceVars, quitClosed, forwarder, stopVars, late>>
  BY DEF ClientStep, Open, MakeMap, RegisterListener, SubscribeQueue, Receive, PassOn,
         EndStream, PopNil, Pop, Unsub, LockUnlock, Remove, Stall, Leave,
         sourceVars, forwarderVars, stopVars, histVars
<1>2. displaced \subseteq displaced'
  BY DEF ClientStep, Open, MakeMap, RegisterListener, SubscribeQueue, Receive, PassOn,
         EndStream, PopNil, Pop, Unsub, LockUnlock, Remove, Stall, Leave, histVars
<1> QED BY <1>1, <1>2, ElsewhereInv

LEMMA StopInv ==
  ASSUME Inv, StopBegins \/ StopStep \/ MapRace
  PROVE  SourcesInv' /\ StoppingInv' /\ RunningInv'
<1>1. CASE MapRace
  BY <1>1, ElsewhereInv DEF MapRace, forwarderVars, histVars
<1> USE NobodyAssumption
    DEF Inv, TypeInv, TypeOK, SourcesInv, StoppingInv, RunningInv, Started, Running, CloseQuit,
        sourceVars, forwarderVars, histVars
<1>2. CASE StopBegins
  BY <1>2 DEF StopBegins
<1>3. CASE CleanUp
  <2>1. awaited \in Adders /\ awaited' = awaited /\ stop' = "wait" /\ stop = "cleanUp"
    BY <1>3 DEF CleanUp
  <2>2. quitClosed' = [quitClosed EXCEPT ![incoming] = TRUE]
    BY <1>3 DEF CleanUp
  <2>3. \A b \in Adders : quitClosed'[b] => b = incoming
    BY <2>1, <2>2
  <2>4. \A b \in Adders : quitClosed[b] => quitClosed'[b]
    BY <2>2
  <2>5. SourcesInv'
    BY <1>3, <2>1, <2>4 DEF CleanUp
  <2>6. StoppingInv'
    BY <1>3, <2>1, <2>3 DEF CleanUp
  <2>7. RunningInv'
    BY <1>3, <2>1 DEF CleanUp
  <2> QED BY <2>5, <2>6, <2>7
<1>5. CASE Deregistered
  <2>1. awaited \in Adders /\ forwarder[awaited] = "done"
    BY <1>5 DEF Deregistered, ForwarderPlaces
  <2>2. incoming = awaited
    BY <1>5, <2>1 DEF Deregistered
  <2>3. ~Running(incoming)
    BY <2>1, <2>2
  <2>4. SourcesInv'
    BY <1>5 DEF Deregistered
  <2>5. StoppingInv'
    BY <1>5 DEF Deregistered
  <2>6. RunningInv'
    BY <1>5, <2>3 DEF Deregistered
  <2> QED BY <2>4, <2>5, <2>6
<1>6. CASE Shutdown
  <2>1. \A b \in Adders : quitClosed[b] => quitClosed'[b]
    BY <1>6 DEF Shutdown
  <2>2. SourcesInv'
    BY <1>6, <2>1 DEF Shutdown
  <2>3. StoppingInv'
    BY <1>6 DEF Shutdown
  <2>4. RunningInv'
    BY <1>6 DEF Shutdown
  <2> QED BY <2>2, <2>3, <2>4
<1>7. CASE ShutdownEnds
  BY <1>7 DEF ShutdownEnds
<1> QED BY <1>1, <1>2, <1>3, <1>5, <1>6, <1>7 DEF StopStep

-----------------------------------------------------------------------------
(***************************************************************************)
(* The listeners in the map.                                               *)
(***************************************************************************)
LEMMA InitTracked == Init => ListenersTracked
BY DEF Init, ListenersTracked, AtWork

LEMMA ClientTracked ==
  ASSUME TypeOK, ListenersTracked, NEW c \in Clients,
         Open(c) \/ ClientStep(c) \/ Stall(c) \/ Leave(c)
  PROVE  ListenersTracked'
<1> USE DEF TypeOK, ListenersTracked, AtWork, ClientGoes, mapVars, histVars
<1>1. CASE \E next \in {"select", "pop", "stalled", "unsub"} : Pop(c, next)
  BY <1>1 DEF Pop
<1>2. CASE Open(c)
  BY <1>2 DEF Open
<1>3. CASE MakeMap(c)
  BY <1>3 DEF MakeMap
<1>4. CASE RegisterListener(c)
  BY <1>4 DEF RegisterListener
<1>5. CASE SubscribeQueue(c)
  BY <1>5 DEF SubscribeQueue
<1>6. CASE Receive(c)
  BY <1>6 DEF Receive
<1>7. CASE Leave(c)
  BY <1>7 DEF Leave
<1>8. CASE Unsub(c)
  BY <1>8 DEF Unsub
<1>9. CASE LockUnlock(c)
  BY <1>9 DEF LockUnlock
<1>10. CASE Remove(c)
  BY <1>10 DEF Remove
<1> QED
  BY <1>1, <1>2, <1>3, <1>4, <1>5, <1>6, <1>7, <1>8, <1>9, <1>10
  DEF ClientStep, PassOn, EndStream, PopNil, Stall

LEMMA ElsewhereTracked ==
  ASSUME ListenersTracked, UNCHANGED <<outgoing, client>>, displaced \subseteq displaced'
  PROVE  ListenersTracked'
BY DEF ListenersTracked, AtWork

LEMMA OthersTracked ==
  ASSUME ListenersTracked,
         \/ \E a \in Adders : AddPlugin(a) \/ AdderStep(a) \/ Record(a) \/ ForwarderStep(a)
         \/ StopBegins \/ StopStep \/ MapRace
  PROVE  ListenersTracked'
<1>1. CASE \E a \in Adders : AddPlugin(a) \/ AdderStep(a) \/ Record(a) \/ ForwarderStep(a)
  <2>1. UNCHANGED <<outgoing, client>>
    BY <1>1 DEF AddPlugin, AdderStep, LookSource, RegisterSource, StartForwarder, VersionFails,
                Publish, Record, RecordEnds, ForwarderStep, ReceiveSource, TakeFrame, PushTo,
                Unblock, PushesEnd, ForwarderQuits, UnsubSource,
                mapVars, clientVars
  <2>2. displaced \subseteq displaced'
    BY <1>1 DEF AddPlugin, AdderStep, LookSource, RegisterSource, StartForwarder, VersionFails,
                Publish, Record, RecordEnds, ForwarderStep, ReceiveSource, TakeFrame, PushTo,
                Unblock, PushesEnd, ForwarderQuits, UnsubSource,
                histVars
  <2> QED BY <2>1, <2>2, ElsewhereTracked
<1>2. CASE StopBegins \/ StopStep \/ MapRace
  <2>1. UNCHANGED <<outgoing, client, displaced>>
    BY <1>2 DEF StopBegins, StopStep, CleanUp, Deregistered, Shutdown,
                ShutdownEnds, MapRace, mapVars, clientVars, histVars
  <2> QED BY <2>1, ElsewhereTracked
<1> QED BY <1>1, <1>2

-----------------------------------------------------------------------------
LEMMA InvInvariant == Spec => []Inv
<1>1. Inv /\ [Next]_vars => SourcesInv' /\ StoppingInv' /\ RunningInv'
  <2>1. Inv /\ Next => SourcesInv' /\ StoppingInv' /\ RunningInv'
    BY AdderInv, ForwarderInv, ClientInv, StopInv DEF Next
  <2>2. Inv /\ UNCHANGED vars => SourcesInv' /\ StoppingInv' /\ RunningInv'
    BY ElsewhereInv DEF vars, sourceVars, forwarderVars, stopVars, histVars
  <2> QED BY <2>1, <2>2
<1>2. Init => SourcesInv /\ StoppingInv /\ RunningInv
  BY InitInv
<1>3. Spec => []TypeInv
  BY TypeInvariant
<1>4. Inv <=> TypeInv /\ SourcesInv /\ StoppingInv /\ RunningInv
  BY DEF Inv
<1> QED BY <1>1, <1>2, <1>3, <1>4, PTL DEF Spec

(* For any adders and clients: once Stop has returned no forwarder runs,   *)
(* and the listeners in the map are the clients at work, but for entries   *)
(* that another registration under the name displaced and forwarders that  *)
(* start during Stop.                                                      *)
THEOREM MapsCorrect == Spec => []MapsHold
<1>1. TypeOK /\ ListenersTracked /\ [Next]_vars => ListenersTracked'
  <2>1. TypeOK /\ ListenersTracked /\ Next => ListenersTracked'
    BY ClientTracked, OthersTracked DEF Next
  <2>2. ListenersTracked /\ UNCHANGED vars => ListenersTracked'
    BY ElsewhereTracked DEF vars, mapVars, clientVars, histVars
  <2> QED BY <2>1, <2>2
<1>2. Inv /\ ListenersTracked => MapsHold
  BY DEF Inv, RunningInv, MapsHold, StoppedUnlessRaced
<1> QED BY <1>1, <1>2, InitTracked, InvInvariant, TypeCorrect, PTL DEF Spec

(* deregister that waits for one forwarder, with the mutex, after it has   *)
(* closed the quit channel of another never returns, whatever frames,      *)
(* clients and AddPlugins come: Stop hangs for good.                       *)
THEOREM CrossedForever == Spec => [][Crossed => Crossed']_vars
<1>1. Inv /\ [Next]_vars => [Crossed => Crossed']_vars
  <2> SUFFICES ASSUME Inv, Crossed, [Next]_vars PROVE Crossed'
    OBVIOUS
  <2> USE DEF Crossed
  <2>1. CASE UNCHANGED vars
    BY <2>1 DEF vars, sourceVars, stopVars
  <2>2. ASSUME NEW a \in Adders,
               AddPlugin(a) \/ AdderStep(a) \/ Record(a) \/ ForwarderStep(a)
        PROVE  Crossed'
    BY <2>2 DEF AddPlugin, AdderStep, LookSource, RegisterSource, StartForwarder, VersionFails,
                Publish, Record, RecordEnds, ForwarderStep, ReceiveSource, TakeFrame, PushTo,
                Unblock, PushesEnd, ForwarderQuits, UnsubSource,
                MutexFree, sourceVars, stopVars
  <2>3. ASSUME NEW c \in Clients, Open(c) \/ ClientStep(c) \/ Stall(c) \/ Leave(c)
        PROVE  Crossed'
    BY <2>3 DEF ClientStep, Open, MakeMap, RegisterListener, SubscribeQueue, Receive, PassOn,
                EndStream, PopNil, Pop, Unsub, LockUnlock, Remove, Stall, Leave,
                sourceVars, stopVars
  <2>4. ~Deregistered
    BY DEF Deregistered, Inv, TypeInv, TypeOK, ForwarderPlaces, SourcesInv, StoppingInv,
           Started, Running
  <2>5. CASE StopBegins \/ StopStep \/ MapRace
    BY <2>4, <2>5 DEF StopBegins, StopStep, CleanUp, Shutdown, ShutdownEnds,
                      MapRace, sourceVars, stopVars
  <2> QED BY <2>1, <2>2, <2>3, <2>5 DEF Next
<1> QED BY <1>1, InvInvariant, PTL DEF Spec

-----------------------------------------------------------------------------
(***************************************************************************)
(* A forwarder that is stuck.                                              *)
(***************************************************************************)

(* a's Push into c's queue waits, and c is not at its select.              *)
Waits(a, c) ==
  /\ c \in Clients /\ c # Nobody /\ blocked[a] = c /\ Full(c)
  /\ client[c] \in {"pop", "unsub", "stalled"}

LEMMA StuckWaits ==
  ASSUME NEW a \in Adders, TypeOK
  PROVE  /\ Jammed(a) \/ Stalled(a) <=> Waits(a, blocked[a])
         /\ \A c : Waits(a, c) => blocked[a] = c
BY NobodyAssumption DEF Jammed, Stalled, Waits, TypeOK

(* Nobody receives the signal that would let the Push go on.               *)
LEMMA WaitsForever ==
  ASSUME Inv, NEW a \in Adders, NEW c, Waits(a, c), Next
  PROVE  Waits(a, c)'
<1> USE DEF Waits, Full
<1>1. /\ blocked \in [Adders -> Clients \cup {Nobody}] /\ client \in [Clients -> ClientPlaces]
      /\ signal \in [Clients -> Seq(Nat)] /\ c \in Clients /\ ~QueueFree(c)
  BY DEF Inv, TypeInv, TypeOK, QueueFree
<1>2. ASSUME NEW b \in Adders, AddPlugin(b) \/ AdderStep(b) \/ Record(b)
      PROVE  UNCHANGED <<blocked, client, signal>>
  BY <1>2 DEF AddPlugin, AdderStep, LookSource, RegisterSource, StartForwarder, VersionFails,
              Publish, Record, RecordEnds, forwarderVars, queueVars, clientVars
<1>3. ASSUME NEW b \in Adders, ForwarderStep(b)
      PROVE  UNCHANGED <<client, signal[c]>> /\ blocked'[a] = blocked[a]
  <2>1. CASE ReceiveSource(b) \/ TakeFrame(b) \/ PushesEnd(b) \/ ForwarderQuits(b) \/ UnsubSource(b)
    BY <2>1 DEF ReceiveSource, TakeFrame, PushesEnd, ForwarderQuits, UnsubSource, queueVars,
                clientVars
  <2>2. ASSUME NEW d \in Clients, PushTo(b, d)
        PROVE  UNCHANGED <<client, signal[c]>> /\ blocked'[a] = blocked[a]
    BY <1>1, <2>2, NobodyAssumption DEF PushTo, clientVars
  <2>3. CASE Unblock(b)
    BY <1>1, <2>3 DEF Unblock, clientVars
  <2> QED BY <1>3, <2>1, <2>2, <2>3 DEF ForwarderStep
<1>4. ASSUME NEW d \in Clients, Open(d) \/ ClientStep(d) \/ Stall(d) \/ Leave(d)
      PROVE  /\ UNCHANGED <<blocked, signal[c]>>
             /\ client'[c] \in {"pop", "unsub", "stalled"}
  <2>1. UNCHANGED blocked
    BY <1>4 DEF ClientStep, Open, MakeMap, RegisterListener, SubscribeQueue, Receive, PassOn,
                EndStream, PopNil, Pop, Unsub, LockUnlock, Remove, Stall, Leave, forwarderVars
  <2>2. CASE d = c
    <3>1. Leave(d)
      BY <1>1, <1>4, <2>2
      DEF ClientStep, Open, MakeMap, RegisterListener, SubscribeQueue, Receive, PassOn,
          EndStream, PopNil, Pop, Unsub, LockUnlock, Remove, Stall, ClientGoes
    <3> QED BY <1>1, <2>1, <2>2, <3>1 DEF Leave, queueVars
  <2>3. CASE d # c
    BY <1>1, <1>4, <2>1, <2>3
    DEF ClientStep, Open, MakeMap, RegisterListener, SubscribeQueue, Receive, PassOn,
        EndStream, PopNil, Pop, Unsub, LockUnlock, Remove, Stall, Leave, ClientGoes, queueVars
  <2> QED BY <2>2, <2>3
<1>5. CASE StopBegins \/ StopStep \/ MapRace
  BY <1>5 DEF StopBegins, StopStep, CleanUp, Deregistered, Shutdown, ShutdownEnds, MapRace,
              forwarderVars, queueVars, clientVars
<1> QED BY <1>2, <1>3, <1>4, <1>5 DEF Next

(* The forwarder cannot get at the signal, nor the recorder out of Push.   *)
LEMMA SourceJammedForever ==
  ASSUME Inv, NEW a \in Adders, SourceJammed(a), Next
  PROVE  SourceJammed(a)'
<1> USE DEF SourceJammed, SourceFull
<1>1. /\ forwarder \in [Adders -> ForwarderPlaces] /\ srcSignal \in [Adders -> Seq(Nat)]
      /\ recording \in [Adders -> BOOLEAN] /\ recording[a]
      /\ forwarder[a] \in {"pop", "unsub"} /\ Started(a)
  BY DEF Inv, TypeInv, TypeOK, SourcesInv
<1>2. ASSUME NEW b \in Adders, AddPlugin(b) \/ AdderStep(b) \/ Record(b)
      PROVE  forwarder'[a] = forwarder[a] /\ srcSignal'[a] = srcSignal[a] /\ recording'[a]
  BY <1>1, <1>2
  DEF AddPlugin, AdderStep, LookSource, RegisterSource, StartForwarder, VersionFails, Publish,
      Record, RecordEnds, AdderGoes, Started, forwarderVars, srcQueueVars
<1>3. ASSUME NEW b \in Adders, ForwarderStep(b)
      PROVE  forwarder'[a] = forwarder[a] /\ srcSignal'[a] = srcSignal[a] /\ recording'[a]
  BY <1>1, <1>3
  DEF ForwarderStep, ReceiveSource, TakeFrame, PushTo, Unblock, PushesEnd, ForwarderQuits,
      UnsubSource, ForwarderGoes, srcQueueVars
<1>4. ASSUME NEW d \in Clients, Open(d) \/ ClientStep(d) \/ Stall(d) \/ Leave(d)
      PROVE  UNCHANGED <<forwarder, srcQueueVars>>
  BY <1>4 DEF ClientStep, Open, MakeMap, RegisterListener, SubscribeQueue, Receive, PassOn,
              EndStream, PopNil, Pop, Unsub, LockUnlock, Remove, Stall, Leave, forwarderVars
<1>5. CASE StopBegins \/ StopStep \/ MapRace
  BY <1>5 DEF StopBegins, StopStep, CleanUp, Deregistered, Shutdown, ShutdownEnds, MapRace,
              forwarderVars, srcQueueVars
<1> QED BY <1>2, <1>3, <1>4, <1>5 DEF Next, srcQueueVars

(* Its range loop does not get past the queue that another one holds.      *)
LEMMA DueForever ==
  ASSUME Inv, NEW a \in Adders, NEW c, Waits(a, c), NEW b \in Adders,
         forwarder[b] = "push", c \in due[b], Next
  PROVE  forwarder'[b] = "push" /\ c \in due'[b]
<1>1. /\ forwarder \in [Adders -> ForwarderPlaces] /\ due \in [Adders -> SUBSET Clients]
      /\ Started(b) /\ c \in Clients /\ ~QueueFree(c) /\ client[c] # "remove"
  BY DEF Inv, TypeInv, TypeOK, SourcesInv, QueueFree, Waits
<1>2. ASSUME NEW d \in Adders, AddPlugin(d) \/ AdderStep(d) \/ Record(d)
      PROVE  forwarder'[b] = forwarder[b] /\ due' = due
  BY <1>1, <1>2
  DEF AddPlugin, AdderStep, LookSource, RegisterSource, StartForwarder, VersionFails, Publish,
      Record, RecordEnds, AdderGoes, Started, forwarderVars
<1>3. ASSUME NEW d \in Adders, ForwarderStep(d)
      PROVE  forwarder'[b] = forwarder[b] /\ c \in due'[b]
  <2>1. CASE PushesEnd(d)
    BY <1>1, <2>1 DEF PushesEnd, ForwarderGoes
  <2>2. CASE ReceiveSource(d) \/ TakeFrame(d) \/ ForwarderQuits(d) \/ UnsubSource(d) \/ Unblock(d)
    BY <1>1, <2>2 DEF ReceiveSource, TakeFrame, ForwarderQuits, UnsubSource, Unblock, ForwarderGoes
  <2>3. ASSUME NEW e \in Clients, PushTo(d, e)
        PROVE  forwarder'[b] = forwarder[b] /\ c \in due'[b]
    BY <1>1, <2>3 DEF PushTo
  <2> QED BY <1>3, <2>1, <2>2, <2>3 DEF ForwarderStep
<1>4. ASSUME NEW d \in Clients, Open(d) \/ ClientStep(d) \/ Stall(d) \/ Leave(d)
      PROVE  UNCHANGED forwarder /\ c \in due'[b]
  <2>1. CASE Remove(d)
    BY <1>1, <2>1 DEF Remove, ClientGoes
  <2>2. CASE RegisterListener(d)
    BY <1>1, <2>2 DEF RegisterListener
  <2>3. CASE ~Remove(d) /\ ~RegisterListener(d)
    BY <1>4, <2>3
    DEF ClientStep, Open, MakeMap, SubscribeQueue, Receive, PassOn, EndStream, PopNil, Pop,
        Unsub, LockUnlock, Stall, Leave, forwarderVars
  <2> QED BY <2>1, <2>2, <2>3
<1>5. CASE StopBegins \/ StopStep \/ MapRace
  BY <1>5 DEF StopBegins, StopStep, CleanUp, Deregistered, Shutdown, ShutdownEnds, MapRace,
              forwarderVars
<1> QED BY <1>2, <1>3, <1>4, <1>5 DEF Next

(* A forwarder that is stuck stays stuck, whatever the recorders, clients, *)
(* AddPlugins and Stop do: the exceptions of the liveness properties are   *)
(* deadlocks and no passing delays.                                        *)
THEOREM StuckForever == Spec => [][\A a \in Adders : Stuck(a) => Stuck(a)']_vars
<1>1. Inv /\ [Next]_vars => [\A a \in Adders : Stuck(a) => Stuck(a)']_vars
  <2> SUFFICES ASSUME Inv, Next, NEW a \in Adders, Stuck(a) PROVE Stuck(a)'
    OBVIOUS
  <2> USE DEF Stuck
  <2>1. CASE Jammed(a) \/ Stalled(a)
    <3>1. PICK c : c = blocked[a]
      OBVIOUS
    <3>2. Waits(a, c)
      BY <2>1, <3>1, StuckWaits DEF Inv, TypeInv
    <3>3. Waits(a, c)'
      BY <3>2, WaitsForever
    <3> QED BY <3>3 DEF Waits, Jammed, Stalled, Full
  <2>2. CASE SourceJammed(a)
    BY <2>2, SourceJammedForever
  <2>3. CASE HeldUp(a)
    <3>1. PICK b \in Adders : (Jammed(b) \/ Stalled(b)) /\ blocked[b] \in due[a]
      BY <2>3 DEF HeldUp
    <3>2. Waits(b, blocked[b]) /\ forwarder[a] = "push"
      BY <2>3, <3>1, StuckWaits DEF HeldUp, Inv, TypeInv
    <3>3. PICK c : c = blocked[b]
      OBVIOUS
    <3>4. Waits(b, c)'
      BY <3>2, <3>3, WaitsForever
    <3>5. forwarder'[a] = "push" /\ c \in due'[a]
      BY <3>1, <3>2, <3>3, DueForever
    <3> QED BY <3>4, <3>5 DEF HeldUp, Waits, Jammed, Stalled, Full
  <2> QED BY <2>1, <2>2, <2>3
<1> QED BY <1>1, InvInvariant, PTL DEF Spec
=============================================================================
