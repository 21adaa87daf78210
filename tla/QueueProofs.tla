---------------------------- MODULE QueueProofs ----------------------------
(***************************************************************************)
(* Proofs about Queue for every set of pushers and subscribers, every      *)
(* Limit >= 1, every channel capacity >= 1 and every bound on the pushes.  *)
(***************************************************************************)
EXTENDS Queue, SequenceTheorems, TLAPS

(* A signal announces at least one frame (it is a length plus one, after   *)
(* an append), so a consumer that serves one owes at least one Pop.  While *)
(* a Push is under way its frame is there: nobody else gets the mutex.     *)
Owed ==
  /\ ~Unlocked => Len(queue) >= 1
  /\ \A s \in Subscribers : \A i \in 1..Len(signal[s]) : signal[s][i] >= 2
  /\ \A s \in Subscribers : pc[s] = "pop" => todo[s] >= 1

TypeInv == TypeOK /\ Owed

(* Length and elements of the slice before the append of a Push.           *)
LEMMA TrimmedFacts ==
  ASSUME TypeOK
  PROVE  /\ Trimmed \in Seq(Nat)
         /\ Len(Trimmed) < Limit
         /\ Len(Trimmed) = IF Len(queue) = Limit THEN Limit - 1 ELSE Len(queue)
         /\ \A i \in 1..Len(Trimmed) :
              Trimmed[i] = queue[Len(queue) - Len(Trimmed) + i]
<1>1. Limit \in Nat /\ Limit >= 1
  BY LimitAssumption
<1>2. queue \in Seq(Nat) /\ Len(queue) <= Limit
  BY DEF TypeOK
<1>3. CASE Len(queue) = Limit
  <2>1. queue # << >>
    BY <1>1, <1>2, <1>3
  <2>2. Trimmed = Tail(queue)
    BY <1>3 DEF Trimmed
  <2> QED
    BY <1>1, <1>2, <1>3, <2>1, <2>2
<1>4. CASE Len(queue) # Limit
  <2>1. Trimmed = queue
    BY <1>4 DEF Trimmed
  <2> QED
    BY <1>1, <1>2, <1>4, <2>1
<1> QED
  BY <1>3, <1>4

LEMMA TypeInit == Init => TypeInv
<1> SUFFICES ASSUME Init PROVE TypeInv
  OBVIOUS
<1>1. << >> \in Seq(Nat) /\ Len(<< >>) = 0
  OBVIOUS
<1>2. /\ signal \in [Subscribers -> Seq(Nat)]
      /\ \A s \in Subscribers : Len(signal[s]) = 0
  BY <1>1 DEF Init
<1>3. TypeOK
  BY <1>1, <1>2, LimitAssumption, SignalCapAssumption DEF Init, TypeOK, Places
<1>4. Owed
  BY <1>2 DEF Init, Owed, Unlocked
<1> QED
  BY <1>3, <1>4 DEF TypeInv

LEMMA TypeStep == TypeInv /\ [Next]_vars => TypeInv'
<1> SUFFICES ASSUME TypeInv, [Next]_vars PROVE TypeInv'
  OBVIOUS
<1> USE DEF TypeInv
<1>1. ASSUME NEW p \in Pushers, PushBegin(p) PROVE TypeInv'
  <2>1. queue' \in Seq(Nat) /\ Len(queue') <= Limit /\ Len(queue') >= 1
    BY <1>1, TrimmedFacts, LimitAssumption DEF PushBegin, TypeOK
  <2> QED
    BY <1>1, <2>1 DEF PushBegin, TypeOK, Owed, listenerVars, consumerVars
<1>2. ASSUME NEW p \in Pushers, NEW s \in Subscribers, Send(p, s) PROVE TypeInv'
  <2> DEFINE new == Append(signal[s], Len(queue) + 1)
  <2>1. Len(queue) \in Nat /\ Len(queue) >= 1
    BY <1>2, NoPusherAssumption DEF TypeOK, Owed, Send, Unlocked
  <2>2. /\ new \in Seq(Nat) /\ Len(new) = Len(signal[s]) + 1
        /\ \A i \in 1..Len(new) : new[i] >= 2
    BY <2>1 DEF TypeOK, Owed
  <2>3. Len(new) <= SignalCap
    BY <1>2, <2>2, SignalCapAssumption DEF Send, Full, TypeOK
  <2>4. signal' = [signal EXCEPT ![s] = new]
    BY <1>2 DEF Send
  <2> HIDE DEF new
  <2>5. /\ signal' \in [Subscribers -> Seq(Nat)]
        /\ \A t \in Subscribers : Len(signal'[t]) <= SignalCap
        /\ \A t \in Subscribers : \A i \in 1..Len(signal'[t]) : signal'[t][i] >= 2
    BY <2>2, <2>3, <2>4 DEF TypeOK, Owed
  <2> QED
    BY <1>2, <2>1, <2>5 DEF Send, TypeOK, Owed, frameVars, consumerVars, Unlocked
<1>3. ASSUME NEW p \in Pushers, NEW s \in Subscribers, DropListener(p, s)
      PROVE TypeInv'
  BY <1>3 DEF DropListener, TypeOK, Owed, frameVars, consumerVars, Unlocked
<1>4. ASSUME NEW p \in Pushers, PushEnd(p) PROVE TypeInv'
  BY <1>4 DEF PushEnd, TypeOK, Owed, frameVars, consumerVars, Unlocked
<1>5. ASSUME NEW s \in Subscribers, Subscribe(s) PROVE TypeInv'
  <2>1. signal' = [signal EXCEPT ![s] = << >>]
    BY <1>5 DEF Subscribe
  <2>2. /\ signal' \in [Subscribers -> Seq(Nat)]
        /\ \A t \in Subscribers : Len(signal'[t]) <= SignalCap
        /\ \A t \in Subscribers : \A i \in 1..Len(signal'[t]) : signal'[t][i] >= 2
    BY <2>1, SignalCapAssumption DEF TypeOK, Owed
  <2> QED
    BY <1>5, <2>2 DEF Subscribe, TypeOK, Owed, Places, frameVars, pushVars, Unlocked
<1>6. ASSUME NEW s \in Subscribers, Receive(s) PROVE TypeInv'
  <2> DEFINE new == IF signal[s] # << >> THEN Tail(signal[s]) ELSE signal[s]
             n == IF signal[s] # << >> THEN Head(signal[s]) ELSE 0
  <2>1. /\ signal' = [signal EXCEPT ![s] = new]
        /\ pc' = [pc EXCEPT ![s] = IF n = 0 THEN "leave" ELSE "pop"]
        /\ todo' = [todo EXCEPT ![s] = IF n = 0 THEN 0 ELSE n - 1]
    BY <1>6 DEF Receive, TypeOK
  <2>2. /\ new \in Seq(Nat) /\ Len(new) <= Len(signal[s])
        /\ \A i \in 1..Len(new) : new[i] >= 2
    BY DEF TypeOK, Owed
  <2>3. n \in Nat /\ n # 1
    <3>1. CASE signal[s] # << >>
      <4>1. Len(signal[s]) >= 1 /\ n = signal[s][1] /\ signal[s] \in Seq(Nat)
        BY <3>1 DEF TypeOK
      <4> QED
        BY <4>1 DEF Owed
    <3> QED
      BY <3>1
  <2> HIDE DEF new, n
  <2>4. /\ signal' \in [Subscribers -> Seq(Nat)]
        /\ \A t \in Subscribers : Len(signal'[t]) <= SignalCap
        /\ \A t \in Subscribers : \A i \in 1..Len(signal'[t]) : signal'[t][i] >= 2
    BY <2>1, <2>2, SignalCapAssumption DEF TypeOK, Owed
  <2>5. /\ pc' \in [Subscribers -> Places] /\ todo' \in [Subscribers -> Nat]
        /\ \A t \in Subscribers : pc'[t] = "pop" => todo'[t] >= 1
    BY <2>1, <2>3 DEF TypeOK, Owed, Places
  <2> QED
    BY <1>6, <2>4, <2>5 DEF Receive, TypeOK, Owed, frameVars, pushVars, Unlocked
<1>7. ASSUME NEW s \in Subscribers, Pop(s) \/ PopSendFails(s) PROVE TypeInv'
  <2>1. /\ queue' \in Seq(Nat) /\ Len(queue') <= Limit
        /\ taken' \subseteq Nat /\ pushed' \in Nat
    <3>1. PopFrame
      BY <1>7 DEF Pop, PopSendFails
    <3>2. queue \in Seq(Nat) /\ Len(queue) <= Limit
      BY DEF TypeOK
    <3>3. queue # << >> => /\ Tail(queue) \in Seq(Nat) /\ Len(Tail(queue)) <= Limit
                           /\ Head(queue) \in Nat
      BY <3>2, LimitAssumption
    <3> QED
      BY <3>1, <3>2, <3>3 DEF PopFrame, TypeOK
  <2>2. /\ pc' \in [Subscribers -> Places] /\ todo' \in [Subscribers -> Nat]
        /\ \A t \in Subscribers : pc'[t] = "pop" => todo'[t] >= 1
    <3>1. CASE Pop(s)
      <4>1. todo[s] \in Nat /\ todo[s] >= 1
        BY <3>1 DEF Pop, TypeOK, Owed
      <4> QED
        BY <3>1, <4>1 DEF Pop, TypeOK, Owed, Places
    <3>2. CASE PopSendFails(s)
      BY <3>2 DEF PopSendFails, TypeOK, Owed, Places
    <3> QED
      BY <1>7, <3>1, <3>2
  <2> QED
    BY <1>7, <2>1, <2>2 DEF Pop, PopSendFails, TypeOK, Owed, listenerVars, pushVars,
       Unlocked
<1>8. ASSUME NEW s \in Subscribers, Quit(s) \/ SelectQuit(s) \/ Unsub(s)
      PROVE TypeInv'
  BY <1>8 DEF Quit, SelectQuit, Unsub, TypeOK, Owed, Places, frameVars,
     listenerVars, pushVars, Unlocked
<1>9. CASE UNCHANGED vars
  BY <1>9 DEF TypeOK, Owed, Unlocked, vars, frameVars, listenerVars, pushVars,
     consumerVars
<1> QED
  BY <1>1, <1>2, <1>3, <1>4, <1>5, <1>6, <1>7, <1>8, <1>9
     DEF Next, PusherStep, ConsumerStep


(* Every state of every behaviour has the declared types and bounds.       *)
THEOREM TypeCorrect == Spec => []TypeOK
<1>1. Spec => []TypeInv
  BY TypeInit, TypeStep, PTL DEF Spec
<1> QED
  BY <1>1, PTL DEF TypeInv

LEMMA TypeInvariant == Spec => []TypeInv
  BY TypeInit, TypeStep, PTL DEF Spec

-----------------------------------------------------------------------------
(***************************************************************************)
(* Order: the frames held are the newest ones pushed.                      *)
(***************************************************************************)

LEMMA OrderInit == Init => FramesInOrder
  BY DEF Init, FramesInOrder

(* One frame enters at the back, the oldest leaving if there is no room.   *)
LEMMA PushKeepsOrder ==
  ASSUME TypeOK, FramesInOrder, NEW p \in Pushers, PushBegin(p)
  PROVE  FramesInOrder'
<1> DEFINE old == Trimmed
<1>1. /\ old \in Seq(Nat) /\ Len(old) \in Nat /\ Len(old) <= Len(queue)
      /\ \A i \in 1..Len(old) : old[i] = queue[Len(queue) - Len(old) + i]
  BY TrimmedFacts, LimitAssumption DEF TypeOK
<1>2. queue' = Append(old, pushed + 1) /\ pushed' = pushed + 1 /\ taken' = taken
  BY DEF PushBegin
<1>3. queue \in Seq(Nat) /\ Len(queue) \in Nat /\ pushed \in Nat /\ taken \subseteq Nat
  BY DEF TypeOK
<1>4. \A i \in 1..Len(old) : old[i] = pushed - Len(old) + i
  BY <1>1, <1>3 DEF FramesInOrder
<1> HIDE DEF old
<1>5. Len(queue') = Len(old) + 1
  BY <1>1, <1>2, <1>3
<1>6. \A i \in 1..Len(queue') : queue'[i] = pushed' - Len(queue') + i
  <2>1. queue'[Len(old) + 1] = pushed + 1
    BY <1>1, <1>2, <1>3
  <2>2. \A i \in 1..Len(old) : queue'[i] = old[i]
    BY <1>1, <1>2, <1>3
  <2> QED
    BY <1>1, <1>2, <1>3, <1>4, <1>5, <2>1, <2>2
<1>7. \A f \in taken' : f + Len(queue') <= pushed'
  BY <1>1, <1>2, <1>3, <1>5 DEF FramesInOrder
<1> QED
  BY <1>6, <1>7 DEF FramesInOrder

LEMMA PopKeepsOrder ==
  ASSUME TypeOK, FramesInOrder, PopFrame
  PROVE  FramesInOrder'
<1>1. queue \in Seq(Nat) /\ Len(queue) \in Nat /\ pushed \in Nat /\ taken \subseteq Nat
  BY DEF TypeOK
<1>2. CASE queue = << >>
  BY <1>2 DEF PopFrame, FramesInOrder
<1>3. CASE queue # << >>
  <2>1. queue' = Tail(queue) /\ taken' = taken \cup {queue[1]} /\ pushed' = pushed
    BY <1>1, <1>3 DEF PopFrame
  <2>2. /\ Len(queue) >= 1 /\ Len(queue') = Len(queue) - 1
        /\ \A i \in 1..Len(queue') : queue'[i] = queue[i + 1]
    BY <1>1, <1>3, <2>1
  <2>3. \A i \in 1..Len(queue') : queue'[i] = pushed' - Len(queue') + i
    <3> SUFFICES ASSUME NEW i \in 1..Len(queue')
                 PROVE  queue'[i] = pushed' - Len(queue') + i
      OBVIOUS
    <3>1. i \in Nat /\ i + 1 \in 1..Len(queue)
      BY <1>1, <2>2
    <3>2. queue[i + 1] = pushed - Len(queue) + (i + 1)
      BY <3>1 DEF FramesInOrder
    <3>3. queue'[i] = queue[i + 1]
      BY <2>2
    <3>4. pushed - Len(queue) + (i + 1) = pushed - (Len(queue) - 1) + i
      BY <1>1, <3>1
    <3> QED
      BY <2>1, <2>2, <3>2, <3>3, <3>4
  <2>4. queue[1] + Len(queue') <= pushed
    BY <1>1, <2>2 DEF FramesInOrder
  <2>5. \A f \in taken' : f + Len(queue') <= pushed'
    BY <1>1, <2>1, <2>2, <2>4 DEF FramesInOrder
  <2> QED
    BY <2>3, <2>5 DEF FramesInOrder
<1> QED
  BY <1>2, <1>3

LEMMA OrderStep == TypeInv /\ FramesInOrder /\ [Next]_vars => FramesInOrder'
<1> SUFFICES ASSUME TypeOK, FramesInOrder, [Next]_vars PROVE FramesInOrder'
  BY DEF TypeInv
<1>1. ASSUME NEW p \in Pushers, PushBegin(p) PROVE FramesInOrder'
  BY <1>1, PushKeepsOrder
<1>2. ASSUME NEW s \in Subscribers, Pop(s) \/ PopSendFails(s) PROVE FramesInOrder'
  BY <1>2, PopKeepsOrder DEF Pop, PopSendFails
<1>3. CASE UNCHANGED frameVars
  BY <1>3 DEF frameVars, FramesInOrder
<1> QED
  BY <1>1, <1>2, <1>3 DEF Next, PusherStep, ConsumerStep, vars, Send, DropListener,
     PushEnd, Subscribe, Receive, Quit, SelectQuit, Unsub

(* Pop returns the frames in the order of the pushes and none of them      *)
(* twice, however pushers and consumers interleave.                        *)
THEOREM OrderCorrect == Spec => []FramesInOrder
  BY TypeInvariant, OrderInit, OrderStep, PTL DEF Spec


-----------------------------------------------------------------------------
(***************************************************************************)
(* Listeners and their channels.                                           *)
(***************************************************************************)

(* The loop of a Push visits each registered listener once; between two    *)
(* Pushes there is nothing to visit.                                       *)
Sweep ==
  /\ Unlocked => toNotify = {} /\ kept = {}
  /\ toNotify \cap kept = {}

Registration == Sweep /\ ReachableChannelsOpen /\ UnsubFindsListener

LEMMA RegistrationInit == Init => Registration
  BY DEF Init, Registration, Sweep, ReachableChannelsOpen, UnsubFindsListener,
     Active, Unlocked

LEMMA RegistrationStep == TypeInv /\ Registration /\ [Next]_vars => Registration'
<1> SUFFICES ASSUME TypeOK, Registration, [Next]_vars PROVE Registration'
  BY DEF TypeInv
<1> USE DEF Registration, Sweep, ReachableChannelsOpen, UnsubFindsListener, Active
<1>1. ASSUME NEW p \in Pushers, PushBegin(p) PROVE Registration'
  BY <1>1, NoPusherAssumption DEF PushBegin, Unlocked, listenerVars, consumerVars
<1>2. ASSUME NEW p \in Pushers, NEW s \in Subscribers, Send(p, s)
      PROVE Registration'
  BY <1>2, NoPusherAssumption DEF Send, Unlocked, frameVars, consumerVars
<1>3. ASSUME NEW p \in Pushers, NEW s \in Subscribers, DropListener(p, s)
      PROVE Registration'
  BY <1>3, NoPusherAssumption
     DEF DropListener, Unlocked, frameVars, consumerVars, TypeOK
<1>4. ASSUME NEW p \in Pushers, PushEnd(p) PROVE Registration'
  BY <1>4, NoPusherAssumption DEF PushEnd, Unlocked, frameVars, consumerVars
<1>5. ASSUME NEW s \in Subscribers, Subscribe(s) PROVE Registration'
  BY <1>5 DEF Subscribe, Unlocked, frameVars, pushVars, TypeOK
<1>6. ASSUME NEW s \in Subscribers, Receive(s) PROVE Registration'
  BY <1>6 DEF Receive, Unlocked, frameVars, pushVars, TypeOK
<1>7. ASSUME NEW s \in Subscribers, Pop(s) \/ PopSendFails(s) PROVE Registration'
  BY <1>7 DEF Pop, PopSendFails, Unlocked, listenerVars, pushVars, TypeOK
<1>8. ASSUME NEW s \in Subscribers, Quit(s) \/ SelectQuit(s) PROVE Registration'
  BY <1>8 DEF Quit, SelectQuit, Unlocked, listenerVars, pushVars, TypeOK
<1>9. ASSUME NEW s \in Subscribers, Unsub(s) PROVE Registration'
  BY <1>9 DEF Unsub, Unlocked, frameVars, pushVars, TypeOK
<1>10. CASE UNCHANGED vars
  BY <1>10 DEF vars, Unlocked, listenerVars, pushVars, consumerVars
<1> QED
  BY <1>1, <1>2, <1>3, <1>4, <1>5, <1>6, <1>7, <1>8, <1>9, <1>10
     DEF Next, PusherStep, ConsumerStep

LEMMA RegistrationInvariant == Spec => []Registration
  BY TypeInvariant, RegistrationInit, RegistrationStep, PTL DEF Spec

(* Push sends on open channels only, closes none twice, and closes none    *)
(* that its consumer still reads.                                          *)
THEOREM ChannelsCorrect == Spec => []ReachableChannelsOpen
<1>1. Registration => ReachableChannelsOpen
  BY DEF Registration
<1> QED
  BY <1>1, RegistrationInvariant, PTL

(* unsub never dereferences a listener that is not in the map.             *)
THEOREM UnsubCorrect == Spec => []UnsubFindsListener
<1>1. Registration => UnsubFindsListener
  BY DEF Registration
<1> QED
  BY <1>1, RegistrationInvariant, PTL

(* Both of the above, as the run checks them.                              *)
THEOREM ListenersCorrect == Spec => []ListenersSound
<1>1. ReachableChannelsOpen /\ UnsubFindsListener => ListenersSound
  BY DEF ListenersSound
<1> QED
  BY <1>1, ChannelsCorrect, UnsubCorrect, PTL

-----------------------------------------------------------------------------
(***************************************************************************)
(* No stranded frame.  A step either leaves a consumer's signals and debts *)
(* alone and does not lengthen the slice, or it is the step that signals   *)
(* the new length, or the consumer pays a Pop for the frame that leaves.   *)
(***************************************************************************)

(* The newest signal of a channel, after a receive and after a send.       *)
LEMMA LastAfterTail ==
  ASSUME NEW q \in Seq(Nat), q # << >>
  PROVE  /\ Len(q) >= 1 /\ Head(q) = q[1] /\ Last(q) \in Nat
         /\ Len(q) = 1 => Tail(q) = << >> /\ Last(q) = q[1]
         /\ Len(q) # 1 => Tail(q) # << >> /\ Last(Tail(q)) = Last(q)
<1>1. Len(q) \in Nat /\ Len(q) >= 1 /\ q[Len(q)] \in Nat /\ Head(q) = q[1]
  BY EmptySeq, ElementOfSeq
<1>2. /\ Tail(q) \in Seq(Nat) /\ Len(Tail(q)) = Len(q) - 1
      /\ \A i \in 1..Len(Tail(q)) : Tail(q)[i] = q[i + 1]
  BY HeadTailProperties
<1> DEFINE t == Tail(q)
<1>3. /\ t \in Seq(Nat) /\ Len(t) = Len(q) - 1
      /\ \A i \in 1..Len(t) : t[i] = q[i + 1]
  BY <1>2
<1> HIDE DEF t
<1>4. Len(q) = 1 => t = << >>
  BY <1>1, <1>3
<1>5. ASSUME Len(q) # 1
      PROVE  t # << >> /\ t[Len(t)] = q[Len(q)]
  <2>1. Len(t) >= 1 /\ Len(t) + 1 = Len(q)
    BY <1>1, <1>3, <1>5
  <2> QED
    BY <1>3, <2>1
<1> QED
  BY <1>1, <1>4, <1>5 DEF Last, t

LEMMA LastAfterAppend ==
  ASSUME NEW q \in Seq(Nat), NEW v \in Nat
  PROVE  Append(q, v) # << >> /\ Last(Append(q, v)) = v
  BY DEF Last

(* What keeps one consumer covered in a step that is not its own.          *)
LEMMA UntouchedStaysCovered ==
  ASSUME TypeOK, TypeOK', NEW t \in Subscribers, Covered(t),
         Len(queue') <= Len(queue), signal'[t] = signal[t], todo'[t] = todo[t]
  PROVE  Covered(t)'
<1>1. /\ Len(queue) \in Nat /\ Len(queue') \in Nat /\ todo[t] \in Nat
      /\ signal[t] \in Seq(Nat)
  BY DEF TypeOK
<1>2. CASE signal[t] # << >>
  <2>1. Last(signal[t]) \in Nat
    BY <1>1, <1>2 DEF Last
  <2> QED
    BY <1>1, <1>2, <2>1 DEF Covered, Last
<1>3. CASE signal[t] = << >>
  BY <1>1, <1>3 DEF Covered
<1> QED
  BY <1>2, <1>3

LEMMA PopShortens ==
  ASSUME TypeOK, PopFrame
  PROVE  /\ Len(queue') <= Len(queue)
         /\ Len(queue') = IF Len(queue) = 0 THEN 0 ELSE Len(queue) - 1
<1>1. queue \in Seq(Nat) /\ Len(queue) \in Nat
  BY DEF TypeOK
<1>2. CASE queue = << >>
  BY <1>2 DEF PopFrame
<1>3. CASE queue # << >>
  <2>1. Len(queue) >= 1 /\ queue' = Tail(queue)
    BY <1>1, <1>3 DEF PopFrame
  <2> QED
    BY <1>1, <2>1
<1> QED
  BY <1>2, <1>3

LEMMA ReceiveKeepsCovered ==
  ASSUME TypeInv, Registration, NEW s \in Subscribers, Receive(s), Covered(s)
  PROVE  Covered(s)'
<1>1. /\ signal[s] \in Seq(Nat) /\ signal[s] # << >> /\ Len(queue) \in Nat
      /\ signal \in [Subscribers -> Seq(Nat)] /\ todo \in [Subscribers -> Nat]
  BY DEF Receive, TypeInv, TypeOK, Registration, ReachableChannelsOpen, Active
<1>2. Len(signal[s]) >= 1 /\ Head(signal[s]) = signal[s][1] /\ signal[s][1] >= 2
  BY <1>1 DEF TypeInv, Owed
<1>3. /\ signal'[s] = Tail(signal[s]) /\ todo'[s] = signal[s][1] - 1
      /\ queue' = queue
  BY <1>1, <1>2 DEF Receive, frameVars
<1>4. Last(signal[s]) > Len(queue)
  BY <1>1 DEF Covered
<1>5. CASE Len(signal[s]) = 1
  <2>1. signal'[s] = << >> /\ Last(signal[s]) = signal[s][1]
    BY <1>1, <1>3, <1>5, LastAfterTail
  <2>2. todo'[s] >= Len(queue')
    BY <1>1, <1>2, <1>3, <1>4, <2>1, LastAfterTail
  <2> QED
    BY <2>1, <2>2 DEF Covered
<1>6. CASE Len(signal[s]) # 1
  <2>1. signal'[s] # << >> /\ Last(signal'[s]) = Last(signal[s])
    BY <1>1, <1>3, <1>6, LastAfterTail
  <2> QED
    BY <1>3, <1>4, <2>1 DEF Covered
<1> QED
  BY <1>5, <1>6

LEMMA PopKeepsCovered ==
  ASSUME TypeInv, TypeInv', NEW s \in Subscribers, Pop(s), Covered(s)
  PROVE  Covered(s)'
<1>1. /\ Len(queue) \in Nat /\ Len(queue') \in Nat /\ todo[s] \in Nat
      /\ todo[s] >= 1 /\ todo'[s] = todo[s] - 1 /\ signal'[s] = signal[s]
      /\ signal[s] \in Seq(Nat)
  BY DEF Pop, TypeInv, TypeOK, Owed, listenerVars
<1>2. /\ Len(queue') <= Len(queue)
      /\ Len(queue') = IF Len(queue) = 0 THEN 0 ELSE Len(queue) - 1
  BY PopShortens DEF Pop, TypeInv
<1>3. CASE signal[s] # << >>
  <2>1. Last(signal[s]) \in Nat
    BY <1>1, <1>3 DEF Last
  <2> QED
    BY <1>1, <1>2, <1>3, <2>1 DEF Covered
<1>4. CASE signal[s] = << >>
  BY <1>1, <1>2, <1>4 DEF Covered
<1> QED
  BY <1>3, <1>4

LEMMA CoverageInit == Init => NoStrandedFrame
  BY DEF Init, NoStrandedFrame

LEMMA CoverageStep ==
  /\ TypeInv /\ TypeInv' /\ Registration /\ NoStrandedFrame /\ [Next]_vars
    => NoStrandedFrame'
<1> SUFFICES ASSUME TypeInv, TypeInv', Registration, NoStrandedFrame, [Next]_vars,
                    NEW t \in Subscribers,
                    pc'[t] \in {"select", "pop"}, Notified(t)'
             PROVE  Covered(t)'
  BY DEF NoStrandedFrame
<1>a. TypeOK /\ TypeOK' /\ pushed \in Nat /\ Len(queue) \in Nat
  <2>1. TypeOK /\ TypeOK'
    BY DEF TypeInv
  <2>2. pushed \in Nat /\ Len(queue) \in Nat
    BY <2>1 DEF TypeOK
  <2> QED BY <2>1, <2>2
<1>b. pc[t] \in {"select", "pop"} /\ Notified(t) => Covered(t)
  BY DEF NoStrandedFrame
<1>1. ASSUME NEW p \in Pushers, PushBegin(p) PROVE FALSE
  BY <1>1 DEF PushBegin, Notified, consumerVars, Registration, UnsubFindsListener,
     Active
<1>2. ASSUME NEW p \in Pushers, NEW s \in Subscribers, Send(p, s)
      PROVE  Covered(t)'
  <2>1. CASE t = s
    <3>1. /\ signal[s] \in Seq(Nat) /\ signal \in [Subscribers -> Seq(Nat)]
          /\ signal'[s] = Append(signal[s], Len(queue) + 1) /\ queue' = queue
      BY <1>2 DEF Send, frameVars, TypeInv, TypeOK
    <3>2. signal'[s] # << >> /\ Last(signal'[s]) = Len(queue) + 1
      BY <3>1, <1>a, LastAfterAppend
    <3> QED
      BY <1>a, <2>1, <3>1, <3>2 DEF Covered
  <2>2. CASE t # s
    <3>1. pc[t] \in {"select", "pop"} /\ Notified(t)
      BY <1>2, <2>2 DEF Send, frameVars, consumerVars, Notified
    <3>2. signal'[t] = signal[t] /\ todo'[t] = todo[t] /\ Len(queue') <= Len(queue)
      BY <1>2, <1>a, <2>2 DEF Send, frameVars, consumerVars, TypeOK
    <3> QED
      BY <1>a, <1>b, <3>1, <3>2, UntouchedStaysCovered
  <2> QED
    BY <2>1, <2>2
<1>3. ASSUME NEW p \in Pushers, NEW s \in Subscribers, DropListener(p, s)
      PROVE  Covered(t)'
  <2>1. t # s
    BY <1>3 DEF DropListener, consumerVars, Registration, UnsubFindsListener, Active
  <2>2. pc[t] \in {"select", "pop"} /\ Notified(t)
    BY <1>3, <2>1 DEF DropListener, frameVars, consumerVars, Notified
  <2>3. signal'[t] = signal[t] /\ todo'[t] = todo[t] /\ Len(queue') <= Len(queue)
    BY <1>3, <1>a DEF DropListener, frameVars, consumerVars
  <2> QED
    BY <1>a, <1>b, <2>2, <2>3, UntouchedStaysCovered
<1>4. ASSUME NEW p \in Pushers, PushEnd(p) PROVE Covered(t)'
  <2>1. pc[t] \in {"select", "pop"} /\ Notified(t)
    BY <1>4 DEF PushEnd, frameVars, consumerVars, Notified
  <2>2. signal'[t] = signal[t] /\ todo'[t] = todo[t] /\ Len(queue') <= Len(queue)
    BY <1>4, <1>a DEF PushEnd, frameVars, consumerVars
  <2> QED
    BY <1>a, <1>b, <2>1, <2>2, UntouchedStaysCovered
<1>5. ASSUME NEW s \in Subscribers, Subscribe(s) PROVE Covered(t)'
  <2>1. t # s
    BY <1>5, <1>a DEF Subscribe, frameVars, pushVars, Notified, TypeOK
  <2>2. pc[t] \in {"select", "pop"} /\ Notified(t)
    BY <1>5, <2>1, <1>a DEF Subscribe, frameVars, pushVars, Notified, TypeOK
  <2>3. signal'[t] = signal[t] /\ todo'[t] = todo[t] /\ Len(queue') <= Len(queue)
    BY <1>5, <1>a, <2>1 DEF Subscribe, frameVars, TypeOK
  <2> QED
    BY <1>a, <1>b, <2>2, <2>3, UntouchedStaysCovered
<1>6. ASSUME NEW s \in Subscribers, Receive(s) PROVE Covered(t)'
  <2>1. Notified(t) /\ pc[t] \in {"select", "pop"}
    BY <1>6, <1>a DEF Receive, frameVars, pushVars, Notified, TypeOK
  <2>2. CASE t = s
    BY <1>6, <1>b, <2>1, <2>2, ReceiveKeepsCovered
  <2>3. CASE t # s
    <3>1. signal'[t] = signal[t] /\ todo'[t] = todo[t] /\ Len(queue') <= Len(queue)
      BY <1>6, <1>a, <2>3 DEF Receive, frameVars, TypeOK
    <3> QED
      BY <1>a, <1>b, <2>1, <3>1, UntouchedStaysCovered
  <2> QED
    BY <2>2, <2>3
<1>7. ASSUME NEW s \in Subscribers, Pop(s) \/ PopSendFails(s) PROVE Covered(t)'
  <2>1. Notified(t) /\ pc[t] \in {"select", "pop"}
    BY <1>7, <1>a DEF Pop, PopSendFails, PopFrame, pushVars, Notified, TypeOK
  <2>2. CASE t = s
    <3>1. Pop(s)
      BY <1>7, <1>a, <2>2 DEF PopSendFails, TypeOK
    <3> QED
      BY <1>b, <2>1, <2>2, <3>1, PopKeepsCovered
  <2>3. CASE t # s
    <3>1. signal'[t] = signal[t] /\ todo'[t] = todo[t]
      BY <1>7, <1>a, <2>3 DEF Pop, PopSendFails, listenerVars, TypeOK
    <3>2. Len(queue') <= Len(queue)
      BY <1>7, <1>a, PopShortens DEF Pop, PopSendFails
    <3> QED
      BY <1>a, <1>b, <2>1, <3>1, <3>2, UntouchedStaysCovered
  <2> QED
    BY <2>2, <2>3
<1>8. ASSUME NEW s \in Subscribers, Quit(s) \/ SelectQuit(s) \/ Unsub(s)
      PROVE  Covered(t)'
  <2>1. Notified(t) /\ pc[t] \in {"select", "pop"}
    BY <1>8, <1>a DEF Quit, SelectQuit, Unsub, frameVars, pushVars, Notified, TypeOK
  <2>2. signal'[t] = signal[t] /\ todo'[t] = todo[t] /\ Len(queue') <= Len(queue)
    BY <1>8, <1>a DEF Quit, SelectQuit, Unsub, frameVars, listenerVars
  <2> QED
    BY <1>a, <1>b, <2>1, <2>2, UntouchedStaysCovered
<1>9. CASE UNCHANGED vars
  BY <1>9, <1>b DEF vars, frameVars, listenerVars, pushVars, consumerVars, Notified,
     Covered
<1> QED
  BY <1>1, <1>2, <1>3, <1>4, <1>5, <1>6, <1>7, <1>8, <1>9
     DEF Next, PusherStep, ConsumerStep

(* A consumer that waits in its select with nothing signalled has left no  *)
(* frame in the queue, for any number of consumers and pushers.            *)
THEOREM CoverageCorrect == Spec => []NoStrandedFrame
  BY TypeInvariant, RegistrationInvariant, CoverageInit, CoverageStep, PTL DEF Spec

-----------------------------------------------------------------------------
(***************************************************************************)
(* Refinement of LossyFifo: a Push takes effect when it appends, a Pop     *)
(* when it removes a frame; everything else is a stuttering step.          *)
(***************************************************************************)

LEMMA FifoStep == TypeInv /\ [Next]_vars => [Fifo!FifoNext]_(Fifo!fifoVars)
<1> SUFFICES ASSUME TypeOK, [Next]_vars
             PROVE  Fifo!FifoNext \/ UNCHANGED Fifo!fifoVars
  BY DEF TypeInv
<1>1. ASSUME NEW p \in Pushers, PushBegin(p) PROVE Fifo!Put
  <2>1. Len(queue) \in Nat /\ Len(queue) <= Limit /\ Limit \in Nat
    BY LimitAssumption DEF TypeOK
  <2> QED
    BY <1>1, <2>1 DEF PushBegin, Trimmed, Fifo!Put
<1>2. ASSUME NEW s \in Subscribers, Pop(s) \/ PopSendFails(s)
      PROVE  Fifo!Take \/ UNCHANGED Fifo!fifoVars
  BY <1>2 DEF Pop, PopSendFails, PopFrame, Fifo!Take, Fifo!fifoVars
<1>3. CASE UNCHANGED frameVars
  BY <1>3 DEF frameVars, Fifo!fifoVars
<1> QED
  BY <1>1, <1>2, <1>3 DEF Fifo!FifoNext, Next, PusherStep, ConsumerStep, vars, Send,
     DropListener, PushEnd, Subscribe, Receive, Quit, SelectQuit, Unsub

(* The queue is a bounded FIFO that gives up its oldest frame when full.   *)
THEOREM FifoCorrect == Spec => ImplementsFifo
<1>1. Init => Fifo!FifoInit
  BY DEF Init, Fifo!FifoInit
<1> QED
  BY <1>1, FifoStep, TypeInvariant, PTL DEF Spec, ImplementsFifo, Fifo!FifoSpec


-----------------------------------------------------------------------------
(***************************************************************************)
(* The jam.  Its two parties wait for each other: the Push for room in the *)
(* channel, the consumer for the mutex.                                    *)
(***************************************************************************)

LEMMA JamStep == Registration /\ [Next]_vars => (Jammed => Jammed')
<1> SUFFICES ASSUME Registration, [Next]_vars,
                    NEW s \in toNotify, isConnected[s], Full(s),
                    pc[s] \in {"pop", "leave"}
             PROVE  Jammed'
  BY DEF Jammed
<1>1. ~Unlocked
  BY DEF Registration, Sweep
<1>2. ASSUME NEW p \in Pushers, PushBegin(p) PROVE FALSE
  BY <1>1, <1>2 DEF PushBegin
<1>3. ASSUME NEW p \in Pushers, NEW t \in Subscribers, Send(p, t) PROVE Jammed'
  <2>1. t # s
    BY <1>3 DEF Send
  <2>2. s \in toNotify' /\ pc' = pc /\ isConnected' = isConnected
    BY <1>3, <2>1 DEF Send, consumerVars
  <2>3. signal'[s] = signal[s]
    BY <1>3, <2>1 DEF Send
  <2> QED
    BY <2>2, <2>3 DEF Jammed, Full
<1>4. ASSUME NEW p \in Pushers, NEW t \in Subscribers, DropListener(p, t)
      PROVE  Jammed'
  <2>1. t # s
    BY <1>4 DEF DropListener
  <2> QED
    BY <1>4, <2>1 DEF DropListener, consumerVars, Jammed, Full
<1>5. ASSUME NEW p \in Pushers, PushEnd(p) PROVE FALSE
  BY <1>5 DEF PushEnd
<1>6. ASSUME NEW t \in Subscribers,
             Subscribe(t) \/ Pop(t) \/ PopSendFails(t) \/ Unsub(t)
      PROVE  FALSE
  BY <1>1, <1>6 DEF Subscribe, Pop, PopSendFails, Unsub
<1>7. ASSUME NEW t \in Subscribers, Receive(t) PROVE Jammed'
  <2>1. t # s
    BY <1>7 DEF Receive
  <2>2. /\ toNotify' = toNotify /\ isConnected' = isConnected
        /\ pc'[s] = pc[s] /\ signal'[s] = signal[s]
    BY <1>7, <2>1 DEF Receive, pushVars
  <2> QED
    BY <2>2 DEF Jammed, Full
<1>8. ASSUME NEW t \in Subscribers, Quit(t) PROVE Jammed'
  BY <1>8 DEF Quit, pushVars, listenerVars, Jammed, Full
<1>9. ASSUME NEW t \in Subscribers, SelectQuit(t) PROVE Jammed'
  <2>1. t # s
    BY <1>9 DEF SelectQuit
  <2>2. pc'[s] = pc[s]
    BY <1>9, <2>1 DEF SelectQuit
  <2> QED
    BY <1>9, <2>2 DEF SelectQuit, pushVars, listenerVars, Jammed, Full
<1>10. CASE UNCHANGED vars
  BY <1>10 DEF vars, pushVars, listenerVars, consumerVars, Jammed, Full
<1> QED
  BY <1>2, <1>3, <1>4, <1>5, <1>6, <1>7, <1>8, <1>9, <1>10
     DEF Next, PusherStep, ConsumerStep

(* Nothing that pushers or consumers do ends a jam.                        *)
THEOREM JamPermanent == Spec => JamIsForever
<1>1. Registration /\ [Next]_vars => [Jammed => Jammed']_vars
  BY JamStep
<1> QED
  BY <1>1, RegistrationInvariant, PTL DEF Spec, JamIsForever
=============================================================================
