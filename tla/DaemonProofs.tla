---------------------------- MODULE DaemonProofs ----------------------------
(***************************************************************************)
(* Proofs about what the daemon does to come up and to serve: module       *)
(* Daemon, for any calls of StopDaemon, any number of starts and of        *)
(* certificates; and below, module RpcPath, for any calls, plugin names,   *)
(* lifetimes and width of integers.  The two have no variable in common.   *)
(***************************************************************************)
EXTENDS Daemon, RpcPath, SequenceTheorems, WellFoundedInduction, TLAPS

(* What is put before, or taken from, a sequence.                          *)
LEMMA ConsFacts ==
  ASSUME NEW S, NEW s \in Seq(S), NEW x \in S
  PROVE  /\ <<x>> \o s \in Seq(S)
         /\ (<<x>> \o s)[1] = x
         /\ Len(<<x>> \o s) = Len(s) + 1
         /\ \A i \in 1..Len(s) : (<<x>> \o s)[i + 1] = s[i]
OBVIOUS

LEMMA TailFacts ==
  ASSUME NEW S, NEW s \in Seq(S), s # << >>
  PROVE  /\ Head(s) \in S /\ Head(s) = s[1]
         /\ Tail(s) \in Seq(S)
         /\ Len(Tail(s)) = Len(s) - 1
         /\ \A i \in 1..Len(s) - 1 : Tail(s)[i] = s[i + 1]
OBVIOUS

-----------------------------------------------------------------------------
(* Initially, and after a restart.                                         *)
LEMMA InitType == Init => TypeOK
<1> SUFFICES ASSUME Init PROVE TypeOK
  OBVIOUS
<1> USE DEF Init, Fresh
<1>1. /\ cert \in [Places -> PairIds] /\ key \in [Places -> PairIds]
      /\ requester \in [Requesters -> {"idle", "asking", "done"}]
  BY DEF PairIds
<1>2. expired \subseteq 1..MaxPairs /\ pairs \in 0..MaxPairs /\ starts \in 1..MaxStarts
  BY BoundsAssumption
<1>3. held \subseteq Resources /\ deferred \in Seq(Resources)
  OBVIOUS
<1>4. certAt \in Places /\ keyAt \in Places /\ pc \in Stages /\ interrupts \in 0..InterruptCap
  BY DEF Places, Stages, InterruptCap
<1> QED BY <1>1, <1>2, <1>3, <1>4 DEF TypeOK

(* The steps of core.Main that leave all but its own progress alone.       *)
LEMMA StartupType ==
  ASSUME TypeOK, Startup
  PROVE  TypeOK'
<1> USE DEF TypeOK, Resources, Stages, Startup, fileVars, configVars, interceptVars
<1>1. CASE NewRpcServer
  BY <1>1 DEF NewRpcServer, Acquire
<1>2. CASE NewGrpcServer
  BY <1>2, ConsFacts DEF NewGrpcServer, Acquire, Defer
<1>3. CASE StartPlugins
  BY <1>3, ConsFacts DEF StartPlugins, Acquire, Defer
<1>4. CASE NewDB
  BY <1>4, ConsFacts DEF NewDB, Acquire, Defer
<1>5. CASE InitUnlockerService
  BY <1>5 DEF InitUnlockerService, Proceed
<1>6. CASE StartRpcServer
  BY <1>6, ConsFacts DEF StartRpcServer, Defer
<1>7. CASE StartRestProxy
  BY <1>7, ConsFacts DEF StartRestProxy, Acquire, Defer
<1>8. CASE InitService
  BY <1>8, ConsFacts DEF InitService, Acquire, Defer
<1>9. CASE Activate
  BY <1>9 DEF Activate, Proceed
<1>10. CASE ShutsDown
  BY <1>10 DEF ShutsDown, Return
<1>11. CASE Fails
  BY <1>11 DEF Fails, Return
<1>12. CASE Fatal
  BY <1>12 DEF Fatal, Exit
<1>13. CASE RestPanics
  BY <1>13 DEF RestPanics, Exit
<1>14. CASE Hangs
  BY <1>14 DEF Hangs, Proceed
<1> QED BY <1>1, <1>2, <1>3, <1>4, <1>5, <1>6, <1>7, <1>8, <1>9, <1>10, <1>11, <1>12, <1>13, <1>14
        DEF Startup

LEMMA ConfigureType ==
  ASSUME TypeOK, Configure
  PROVE  TypeOK'
<1> USE DEF TypeOK, Stages, fileVars, interceptVars
<1>1. CASE \E c, k \in Settings : InitConfig(c, k)
  BY <1>1 DEF InitConfig, Filled, Proceed, Places
<1>2. CASE ConfigRefused
  BY <1>2 DEF ConfigRefused, Exit, configVars
<1>3. CASE StartServer
  <2>1. held' \subseteq Resources /\ deferred' \in Seq(Resources) /\ pc' \in Stages /\ how' = how
    <3>1. CASE pc = "logger"
      BY <1>3, <3>1 DEF StartServer, Proceed
    <3>2. CASE pc # "logger"
      <4>1. "server" \in Resources
        BY DEF Resources
      <4>2. <<"server">> \o deferred \in Seq(Resources)
        BY <4>1, ConsFacts
      <4> QED BY <1>3, <3>2, <4>1, <4>2 DEF StartServer, Acquire, Defer
    <3> QED BY <3>1, <3>2
  <2> QED BY <1>3, <2>1 DEF StartServer, configVars
<1> QED BY <1>1, <1>2, <1>3 DEF Configure

(* What a crash makes of the files.                                        *)
LEMMA CutShortType ==
  ASSUME TypeOK, CutShort
  PROVE  /\ cert' \in [Places -> PairIds] /\ key' \in [Places -> PairIds]
         /\ expired' \subseteq 1..MaxPairs /\ pairs' \in 0..MaxPairs
         /\ excused' \subseteq {"cutShort", "unpaired"}
  BY DEF CutShort, TypeOK, PairIds

LEMMA TLSType ==
  ASSUME TypeOK, TLS
  PROVE  TypeOK'
<1> USE DEF TypeOK, Resources, Stages, configVars, interceptVars
<1>1. CASE LookForPair
  BY <1>1, BoundsAssumption DEF LookForPair, Proceed, fileVars
<1>2. CASE WriteCert
  BY <1>2, BoundsAssumption DEF WriteCert, Proceed, PairIds, Places
<1>3. CASE WriteKey
  BY <1>3, BoundsAssumption DEF WriteKey, Proceed, PairIds, None, Places
<1>4. CASE LoadCertificate
  BY <1>4, BoundsAssumption DEF LoadCertificate, Proceed, fileVars
<1>5. CASE LoadFails
  BY <1>5, BoundsAssumption DEF LoadFails, Return, fileVars
<1>6. CASE RemoveCert
  BY <1>6, BoundsAssumption DEF RemoveCert, Proceed, PairIds, Places
<1>7. CASE RemoveKey
  BY <1>7, BoundsAssumption DEF RemoveKey, Proceed, PairIds, Places
<1>8. CASE FilesFail
  BY <1>8, CutShortType DEF FilesFail, Return
<1> QED BY <1>1, <1>2, <1>3, <1>4, <1>5, <1>6, <1>7, <1>8 DEF TLS

LEMMA UnwindDefers ==
  ASSUME deferred \in Seq(Resources), Unwind
  PROVE  deferred' \in Seq(Resources)
<1>1. CASE deferred = << >>
  BY <1>1 DEF Unwind
<1>2. CASE deferred # << >>
  <2>1. deferred' = Tail(deferred)
    BY <1>2 DEF Unwind
  <2>2. Tail(deferred) \in Seq(Resources)
    BY <1>2, TailFacts
  <2> QED BY <2>1, <2>2
<1> QED BY <1>1, <1>2

LEMMA TeardownType ==
  ASSUME TypeOK, Teardown \/ StartPluginsFails \/ \E entered \in BOOLEAN : Wait(entered)
  PROVE  TypeOK'
<1> USE DEF TypeOK, Stages, fileVars, configVars, interceptVars
<1>1. CASE Unwind
  <2>1. held' \subseteq Resources /\ pc' \in Stages
    BY <1>1 DEF Unwind
  <2>2. deferred' \in Seq(Resources)
    BY <1>1, UnwindDefers
  <2> QED BY <1>1, <2>1, <2>2 DEF Unwind
<1>2. CASE UnwindHangs
  BY <1>2 DEF UnwindHangs
<1>3. CASE MainEnds
  BY <1>3 DEF MainEnds, Exit
<1>4. CASE StartPluginsFails
  BY <1>4 DEF StartPluginsFails, Resources
<1>5. CASE \E entered \in BOOLEAN : Wait(entered)
  BY <1>5 DEF Wait, WaitForPassword, Proceed, Return
<1>6. CASE UnwindMisses
  <2>1. deferred' \in Seq(Resources)
    BY <1>6, TailFacts DEF UnwindMisses
  <2>2. escaped' \subseteq {"start", "stop"}
    BY <1>6 DEF UnwindMisses
  <2> QED BY <1>6, <2>1, <2>2 DEF UnwindMisses
<1> QED BY <1>1, <1>2, <1>3, <1>4, <1>5, <1>6 DEF Teardown

LEMMA InterceptType ==
  ASSUME TypeOK, Signal \/ Handle \/ \E r \in Requesters : StopDaemon(r) \/ RequestShutdown(r)
  PROVE  TypeOK'
<1> USE DEF TypeOK, Resources, Stages, configVars
<1>1. CASE Signal
  <2>1. /\ cert' \in [Places -> PairIds] /\ key' \in [Places -> PairIds]
        /\ expired' \subseteq 1..MaxPairs /\ pairs' \in 0..MaxPairs
        /\ excused' \subseteq {"cutShort", "unpaired"}
    BY <1>1, CutShortType DEF Signal, fileVars
  <2>2. interrupts' \in 0..InterruptCap
    BY <1>1 DEF Signal, Notify, InterruptCap
  <2>3. /\ pc' \in Stages /\ held' \subseteq Resources /\ deferred' \in Seq(Resources)
        /\ how' \in {"running", "returned", "fatal", "panic", "killed"}
    <3>1. CASE handler = "gone"
      BY <1>1, <3>1 DEF Signal, Exit
    <3>2. CASE handler # "gone"
      BY <1>1, <3>2 DEF Signal
    <3> QED BY <3>1, <3>2
  <2> QED BY <1>1, <2>1, <2>2, <2>3 DEF Signal
<1>2. CASE ReceiveSignal
  BY <1>2 DEF ReceiveSignal, InterruptCap, fileVars, mainVars
<1>3. CASE HandlerEnds
  BY <1>3 DEF HandlerEnds, fileVars, mainVars
<1>4. CASE \E r \in Requesters : StopDaemon(r)
  BY <1>4 DEF StopDaemon, fileVars, mainVars, interceptVars
<1>5. CASE \E r \in Requesters : RequestShutdown(r)
  <2>1. PICK r \in Requesters : RequestShutdown(r)
    BY <1>5
  <2>2. requester' \in [Requesters -> {"idle", "asking", "done"}]
    BY <2>1 DEF RequestShutdown
  <2>3. quit' \in BOOLEAN
    BY <2>1, Zenon DEF RequestShutdown
  <2> QED BY <2>1, <2>2, <2>3 DEF RequestShutdown, fileVars, mainVars
<1> QED BY <1>1, <1>2, <1>3, <1>4, <1>5 DEF Handle

LEMMA WorldType ==
  ASSUME TypeOK, (Alive /\ Crash) \/ Restart \/ OtherDaemon \/ Expire
  PROVE  TypeOK'
<1> USE DEF TypeOK, Resources, Stages
<1>1. CASE Crash
  BY <1>1, CutShortType DEF Crash, Exit, configVars, interceptVars
<1>2. CASE Restart
  <2>1. /\ held' \subseteq Resources /\ deferred' \in Seq(Resources) /\ pc' \in Stages
        /\ requester' \in [Requesters -> {"idle", "asking", "done"}]
    BY <1>2 DEF Restart
  <2>2. starts' \in 1..MaxStarts /\ interrupts' \in 0..InterruptCap
    BY <1>2, BoundsAssumption DEF Restart, InterruptCap
  <2> QED BY <1>2, <2>1, <2>2 DEF Restart, fileVars, Places
<1>3. CASE OtherDaemon
  BY <1>3 DEF OtherDaemon, fileVars, configVars, mainVars, interceptVars
<1>4. CASE Expire
  <2>1. expired' \subseteq 1..MaxPairs
    BY <1>4, BoundsAssumption DEF Expire
  <2> QED BY <1>4, <2>1 DEF Expire, configVars, mainVars, interceptVars
<1> QED BY <1>1, <1>2, <1>3, <1>4

LEMMA NextType ==
  ASSUME TypeOK, [Next]_vars
  PROVE  TypeOK'
<1>1. CASE UNCHANGED vars
  BY <1>1 DEF vars, fileVars, configVars, mainVars, interceptVars, TypeOK
<1>2. CASE Next
  BY <1>2, ConfigureType, TLSType, StartupType, TeardownType, InterceptType, WorldType
  DEF Next
<1> QED BY <1>1, <1>2

(* Type correctness, whatever the configuration says, fails or crashes.    *)
THEOREM TypeCorrect == Spec => []TypeOK
<1> QED BY InitType, NextType, PTL DEF Spec

-----------------------------------------------------------------------------
(* Where Main has opened the port and not yet deferred to close it.        *)
Unserved == {"grpc", "plugins", "database", "unlocker", "rpcServer"}

(* What Main still holds it has deferred to release, but for the port until*)
(* rpcServer.Start, and the plugins that escaped; it returns with nothing  *)
(* left to run.                                                            *)
Tracked ==
  /\ pc # "ended" =>
       \A r \in held : \/ r = "listener" /\ (pc \in Unserved \/ "start" \in escaped)
                       \/ r = "plugins" /\ escaped # {}
                       \/ \E i \in 1..Len(deferred) : deferred[i] = r
  /\ pc = "returned" => deferred = << >>

(* Unless excused, a place has both files of a pair or neither, but while  *)
(* they are written or removed one after the other.                        *)
Paired ==
  excused = {} =>
    /\ certAt = keyAt
    /\ \A p \in Places : /\ cert[p] # Torn
                         /\ \/ cert[p] = key[p]
                            \/ p = certAt /\ pc \in {"writeKey", "removeKey"}
    /\ pc = "writeKey" => cert[certAt] = pairs /\ pairs # None
    /\ pc = "removeKey" => cert[certAt] = None
    /\ pc = "load" => cert[certAt] # None

(* A step that neither acquires nor releases.                              *)
LEMMA TrackedAside ==
  ASSUME Tracked, UNCHANGED <<held, deferred, escaped>>,
         \/ pc' = pc
         \/ pc # "ended" /\ pc' # "returned" /\ (pc \in Unserved => pc' \in Unserved)
  PROVE  Tracked'
  BY DEF Tracked

(* Acquiring x and deferring its release.                                  *)
LEMMA TrackedDefer ==
  ASSUME Tracked, TypeOK, NEW x \in Resources, held' \subseteq held \cup {x},
         deferred' = <<x>> \o deferred, UNCHANGED escaped,
         pc # "ended", pc' # "returned", pc \in Unserved => pc' \in Unserved \/ x = "listener"
  PROVE  Tracked'
<1>1. deferred \in Seq(Resources)
  BY DEF TypeOK
<1>2. /\ (<<x>> \o deferred)[1] = x
      /\ Len(<<x>> \o deferred) = Len(deferred) + 1
      /\ \A i \in 1..Len(deferred) : (<<x>> \o deferred)[i + 1] = deferred[i]
  BY <1>1, ConsFacts
<1>3. Len(deferred) \in Nat
  BY <1>1
<1>4. SUFFICES ASSUME NEW r \in held',
                      ~(r = "listener" /\ (pc' \in Unserved \/ "start" \in escaped)),
                      ~(r = "plugins" /\ escaped # {})
               PROVE  \E i \in 1..Len(deferred') : deferred'[i] = r
  BY DEF Tracked
<1>5. CASE r = x
  BY <1>2, <1>3, <1>5
<1>6. CASE r # x
  <2>1. PICK i \in 1..Len(deferred) : deferred[i] = r
    BY <1>4, <1>6 DEF Tracked
  <2>2. i + 1 \in 1..Len(deferred') /\ deferred'[i + 1] = r
    BY <2>1, <1>2, <1>3
  <2> QED BY <2>2
<1> QED BY <1>5, <1>6

(* What ends the process leaves it nothing to release.                     *)
LEMMA TrackedExit ==
  ASSUME NEW cause, Exit(cause)
  PROVE  Tracked'
  BY DEF Exit, Tracked

(* Running a deferred function, which may miss plugins.                    *)
LEMMA TrackedUnwind ==
  ASSUME Tracked, TypeOK, Unwind \/ UnwindMisses
  PROVE  Tracked'
<1>1. deferred \in Seq(Resources) /\ pc = "unwind" /\ escaped \subseteq escaped'
  BY DEF Unwind, UnwindMisses, TypeOK
<1>2. CASE Unwind /\ deferred = << >>
  BY <1>1, <1>2 DEF Unwind, Tracked, Unserved
<1>3. CASE UnwindMisses \/ deferred # << >>
  <2>1. /\ deferred # << >> /\ held' \subseteq held /\ deferred' = Tail(deferred) /\ pc' = pc
        /\ deferred[1] \in held' => deferred[1] = "plugins" /\ escaped' # {}
    <3>1. deferred # << >> => Head(deferred) = deferred[1]
      BY <1>1, TailFacts
    <3>2. CASE Unwind /\ deferred # << >>
      BY <1>1, <3>1, <3>2 DEF Unwind
    <3>3. CASE UnwindMisses
      BY <1>1, <3>1, <3>3 DEF UnwindMisses
    <3> QED BY <1>3, <3>2, <3>3
  <2>2. Len(deferred') = Len(deferred) - 1 /\ Len(deferred) \in Nat
    BY <1>1, <2>1, TailFacts
  <2>3. \A i \in 1..Len(deferred) - 1 : deferred'[i] = deferred[i + 1]
    BY <1>1, <2>1, TailFacts
  <2>4. SUFFICES ASSUME NEW r \in held',
                        ~(r = "listener" /\ "start" \in escaped'),
                        ~(r = "plugins" /\ escaped' # {})
                 PROVE  \E i \in 1..Len(deferred') : deferred'[i] = r
    BY <1>1, <2>1 DEF Tracked
  <2>5. PICK i \in 1..Len(deferred) : deferred[i] = r
    BY <1>1, <2>1, <2>4 DEF Tracked, Unserved
  <2>6. i - 1 \in 1..Len(deferred') /\ deferred'[i - 1] = r
    BY <2>1, <2>2, <2>3, <2>4, <2>5
  <2> QED BY <2>6
<1> QED BY <1>2, <1>3

LEMMA TrackedStartup ==
  ASSUME Tracked, TypeOK, Startup
  PROVE  Tracked'
<1> USE DEF Startup
<1>1. UNCHANGED escaped
  OBVIOUS
<1>2. CASE NewRpcServer
  BY <1>1, <1>2 DEF NewRpcServer, Acquire, Tracked, Unserved
<1>3. CASE NewGrpcServer \/ StartPlugins \/ NewDB
  BY <1>1, <1>3, TrackedDefer
  DEF NewGrpcServer, StartPlugins, NewDB, Acquire, Defer, Resources, Unserved
<1>4. CASE StartRpcServer \/ StartRestProxy \/ InitService
  BY <1>1, <1>4, TrackedDefer
  DEF StartRpcServer, StartRestProxy, InitService, Acquire, Defer, Resources, Unserved
<1>5. CASE InitUnlockerService \/ Activate \/ ShutsDown \/ Fails \/ Hangs
  BY <1>1, <1>5, TrackedAside
  DEF InitUnlockerService, Activate, ShutsDown, Fails, Hangs, Proceed, Return, Unserved
<1>6. CASE Fatal \/ RestPanics
  BY <1>6, TrackedExit DEF Fatal, RestPanics
<1> QED BY <1>2, <1>3, <1>4, <1>5, <1>6

LEMMA TrackedNext ==
  ASSUME Tracked, TypeOK, [Next]_vars
  PROVE  Tracked'
<1>1. CASE UNCHANGED vars
  BY <1>1, TrackedAside DEF vars, mainVars
<1>2. CASE Alive /\ Configure
  <2>1. CASE \E c, k \in Settings : InitConfig(c, k)
    BY <2>1, TrackedAside DEF InitConfig, Proceed, Unserved
  <2>2. CASE ConfigRefused
    BY <2>2, TrackedExit DEF ConfigRefused
  <2>3. CASE StartServer /\ pc = "logger"
    BY <2>3, TrackedAside DEF StartServer, Proceed, Unserved
  <2>4. CASE StartServer /\ pc # "logger"
    BY <2>4, TrackedDefer DEF StartServer, Acquire, Defer, Resources, Unserved
  <2> QED BY <1>2, <2>1, <2>2, <2>3, <2>4 DEF Configure
<1>3. CASE Alive /\ TLS
  BY <1>3, TrackedAside
  DEF TLS, LookForPair, WriteCert, WriteKey, LoadCertificate, LoadFails, RemoveCert,
      RemoveKey, FilesFail, Proceed, Return, Unserved
<1>4. CASE Alive /\ Startup
  BY <1>4, TrackedStartup
<1>5. CASE StartPluginsFails
  BY <1>5 DEF StartPluginsFails, Tracked, Unserved
<1>6. CASE Teardown
  BY <1>6, TrackedUnwind, TrackedAside, TrackedExit DEF Teardown, UnwindHangs, MainEnds, Unserved
<1>7. CASE \E entered \in BOOLEAN : Wait(entered)
  BY <1>7, TrackedAside DEF Wait, WaitForPassword, Proceed, Return, Unserved
<1>8. CASE Signal
  BY <1>8, TrackedAside, TrackedExit DEF Signal
<1>9. CASE Handle \/ OtherDaemon \/ Expire
  BY <1>9, TrackedAside DEF Handle, ReceiveSignal, HandlerEnds, OtherDaemon, Expire, mainVars
<1>10. CASE \E r \in Requesters : StopDaemon(r) \/ RequestShutdown(r)
  BY <1>10, TrackedAside DEF StopDaemon, RequestShutdown, mainVars
<1>11. CASE Crash
  BY <1>11, TrackedExit DEF Crash
<1>12. CASE Restart
  BY <1>12 DEF Restart, Tracked
<1> QED BY <1>1, <1>2, <1>3, <1>4, <1>5, <1>6, <1>7, <1>8, <1>9, <1>10, <1>11, <1>12
        DEF Next

-----------------------------------------------------------------------------
(* A step that leaves the files alone, outside of what handles them.       *)
LEMMA PairedAside ==
  ASSUME Paired, UNCHANGED <<cert, key, pairs, certAt, keyAt, excused>>,
         \/ pc' = pc
         \/ /\ pc \notin {"writeKey", "removeKey"}
            /\ pc' \notin {"writeKey", "removeKey", "load"}
  PROVE  Paired'
  BY DEF Paired

(* A file cut short by a crash or a failing write is excused.              *)
LEMMA PairedCutShort ==
  ASSUME Paired, CutShort, UNCHANGED <<certAt, keyAt>>,
         pc' \notin {"writeKey", "removeKey", "load"}
  PROVE  Paired'
<1> SUFFICES ASSUME excused' = {}
             PROVE  /\ excused = {} /\ pc \notin {"writeKey", "removeKey"}
                    /\ UNCHANGED <<cert, key, pairs>>
  BY DEF Paired
<1> QED BY DEF CutShort

LEMMA PairedConfig ==
  ASSUME Paired, Configure
  PROVE  Paired'
<1>1. CASE \E c, k \in Settings : InitConfig(c, k)
  <2>1. PICK c \in Settings : \E k \in Settings : InitConfig(c, k)
    BY <1>1
  <2>2. PICK k \in Settings : InitConfig(c, k)
    BY <2>1
  <2>3. /\ UNCHANGED <<cert, key, pairs>> /\ pc = "config" /\ pc' = "logger"
        /\ excused \subseteq excused'
    BY <2>2 DEF InitConfig, Proceed, fileVars
  <2>4. excused' = {} => certAt' = keyAt'
    BY <2>2 DEF InitConfig, Filled, Settings
  <2> QED BY <2>3, <2>4 DEF Paired
<1>2. CASE ConfigRefused \/ StartServer
  BY <1>2, PairedAside DEF ConfigRefused, StartServer, Exit, Proceed, Acquire, fileVars, configVars
<1> QED BY <1>1, <1>2 DEF Configure

LEMMA PairedTLS ==
  ASSUME Paired, TypeOK, TLS
  PROVE  Paired'
<1>1. /\ cert \in [Places -> PairIds] /\ key \in [Places -> PairIds]
      /\ certAt \in Places /\ keyAt \in Places
      /\ pairs \in Nat
  BY BoundsAssumption DEF TypeOK
<1>2. CASE LookForPair
  BY <1>1, <1>2 DEF LookForPair, Proceed, Paired, fileVars, configVars
<1>3. CASE WriteCert
  BY <1>1, <1>3 DEF WriteCert, Proceed, Paired, configVars, Torn, None
<1>4. CASE WriteKey
  BY <1>1, <1>4 DEF WriteKey, Proceed, Paired, configVars
<1>5. CASE LoadCertificate \/ LoadFails
  BY <1>5, PairedAside DEF LoadCertificate, LoadFails, Proceed, Return, fileVars, configVars
<1>6. CASE RemoveCert
  BY <1>1, <1>6 DEF RemoveCert, Proceed, Paired, configVars, Torn, None
<1>7. CASE RemoveKey
  BY <1>1, <1>7 DEF RemoveKey, Proceed, Paired, configVars
<1>8. CASE FilesFail
  BY <1>8, PairedCutShort DEF FilesFail, Return, configVars
<1> QED BY <1>2, <1>3, <1>4, <1>5, <1>6, <1>7, <1>8 DEF TLS

LEMMA PairedNext ==
  ASSUME Paired, TypeOK, [Next]_vars
  PROVE  Paired'
<1> USE DEF fileVars, configVars
<1>1. CASE UNCHANGED vars
  BY <1>1, PairedAside DEF vars, mainVars
<1>2. CASE Configure \/ TLS
  BY <1>2, PairedConfig, PairedTLS
<1>3. CASE Startup
  BY <1>3, PairedAside
  DEF Startup, NewRpcServer, NewGrpcServer, StartPlugins, NewDB, InitUnlockerService,
      StartRpcServer, StartRestProxy, InitService, Activate, ShutsDown, Hangs, Fails, Fatal,
      RestPanics, Proceed, Acquire, Return, Exit
<1>4. CASE StartPluginsFails \/ Teardown
  BY <1>4, PairedAside DEF StartPluginsFails, Teardown, Unwind, UnwindMisses, UnwindHangs, MainEnds, Exit
<1>5. CASE \E entered \in BOOLEAN : Wait(entered)
  BY <1>5, PairedAside DEF Wait, WaitForPassword, Proceed, Return
<1>6. CASE Signal
  BY <1>6, PairedAside, PairedCutShort DEF Signal, Exit
<1>7. CASE Handle \/ OtherDaemon \/ Expire
  BY <1>7, PairedAside DEF Handle, ReceiveSignal, HandlerEnds, OtherDaemon, Expire, mainVars
<1>8. CASE \E r \in Requesters : StopDaemon(r) \/ RequestShutdown(r)
  BY <1>8, PairedAside DEF StopDaemon, RequestShutdown, mainVars
<1>9. CASE Crash
  BY <1>9, PairedCutShort DEF Crash, Exit
<1>10. CASE Restart
  BY <1>10 DEF Restart, Alive, Paired
<1> QED BY <1>1, <1>2, <1>3, <1>4, <1>5, <1>6, <1>7, <1>8, <1>9, <1>10 DEF Next

-----------------------------------------------------------------------------
(* What the daemon leaves behind is in order: its start never fails on a   *)
(* certificate and key of its own, and when Main has returned nothing but  *)
(* the named exceptions is still held; over any number of starts.          *)
THEOREM LeftInOrderCorrect == Spec => []LeftInOrder
<1>1. Init => TypeOK /\ Tracked /\ Paired
  BY InitType DEF Init, Fresh, Tracked, Paired, None, Torn
<1>2. TypeOK /\ Tracked /\ Paired /\ [Next]_vars => (TypeOK /\ Tracked /\ Paired)'
  BY NextType, TrackedNext, PairedNext
<1>3. TypeOK /\ Tracked /\ Paired => LeftInOrder
  <2> SUFFICES ASSUME TypeOK, Tracked, Paired PROVE LeftInOrder
    OBVIOUS
  <2>1. CertificateLoads
    <3> SUFFICES ASSUME pc = "load", excused = {} PROVE Loads
      BY DEF CertificateLoads
    <3>1. cert[certAt] \in PairIds \ {None, Torn}
      BY DEF Paired, TypeOK
    <3>2. cert[certAt] = key[keyAt]
      BY DEF Paired, TypeOK
    <3> QED BY <3>1, <3>2 DEF Loads, PairIds
  <2>2. AllReleased
    BY DEF AllReleased, Tracked, Unserved
  <2> QED BY <2>1, <2>2 DEF LeftInOrder
<1> QED BY <1>1, <1>2, <1>3, PTL DEF Spec
-----------------------------------------------------------------------------
(* What is written or removed is not in use: GenCertPair runs where both   *)
(* files are missing, and a pair is removed when it has expired.           *)
Replaceable ==
  /\ pc = "writeCert" => cert[certAt] = None /\ key[keyAt] = None
  /\ pc = "writeKey" => key[keyAt] = None
  /\ pc = "removeCert" => cert[certAt] \in expired
  /\ pc = "removeKey" => cert[certAt] = None
  /\ pc \in {"removeCert", "removeKey"} => key[keyAt] \in expired

LEMMA ReplaceableAside ==
  ASSUME Replaceable, UNCHANGED <<cert, key, certAt, keyAt>>, expired \subseteq expired',
         pc' = pc \/ pc' \notin {"writeCert", "writeKey", "removeCert", "removeKey"}
  PROVE  Replaceable'
BY DEF Replaceable

LEMMA ReplaceableTLS ==
  ASSUME TypeOK, Replaceable, TLS
  PROVE  Replaceable'
<1> USE DEF fileVars, configVars, Proceed, Replaceable
<1>1. cert \in [Places -> PairIds] /\ key \in [Places -> PairIds]
      /\ certAt \in Places /\ keyAt \in Places
  BY DEF TypeOK
<1>2. CASE LookForPair
  BY <1>2 DEF LookForPair
<1>3. CASE WriteCert
  BY <1>3 DEF WriteCert
<1>4. CASE WriteKey
  BY <1>4 DEF WriteKey
<1>5. CASE LoadCertificate \/ LoadFails
  BY <1>5 DEF LoadCertificate, LoadFails, Loads, Return
<1>6. CASE RemoveCert
  BY <1>1, <1>6 DEF RemoveCert
<1>7. CASE RemoveKey
  BY <1>1, <1>7 DEF RemoveKey
<1>8. CASE FilesFail
  BY <1>8 DEF FilesFail, Return
<1> QED BY <1>2, <1>3, <1>4, <1>5, <1>6, <1>7, <1>8 DEF TLS

LEMMA ReplaceableNext ==
  ASSUME TypeOK, Replaceable, [Next]_vars
  PROVE  Replaceable'
<1> USE DEF fileVars, configVars
<1>1. CASE UNCHANGED vars
  BY <1>1, ReplaceableAside DEF vars, mainVars
<1>2. CASE Configure
  BY <1>2 DEF Configure, InitConfig, ConfigRefused, StartServer, Exit, Proceed, Acquire,
              Replaceable
<1>3. CASE TLS
  BY <1>3, ReplaceableTLS
<1>4. CASE Startup
  BY <1>4, ReplaceableAside
  DEF Startup, NewRpcServer, NewGrpcServer, StartPlugins, NewDB, InitUnlockerService,
      StartRpcServer, StartRestProxy, InitService, Activate, ShutsDown, Hangs, Fails, Fatal,
      RestPanics, Proceed, Acquire, Return, Exit
<1>5. CASE StartPluginsFails \/ Teardown
  BY <1>5, ReplaceableAside DEF StartPluginsFails, Teardown, Unwind, UnwindMisses, UnwindHangs, MainEnds, Exit
<1>6. CASE \E entered \in BOOLEAN : Wait(entered)
  BY <1>6, ReplaceableAside DEF Wait, WaitForPassword, Proceed, Return
<1>7. CASE Signal
  BY <1>7, ReplaceableAside DEF Signal, Exit, Replaceable
<1>8. CASE Handle \/ OtherDaemon \/ Expire
  BY <1>8, ReplaceableAside DEF Handle, ReceiveSignal, HandlerEnds, OtherDaemon, Expire, mainVars
<1>9. CASE \E r \in Requesters : StopDaemon(r) \/ RequestShutdown(r)
  BY <1>9, ReplaceableAside DEF StopDaemon, RequestShutdown, mainVars
<1>10. CASE Crash
  BY <1>10 DEF Crash, Exit, Replaceable
<1>11. CASE Restart
  BY <1>11 DEF Restart, Replaceable
<1> QED BY <1>1, <1>2, <1>3, <1>4, <1>5, <1>6, <1>7, <1>8, <1>9, <1>10, <1>11 DEF Next

(* A certificate and its key that are whole and have not expired.          *)
InUse(p) == cert[p] = key[p] /\ cert[p] \in 1..pairs \ expired

(* Such a pair is left alone by every step.                                *)
PairKept == [][\A p \in Places : InUse(p) => UNCHANGED <<cert[p], key[p]>>]_vars

(* Which steps touch the files, and where.                                 *)
LEMMA FilesTouched ==
  ASSUME TypeOK, Next, NEW p \in Places, cert'[p] # cert[p] \/ key'[p] # key[p]
  PROVE  \/ p = certAt /\ pc \in {"writeCert", "removeCert"}
         \/ p = keyAt /\ pc \in {"writeKey", "removeKey"}
<1> USE DEF fileVars, configVars
<1>1. cert \in [Places -> PairIds] /\ key \in [Places -> PairIds]
      /\ certAt \in Places /\ keyAt \in Places
  BY DEF TypeOK
<1>2. CASE CutShort
  BY <1>1, <1>2 DEF CutShort
<1>3. CASE TLS
  BY <1>1, <1>2, <1>3
  DEF TLS, LookForPair, WriteCert, WriteKey, LoadCertificate, LoadFails, RemoveCert,
      RemoveKey, FilesFail
<1>4. CASE Signal
  BY <1>2, <1>4 DEF Signal
<1>5. CASE Configure \/ StartPluginsFails \/ Teardown
  BY <1>5 DEF Configure, InitConfig, ConfigRefused, StartServer, StartPluginsFails, Teardown,
              Unwind, UnwindMisses, UnwindHangs, MainEnds
<1>6. CASE Startup
  BY <1>6 DEF Startup
<1>7. CASE \E entered \in BOOLEAN : Wait(entered)
  BY <1>7 DEF Wait, WaitForPassword
<1>8. CASE Handle \/ OtherDaemon \/ Expire \/ Restart
  BY <1>8 DEF Handle, ReceiveSignal, HandlerEnds, OtherDaemon, Expire, Restart
<1>9. CASE \E r \in Requesters : StopDaemon(r) \/ RequestShutdown(r)
  BY <1>9 DEF StopDaemon, RequestShutdown
<1>10. CASE Crash
  BY <1>2, <1>10 DEF Crash
<1> QED BY <1>3, <1>4, <1>5, <1>6, <1>7, <1>8, <1>9, <1>10 DEF Next

(* A certificate that has not expired is never touched, nor is its key, by *)
(* whatever start, renewal, failing write or crash, and whatever paths are *)
(* configured: who trusts it can go on doing so.                           *)
THEOREM PairKeptCorrect == Spec => PairKept
<1>1. Init => TypeOK /\ Replaceable
  BY InitType DEF Init, Fresh, Replaceable
<1>2. TypeOK /\ Replaceable /\ [Next]_vars => (TypeOK /\ Replaceable)'
  BY NextType, ReplaceableNext
<1>3. TypeOK /\ Replaceable /\ [Next]_vars =>
        [\A p \in Places : InUse(p) => UNCHANGED <<cert[p], key[p]>>]_vars
  <2> SUFFICES ASSUME TypeOK, Replaceable, Next, NEW p \in Places, InUse(p)
               PROVE  cert'[p] = cert[p] /\ key'[p] = key[p]
    OBVIOUS
  <2>1. cert[p] \notin expired \cup {None} /\ cert[p] = key[p]
    BY DEF InUse, None
  <2> QED BY <2>1, FilesTouched DEF Replaceable
<1> QED BY <1>1, <1>2, <1>3, PTL DEF Spec, PairKept

-----------------------------------------------------------------------------
(***************************************************************************)
(* Module RpcPath.                                                         *)
(***************************************************************************)

(* The element of the path of which two routes have different fixed names. *)
TellsApart(r, q, k) ==
  k \in 1..Len(r[2]) /\ r[2][k] # q[2][k] /\ r[2][k] # "*" /\ q[2][k] # "*"

(* No path matches both routes: they differ in the verb, in the length or  *)
(* in a fixed element of the path.  (A fifth element is always a name.)    *)
Apart(r, q) ==
  \/ r[1] # q[1] \/ Len(r[2]) # Len(q[2])
  \/ \E k \in 1..4 : TellsApart(r, q, k)

(* The tables, route by route: within a table, and between two tables of   *)
(* the same version of the API.                                            *)
LEMMA PluginRoutesApart ==
  ASSUME NEW i \in 1..9, NEW j \in 1..9, i # j
  PROVE  Apart(PluginRoutes[i], PluginRoutes[j])
<1>1. \/ PluginRoutes[i][1] # PluginRoutes[j][1]
      \/ Len(PluginRoutes[i][2]) # Len(PluginRoutes[j][2])
      \/ i \in {1, 2} /\ j \in {1, 2}
      \/ i \in {4, 5} /\ j \in {4, 5}
      \/ i \in {6, 8} /\ j \in {6, 8}
  <2> DEFINE verb(k) == PluginRoutes[k][1]  len(k) == Len(PluginRoutes[k][2])
  <2>1. /\ verb(1) = "PUT" /\ verb(2) = "PUT" /\ verb(4) = "PUT" /\ verb(5) = "PUT"
        /\ verb(3) = "GET" /\ verb(7) = "GET" /\ verb(9) = "GET"
        /\ verb(6) = "POST" /\ verb(8) = "POST"
    BY DEF PluginRoutes
  <2>2. /\ len(1) = 5 /\ len(2) = 5 /\ len(3) = 4 /\ len(4) = 4 /\ len(5) = 4
        /\ len(6) = 3 /\ len(7) = 2 /\ len(8) = 3 /\ len(9) = 3
    BY DEF PluginRoutes
  <2>3. i \in {1, 2, 3, 4, 5, 6, 7, 8, 9} /\ j \in {1, 2, 3, 4, 5, 6, 7, 8, 9}
    OBVIOUS
  <2> HIDE DEF verb, len
  <2>4. \/ verb(i) # verb(j) \/ len(i) # len(j)
        \/ i \in {1, 2} /\ j \in {1, 2}
        \/ i \in {4, 5} /\ j \in {4, 5}
        \/ i \in {6, 8} /\ j \in {6, 8}
    BY <2>1, <2>2, <2>3
  <2> QED BY <2>4 DEF verb, len
<1>2. /\ TellsApart(PluginRoutes[1], PluginRoutes[2], 3)
      /\ TellsApart(PluginRoutes[2], PluginRoutes[1], 3)
  BY DEF PluginRoutes, TellsApart
<1>3. /\ TellsApart(PluginRoutes[4], PluginRoutes[5], 3)
      /\ TellsApart(PluginRoutes[5], PluginRoutes[4], 3)
  BY DEF PluginRoutes, TellsApart
<1>4. /\ TellsApart(PluginRoutes[6], PluginRoutes[8], 3)
      /\ TellsApart(PluginRoutes[8], PluginRoutes[6], 3)
  BY DEF PluginRoutes, TellsApart
<1> QED BY <1>1, <1>2, <1>3, <1>4 DEF Apart

LEMMA DeprecatedRoutesApart ==
  ASSUME NEW i \in 1..9, NEW j \in 1..9, i # j
  PROVE  Apart(DeprecatedRoutes[i], DeprecatedRoutes[j])
<1>1. \/ DeprecatedRoutes[i][2][2] # DeprecatedRoutes[j][2][2]
      \/ DeprecatedRoutes[i][2][3] # DeprecatedRoutes[j][2][3]
  BY DEF DeprecatedRoutes
<1>2. \A k \in 1..9 : Len(DeprecatedRoutes[k][2]) = 3
  BY DEF DeprecatedRoutes
<1>3. \A k \in 1..9 : /\ DeprecatedRoutes[k][2][2] # "*"
                      /\ DeprecatedRoutes[k][2][3] # "*"
  BY DEF DeprecatedRoutes
<1>4. 2 \in 1..3 /\ 3 \in 1..3 OBVIOUS
<1>5. CASE DeprecatedRoutes[i][2][2] # DeprecatedRoutes[j][2][2]
  <2>1. TellsApart(DeprecatedRoutes[i], DeprecatedRoutes[j], 2)
     BY <1>5, <1>2, <1>3, <1>4 DEF TellsApart
  <2> QED BY <2>1 DEF Apart
<1>6. CASE DeprecatedRoutes[i][2][3] # DeprecatedRoutes[j][2][3]
  <2>1. TellsApart(DeprecatedRoutes[i], DeprecatedRoutes[j], 3)
     BY <1>6, <1>2, <1>3, <1>4 DEF TellsApart
  <2> QED BY <2>1 DEF Apart
<1> QED BY <1>1, <1>5, <1>6

LEMMA LaniRoutesApart ==
  ASSUME NEW i \in 1..4, NEW j \in 1..4, i # j
  PROVE  Apart(LaniRoutes[i], LaniRoutes[j])
BY DEF LaniRoutes, Apart, TellsApart

LEMMA UnlockerRoutesApart ==
  ASSUME NEW i \in 1..3, NEW j \in 1..3, i # j
  PROVE  Apart(UnlockerRoutes[i], UnlockerRoutes[j])
BY DEF UnlockerRoutes, Apart, TellsApart

LEMMA DeprecatedLaniApart ==
  ASSUME NEW i \in 1..9, NEW j \in 1..4
  PROVE  Apart(DeprecatedRoutes[i], LaniRoutes[j])
BY SMTT(30) DEF DeprecatedRoutes, LaniRoutes, Apart, TellsApart

LEMMA DeprecatedUnlockerApart ==
  ASSUME NEW i \in 1..9, NEW j \in 1..3
  PROVE  Apart(DeprecatedRoutes[i], UnlockerRoutes[j])
BY DEF DeprecatedRoutes, UnlockerRoutes, Apart, TellsApart

LEMMA LaniUnlockerApart ==
  ASSUME NEW i \in 1..4, NEW j \in 1..3
  PROVE  Apart(LaniRoutes[i], UnlockerRoutes[j])
BY DEF LaniRoutes, UnlockerRoutes, Apart, TellsApart

LEMMA PluginHealthApart ==
  ASSUME NEW i \in 1..9
  PROVE  Apart(PluginRoutes[i], HealthRoutes[1])
BY DEF PluginRoutes, HealthRoutes, Apart, TellsApart

(* The two versions of the API.                                            *)
V1Routes ==
  ToSet(UnlockerRoutes) \cup ToSet(LaniRoutes)
    \cup ToSet(DeprecatedRoutes)
V2Routes == ToSet(PluginRoutes) \cup ToSet(HealthRoutes)

(* The routes of a table by their indices.                                 *)
LEMMA RouteFacts ==
  /\ \A r : r \in ToSet(UnlockerRoutes) => \E i \in 1..3 : r = UnlockerRoutes[i]
  /\ \A r : r \in ToSet(LaniRoutes) => \E i \in 1..4 : r = LaniRoutes[i]
  /\ \A r : r \in ToSet(DeprecatedRoutes) => \E i \in 1..9 : r = DeprecatedRoutes[i]
  /\ \A r : r \in ToSet(PluginRoutes) => \E i \in 1..9 : r = PluginRoutes[i]
  /\ \A r : r \in ToSet(HealthRoutes) => r = HealthRoutes[1]
<1>1. /\ DOMAIN UnlockerRoutes = 1..3 /\ DOMAIN LaniRoutes = 1..4
      /\ DOMAIN DeprecatedRoutes = 1..9 /\ DOMAIN PluginRoutes = 1..9
      /\ DOMAIN HealthRoutes = 1..1
  BY DEF UnlockerRoutes, LaniRoutes, DeprecatedRoutes,
     PluginRoutes, HealthRoutes
<1> QED BY <1>1 DEF ToSet

(* What a path looks like: its version comes first.                        *)
LEMMA PathFacts ==
  /\ \A r \in V1Routes \cup V2Routes : Len(r[2]) \in 2..5 /\ DOMAIN r[2] = 1..Len(r[2])
  /\ \A r \in V1Routes : r[2][1] = "v1"
  /\ \A r \in V2Routes : r[2][1] = "v2"
<1>1. \A i \in 1..3 : LET r == UnlockerRoutes[i] IN
        Len(r[2]) \in 2..5 /\ DOMAIN r[2] = 1..Len(r[2]) /\ r[2][1] = "v1"
  BY DEF UnlockerRoutes
<1>2. \A i \in 1..4 : LET r == LaniRoutes[i] IN
        Len(r[2]) \in 2..5 /\ DOMAIN r[2] = 1..Len(r[2]) /\ r[2][1] = "v1"
  BY DEF LaniRoutes
<1>3. \A i \in 1..9 : LET r == DeprecatedRoutes[i] IN
        Len(r[2]) \in 2..5 /\ DOMAIN r[2] = 1..Len(r[2]) /\ r[2][1] = "v1"
  BY DEF DeprecatedRoutes
<1>4. \A i \in 1..9 : LET r == PluginRoutes[i] IN
        Len(r[2]) \in 2..5 /\ DOMAIN r[2] = 1..Len(r[2]) /\ r[2][1] = "v2"
  BY DEF PluginRoutes
<1>5. LET r == HealthRoutes[1] IN
        Len(r[2]) \in 2..5 /\ DOMAIN r[2] = 1..Len(r[2]) /\ r[2][1] = "v2"
  BY DEF HealthRoutes
<1>6. ASSUME NEW r \in V1Routes
      PROVE  Len(r[2]) \in 2..5 /\ DOMAIN r[2] = 1..Len(r[2]) /\ r[2][1] = "v1"
  <2>1. CASE r \in ToSet(UnlockerRoutes) BY <1>1, <2>1, RouteFacts
  <2>2. CASE r \in ToSet(LaniRoutes) BY <1>2, <2>2, RouteFacts
  <2>3. CASE r \in ToSet(DeprecatedRoutes)
    <3>1. PICK i \in 1..9 : r = DeprecatedRoutes[i] BY <2>3, RouteFacts
    <3> QED BY <1>3, <3>1, Zenon
  <2> QED BY <2>1, <2>2, <2>3 DEF V1Routes
<1>7. ASSUME NEW r \in V2Routes
      PROVE  Len(r[2]) \in 2..5 /\ DOMAIN r[2] = 1..Len(r[2]) /\ r[2][1] = "v2"
  <2>1. CASE r \in ToSet(PluginRoutes)
    <3>1. PICK i \in 1..9 : r = PluginRoutes[i] BY <2>1, RouteFacts
    <3> QED BY <1>4, <3>1, Zenon
  <2>2. CASE r \in ToSet(HealthRoutes) BY <1>5, <2>2, RouteFacts
  <2> QED BY <2>1, <2>2 DEF V2Routes
<1> QED BY <1>6, <1>7

(* Which of the two comes first does not matter.                           *)
LEMMA ApartSymmetric ==
  ASSUME NEW r, NEW q, Apart(r, q)
  PROVE  Apart(q, r)
BY DEF Apart, TellsApart

(* Routes of different methods never match the same path: those of the     *)
(* first version of the API, those of the second, and all of them.         *)
LEMMA V1RoutesApart ==
  ASSUME NEW r \in V1Routes, NEW q \in V1Routes, r[3] # q[3]
  PROVE  Apart(r, q)
<1> DEFINE U == ToSet(UnlockerRoutes)  L == ToSet(LaniRoutes)
           D == ToSet(DeprecatedRoutes)
<1>1. CASE r \in U /\ q \in U BY <1>1, RouteFacts, UnlockerRoutesApart
<1>2. CASE r \in L /\ q \in L BY <1>2, RouteFacts, LaniRoutesApart
<1>3. CASE r \in D /\ q \in D BY <1>3, RouteFacts, DeprecatedRoutesApart
<1>4. ASSUME NEW x \in L, NEW y \in U PROVE Apart(x, y)
  BY RouteFacts, LaniUnlockerApart
<1>5. ASSUME NEW x \in D, NEW y \in U PROVE Apart(x, y)
  BY RouteFacts, DeprecatedUnlockerApart
<1>6. ASSUME NEW x \in D, NEW y \in L PROVE Apart(x, y)
  BY RouteFacts, DeprecatedLaniApart
<1> QED BY <1>1, <1>2, <1>3, <1>4, <1>5, <1>6, ApartSymmetric DEF V1Routes

LEMMA V2RoutesApart ==
  ASSUME NEW r \in V2Routes, NEW q \in V2Routes, r[3] # q[3]
  PROVE  Apart(r, q)
<1> DEFINE P == ToSet(PluginRoutes)  H == ToSet(HealthRoutes)
<1>1. CASE r \in P /\ q \in P BY <1>1, RouteFacts, PluginRoutesApart
<1>2. CASE r \in H /\ q \in H BY <1>2, RouteFacts
<1>3. ASSUME NEW x \in P, NEW y \in H PROVE Apart(x, y)
  BY RouteFacts, PluginHealthApart
<1> QED BY <1>1, <1>2, <1>3, ApartSymmetric DEF V2Routes

LEMMA RoutesApart ==
  ASSUME NEW r \in V1Routes \cup V2Routes, NEW q \in V1Routes \cup V2Routes, r[3] # q[3]
  PROVE  Apart(r, q)
<1>1. CASE r \in V1Routes /\ q \in V1Routes BY <1>1, V1RoutesApart
<1>2. CASE r \in V2Routes /\ q \in V2Routes BY <1>2, V2RoutesApart
<1>3. ASSUME NEW x \in V1Routes, NEW y \in V2Routes PROVE Apart(x, y)
  <2>1. TellsApart(x, y, 1) BY PathFacts DEF TellsApart
  <2> QED BY <2>1 DEF Apart
<1> QED BY <1>1, <1>2, <1>3, ApartSymmetric

(* A set of numbers has a least one; a set of indices a greatest one.      *)
LEMMA NatMin ==
  ASSUME NEW T \in SUBSET Nat, T # {}
  PROVE  \E x \in T : \A y \in T : x <= y
<1>1. PICK x \in T : \A y \in T : <<y, x>> \notin OpToRel(<, Nat)
  BY WFMin, NatLessThanWellFounded, Zenon
<1>2. \A y \in T : ~(y < x)
  BY <1>1, Zenon DEF OpToRel
<1>3. \A y \in T : x <= y
  BY <1>2
<1> QED BY <1>3

LEMMA SetMax ==
  ASSUME NEW n \in Nat, NEW S \in SUBSET (1..n), S # {}
  PROVE  Max(S) \in S
<1> DEFINE T == {n - i : i \in S}
<1>0. T \in SUBSET Nat /\ T # {}
  <2>1. \A i \in S : n - i \in Nat /\ n - i \in T
    OBVIOUS
  <2> QED BY <2>1
<1>1. PICK x \in T : \A y \in T : x <= y
  <2> HIDE DEF T
  <2> QED BY <1>0, NatMin
<1>2. PICK k \in S : x = n - k
  BY <1>1
<1>3. \A i \in S : n - i \in T
  OBVIOUS
<1>4. \A i \in S : k >= i
  <2> HIDE DEF T
  <2> QED BY <1>1, <1>2, <1>3
<1> QED BY <1>4 DEF Max

(* What is in a concatenation is in one of its parts.                      *)
LEMMA ConcatSet ==
  ASSUME NEW S, NEW s \in Seq(S), NEW t \in Seq(S)
  PROVE  s \o t \in Seq(S) /\ ToSet(s \o t) = ToSet(s) \cup ToSet(t)
<1>1. /\ s \o t \in Seq(S) /\ Len(s \o t) = Len(s) + Len(t)
      /\ \A i \in 1..Len(s) : (s \o t)[i] = s[i]
      /\ \A i \in 1..Len(t) : (s \o t)[Len(s) + i] = t[i]
  OBVIOUS
<1>2. \A r \in Seq(S) : \A x : x \in ToSet(r) <=> \E i \in 1..Len(r) : x = r[i]
  BY DEF ToSet
<1>3. ASSUME NEW x \in ToSet(s \o t) PROVE x \in ToSet(s) \cup ToSet(t)
  <2>1. PICK i \in 1..Len(s \o t) : x = (s \o t)[i]
    <3>1. DOMAIN (s \o t) = 1..Len(s \o t) BY <1>1, LenProperties
    <3> QED BY <3>1, <1>3, Zenon DEF ToSet
  <2>2. CASE i \in 1..Len(s) BY <2>1, <2>2, <1>1, <1>2
  <2>3. CASE i \notin 1..Len(s)
    <3>1. PICK j \in 1..Len(t) : i = Len(s) + j
      <4>1. Len(s) \in Nat /\ Len(t) \in Nat BY LenProperties
      <4>2. i \in Nat /\ i > Len(s) /\ i <= Len(s) + Len(t) BY <1>1, <2>3, <4>1
      <4>3. i - Len(s) \in 1..Len(t) /\ i = Len(s) + (i - Len(s)) BY <4>1, <4>2
      <4> QED BY <4>3
    <3> QED BY <3>1, <2>1, <1>1, <1>2
  <2> QED BY <2>2, <2>3
<1>4. ASSUME NEW x \in ToSet(s) PROVE x \in ToSet(s \o t)
  <2>1. PICK i \in 1..Len(s) : x = s[i] BY <1>2
  <2>2. i \in 1..Len(s \o t) BY <1>1
  <2> QED BY <2>1, <2>2, <1>1, <1>2
<1>5. ASSUME NEW x \in ToSet(t) PROVE x \in ToSet(s \o t)
  <2>1. PICK i \in 1..Len(t) : x = t[i] BY <1>2
  <2>2. Len(s) + i \in 1..Len(s \o t) BY <1>1
  <2> QED BY <2>1, <2>2, <1>1, <1>2
<1> QED BY <1>1, <1>3, <1>4, <1>5

(* Whatever the order of their registration, these are the routes.         *)
LEMMA RoutesSet ==
  /\ Routes \in Seq(V1Routes \cup V2Routes)
  /\ ToSet(Routes) = V1Routes \cup V2Routes
<1> DEFINE All == V1Routes \cup V2Routes
<1>1. /\ UnlockerRoutes \in Seq(ToSet(UnlockerRoutes))
      /\ LaniRoutes \in Seq(ToSet(LaniRoutes))
      /\ DeprecatedRoutes \in Seq(ToSet(DeprecatedRoutes))
      /\ PluginRoutes \in Seq(ToSet(PluginRoutes))
      /\ HealthRoutes \in Seq(ToSet(HealthRoutes))
  BY DEF ToSet, UnlockerRoutes, LaniRoutes, DeprecatedRoutes,
     PluginRoutes, HealthRoutes
<1>2. /\ UnlockerRoutes \in Seq(All) /\ LaniRoutes \in Seq(All)
      /\ DeprecatedRoutes \in Seq(All) /\ PluginRoutes \in Seq(All)
      /\ HealthRoutes \in Seq(All)
  BY <1>1, SeqMonotonic, Zenon DEF V1Routes, V2Routes
<1> HIDE DEF All
<1> DEFINE A == UnlockerRoutes \o LaniRoutes
           B == A \o DeprecatedRoutes
           C == B \o UnlockerRoutes
           D == C \o PluginRoutes
<1>3. A \in Seq(All) /\ ToSet(A) = ToSet(UnlockerRoutes) \cup ToSet(LaniRoutes)
  BY <1>2, ConcatSet
<1> HIDE DEF A
<1>4. B \in Seq(All) /\ ToSet(B) = ToSet(A) \cup ToSet(DeprecatedRoutes)
  BY <1>2, <1>3, ConcatSet
<1> HIDE DEF B
<1>5. C \in Seq(All) /\ ToSet(C) = ToSet(B) \cup ToSet(UnlockerRoutes)
  BY <1>2, <1>4, ConcatSet
<1> HIDE DEF C
<1>6. D \in Seq(All) /\ ToSet(D) = ToSet(C) \cup ToSet(PluginRoutes)
  BY <1>2, <1>5, ConcatSet
<1> HIDE DEF D
<1>7. D \o HealthRoutes \in Seq(All)
      /\ ToSet(D \o HealthRoutes) = ToSet(D) \cup ToSet(HealthRoutes)
  BY <1>2, <1>6, ConcatSet
<1>8. Routes = D \o HealthRoutes BY DEF Routes, A, B, C, D
<1> QED BY <1>3, <1>4, <1>5, <1>6, <1>7, <1>8 DEF All, V1Routes, V2Routes

(* The mux finds for the path of a method that method and no other.  *)
LEMMA GatewayFinds ==
  ASSUME NEW m \in OnRest, NEW name
  PROVE  RoutedTo(VerbOf(m), PathOf(m, name)) = m
<1> DEFINE All == V1Routes \cup V2Routes
           r == CHOOSE q \in ToSet(Routes) : q[3] = m
           path == PathOf(m, name)
           S == {i \in 1..Len(Routes) : Matches(Routes[i], VerbOf(m), path)}
<1>1. r \in All /\ r[3] = m
  BY RoutesSet, Zenon DEF OnRest
<1>2. VerbOf(m) = r[1]
  BY DEF VerbOf
<1>3. path = [i \in DOMAIN r[2] |-> IF r[2][i] = "*" THEN name ELSE r[2][i]]
  BY Zenon DEF PathOf
<1> HIDE DEF r, path
<1>4. /\ Len(path) = Len(r[2]) /\ DOMAIN path = 1..Len(r[2]) /\ Len(r[2]) \in 2..5
      /\ \A i \in 1..Len(r[2]) : path[i] = IF r[2][i] = "*" THEN name ELSE r[2][i]
  BY <1>1, <1>3, PathFacts
<1>5. Matches(r, VerbOf(m), path)
  BY <1>1, <1>2, <1>4 DEF Matches
<1>6. PICK n \in 1..Len(Routes) : r = Routes[n]
  BY <1>1, RoutesSet DEF ToSet
<1>7. Len(Routes) \in Nat /\ n \in S
  BY <1>5, <1>6, RoutesSet
<1>8. ASSUME NEW i \in S PROVE Routes[i][3] = m
  <2>1. Routes[i] \in All /\ Matches(Routes[i], VerbOf(m), path)
    BY RoutesSet
  <2>2. SUFFICES ASSUME Routes[i][3] # m PROVE FALSE
    OBVIOUS
  <2>3. Apart(r, Routes[i])
    BY <1>1, <2>1, <2>2, RoutesApart
  <2>4. Routes[i][1] = r[1] /\ Len(Routes[i][2]) = Len(r[2])
    BY <2>1, <1>2, <1>4 DEF Matches
  <2>5. \A k \in 1..Len(r[2]) : ~TellsApart(r, Routes[i], k)
    BY <2>1, <1>4 DEF Matches, TellsApart
  <2> QED BY <2>3, <2>4, <2>5 DEF Apart, TellsApart
<1>9. Max(S) \in S
  BY <1>7, SetMax
<1>10. SelectLastInSeq(Routes, LAMBDA q : Matches(q, VerbOf(m), path))
         = Max(S)
  BY <1>7 DEF SelectLastInSeq
<1> QED BY <1>8, <1>9, <1>10 DEF RoutedTo, path

(* Every method that the gateway serves is reached by its verb and path,   *)
(* whatever the plugin is called: no route is shadowed by a later one.     *)
THEOREM GatewayCorrect ==
  ASSUME NEW m \in OnRest, NEW name \in Names \cup {NoName}
  PROVE  Gateway[m][name] = m
<1>1. RoutedTo(VerbOf(m), PathOf(m, name)) = m
  BY GatewayFinds
<1>2. Gateway[m][name] = RoutedTo(VerbOf(m), PathOf(m, name))
  BY DEF Gateway
<1> QED BY <1>1, <1>2

-----------------------------------------------------------------------------
(* What a macaroon and a call look like.                                   *)
MacaroonType ==
  [ops : SUBSET Ops, deadline : SUBSET Int, plugins : SUBSET (Names \cup {"all"}),
   baked : 0..MaxTime, asked : [n : Int, unit : Units]]

CallPlaces == {"idle", "sent", "admitted", "stream", "handling", "handled", "refused"}

CallType ==
  [at : CallPlaces, wanted : Methods, method : Methods, name : Names \cup {NoName},
   mac : Nat, limit : SUBSET Int, active : BOOLEAN, checked : 0..MaxTime]

(* A macaroon allows something, and its caveat is what was asked for.      *)
MeansWhatWasAsked(mac) ==
  /\ mac.ops # {}
  /\ ~Overflows(mac) =>
       mac.deadline = IF Limited(mac) THEN {(mac.baked + Lifetime(mac)) * Second} ELSE {}

RpcTypeInv ==
  /\ registered \subseteq Names /\ stage \in 1..Len(StartupStages) /\ now \in 0..MaxTime
  /\ macaroons \in Seq(MacaroonType) /\ Len(macaroons) <= 2 + MaxBakes
  /\ \A i \in 1..Len(macaroons) : MeansWhatWasAsked(macaroons[i])
  /\ call \in [Calls -> CallType]
  /\ \A c \in Calls : call[c].mac <= Len(macaroons)

(* There are no macaroons before core.Main bakes the first two.            *)
BakedInv == stage < 4 => macaroons = << >>

(* A request reaches the method that was wanted, and core.Main does not go *)
(* back.                                                                   *)
SentInv(c) ==
  /\ call[c].at # "idle" => call[c].method = call[c].wanted
  /\ call[c].active => stage = Len(StartupStages)

Granted(c) ==
  \/ call[c].wanted \in Whitelist
  \/ /\ call[c].mac # NoMacaroon
     /\ Overflows(macaroons[call[c].mac]) \/ MeantFor(c, macaroons[call[c].mac])

GrantInv(c) ==
  /\ call[c].at = "handling" => call[c].wanted = "BakeMacaroon"
  /\ call[c].at \in {"handling", "handled"} => Granted(c)
  /\ RefusedUnlessMeant(c)

RpcInv == RpcTypeInv /\ BakedInv /\ \A c \in Calls : SentInv(c) /\ GrantInv(c)
-----------------------------------------------------------------------------
(* Arithmetic of lifetimes.                                                *)
LEMMA ModSmall ==
  ASSUME NEW m \in Nat \ {0}, NEW y \in 0..m - 1
  PROVE  y % m = y
OBVIOUS

(* Small numbers stay what they are, and all of them stay numbers.         *)
LEMMA WrapSmall ==
  ASSUME NEW x \in Nat, x < Top
  PROVE  Wrap(x) = x
<1> DEFINE y == x + Top  m == 2 * Top
<1>1. m \in Nat \ {0} /\ y \in 0..m - 1
  BY NumbersAssumption
<1> HIDE DEF y, m
<1>2. y % m = y
  BY <1>1, ModSmall
<1>3. y - Top = x
  BY NumbersAssumption DEF y
<1> QED BY <1>2, <1>3 DEF y, m, Wrap

LEMMA WrapType ==
  ASSUME NEW x \in Int
  PROVE  Wrap(x) \in Int
<1> DEFINE y == x + Top  m == 2 * Top
<1>1. m \in Nat \ {0} /\ y \in Int /\ Top \in Int
  BY NumbersAssumption
<1> HIDE DEF y, m
<1>2. y % m \in Int
  BY <1>1
<1> QED BY <1>1, <1>2 DEF y, m, Wrap

(* The product of a lifetime that fits is exact, in seconds and in units   *)
(* of time.Duration.                                                       *)
LEMMA Products ==
  ASSUME NEW a \in Int, NEW b \in Int, NEW s \in Nat \ {0}
  PROVE  /\ a * s \in Int
         /\ a > 0 => a * s > 0 /\ a <= a * s
         /\ (a + b) * s = a * s + b * s
         /\ a * s >= b * s <=> a >= b
OBVIOUS

(* A macaroon that is baked has the deadline that was asked for, unless the*)
(* conversion to units of time.Duration overflows.                         *)
LEMMA BakeMeans ==
  ASSUME RpcTypeInv,
         NEW ops \in SUBSET Ops, ops # {}, NEW n \in Int, NEW unit \in Units,
         NEW plugins \in SUBSET (Names \cup {"all"}),
         NEW seconds \in Int,
         n <= 0 => seconds = 0,
         n > 0 /\ n * UnitSeconds[unit] * Second < Top => seconds = n * UnitSeconds[unit]
  PROVE  LET mac == Bake(ops, seconds, plugins, [n |-> n, unit |-> unit])
         IN  mac \in MacaroonType /\ MeansWhatWasAsked(mac)
<1> DEFINE mac == Bake(ops, seconds, plugins, [n |-> n, unit |-> unit])
<1> SUFFICES mac \in MacaroonType /\ MeansWhatWasAsked(mac)
  OBVIOUS
<1>1. /\ UnitSeconds[unit] \in Nat \ {0} /\ Second \in Nat \ {0} /\ Top \in Nat \ {0}
      /\ MaxTime \in Nat
  BY NumbersAssumption
<1>2. now \in 0..MaxTime
  BY DEF RpcTypeInv
<1>3. seconds * Second \in Int /\ now * Second \in Int
  BY <1>1, <1>2, Products
<1>4. TimeoutCaveat(seconds) \in Int
  BY <1>3, WrapType DEF TimeoutCaveat
<1>5. /\ mac.ops = ops /\ mac.plugins = plugins /\ mac.baked = now
      /\ mac.asked = [n |-> n, unit |-> unit] /\ mac.asked.n = n /\ mac.asked.unit = unit
      /\ mac.deadline = IF seconds = 0 THEN {} ELSE {TimeoutCaveat(seconds)}
  BY DEF Bake
<1>6. mac \in MacaroonType
  <2>1. [n |-> n, unit |-> unit] \in [n : Int, unit : Units]
    OBVIOUS
  <2>2. (IF seconds = 0 THEN {} ELSE {TimeoutCaveat(seconds)}) \in SUBSET Int
    BY <1>4
  <2> QED BY <1>2, <2>1, <2>2 DEF Bake, MacaroonType
<1>7. Lifetime(mac) = n * UnitSeconds[unit] /\ (Limited(mac) <=> n > 0)
  BY <1>5 DEF Lifetime, Limited
<1> HIDE DEF mac
<1>8. CASE n <= 0
  BY <1>5, <1>6, <1>7, <1>8 DEF MeansWhatWasAsked
<1>9. CASE n > 0 /\ ~Overflows(mac)
  <2> DEFINE life == n * UnitSeconds[unit]
  <2>1. life \in Nat \ {0} /\ life * Second \in Nat /\ life * Second < Top
    BY <1>1, <1>7, <1>9, Products DEF Overflows
  <2>2. seconds = life
    BY <2>1, <1>9
  <2> HIDE DEF life
  <2>3. Wrap(life * Second) = life * Second
    BY <2>1, WrapSmall
  <2>4. TimeoutCaveat(seconds) = (now + life) * Second
    <3>1. now \in Int /\ life \in Int
      BY <1>1, <1>2, <2>1
    <3> QED BY <1>1, <2>2, <2>3, <3>1, Products DEF TimeoutCaveat
  <2> QED BY <1>5, <1>6, <1>7, <1>9, <2>1, <2>2, <2>4 DEF MeansWhatWasAsked, life
<1>10. CASE Overflows(mac)
  BY <1>5, <1>6, <1>10 DEF MeansWhatWasAsked
<1> QED BY <1>7, <1>8, <1>9, <1>10 DEF Overflows

-----------------------------------------------------------------------------
(* Which stage is which, and what has been reached when.                   *)
LEMMA StartupFacts ==
  /\ Len(StartupStages) = 7
  /\ \A i \in 1..7 : StartupStages[i] = "locked" <=> i = 2
  /\ \A i \in 1..7 : StartupStages[i] = "unlocked" <=> i = 3
  /\ \A i \in 1..7 : StartupStages[i] = "baked" <=> i = 4
  /\ \A i \in 1..7 : StartupStages[i] = "interceptor" <=> i = 5
  /\ \A i \in 1..7 : StartupStages[i] = "rpcServer" <=> i = 6
  /\ \A i \in 1..7 : StartupStages[i] = "pluginManager" <=> i = 7
BY DEF StartupStages

LEMMA ReachedFacts ==
  ASSUME RpcTypeInv
  PROVE  /\ Reached("locked") <=> stage >= 2
         /\ Reached("unlocked") <=> stage >= 3
         /\ Reached("interceptor") <=> stage >= 5
         /\ Reached("rpcServer") <=> stage >= 6
         /\ Reached("pluginManager") <=> stage = Len(StartupStages)
<1>1. stage \in 1..7
  BY StartupFacts DEF RpcTypeInv
<1> QED BY <1>1, StartupFacts DEF Reached

(* Who does not move keeps what holds of it while macaroons are added and  *)
(* core.Main goes on.                                                      *)
LEMMA CallKept ==
  ASSUME RpcTypeInv, NEW d \in Calls, SentInv(d), GrantInv(d),
         call'[d] = call[d], registered' = registered,
         \A i \in 1..Len(macaroons) : macaroons'[i] = macaroons[i],
         stage' = stage \/ (stage # Len(StartupStages))
  PROVE  SentInv(d)' /\ GrantInv(d)'
<1>1. SentInv(d)'
  BY DEF SentInv
<1>2. call[d].mac \in Nat /\ call[d].mac <= Len(macaroons)
  BY DEF RpcTypeInv, CallType
<1>3. call[d].mac # NoMacaroon => macaroons'[call[d].mac] = macaroons[call[d].mac]
  BY <1>2 DEF NoMacaroon
<1>4. ASSUME NEW mac PROVE MeantFor(d, mac)' <=> MeantFor(d, mac)
  BY DEF MeantFor
<1> QED BY <1>1, <1>3, <1>4 DEF GrantInv, Granted, RefusedUnlessMeant

-----------------------------------------------------------------------------
(* Initially nothing has been baked and nobody calls.                      *)
LEMMA RpcInitInv ==
  ASSUME RpcInit
  PROVE  RpcInv
<1>1. NoCall \in CallType
  BY NumbersAssumption DEF NoCall, CallType, CallPlaces, Methods,
     Unlocker, NoMacaroon
<1>2. RpcTypeInv
  BY NumbersAssumption, <1>1, StartupFacts
     DEF RpcInit, RpcTypeInv, NoCall, NoMacaroon
<1>3. BakedInv
  BY DEF RpcInit, BakedInv
<1>4. ASSUME NEW c \in Calls PROVE SentInv(c) /\ GrantInv(c)
  BY DEF RpcInit, NoCall, SentInv, GrantInv, RefusedUnlessMeant
<1> QED BY <1>2, <1>3, <1>4 DEF RpcInv

(* core.Main goes on; its two macaroons are as wide as they are meant to be.*)
LEMMA MainStepInv ==
  ASSUME RpcInv, MainStep
  PROVE  RpcInv'
<1>1. stage \in 1..7 /\ stage' = stage + 1 /\ stage # Len(StartupStages) /\ stage' \in 1..7
  BY StartupFacts DEF RpcInv, RpcTypeInv, MainStep
<1>2. UNCHANGED <<registered, now, call>>
  BY DEF MainStep
<1>3. CASE StartupStages[stage + 1] # "baked"
  <2>1. UNCHANGED macaroons /\ stage' # 4
    BY <1>1, <1>3, StartupFacts DEF MainStep
  <2>2. RpcTypeInv' /\ BakedInv'
    BY <1>1, <1>2, <2>1, StartupFacts DEF RpcInv, RpcTypeInv, BakedInv
  <2>3. ASSUME NEW c \in Calls PROVE (SentInv(c) /\ GrantInv(c))'
    BY <1>1, <1>2, <2>1, CallKept DEF RpcInv
  <2> QED BY <2>2, <2>3 DEF RpcInv
<1>4. CASE StartupStages[stage + 1] = "baked"
  <2> DEFINE admin == Bake(Read \cup Write, 0, {"all"}, Unlimited)
             test == Bake(Read, 2 * UnitSeconds["MINUTE"], registered,
                          [n |-> 2, unit |-> "MINUTE"])
  <2>1. macaroons' = <<admin, test>> /\ macaroons = << >> /\ stage' = 4
    BY <1>1, <1>4, StartupFacts DEF MainStep, RpcInv, BakedInv
  <2>2. Read \in SUBSET Ops /\ Write \in SUBSET Ops /\ Read # {}
    BY DEF Read, Write, Ops
  <2>3. RpcTypeInv /\ registered \in SUBSET (Names \cup {"all"})
    BY DEF RpcInv, RpcTypeInv
  <2>4. admin \in MacaroonType /\ MeansWhatWasAsked(admin)
    <3>1. "SECOND" \in Units BY DEF Units
    <3>2. Read \cup Write \in SUBSET Ops /\ Read \cup Write # {}
      BY <2>2
    <3>3. {"all"} \in SUBSET (Names \cup {"all"}) OBVIOUS
    <3>4. ~(0 > 0) /\ 0 <= 0 /\ 0 \in Int OBVIOUS
    <3> QED BY <2>3, <3>1, <3>2, <3>3, <3>4, BakeMeans DEF Unlimited
  <2>5. test \in MacaroonType /\ MeansWhatWasAsked(test)
    <3>1. "MINUTE" \in Units BY DEF Units
    <3>2. 2 * UnitSeconds["MINUTE"] \in Int BY NumbersAssumption, <3>1
    <3>3. ~(2 <= 0) /\ 2 \in Int OBVIOUS
    <3> QED BY <2>2, <2>3, <3>1, <3>2, <3>3, BakeMeans
  <2> HIDE DEF admin, test
  <2>6. /\ <<admin, test>> \in Seq(MacaroonType) /\ Len(<<admin, test>>) = 2
        /\ <<admin, test>>[1] = admin /\ <<admin, test>>[2] = test
    BY <2>4, <2>5
  <2>7. RpcTypeInv'
    <3>1. \A i \in 1..Len(macaroons') : MeansWhatWasAsked(macaroons'[i])
      BY <2>1, <2>4, <2>5, <2>6
    <3>2. \A c \in Calls : call[c].mac <= 2
      BY <2>1 DEF RpcInv, RpcTypeInv, CallType
    <3> QED BY NumbersAssumption, <1>1, <1>2, <2>1, <2>6, <3>1, <3>2, StartupFacts
            DEF RpcInv, RpcTypeInv
  <2>8. BakedInv'
    BY <2>1 DEF BakedInv
  <2>9. ASSUME NEW c \in Calls PROVE (SentInv(c) /\ GrantInv(c))'
    BY <1>1, <1>2, <2>1, CallKept DEF RpcInv
  <2> QED BY <2>7, <2>8, <2>9 DEF RpcInv
<1> QED BY <1>3, <1>4

(* A request is not judged again when time passes.                         *)
LEMMA TickInv ==
  ASSUME RpcInv, Tick
  PROVE  RpcInv'
<1>1. RpcTypeInv' /\ BakedInv'
  <2>1. \A mac : MeansWhatWasAsked(mac)' <=> MeansWhatWasAsked(mac)
    BY DEF MeansWhatWasAsked, Overflows, Limited, Lifetime
  <2> QED BY NumbersAssumption, <2>1 DEF RpcInv, RpcTypeInv, BakedInv, Tick
<1>2. ASSUME NEW c \in Calls PROVE (SentInv(c) /\ GrantInv(c))'
  BY CallKept DEF Tick, RpcInv
<1> QED BY <1>1, <1>2 DEF RpcInv

(* A step of one call that leaves the rest alone.                          *)
LEMMA OneCall ==
  ASSUME RpcInv, NEW c \in Calls, NEW r \in CallType, r.mac <= Len(macaroons),
         call' = [call EXCEPT ![c] = r], UNCHANGED <<registered, stage, now, macaroons>>
  PROVE  /\ RpcTypeInv' /\ BakedInv' /\ call'[c] = r
         /\ (SentInv(c) /\ GrantInv(c))' => RpcInv'
<1>1. \A d \in Calls : call'[d] = IF d = c THEN r ELSE call[d]
  BY DEF RpcInv, RpcTypeInv
<1>2. \A mac : MeansWhatWasAsked(mac)' <=> MeansWhatWasAsked(mac)
  BY DEF MeansWhatWasAsked, Overflows, Limited, Lifetime
<1>3. RpcTypeInv' /\ BakedInv'
  BY <1>1, <1>2 DEF RpcInv, RpcTypeInv, BakedInv
<1>4. ASSUME NEW d \in Calls, d # c PROVE (SentInv(d) /\ GrantInv(d))'
  BY <1>1, <1>4, CallKept DEF RpcInv
<1> QED BY <1>1, <1>3, <1>4 DEF RpcInv

(* A request is sent with the method that is wanted, on either way in.     *)
LEMMA SendInv ==
  ASSUME RpcInv, NEW c \in Calls, NEW m \in Methods,
         NEW name \in Names \cup {NoName}, NEW mac \in 0..Len(macaroons),
         NEW limit \in Constraints(mac), Send(c, m, m, name, mac, limit)
  PROVE  RpcInv'
<1> DEFINE r == [at |-> "sent", wanted |-> m, method |-> m, name |-> name, mac |-> mac,
                 limit |-> limit, active |-> Reached("pluginManager"), checked |-> 0]
<1>1. limit \in SUBSET Int
  <2>1. "MINUTE" \in Units /\ now \in Int BY DEF Units, RpcInv, RpcTypeInv
  <2>2. UnitSeconds["MINUTE"] * Second \in Int /\ now * Second \in Int
    BY NumbersAssumption, <2>1
  <2>3. TimeoutCaveat(UnitSeconds["MINUTE"]) \in Int
    <3>1. Wrap(UnitSeconds["MINUTE"] * Second) \in Int
      BY <2>2, WrapType
    <3> QED BY <2>2, <3>1 DEF TimeoutCaveat
  <2>4. {} \in SUBSET Int /\ {TimeoutCaveat(UnitSeconds["MINUTE"])} \in SUBSET Int
    BY <2>3
  <2> QED BY <2>4 DEF Constraints
<1>2. r \in CallType /\ r.mac <= Len(macaroons)
  <2>1. mac \in Nat /\ mac <= Len(macaroons) BY DEF RpcInv, RpcTypeInv
  <2>2. 0 \in 0..MaxTime BY NumbersAssumption
  <2>3. Reached("pluginManager") \in BOOLEAN BY DEF Reached
  <2> QED BY <1>1, <2>1, <2>2, <2>3 DEF CallType, CallPlaces
<1>3. r.active => stage = Len(StartupStages)
  BY ReachedFacts DEF RpcInv
<1>4. r.at = "sent" /\ r.method = r.wanted
  OBVIOUS
<1> HIDE DEF r
<1>5. call' = [call EXCEPT ![c] = r] /\ UNCHANGED <<registered, stage, now, macaroons>>
  BY DEF Send, r
<1>6. call'[c] = r /\ ((SentInv(c) /\ GrantInv(c))' => RpcInv')
  BY <1>2, <1>5, OneCall
<1>7. (SentInv(c) /\ GrantInv(c))'
  BY <1>3, <1>4, <1>5, <1>6 DEF SentInv, GrantInv, RefusedUnlessMeant
<1> QED BY <1>6, <1>7

LEMMA ClientInv ==
  ASSUME RpcInv, NEW c \in Calls, ClientStep(c)
  PROVE  RpcInv'
<1>1. PICK m \in Methods, name \in Names \cup {NoName}, mac \in 0..Len(macaroons) :
        \E limit \in Constraints(mac) :
          SendGrpc(c, m, name, mac, limit) \/ SendRest(c, m, name, mac, limit)
  BY DEF ClientStep
<1>2. PICK limit \in Constraints(mac) :
        SendGrpc(c, m, name, mac, limit) \/ SendRest(c, m, name, mac, limit)
  BY <1>1
<1>3. Send(c, m, m, name, mac, limit)
  BY <1>2, GatewayCorrect DEF SendGrpc, SendRest
<1> QED BY <1>3, SendInv
-----------------------------------------------------------------------------
(* The caveat for the time says what was asked for.                        *)
LEMMA InTime ==
  ASSUME now \in 0..MaxTime, NEW mac \in MacaroonType,
         MeansWhatWasAsked(mac), ~Overflows(mac)
  PROVE  (\E d \in mac.deadline : now * Second >= d)
           <=> Limited(mac) /\ now >= mac.baked + Lifetime(mac)
<1>1. mac.baked \in Int /\ mac.asked.n \in Int /\ mac.asked.unit \in Units /\ now \in Int
  BY NumbersAssumption DEF MacaroonType
<1>2. UnitSeconds[mac.asked.unit] \in Nat \ {0} /\ Second \in Nat \ {0}
  BY NumbersAssumption, <1>1
<1>3. Lifetime(mac) \in Int
  BY <1>1, <1>2, Products DEF Lifetime
<1>4. mac.baked + Lifetime(mac) \in Int
  BY <1>1, <1>3
<1>5. now * Second >= (mac.baked + Lifetime(mac)) * Second
        <=> now >= mac.baked + Lifetime(mac)
  BY <1>1, <1>2, <1>4, Products
<1> QED BY <1>5 DEF MeansWhatWasAsked

(* What the checks of a macaroon decide is what they are to decide.        *)
LEMMA JudgedRight ==
  ASSUME RpcInv, NEW c \in Calls, NEW inContext \in BOOLEAN, NEW r,
         call[c].at # "idle", r.checked = now, r.wanted = call[c].wanted,
         r.name = call[c].name, r.mac = call[c].mac, r.limit = call[c].limit,
         call'[c] = r, UNCHANGED <<registered, stage, now, macaroons>>
  PROVE  /\ Valid(c, inContext) => Granted(c)'
         /\ ~Valid(c, inContext) /\ (call[c].wanted \in KnownPluginMethods => inContext)
              => RefusedUnlessMeant(c)'
<1>1. call[c].method = call[c].wanted
  BY DEF RpcInv, SentInv
<1>2. CASE call[c].mac = NoMacaroon
  BY <1>2 DEF Valid, RefusedUnlessMeant
<1>3. CASE call[c].mac # NoMacaroon
  <2> DEFINE mac == macaroons[call[c].mac]
  <2>1. mac \in MacaroonType /\ MeansWhatWasAsked(mac) /\ now \in 0..MaxTime
    <3>1. call[c].mac \in 1..Len(macaroons)
      BY <1>3 DEF RpcInv, RpcTypeInv, CallType, NoMacaroon
    <3>2. macaroons \in Seq(MacaroonType)
      BY DEF RpcInv, RpcTypeInv
    <3>3. mac \in MacaroonType
      BY <3>1, <3>2
    <3> QED BY <3>1, <3>3 DEF RpcInv, RpcTypeInv
  <2>2. CASE Overflows(mac)
    BY <1>3, <2>2 DEF Granted, RefusedUnlessMeant, Overflows, Limited, Lifetime
  <2>3. CASE ~Overflows(mac)
    <3>1. (\E d \in mac.deadline : now * Second >= d)
            <=> Limited(mac) /\ now >= mac.baked + Lifetime(mac)
      BY <2>1, <2>3, InTime
    <3>2. mac.baked + Lifetime(mac) \in Int /\ now \in Int
      <4>1. mac.baked \in Int /\ mac.asked.n \in Int /\ mac.asked.unit \in Units
        BY NumbersAssumption, <2>1 DEF MacaroonType
      <4>2. UnitSeconds[mac.asked.unit] \in Int
        BY NumbersAssumption, <4>1
      <4>3. Lifetime(mac) \in Int
        BY <4>1, <4>2, Products DEF Lifetime
      <4> QED BY <2>1, <4>1, <4>3
    <3>3. MeantFor(c, mac)' <=>
            /\ {Permissions[call[c].wanted], <<"uri", call[c].wanted>>} \cap mac.ops # {}
            /\ Limited(mac) => now < mac.baked + Lifetime(mac)
            /\ call[c].wanted \in KnownPluginMethods /\ registered # {} =>
                 Covers(mac.plugins, call[c].name)
      BY DEF MeantFor
    <3>4. ~Expired(c) => (Limited(mac) => now < mac.baked + Lifetime(mac))
      BY <3>1, <3>2 DEF Expired
    <3>5. Expired(c) /\ call[c].limit = {} =>
            Limited(mac) /\ ~(now < mac.baked + Lifetime(mac))
      BY <3>1, <3>2 DEF Expired
    <3>6. Valid(c, inContext) => MeantFor(c, mac)'
      BY <1>1, <3>3, <3>4 DEF Valid, PluginAllowed
    <3>7. ASSUME ~Valid(c, inContext), call[c].wanted \in KnownPluginMethods => inContext,
                 call[c].wanted \in KnownPluginMethods => call[c].name # NoName,
                 call[c].limit = {}
          PROVE  ~MeantFor(c, mac)'
      BY <1>1, <1>3, <3>3, <3>5, <3>7 DEF Valid, PluginAllowed
    <3> QED BY <1>3, <3>6, <3>7 DEF Granted, RefusedUnlessMeant
  <2> QED BY <2>2, <2>3
<1> QED BY <1>2, <1>3

(* How a request moves on: it keeps all but its place and its time.        *)
LEMMA GoesToMeans ==
  ASSUME RpcInv, NEW c \in Calls, NEW place \in CallPlaces,
         GoesTo(c, place)
  PROVE  \E r \in CallType :
           /\ call' = [call EXCEPT ![c] = r]
           /\ r.at = place /\ r.checked = (IF place \in {"admitted", "stream"} THEN 0 ELSE now)
           /\ r.wanted = call[c].wanted /\ r.method = call[c].method /\ r.name = call[c].name
           /\ r.mac = call[c].mac /\ r.limit = call[c].limit /\ r.active = call[c].active
<1> DEFINE time == IF place \in {"admitted", "stream"} THEN 0 ELSE now
           r == [call[c] EXCEPT !.at = place, !.checked = time]
<1>1. call[c] \in CallType /\ time \in 0..MaxTime
  BY NumbersAssumption DEF RpcInv, RpcTypeInv
<1> HIDE DEF time
<1>2. r \in CallType
  BY <1>1 DEF CallType
<1>3. call' = [call EXCEPT ![c] = r]
  BY DEF GoesTo, time, RpcInv, RpcTypeInv
<1>4. /\ r.at = place /\ r.checked = time
      /\ r.wanted = call[c].wanted /\ r.method = call[c].method /\ r.name = call[c].name
      /\ r.mac = call[c].mac /\ r.limit = call[c].limit /\ r.active = call[c].active
  BY <1>1 DEF CallType
<1> QED BY <1>2, <1>3, <1>4 DEF time

(* Once core.Main has handed the macaroon service out, the state of the    *)
(* daemon refuses none of the methods that a handler waits for.            *)
LEMMA StateAllowsActive ==
  ASSUME RpcInv, NEW m \in PluginAPI \cup {"StopDaemon", "AdminTest"},
         stage = Len(StartupStages)
  PROVE  StateAllows(m)
<1>1. Reached("locked") /\ Reached("unlocked")
  BY ReachedFacts, StartupFacts DEF RpcInv
<1>2. m \notin Unlocker
  BY DEF PluginAPI, Streaming, Unlocker
<1> QED BY <1>1, <1>2 DEF StateAllows

(* The state interceptor refuses no request that was meant for a handler.  *)
LEMMA CheckStateInv ==
  ASSUME RpcInv, NEW c \in Calls, CheckRPCState(c)
  PROVE  RpcInv'
<1> DEFINE place == IF StateAllows(call[c].method) THEN "admitted" ELSE "refused"
<1>1. /\ GoesTo(c, place) /\ UNCHANGED <<registered, stage, now, macaroons>>
      /\ call[c].at = "sent"
  BY DEF CheckRPCState
<1>2. /\ place \in CallPlaces
      /\ place = "admitted" \/ (place = "refused" /\ ~StateAllows(call[c].method))
  BY DEF CallPlaces
<1> HIDE DEF place
<1>3. PICK r \in CallType :
        /\ call' = [call EXCEPT ![c] = r]
        /\ r.at = place /\ r.checked = (IF place \in {"admitted", "stream"} THEN 0 ELSE now)
        /\ r.wanted = call[c].wanted /\ r.method = call[c].method /\ r.name = call[c].name
        /\ r.mac = call[c].mac /\ r.limit = call[c].limit /\ r.active = call[c].active
  BY <1>1, <1>2, GoesToMeans
<1>4. SentInv(c) /\ call[c].mac <= Len(macaroons)
  BY DEF RpcInv, RpcTypeInv
<1>5. call'[c] = r /\ ((SentInv(c) /\ GrantInv(c))' => RpcInv')
  BY <1>1, <1>3, <1>4, OneCall
<1>6. SentInv(c)'
  BY <1>1, <1>3, <1>4, <1>5 DEF SentInv
<1>7. place = "refused" => RefusedUnlessMeant(c)'
  <2>1. ASSUME place = "refused", r.active,
               r.wanted \in PluginAPI \cup {"StopDaemon", "AdminTest"}
        PROVE  FALSE
    <3>1. stage = Len(StartupStages) /\ r.wanted = call[c].method
      BY <1>1, <1>3, <1>4, <2>1 DEF SentInv
    <3>2. StateAllows(call[c].method)
      BY <2>1, <3>1, StateAllowsActive
    <3> QED BY <1>2, <2>1, <3>2
  <2> QED BY <1>5, <2>1 DEF RefusedUnlessMeant
<1>8. GrantInv(c)'
  BY <1>2, <1>3, <1>5, <1>7 DEF GrantInv, RefusedUnlessMeant
<1> QED BY <1>5, <1>6, <1>8

(* The two that check the macaroon: where the request goes.                *)
LEMMA CheckedInv ==
  ASSUME RpcInv, NEW c \in Calls, NEW inContext \in BOOLEAN,
         NEW place \in CallPlaces, GoesTo(c, place),
         UNCHANGED <<registered, stage, now, macaroons>>, call[c].at # "idle",
         place \in {"stream", "handling", "handled", "refused"},
         place = "handling" => call[c].method = "BakeMacaroon",
         place \in {"handling", "handled"} =>
           call[c].method \in Whitelist \/ Valid(c, inContext),
         place = "refused" /\ call[c].active
           /\ call[c].method \in PluginAPI \cup {"StopDaemon", "AdminTest"} =>
             /\ ~Valid(c, inContext)
             /\ call[c].method \in KnownPluginMethods => inContext
  PROVE  RpcInv'
<1>1. PICK r \in CallType :
        /\ call' = [call EXCEPT ![c] = r]
        /\ r.at = place /\ r.checked = (IF place \in {"admitted", "stream"} THEN 0 ELSE now)
        /\ r.wanted = call[c].wanted /\ r.method = call[c].method /\ r.name = call[c].name
        /\ r.mac = call[c].mac /\ r.limit = call[c].limit /\ r.active = call[c].active
  BY GoesToMeans
<1>2. SentInv(c) /\ call[c].mac <= Len(macaroons) /\ call[c].method = call[c].wanted
  BY DEF RpcInv, RpcTypeInv, SentInv
<1>3. call'[c] = r /\ ((SentInv(c) /\ GrantInv(c))' => RpcInv')
  BY <1>1, <1>2, OneCall
<1>4. SentInv(c)'
  BY <1>1, <1>2, <1>3 DEF SentInv
<1>5. CASE place = "stream"
  BY <1>1, <1>3, <1>4, <1>5 DEF GrantInv, RefusedUnlessMeant
<1>6. CASE place \in {"handling", "handled", "refused"}
  <2>1. r.checked = now
    BY <1>1, <1>6
  <2>2. /\ Valid(c, inContext) => Granted(c)'
        /\ ~Valid(c, inContext) /\ (call[c].wanted \in KnownPluginMethods => inContext)
             => RefusedUnlessMeant(c)'
    BY <1>1, <1>3, <2>1, JudgedRight
  <2>3. place \in {"handling", "handled"} => Granted(c)'
    BY <1>1, <1>2, <1>3, <2>2 DEF Granted
  <2>4. RefusedUnlessMeant(c)'
    <3>1. CASE /\ place = "refused" /\ call[c].active
               /\ call[c].method \in PluginAPI \cup {"StopDaemon", "AdminTest"}
      BY <1>2, <2>2, <3>1
    <3>2. CASE ~(/\ place = "refused" /\ call[c].active
                 /\ call[c].method \in PluginAPI \cup {"StopDaemon", "AdminTest"})
      BY <1>1, <1>2, <1>3, <3>2 DEF RefusedUnlessMeant
    <3> QED BY <3>1, <3>2
  <2>5. GrantInv(c)'
    BY <1>1, <1>2, <1>3, <2>3, <2>4 DEF GrantInv
  <2> QED BY <1>3, <1>4, <2>5
<1> QED BY <1>3, <1>4, <1>5, <1>6

(* The macaroon interceptor, and the handler of a stream, decide as they are*)
(* to; so the invariant holds for all of the server's steps.               *)
LEMMA CheckMacaroonInv ==
  ASSUME RpcInv, NEW c \in Calls, CheckMacaroon(c)
  PROVE  RpcInv'
<1> DEFINE m == call[c].method
           inContext == m \in PluginMethodNames
           ok == \/ m \in Whitelist \cup Streaming
                 \/ Reached("interceptor") /\ Valid(c, inContext)
           place == IF ~ok THEN "refused"
                    ELSE CASE m \in Streaming    -> "stream"
                           [] m = "BakeMacaroon" -> "handling"
                           [] OTHER              -> "handled"
<1>1. /\ call[c].at = "admitted" /\ GoesTo(c, place)
      /\ UNCHANGED <<registered, stage, now, macaroons>>
  BY DEF CheckMacaroon
<1>2. place \in CallPlaces /\ inContext \in BOOLEAN
  BY DEF CallPlaces
<1>3. /\ place \in {"stream", "handling", "handled", "refused"}
      /\ place = "handling" => m = "BakeMacaroon"
      /\ place \in {"handling", "handled"} => m \in Whitelist \/ Valid(c, inContext)
      /\ place = "refused" => ~ok
  <2>1. CASE ~ok
    BY <2>1
  <2>2. CASE ok /\ m \in Streaming
    <3>1. m # "BakeMacaroon"
      BY <2>2 DEF Streaming
    <3> QED BY <2>2, <3>1
  <2>3. CASE ok /\ m \notin Streaming /\ m = "BakeMacaroon"
    BY <2>3
  <2>4. CASE ok /\ m \notin Streaming /\ m # "BakeMacaroon"
    BY <2>4
  <2> QED BY <2>1, <2>2, <2>3, <2>4
<1>4. ASSUME place = "refused", call[c].active,
             m \in PluginAPI \cup {"StopDaemon", "AdminTest"}
      PROVE  ~Valid(c, inContext) /\ (m \in KnownPluginMethods => inContext)
  <2>1. stage = Len(StartupStages) /\ Reached("interceptor")
    BY <1>4, ReachedFacts, StartupFacts DEF RpcInv, SentInv
  <2>2. ~ok
    BY <1>3, <1>4
  <2>3. m \notin Streaming /\ ~Valid(c, inContext)
    BY <2>1, <2>2
  <2>4. KnownPluginMethods \ Streaming \subseteq PluginMethodNames
    BY DEF KnownPluginMethods, Streaming, PluginMethodNames
  <2> QED BY <2>3, <2>4
<1> HIDE DEF place, ok, inContext, m
<1>5. call[c].at # "idle"
  BY <1>1
<1> QED BY <1>1, <1>2, <1>3, <1>4, <1>5, CheckedInv DEF m

LEMMA StreamChecksInv ==
  ASSUME RpcInv, NEW c \in Calls, StreamChecks(c)
  PROVE  RpcInv'
<1> DEFINE place == IF Reached("pluginManager") /\ Valid(c, TRUE)
                      THEN "handled" ELSE "refused"
<1>1. /\ call[c].at = "stream" /\ GoesTo(c, place)
      /\ UNCHANGED <<registered, stage, now, macaroons>>
  BY DEF StreamChecks
<1>2. place \in CallPlaces /\ place \in {"handled", "refused"}
  BY DEF CallPlaces
<1>3. place = "handled" => Valid(c, TRUE)
  OBVIOUS
<1>4. ASSUME place = "refused", call[c].active
      PROVE  ~Valid(c, TRUE)
  <2>1. Reached("pluginManager")
    BY <1>4, ReachedFacts DEF RpcInv, SentInv
  <2> QED BY <1>4, <2>1
<1> HIDE DEF place
<1>5. /\ call[c].at # "idle" /\ place \in {"stream", "handling", "handled", "refused"}
      /\ place # "handling" /\ TRUE \in BOOLEAN
  BY <1>1, <1>2
<1> QED BY <1>1, <1>2, <1>3, <1>4, <1>5, CheckedInv

(* The caller is idle again.                                               *)
LEMMA RespondInv ==
  ASSUME RpcInv, NEW c \in Calls, Respond(c)
  PROVE  RpcInv'
<1>1. NoCall \in CallType
  BY NumbersAssumption DEF NoCall, CallType, CallPlaces, Methods,
     Unlocker, NoMacaroon
<1>2. /\ NoCall.at = "idle" /\ NoCall.mac = 0 /\ NoCall.active = FALSE
  BY DEF NoCall, NoMacaroon
<1>3. NoCall.mac <= Len(macaroons)
  BY <1>2 DEF RpcInv, RpcTypeInv
<1>4. call'[c] = NoCall /\ ((SentInv(c) /\ GrantInv(c))' => RpcInv')
  BY <1>1, <1>3, OneCall DEF Respond
<1> QED BY <1>2, <1>4 DEF SentInv, GrantInv, RefusedUnlessMeant

(* Another macaroon is as wide as it was asked for.                        *)
LEMMA BakeStepInv ==
  ASSUME RpcInv, NEW c \in Calls, BakeStep(c)
  PROVE  RpcInv'
<1>1. PICK ops \in OpsAsked, life \in Lifetimes, plugins \in PluginsAsked :
        BakeMacaroon(c, ops, life[1], life[2], plugins)
  BY DEF BakeStep
<1>2. /\ call[c].at = "handling" /\ Len(macaroons) < 2 + MaxBakes
      /\ UNCHANGED <<registered, stage, now>>
  BY <1>1 DEF BakeStep, BakeMacaroon
<1>3. RpcTypeInv /\ SentInv(c) /\ GrantInv(c) /\ call[c] \in CallType
  BY DEF RpcInv, RpcTypeInv
<1>4. call[c].wanted = "BakeMacaroon" /\ Granted(c)
  BY <1>2, <1>3 DEF GrantInv
<1>5. "BakeMacaroon" \notin PluginAPI \cup {"StopDaemon", "AdminTest"}
  BY DEF PluginAPI, Streaming
<1>6. CASE Reached("rpcServer") /\ OpsValid(ops)
  <2> DEFINE n == life[1]  unit == life[2]  seconds == TimeoutSeconds(n, unit)
             mac == Bake(ops, seconds, plugins, [n |-> n, unit |-> unit])
             r == [call[c] EXCEPT !.at = "handled"]
  <2>1. macaroons' = Append(macaroons, mac) /\ call' = [call EXCEPT ![c].at = "handled"]
    BY <1>1, <1>6 DEF BakeMacaroon
  <2>2. ops \in SUBSET Ops /\ ops # {}
    BY <1>6 DEF OpsValid
  <2>3. plugins \in SUBSET (Names \cup {"all"})
    BY DEF PluginsAsked
  <2>4. n \in Int /\ unit \in Units /\ UnitSeconds[unit] \in Nat \ {0}
    BY NumbersAssumption
  <2>5. seconds \in Int /\ (n <= 0 => seconds = 0)
    <3>1. n * UnitSeconds[unit] \in Int
      BY <2>4
    <3>2. Wrap(n * UnitSeconds[unit]) \in Int
      BY <3>1, WrapType
    <3> QED BY <3>2 DEF TimeoutSeconds
  <2>6. n > 0 /\ n * UnitSeconds[unit] * Second < Top => seconds = n * UnitSeconds[unit]
    <3> SUFFICES ASSUME n > 0, n * UnitSeconds[unit] * Second < Top
                 PROVE  seconds = n * UnitSeconds[unit]
      OBVIOUS
    <3> DEFINE x == n * UnitSeconds[unit]
    <3>1. x \in Int /\ x > 0 /\ Second \in Nat \ {0} /\ Top \in Nat
      BY NumbersAssumption, <2>4, Products
    <3>2. x * Second < Top
      OBVIOUS
    <3> HIDE DEF x
    <3>3. x <= x * Second /\ x * Second \in Int
      BY <3>1, Products
    <3>4. x \in Nat /\ x < Top
      BY <3>1, <3>2, <3>3
    <3>5. Wrap(x) = x
      BY <3>4, WrapSmall
    <3> QED BY <2>4, <3>5 DEF TimeoutSeconds, x
  <2> HIDE DEF seconds
  <2>7. mac \in MacaroonType /\ MeansWhatWasAsked(mac)
    <3> HIDE DEF n, unit
    <3> QED BY <1>3, <2>2, <2>3, <2>4, <2>5, <2>6, BakeMeans
  <2> HIDE DEF mac, n, unit
  <2>8. /\ Len(macaroons') = Len(macaroons) + 1 /\ macaroons' \in Seq(MacaroonType)
        /\ \A i \in 1..Len(macaroons) : macaroons'[i] = macaroons[i]
        /\ macaroons'[Len(macaroons')] = mac
    BY <1>3, <2>1, <2>7 DEF RpcTypeInv
  <2>9. /\ r \in CallType /\ r.at = "handled" /\ r.wanted = call[c].wanted
        /\ r.method = call[c].method /\ r.name = call[c].name /\ r.mac = call[c].mac
        /\ r.active = call[c].active /\ r.checked = call[c].checked
    BY <1>3 DEF CallType, CallPlaces
  <2>10. call' = [call EXCEPT ![c] = r]
    BY <2>1, <1>3 DEF RpcTypeInv
  <2> HIDE DEF r
  <2>11. call'[c] = r /\ \A d \in Calls : d # c => call'[d] = call[d]
    BY <1>3, <2>10 DEF RpcTypeInv
  <2>12. RpcTypeInv'
    <3>1. \A i \in 1..Len(macaroons') : MeansWhatWasAsked(macaroons'[i])
      <4>1. \A i \in 1..Len(macaroons') : i \in 1..Len(macaroons) \/ i = Len(macaroons')
        BY <1>3, <2>8 DEF RpcTypeInv
      <4> QED BY <1>3, <2>7, <2>8, <4>1 DEF RpcTypeInv
    <3>2. Len(macaroons') <= 2 + MaxBakes
      BY NumbersAssumption, <1>2, <1>3, <2>8 DEF RpcTypeInv
    <3>3. call' \in [Calls -> CallType]
      BY <1>3, <2>9, <2>10 DEF RpcTypeInv
    <3>4. \A d \in Calls : call'[d].mac <= Len(macaroons')
      <4> SUFFICES ASSUME NEW d \in Calls PROVE call'[d].mac <= Len(macaroons')
        OBVIOUS
      <4>1. call'[d].mac = call[d].mac
        BY <2>9, <2>11
      <4>2. call[d].mac \in Nat /\ call[d].mac <= Len(macaroons) /\ Len(macaroons) \in Nat
        BY <1>3 DEF RpcTypeInv, CallType
      <4> QED BY <2>8, <4>1, <4>2
    <3> QED BY <1>2, <1>3, <2>8, <3>1, <3>2, <3>3, <3>4 DEF RpcTypeInv
  <2>13. BakedInv'
    BY <1>2, <1>3, <1>6, ReachedFacts DEF BakedInv, RpcTypeInv
  <2>14. ASSUME NEW d \in Calls, d # c PROVE (SentInv(d) /\ GrantInv(d))'
    BY <1>2, <1>3, <2>8, <2>11, <2>14, CallKept DEF RpcInv
  <2>15. SentInv(c)'
    BY <1>2, <1>3, <2>9, <2>11 DEF SentInv
  <2>16. Granted(c)'
    <3>1. call[c].mac # NoMacaroon => macaroons'[call[c].mac] = macaroons[call[c].mac]
      BY <1>3, <2>8 DEF RpcInv, RpcTypeInv, CallType, NoMacaroon
    <3>2. ASSUME NEW k PROVE MeantFor(c, k)' <=> MeantFor(c, k)
      BY <1>2, <2>9, <2>11 DEF MeantFor
    <3> QED BY <1>4, <2>9, <2>11, <3>1, <3>2 DEF Granted
  <2>17. GrantInv(c)'
    BY <2>9, <2>11, <2>16 DEF GrantInv, RefusedUnlessMeant
  <2> QED BY <2>12, <2>13, <2>14, <2>15, <2>17 DEF RpcInv
<1>7. CASE ~(Reached("rpcServer") /\ OpsValid(ops))
  <2> DEFINE r == [call[c] EXCEPT !.at = "refused"]
  <2>1. UNCHANGED macaroons /\ call' = [call EXCEPT ![c].at = "refused"]
    BY <1>1, <1>7 DEF BakeMacaroon
  <2>2. /\ r \in CallType /\ r.at = "refused" /\ r.wanted = call[c].wanted
        /\ r.method = call[c].method /\ r.mac = call[c].mac /\ r.active = call[c].active
    BY <1>3 DEF CallType, CallPlaces
  <2>3. call' = [call EXCEPT ![c] = r]
    BY <1>3, <2>1 DEF RpcTypeInv
  <2> HIDE DEF r
  <2>4. call[c].mac <= Len(macaroons)
    BY DEF RpcInv, RpcTypeInv
  <2>5. call'[c] = r /\ ((SentInv(c) /\ GrantInv(c))' => RpcInv')
    BY <1>2, <2>1, <2>2, <2>3, <2>4, OneCall
  <2>6. SentInv(c)'
    BY <1>2, <1>3, <2>2, <2>5 DEF SentInv
  <2>7. GrantInv(c)'
    BY <1>4, <1>5, <2>2, <2>5 DEF GrantInv, RefusedUnlessMeant
  <2> QED BY <2>5, <2>6, <2>7
<1> QED BY <1>6, <1>7

-----------------------------------------------------------------------------
(* Every step keeps the invariant, so it holds throughout.                 *)
LEMMA RpcNextInv ==
  ASSUME RpcInv, [RpcNext]_rpcVars
  PROVE  RpcInv'
<1>1. CASE MainStep
  BY <1>1, MainStepInv
<1>2. CASE Tick
  BY <1>2, TickInv
<1>3. ASSUME NEW c \in Calls, ClientStep(c) \/ ServerStep(c) \/ Respond(c)
      PROVE  RpcInv'
  BY <1>3, ClientInv, CheckStateInv, CheckMacaroonInv, StreamChecksInv, BakeStepInv,
     RespondInv DEF ServerStep
<1>4. CASE UNCHANGED rpcVars
  <2>1. RpcTypeInv' /\ BakedInv'
    BY <1>4 DEF RpcInv, RpcTypeInv, BakedInv, rpcVars
  <2>2. ASSUME NEW d \in Calls PROVE (SentInv(d) /\ GrantInv(d))'
    BY <1>4, CallKept DEF RpcInv, rpcVars
  <2> QED BY <2>1, <2>2 DEF RpcInv
<1> QED BY <1>1, <1>2, <1>3, <1>4 DEF RpcNext

LEMMA RpcInvHolds == RpcSpec => []RpcInv
<1>1. RpcInit => RpcInv
  BY RpcInitInv
<1>2. RpcInv /\ [RpcNext]_rpcVars => RpcInv'
  BY RpcNextInv
<1> QED BY <1>1, <1>2, PTL DEF RpcSpec

(* Type correctness of the way of a request, for any calls, names, units   *)
(* and lifetimes; in particular a request shows a macaroon there is.       *)
THEOREM RpcTypeCorrect == RpcSpec => []RpcTypeOK
<1>1. RpcInv => RpcTypeOK
  <2> SUFFICES ASSUME RpcInv PROVE RpcTypeOK
    OBVIOUS
  <2>1. ASSUME NEW i \in DOMAIN macaroons
        PROVE  /\ macaroons[i].ops \subseteq Ops /\ macaroons[i].ops # {}
               /\ macaroons[i].plugins \subseteq Names \cup {"all"}
               /\ macaroons[i].baked \in 0..MaxTime
    <3>1. i \in 1..Len(macaroons) /\ macaroons[i] \in MacaroonType
      BY DEF RpcInv, RpcTypeInv
    <3>2. MeansWhatWasAsked(macaroons[i])
      BY <3>1 DEF RpcInv, RpcTypeInv
    <3> QED BY <3>1, <3>2 DEF MacaroonType, MeansWhatWasAsked
  <2>2. ASSUME NEW c \in Calls
        PROVE  /\ call[c].method \in Methods /\ call[c].mac \in 0..Len(macaroons)
               /\ call[c].checked \in 0..MaxTime
    BY DEF RpcInv, RpcTypeInv, CallType
  <2> QED BY <2>1, <2>2 DEF RpcInv, RpcTypeInv, RpcTypeOK
<1>2. RpcSpec => []RpcInv
  BY RpcInvHolds
<1> QED BY <1>1, <1>2, PTL

(* A handler runs only for a request that its macaroon was baked for, and  *)
(* none that was meant for the method is refused once core.Main is through;*)
(* for any calls, plugin names, lifetimes and width of integers.           *)
THEOREM GrantsCorrect == RpcSpec => []GrantsHold
<1>1. RpcInv => GrantsHold
  <2> SUFFICES ASSUME RpcInv, NEW c \in Calls
               PROVE  HandledAsMeant(c) /\ RefusedUnlessMeant(c)
    BY DEF GrantsHold
  <2> QED BY DEF RpcInv, SentInv, GrantInv, Granted, HandledAsMeant
<1> QED BY <1>1, RpcInvHolds, PTL
=============================================================================
