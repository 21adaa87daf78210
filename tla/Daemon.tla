------------------------------- MODULE Daemon -------------------------------
(***************************************************************************)
(* The life of the daemon process: main (src/cmd/laniakea/main.go) reads   *)
(* the configuration and calls core.Main (src/core/laniakea.go), which     *)
(* acquires one resource after the other, waits for the password, serves   *)
(* until the shutdown channel closes and releases what it deferred, last   *)
(* acquired first.  The shutdown interceptor (src/intercept/intercept.go)  *)
(* turns signals and the RPC StopDaemon into that closed channel.  The     *)
(* certificate and key (src/cert/tls.go) are files: they outlive the       *)
(* process, and so do the processes of plugins that nobody stops.          *)
(*                                                                         *)
(* There are three ways out.  An error returned from Main runs the deferred*)
(* functions; logger.Fatal() and a panic of another goroutine end the      *)
(* process at once.  What follows the password is in module Unlocker: here *)
(* it is two steps, which succeed, fail or never return; and what          *)
(* pluginManager.Stop does is in modules PluginManager and QueueManager:   *)
(* here it stops the plugins, misses some, or never returns.               *)
(***************************************************************************)
EXTENDS Integers, Sequences

CONSTANTS
  Requesters,   \* Calls of StopDaemon.
  MaxPairs,     \* Bound of the model: certificates made.
  MaxStarts     \* Bound of the model: starts of the daemon.

ASSUME BoundsAssumption == MaxPairs \in Nat /\ MaxStarts \in Nat \ {0}

VARIABLES
  cert,         \* Which pair the certificate at a place belongs to.
  key,          \* Which pair the key at a place belongs to.
  expired,      \* Pairs that have expired.
  certAt,       \* cfg.TLSCertPath.
  keyAt,        \* cfg.TLSKeyPath.
  pc,           \* Where main is.
  renewing,     \* The certificate was found expired.
  held,         \* What the process has acquired and not released.
  deferred,     \* Deferred functions of Main, the first to run first.
  handler,      \* mainInterruptHandler.
  interrupts,   \* Signals in interruptChannel.
  quit,         \* The channel quit is closed.
  shutdown,     \* shutdownChannel is closed.
  requester,    \* The calls of StopDaemon.
  dbLocked,     \* Another process holds the lock of the database file.
  how,          \* How the process ended.
  pairs,        \* History: pairs made.
  starts,       \* History: starts.
  excused,      \* History: what may have spoilt the two files.
  escaped       \* History: how plugins of this process escaped their release.

fileVars == <<cert, key, expired, pairs>>
configVars == <<certAt, keyAt>>
mainVars == <<pc, renewing, held, deferred, how, escaped>>
interceptVars == <<handler, interrupts, quit, shutdown>>
vars == <<fileVars, configVars, mainVars, interceptVars, requester, dbLocked, starts,
          excused>>

Places == {"default", "custom"}
None == 0
Torn == -1

Stages == {"config", "logger", "server", "tls", "writeCert", "writeKey", "load",
           "removeCert", "removeKey", "listener", "grpc", "plugins", "database",
           "unlocker", "rpcServer", "rest", "password", "macaroons", "unlock",
           "active", "hung", "unwind", "stuck", "returned", "ended"}
Resources == {"server", "listener", "grpc", "plugins", "database", "rest", "macaroons"}

(* A new process: InitInterceptor has started its handler.                 *)
Fresh ==
  /\ certAt = "default" /\ keyAt = "default"
  /\ pc = "config" /\ renewing = FALSE
  /\ held = {} /\ deferred = << >>
  /\ handler = "listening" /\ interrupts = 0
  /\ quit = FALSE /\ shutdown = FALSE
  /\ requester = [r \in Requesters |-> "idle"]
  /\ how = "running" /\ escaped = {}

Init ==
  /\ Fresh
  /\ cert = [p \in Places |-> None] /\ key = [p \in Places |-> None]
  /\ expired = {} /\ pairs = 0
  /\ dbLocked = FALSE
  /\ starts = 1 /\ excused = {}

Alive == pc # "ended"

(* The process is gone: of all it held, plugin processes are left.         *)
Exit(cause) ==
  /\ pc' = "ended"
  /\ how' = cause
  /\ held' = held \cap {"plugins"}
  /\ deferred' = << >>

(* Main returns: its deferred functions are to run.                        *)
Return == pc' = "unwind" /\ UNCHANGED <<held, deferred, how>>

Proceed(to) == pc' = to /\ UNCHANGED <<held, deferred, how>>

Acquire(res, to) ==
  /\ pc' = to
  /\ held' = held \cup {res}
  /\ UNCHANGED how

Defer(res) == deferred' = <<res>> \o deferred

-----------------------------------------------------------------------------
(***************************************************************************)
(* main: InitConfig and InitLogger.                                        *)
(***************************************************************************)

Settings == {"absent", "blank", "custom"}

(* Faulty variant: each path has its own default.                          *)
FilledApart(c, k) ==
  [certAt |-> IF c = "custom" THEN "custom" ELSE "default",
   keyAt  |-> IF k = "custom" THEN "custom" ELSE "default"]

(* The file is decoded over the defaults, so an absent path keeps its own; *)
(* check_yaml_config gives both their default when one is blank.           *)
Filled(c, k) ==
  LET at(s) == IF s = "custom" /\ "blank" \notin {c, k} THEN "custom" ELSE "default"
  IN  [certAt |-> at(c), keyAt |-> at(k)]

(* A file that is missing, unreadable or malformed counts as empty.        *)
InitConfig(c, k) ==
  /\ pc = "config"
  /\ certAt' = Filled(c, k).certAt /\ keyAt' = Filled(c, k).keyAt
  /\ excused' = excused \cup
       (IF {c, k} = {"absent", "custom"} THEN {"unpaired"} ELSE {})
  /\ Proceed("logger")
  /\ UNCHANGED <<fileVars, renewing, escaped, interceptVars, requester, dbLocked,
                 starts>>

(* An invalid plugin or flag, or no log file: os.Exit(1).                  *)
ConfigRefused ==
  /\ pc \in {"config", "logger"}
  /\ Exit("fatal")
  /\ UNCHANGED <<fileVars, configVars, renewing, escaped, interceptVars, requester,
                 dbLocked, starts, excused>>

(* InitLogger opens its file, and core.Main is called; server.Start.       *)
StartServer ==
  /\ \/ pc = "logger" /\ Proceed("server")
     \/ pc = "server" /\ Acquire("server", "tls") /\ Defer("server")
  /\ UNCHANGED <<fileVars, configVars, renewing, escaped, interceptVars, requester,
                 dbLocked, starts, excused>>

-----------------------------------------------------------------------------
(***************************************************************************)
(* GetTLSConfig, LoadCertificate and GenCertPair.                          *)
(***************************************************************************)

(* Only when both are missing a new pair is made.                          *)
LookForPair ==
  /\ pc = "tls"
  /\ Proceed(IF cert[certAt] = None /\ key[keyAt] = None THEN "writeCert" ELSE "load")
  /\ UNCHANGED <<fileVars, configVars, renewing, escaped, interceptVars, requester,
                 dbLocked, starts, excused>>

WriteCert ==
  /\ pc = "writeCert"
  /\ pairs < MaxPairs
  /\ pairs' = pairs + 1
  /\ cert' = [cert EXCEPT ![certAt] = pairs + 1]
  /\ Proceed("writeKey")
  /\ UNCHANGED <<key, expired, configVars, renewing, escaped, interceptVars,
                 requester, dbLocked, starts, excused>>

WriteKey ==
  /\ pc = "writeKey"
  /\ key' = [key EXCEPT ![keyAt] = pairs]
  /\ Proceed("load")
  /\ UNCHANGED <<cert, expired, pairs, configVars, renewing, escaped, interceptVars,
                 requester, dbLocked, starts, excused>>

Loads == cert[certAt] \in 1..MaxPairs /\ cert[certAt] = key[keyAt]

(* An expired pair is renewed, but a renewed one is not looked at again.   *)
LoadCertificate ==
  /\ pc = "load"
  /\ Loads
  /\ IF cert[certAt] \in expired /\ ~renewing
       THEN renewing' = TRUE /\ Proceed("removeCert")
       ELSE UNCHANGED renewing /\ Proceed("listener")
  /\ UNCHANGED <<fileVars, configVars, escaped, interceptVars, requester, dbLocked,
                 starts, excused>>

LoadFails ==
  /\ pc = "load"
  /\ ~Loads
  /\ Return
  /\ UNCHANGED <<fileVars, configVars, renewing, escaped, interceptVars, requester,
                 dbLocked, starts, excused>>

RemoveCert ==
  /\ pc = "removeCert"
  /\ cert' = [cert EXCEPT ![certAt] = None] /\ UNCHANGED key
  /\ Proceed("removeKey")
  /\ UNCHANGED <<expired, pairs, configVars, renewing, escaped, interceptVars,
                 requester, dbLocked, starts, excused>>

RemoveKey ==
  /\ pc = "removeKey"
  /\ key' = [key EXCEPT ![keyAt] = None] /\ UNCHANGED cert
  /\ Proceed("writeCert")
  /\ UNCHANGED <<expired, pairs, configVars, renewing, escaped, interceptVars,
                 requester, dbLocked, starts, excused>>

(* What a file is when its write fails, or the process dies in it: a file  *)
(* is created or truncated before it is written.                           *)
CutShort ==
  /\ cert' \in {cert} \cup IF pc = "writeCert" THEN {[cert EXCEPT ![certAt] = Torn]} ELSE {}
  /\ key' \in {key} \cup IF pc = "writeKey" THEN {[key EXCEPT ![keyAt] = Torn]} ELSE {}
  /\ excused' = excused \cup
       IF pc \in {"writeKey", "removeKey"} \/ cert' # cert THEN {"cutShort"} ELSE {}
  /\ UNCHANGED <<expired, pairs>>

(* GetTLSConfig returns the error of a file operation.                     *)
FilesFail ==
  /\ pc \in {"writeCert", "writeKey", "removeCert", "removeKey"}
  /\ CutShort
  /\ Return
  /\ UNCHANGED <<configVars, renewing, escaped, interceptVars, requester, dbLocked,
                 starts>>

-----------------------------------------------------------------------------
(***************************************************************************)
(* The rest of core.Main.                                                  *)
(***************************************************************************)

(* NewRpcServer opens the port; Main defers nothing for it as yet.         *)
NewRpcServer == pc = "listener" /\ Acquire("listener", "grpc") /\ UNCHANGED deferred

(* grpc.NewServer with the interceptors, and the health service.           *)
NewGrpcServer == pc = "grpc" /\ Acquire("grpc", "plugins") /\ Defer("grpc")

StartPlugins == pc = "plugins" /\ Acquire("plugins", "database") /\ Defer("plugins")

(* bolt.Open waits for the lock of the file as long as it takes.           *)
NewDB ==
  /\ pc = "database" /\ ~dbLocked
  /\ Acquire("database", "unlocker") /\ Defer("database")

InitUnlockerService == pc = "unlocker" /\ Proceed("rpcServer")

(* Its Stop closes the port.                                               *)
StartRpcServer == pc = "rpcServer" /\ pc' = "rest" /\ Defer("listener") /\ UNCHANGED <<held, how>>

StartRestProxy == pc = "rest" /\ Acquire("rest", "password") /\ Defer("rest")

(* Faulty variant: only a password ends the wait.                          *)
WaitForPasswordOnly(entered) == pc = "password" /\ entered /\ Proceed("macaroons")

(* waitForPassword: with both at hand, either.                             *)
WaitForPassword(entered) ==
  /\ pc = "password"
  /\ IF entered THEN Proceed("macaroons") ELSE shutdown /\ Return

InitService == pc = "macaroons" /\ Acquire("macaroons", "unlock") /\ Defer("macaroons")

(* CreateUnlock, the macaroon files, and SetRPCActive: see module Unlocker.*)
Activate == pc = "unlock" /\ Proceed("active")

(* <-interceptor.ShutdownChannel()                                         *)
ShutsDown == pc = "active" /\ shutdown /\ Return

(* InitService, or CreateUnlock after it, waits for a lock that the copy of*)
(* the database has held since it was made; Main does not look at the      *)
(* shutdown channel there.                                                 *)
Hangs == pc \in {"macaroons", "unlock"} /\ Proceed("hung")

(* An error that Main returns.                                             *)
Fails ==
  /\ pc \in {"rest", "macaroons", "unlock"}
  /\ Return

(* logger.Fatal() calls os.Exit.  (A busy port, a broken database file.)   *)
Fatal ==
  /\ pc \in {"listener", "database", "unlocker"}
  /\ Exit("fatal")

(* restListen fails, which is only logged: the goroutine that is to serve  *)
(* calls a method of its nil listener.                                     *)
RestPanics == pc = "rest" /\ Exit("panic")

Startup ==
  /\ \/ NewRpcServer \/ NewGrpcServer \/ StartPlugins \/ NewDB
     \/ InitUnlockerService \/ StartRpcServer \/ StartRestProxy
     \/ InitService \/ Activate \/ ShutsDown
     \/ Hangs \/ Fails \/ Fatal \/ RestPanics
  /\ UNCHANGED <<fileVars, configVars, renewing, escaped, interceptVars, requester,
                 dbLocked, starts, excused>>

(* Of a list of plugins one fails: the ones before it have been started.   *)
StartPluginsFails ==
  /\ pc = "plugins"
  /\ escaped' = escaped \cup {"start"}
  /\ held' = held \cup {"plugins"}
  /\ pc' = "unwind"
  /\ UNCHANGED <<fileVars, configVars, renewing, deferred, how, interceptVars, requester,
                 dbLocked, starts, excused>>

Wait(entered) ==
  /\ WaitForPassword(entered)
  /\ UNCHANGED <<fileVars, configVars, renewing, escaped, interceptVars, requester,
                 dbLocked, starts, excused>>

(* The next deferred function; Main has returned after the last.           *)
Unwind ==
  /\ pc = "unwind"
  /\ IF deferred = << >>
       THEN pc' = "returned" /\ UNCHANGED <<held, deferred>>
       ELSE /\ held' = held \ {Head(deferred)}
            /\ deferred' = Tail(deferred)
            /\ UNCHANGED pc
  /\ UNCHANGED <<fileVars, configVars, renewing, escaped, how, interceptVars,
                 requester, dbLocked, starts, excused>>

(* pluginManager.Stop returns, and processes that were restarted during it,*)
(* or that it does not know of, run on: see module PluginManager.          *)
UnwindMisses ==
  /\ pc = "unwind" /\ deferred # << >> /\ Head(deferred) = "plugins"
  /\ deferred' = Tail(deferred)
  /\ escaped' = escaped \cup {"stop"}
  /\ UNCHANGED <<fileVars, configVars, pc, renewing, held, how, interceptVars, requester,
                 dbLocked, starts, excused>>

(* pluginManager.Stop never returns: see modules PluginManager and         *)
(* QueueManager.                                                           *)
UnwindHangs ==
  /\ pc = "unwind" /\ deferred # << >> /\ Head(deferred) = "plugins"
  /\ pc' = "stuck"
  /\ UNCHANGED <<fileVars, configVars, renewing, held, deferred, escaped, how,
                 interceptVars, requester, dbLocked, starts, excused>>

MainEnds ==
  /\ pc = "returned"
  /\ Exit("returned")
  /\ UNCHANGED <<fileVars, configVars, renewing, escaped, interceptVars, requester,
                 dbLocked, starts, excused>>

-----------------------------------------------------------------------------
(***************************************************************************)
(* The shutdown interceptor.                                               *)
(***************************************************************************)
InterruptCap == 1

(* Faulty variant: the runtime would wait until there is room.             *)
NotifyAll == interrupts + 1

(* The runtime drops a signal when the channel is full.                    *)
Notify == IF interrupts = InterruptCap THEN interrupts ELSE interrupts + 1

(* After signal.Stop a signal has its default effect: it kills.            *)
Signal ==
  /\ Alive
  /\ IF handler = "gone"
       THEN Exit("killed") /\ CutShort /\ UNCHANGED interrupts
       ELSE /\ interrupts' = Notify
            /\ UNCHANGED <<pc, held, deferred, how, fileVars, excused>>
  /\ UNCHANGED <<configVars, renewing, escaped, handler, quit, shutdown, requester,
                 dbLocked, starts>>

(* shutdown() closes quit, the first time.                                 *)
ReceiveSignal ==
  /\ handler = "listening" /\ interrupts > 0
  /\ interrupts' = interrupts - 1
  /\ quit' = TRUE
  /\ UNCHANGED <<fileVars, configVars, mainVars, handler, shutdown, requester, dbLocked,
                 starts, excused>>

(* StopDaemon is let through when the daemon is active, and from then on.  *)
StopDaemon(r) ==
  /\ pc \in {"active", "unwind", "stuck"} /\ "macaroons" \in held
  /\ requester[r] = "idle"
  /\ requester' = [requester EXCEPT ![r] = "asking"]
  /\ UNCHANGED <<fileVars, configVars, mainVars, interceptVars, dbLocked, starts, excused>>

(* RequestShutdown meets the handler, or finds quit closed.                *)
RequestShutdown(r) ==
  /\ requester[r] = "asking"
  /\ \/ handler = "listening" /\ quit' = TRUE
     \/ quit /\ UNCHANGED quit
  /\ requester' = [requester EXCEPT ![r] = "done"]
  /\ UNCHANGED <<fileVars, configVars, mainVars, handler, interrupts, shutdown, dbLocked,
                 starts, excused>>

(* The handler's select takes the closed quit.                             *)
HandlerEnds ==
  /\ handler = "listening" /\ quit
  /\ shutdown' = TRUE
  /\ handler' = "gone"
  /\ UNCHANGED <<fileVars, configVars, mainVars, interrupts, quit, requester, dbLocked,
                 starts, excused>>

-----------------------------------------------------------------------------
(***************************************************************************)
(* The environment.                                                        *)
(***************************************************************************)

(* SIGKILL, or the power fails.                                            *)
Crash ==
  /\ Alive
  /\ Exit("killed")
  /\ CutShort
  /\ UNCHANGED <<configVars, renewing, escaped, interceptVars, requester, dbLocked,
                 starts>>

Restart ==
  /\ ~Alive
  /\ starts < MaxStarts
  /\ starts' = starts + 1
  /\ certAt' = "default" /\ keyAt' = "default"
  /\ pc' = "config" /\ renewing' = FALSE
  /\ held' = {} /\ deferred' = << >>
  /\ handler' = "listening" /\ interrupts' = 0
  /\ quit' = FALSE /\ shutdown' = FALSE
  /\ requester' = [r \in Requesters |-> "idle"]
  /\ how' = "running" /\ escaped' = {}
  /\ UNCHANGED <<fileVars, dbLocked, excused>>

(* Another daemon with another port uses the same database file.           *)
OtherDaemon ==
  /\ "database" \notin held
  /\ dbLocked' = ~dbLocked
  /\ UNCHANGED <<fileVars, configVars, mainVars, interceptVars, requester, starts, excused>>

Expire ==
  /\ \E i \in 1..pairs \ expired : expired' = expired \cup {i}
  /\ UNCHANGED <<cert, key, pairs, configVars, mainVars, interceptVars, requester,
                 dbLocked, starts, excused>>

-----------------------------------------------------------------------------
Configure ==
  \/ \E c, k \in Settings : InitConfig(c, k)
  \/ ConfigRefused \/ StartServer

TLS ==
  \/ LookForPair \/ WriteCert \/ WriteKey \/ LoadCertificate \/ LoadFails
  \/ RemoveCert \/ RemoveKey \/ FilesFail

Teardown == Unwind \/ UnwindMisses \/ UnwindHangs \/ MainEnds

Handle == ReceiveSignal \/ HandlerEnds

Next ==
  \/ Alive /\ \/ Configure \/ TLS \/ Startup \/ StartPluginsFails \/ Teardown
              \/ \E entered \in BOOLEAN : Wait(entered)
              \/ Signal \/ Handle
              \/ \E r \in Requesters : StopDaemon(r) \/ RequestShutdown(r)
              \/ Crash
  \/ Restart \/ OtherDaemon \/ Expire

Spec == Init /\ [][Next]_vars

(* The goroutines are scheduled.  Nobody need enter the password, send a   *)
(* signal or release the lock of the database; to end the wait for the     *)
(* password a closed shutdown channel does.                                *)
Fairness ==
  /\ WF_vars(Alive /\ (Configure \/ TLS \/ Startup \/ Teardown))
  /\ WF_vars(Alive /\ Wait(FALSE))
  /\ WF_vars(Alive /\ ReceiveSignal) /\ WF_vars(Alive /\ HandlerEnds)
  /\ \A r \in Requesters : WF_vars(Alive /\ RequestShutdown(r))

FairSpec == Spec /\ Fairness

-----------------------------------------------------------------------------
(***************************************************************************)
(* Properties.                                                             *)
(***************************************************************************)
PairIds == {Torn, None} \cup 1..MaxPairs

(* Type invariant; no signal is received that the channel has no room for. *)
TypeOK ==
  /\ cert \in [Places -> PairIds] /\ key \in [Places -> PairIds]
  /\ expired \subseteq 1..MaxPairs /\ pairs \in 0..MaxPairs
  /\ certAt \in Places /\ keyAt \in Places
  /\ pc \in Stages /\ renewing \in BOOLEAN
  /\ held \subseteq Resources
  /\ deferred \in Seq(Resources)
  /\ handler \in {"listening", "gone"} /\ interrupts \in 0..InterruptCap
  /\ quit \in BOOLEAN /\ shutdown \in BOOLEAN
  /\ requester \in [Requesters -> {"idle", "asking", "done"}]
  /\ dbLocked \in BOOLEAN /\ escaped \subseteq {"start", "stop"}
  /\ how \in {"running", "returned", "fatal", "panic", "killed"}
  /\ starts \in 1..MaxStarts /\ excused \subseteq {"cutShort", "unpaired"}

(* The daemon's start never fails on a certificate and a key that it wrote *)
(* itself, over all starts, expiries and configurations.  The exceptions   *)
(* are real, and permanent: GenCertPair runs only when both files are      *)
(* missing, so one that a crash or a failing write left alone fails every  *)
(* later start; so does a configuration that once named one of the two     *)
(* paths.                                                                  *)
CertificateLoads == pc = "load" /\ ~Loads => excused # {}

(* When Main has returned it has released all it acquired.  The exceptions *)
(* are real.  When the start of one plugin fails, Main has not deferred    *)
(* pluginManager.Stop yet, nor rpcServer.Stop: the plugins that run and the*)
(* port are left.  And pluginManager.Stop may miss processes.              *)
AllReleased ==
  pc = "returned" =>
    /\ held \subseteq {"listener", "plugins"}
    /\ "listener" \in held => "start" \in escaped
    /\ "plugins" \in held => escaped # {}

(* What the daemon leaves behind, files and processes, is in order.        *)
LeftInOrder == CertificateLoads /\ AllReleased

(* A signal or an accepted StopDaemon ends the daemon, wherever its startup*)
(* is, and StopDaemon returns.  It does not in three places where Main     *)
(* waits without looking at the shutdown channel: for a database that      *)
(* another process has locked, for a lock that was copied locked, and for a*)
(* pluginManager.Stop that never returns.                                  *)
ShutdownEnds ==
  /\ interrupts > 0 \/ quit ~> \/ ~Alive \/ pc \in {"hung", "stuck"}
                               \/ pc = "database" /\ dbLocked
  /\ \A r \in Requesters : requester[r] = "asking" ~> requester[r] = "done" \/ ~Alive
=============================================================================
