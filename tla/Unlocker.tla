------------------------------ MODULE Unlocker ------------------------------
(***************************************************************************)
(* Passwords and the macaroon key store of laniakea: the Unlocker RPCs of  *)
(* src/unlocker/unlocker.go, the store of src/macaroons/storage.go they    *)
(* share a database with, and the part of core.Main                        *)
(* (src/core/laniakea.go:203-298) that waits for a password, opens the     *)
(* store with it and bakes the macaroon files.                             *)
(*                                                                         *)
(* The database holds three things, written by different transactions: the *)
(* hash of the login password; an encryption key, derived from a password; *)
(* and the root key "0", sealed with an encryption key.  The process may   *)
(* end between any two steps and be started again.                         *)
(*                                                                         *)
(* Each user of the store holds a COPY of the database handle, locks       *)
(* included: InitService takes it by value, and kvdb.DB embeds bolt.DB by  *)
(* value.  Two things follow.  A copy made while another is inside         *)
(* readPassword or setPassword contains a locked lock, and nobody ever     *)
(* unlocks it: the owner of the copy hangs.  And bbolt's own lock keeps    *)
(* apart only the transactions of one copy.  So a transaction here is two  *)
(* steps, Begin takes a snapshot and Commit writes it back, and others may *)
(* begin and commit in between.                                            *)
(***************************************************************************)
EXTENDS Naturals, Sequences

CONSTANTS
  Passwords,    \* The passwords that clients use.
  NoPassword,   \* The absence of one.
  Clients,      \* Goroutines that serve Unlocker RPCs.
  Nobody,       \* Stands for "the mutex is free".
  Main,         \* The goroutine of core.Main.
  NoView,       \* Stands for "no transaction is open".
  Asked,        \* Bound of the model: the requests that clients make.
  MaxLoad       \* Bound of the model: how many RPCs are made in all, by weight.

(* What the database holds.                                                *)
Database ==
  [login : Passwords \cup {NoPassword},    \* Hashed under pwdKeyID.
   encPwd : Passwords \cup {NoPassword},   \* That of the encryption key.
   encKey : Nat,                           \* Which key that is; 0: none yet.
   rootSeal : Nat]                         \* What seals root key "0"; 0: no root key.

(* A request; cur is the password that Login and SetPassword take.         *)
Requests ==
  [rpc : {"Login", "SetPassword"}, cur : Passwords, new : {NoPassword},
   newRootKey : {FALSE}]
    \cup
  [rpc : {"ChangePassword"}, cur : Passwords, new : Passwords, newRootKey : BOOLEAN]

ASSUME NoPasswordAssumption == NoPassword \notin Passwords
ASSUME NobodyAssumption == Nobody \notin Clients
ASSUME MainAssumption == Main \notin Clients
ASSUME NoViewAssumption == NoView \notin Database
ASSUME AskedAssumption == Asked \subseteq Requests
ASSUME MaxLoadAssumption == MaxLoad \in Nat

Owners == Clients \cup {Main}

MacaroonFiles == {"admin", "test"}

VARIABLES
  db,           \* What the database holds, as the newest meta page has it.
  other,        \* What the other meta page has, while a transaction is open.
  view,         \* The snapshot of the transaction each owner has open.
  fresh,        \* Whose snapshot is still the newest.
  keysMade,     \* How many encryption keys were made; the next one's name.
  files,        \* The macaroon files on disk.
  gate,         \* GrpcInterceptor.state.
  msgs,         \* What the channel PasswordMsgs buffers: at most one password.
  mutex,        \* Who holds u.ps.Mutex.
  pc,           \* What each handler does next.
  req,          \* The request it serves.
  mainPc,       \* What core.Main does next.
  mainPwd,      \* The password it received.
  mainKey,      \* The encryption key its store holds in memory; 0: none.
  load,         \* History: RPCs admitted so far, by weight.
  firstSets,    \* History: SetPasswords that wrote a password.
  known,        \* History: passwords that were accepted for login.
  late,         \* History: a handler was at work when the gate was unlocked.
  crossed       \* History: core.Main and a handler had transactions open at once.

dbVars == <<db, other, view, fresh, crossed>>
mainVars == <<mainPc, mainPwd, mainKey>>
procVars == <<gate, msgs, mainVars, late>>
callVars == <<mutex, pc, req>>
histVars == <<load, firstSets, known>>
vars == <<dbVars, keysMade, files, procVars, callVars, histVars>>

NoRequest ==
  [rpc |-> "Login", cur |-> NoPassword, new |-> NoPassword, newRootKey |-> FALSE]

EmptyDatabase ==
  [login |-> NoPassword, encPwd |-> NoPassword, encKey |-> 0, rootSeal |-> 0]

(* What an earlier run of the daemon, unlocked with p, may have left.      *)
UsedDatabase(p) == [login |-> p, encPwd |-> p, encKey |-> 1, rootSeal |-> 1]

NewStore ==
  /\ db = EmptyDatabase /\ keysMade = 0 /\ files = {}
  /\ firstSets = 0 /\ known = {}

UsedStore ==
  \E p \in Passwords :
    /\ db = UsedDatabase(p) /\ keysMade = 1 /\ files = MacaroonFiles
    /\ firstSets = 1 /\ known = {p}

(* The daemon listens before it is ready for a password.                   *)
Init ==
  /\ NewStore \/ UsedStore
  /\ other = db /\ view = [o \in Owners |-> NoView] /\ fresh = {} /\ crossed = FALSE
  /\ gate = "waitingToStart" /\ msgs = << >> /\ mutex = Nobody
  /\ pc = [c \in Clients |-> "idle"]
  /\ req = [c \in Clients |-> NoRequest]
  /\ mainPc = "lock" /\ mainPwd = NoPassword /\ mainKey = 0
  /\ load = 0 /\ late = FALSE

At(c, place) == pc[c] = place

MainAt(place) == mainPc = place

Goto(c, place) ==
  /\ pc' = [pc EXCEPT ![c] = place]
  /\ UNCHANGED req

(* The handler returns, with or without an error.                          *)
Return(c) ==
  /\ pc' = [pc EXCEPT ![c] = "idle"]
  /\ req' = [req EXCEPT ![c] = NoRequest]

-----------------------------------------------------------------------------
(***************************************************************************)
(* Transactions of bbolt.  Its lock keeps two transactions of one copy of  *)
(* the handle apart and nothing else does, while the file, its two meta    *)
(* pages and the list of free pages are shared by all copies.  A           *)
(* transaction is numbered one above the newest meta page it saw, and its  *)
(* commit writes the meta page of that number's parity; the page with the  *)
(* higher number counts.                                                   *)
(***************************************************************************)

InTransaction(o) == view[o] # NoView

Overlapped(o) == \E p \in Owners \ {o} : InTransaction(p)

Begin(o) ==
  /\ view' = [view EXCEPT ![o] = db]
  /\ fresh' = fresh \cup {o}
  /\ crossed' = (crossed \/ IF o = Main THEN Overlapped(o) ELSE InTransaction(Main))
  /\ UNCHANGED <<db, other>>

(* The transaction of o ends and leaves the meta pages with now and old;   *)
(* old is forgotten when no open transaction can bring it back.            *)
Ends(o, now, old) ==
  /\ view' = [view EXCEPT ![o] = NoView]
  /\ db' = now
  /\ other' = IF Overlapped(o) THEN old ELSE now
  /\ UNCHANGED crossed

(* After one other commit the numbers are equal and new replaces what that *)
(* one wrote.  After more of them the number of new is too low: it lands   *)
(* on the page that did not count, or on the page that did, and the        *)
(* database falls back to the other one.  Where bbolt notices that a page  *)
(* is freed twice it panics instead: Down.                                 *)
Commit(o, new) ==
  /\ \/ o \in fresh /\ Ends(o, new, db)
     \/ o \notin fresh /\ (Ends(o, new, other) \/ Ends(o, db, new) \/ Ends(o, other, new))
  /\ fresh' = {}

Rollback(o) ==
  /\ Ends(o, db, other)
  /\ fresh' = fresh \ {o}

-----------------------------------------------------------------------------
(***************************************************************************)
(* The RPCs.                                                               *)
(***************************************************************************)

(* A bound of the model: ChangePassword has the most transactions.         *)
Weight(r) == IF r.rpc = "ChangePassword" THEN 3 ELSE 2

Arrives(c, r) ==
  /\ At(c, "idle")
  /\ load' = load + Weight(r)
  /\ load' <= MaxLoad
  /\ req' = [req EXCEPT ![c] = r]
  /\ pc' = [pc EXCEPT ![c] = IF r.rpc = "SetPassword" THEN "lockToWrite" ELSE "lockToRead"]
  /\ UNCHANGED <<dbVars, keysMade, files, procVars, mutex, firstSets, known>>

(* Faulty variant: the gate lets the Unlocker service through when the     *)
(* daemon is unlocked.                                                     *)
AdmitUngated(c, r) == gate # "waitingToStart" /\ Arrives(c, r)

(* checkRPCState lets Unlocker RPCs through only while the daemon is       *)
(* locked; it looks once, when the call arrives.                           *)
Admit(c, r) == gate = "daemonLocked" /\ Arrives(c, r)

(* u.ps.Mutex.Lock(), in readPassword and in setPassword, and the          *)
(* transaction on u.ps that follows.                                       *)
Lock(c) ==
  /\ mutex = Nobody
  /\ mutex' = c
  /\ \/ At(c, "lockToRead")  /\ Goto(c, "read")
     \/ At(c, "lockToWrite") /\ Goto(c, "write")
  /\ Begin(c)
  /\ UNCHANGED <<keysMade, files, procVars, histVars>>

(* The password in the database, as the transaction of c sees it, is right.*)
RightPassword(c) == view[c].login = req[c].cur

(* readPassword: ErrPasswordNotSet or ErrWrongPassword roll back and end   *)
(* the call; the right password commits a transaction that wrote nothing.  *)
(* The mutex is released before ChangePassword takes it again to write.    *)
PasswordRead(c, right) ==
  \/ ~right /\ Rollback(c) /\ Return(c)
  \/ /\ right
     /\ Commit(c, view[c])
     /\ Goto(c, IF req[c].rpc = "Login" THEN "send" ELSE "lockToWrite")

(* Faulty variant: the early return of a wrong password keeps the mutex.   *)
ReadPasswordKeepsLock(c) ==
  /\ At(c, "read")
  /\ mutex' = IF RightPassword(c) THEN Nobody ELSE mutex
  /\ PasswordRead(c, RightPassword(c))
  /\ UNCHANGED <<keysMade, files, procVars, histVars>>

(* Faulty variant: a missing password is not told from a right one.        *)
ReadPasswordUnset(c) ==
  /\ At(c, "read")
  /\ mutex' = Nobody
  /\ PasswordRead(c, RightPassword(c) \/ view[c].login = NoPassword)
  /\ UNCHANGED <<keysMade, files, procVars, histVars>>

ReadPassword(c) ==
  /\ At(c, "read")
  /\ mutex' = Nobody
  /\ PasswordRead(c, RightPassword(c))
  /\ UNCHANGED <<keysMade, files, procVars, histVars>>

Overwrites(c) == req[c].rpc = "ChangePassword"

NewLogin(c) == IF Overwrites(c) THEN req[c].new ELSE req[c].cur

(* The password is stored and the handler goes on.                         *)
PasswordStored(c) ==
  /\ mutex' = Nobody
  /\ Commit(c, [view[c] EXCEPT !.login = NewLogin(c)])
  /\ known' = known \cup {NewLogin(c)}
  /\ firstSets' = IF Overwrites(c) THEN firstSets ELSE firstSets + 1
  /\ Goto(c, IF ~Overwrites(c) THEN "send"
             ELSE IF req[c].newRootKey THEN "removeAdmin" ELSE "copyStore")
  /\ UNCHANGED <<keysMade, files, procVars, load>>

(* Faulty variant: nobody looks whether there is a password.               *)
SetPasswordBlindly(c) == At(c, "write") /\ PasswordStored(c)

(* setPassword: ErrPasswordAlreadySet rolls back and ends the call.        *)
SetPasswordRefused(c) ==
  /\ At(c, "write")
  /\ view[c].login # NoPassword /\ ~Overwrites(c)
  /\ mutex' = Nobody
  /\ Rollback(c)
  /\ Return(c)
  /\ UNCHANGED <<keysMade, files, procVars, histVars>>

SetPassword(c) ==
  /\ At(c, "write")
  /\ view[c].login = NoPassword \/ Overwrites(c)
  /\ PasswordStored(c)

(* os.Remove of the two macaroon files in turn; it fails on a missing one. *)
RemoveFile(c, place, file, next) ==
  /\ At(c, place)
  /\ files' = files \ {file}
  /\ IF file \in files THEN Goto(c, next) ELSE Return(c)
  /\ UNCHANGED <<dbVars, keysMade, procVars, mutex, histVars>>

RemoveFiles(c) ==
  \/ RemoveFile(c, "removeAdmin", "admin", "removeTest")
  \/ RemoveFile(c, "removeTest", "test", "copyStore")

(* macaroons.InitService with a copy of u.ps: what comes of the copy.  The *)
(* transaction of InitRootKeyStorage begins, unless bbolt's lock was       *)
(* copied locked; when kvdb's mutex was, CreateUnlock hangs after it.      *)
Copied == IF mutex = Nobody THEN {"initStore"} ELSE {"initLocked", "hung"}

CopyStore(c) ==
  /\ At(c, "copyStore")
  /\ \E place \in Copied :
       /\ Goto(c, place)
       /\ IF place = "hung" THEN UNCHANGED dbVars ELSE Begin(c)
  /\ UNCHANGED <<keysMade, files, procVars, mutex, histVars>>

(* CreateBucketIfNotExists commits, changing nothing of the keys.          *)
InitStore(c) ==
  /\ \/ At(c, "initStore")  /\ Goto(c, "unlockStore")
     \/ At(c, "initLocked") /\ Goto(c, "hung")
  /\ Commit(c, view[c])
  /\ UNCHANGED <<keysMade, files, procVars, mutex, histVars>>

(* The transactions of CreateUnlock and ChangePassword on the copy.        *)
BeginStore(c) ==
  /\ pc[c] \in {"unlockStore", "changeStore"}
  /\ ~InTransaction(c)
  /\ Begin(c)
  /\ UNCHANGED <<keysMade, files, procVars, callVars, histVars>>

(* RootKeyStorage.CreateUnlock of o with password p, when it succeeds:     *)
(* there is no encryption key and one is made, or p is its password.       *)
CreateUnlock(o, p) ==
  \/ /\ view[o].encPwd = NoPassword
     /\ Commit(o, [view[o] EXCEPT !.encPwd = p, !.encKey = keysMade + 1])
     /\ keysMade' = keysMade + 1
  \/ /\ view[o].encPwd = p
     /\ Commit(o, view[o])
     /\ UNCHANGED keysMade

(* DeriveKey fails: another password made the key.                         *)
CreateUnlockFails(o, p) ==
  /\ view[o].encPwd \notin {NoPassword, p}
  /\ Rollback(o)
  /\ UNCHANGED keysMade

UnlockStore(c) ==
  /\ At(c, "unlockStore") /\ InTransaction(c)
  /\ \/ CreateUnlock(c, req[c].cur) /\ Goto(c, "changeStore")
     \/ CreateUnlockFails(c, req[c].cur) /\ Return(c)
  /\ UNCHANGED <<files, procVars, mutex, histVars>>

(* Faulty variant: ErrEncKeyNotFound is not raised for a missing root key, *)
(* there just is nothing to seal again.                                    *)
ChangeableNoRoot(d, p) == d.encPwd = p /\ d.rootSeal \in {0, d.encKey}

(* Both keys must be there, the old password must open the encryption key, *)
(* and that key the root key.                                              *)
Changeable(d, p) == d.encPwd = p /\ d.rootSeal # 0 /\ d.rootSeal = d.encKey

(* RootKeyStorage.ChangePassword: a new encryption key, and root key "0"   *)
(* sealed with it.                                                         *)
ChangeStore(c) ==
  /\ At(c, "changeStore") /\ InTransaction(c)
  /\ Changeable(view[c], req[c].cur)
  /\ keysMade' = keysMade + 1
  /\ Commit(c, [view[c] EXCEPT !.encPwd = req[c].new, !.encKey = keysMade + 1,
                   !.rootSeal = IF @ = 0 THEN 0 ELSE keysMade + 1])
  /\ Goto(c, "send")
  /\ UNCHANGED <<files, procVars, mutex, histVars>>

ChangeStoreFails(c) ==
  /\ At(c, "changeStore") /\ InTransaction(c)
  /\ ~Changeable(view[c], req[c].cur)
  /\ Rollback(c)
  /\ Return(c)
  /\ UNCHANGED <<keysMade, files, procVars, mutex, histVars>>

(* A transaction, or a removal, fails by itself; readPassword and          *)
(* setPassword release the mutex then too.                                 *)
StorageFails(c) ==
  /\ \/ InTransaction(c) /\ Rollback(c)
     \/ pc[c] \in {"removeAdmin", "removeTest"} /\ UNCHANGED dbVars
  /\ mutex' = IF mutex = c THEN Nobody ELSE mutex
  /\ Return(c)
  /\ UNCHANGED <<keysMade, files, procVars, histVars>>

(* The password a handler sends to core.Main.                              *)
Sent(c) == IF Overwrites(c) THEN req[c].new ELSE req[c].cur

(* Faulty variant: a channel without a bound.                              *)
SendUnbounded(c) ==
  /\ At(c, "send")
  /\ msgs' = Append(msgs, Sent(c))
  /\ Return(c)
  /\ UNCHANGED <<dbVars, keysMade, files, gate, mainVars, late, mutex, histVars>>

(* u.PasswordMsgs <- ..., which has room for one message; then success.    *)
Send(c) ==
  /\ At(c, "send")
  /\ msgs = << >>
  /\ msgs' = <<Sent(c)>>
  /\ Return(c)
  /\ UNCHANGED <<dbVars, keysMade, files, gate, mainVars, late, mutex, histVars>>

(* case <-ctx.Done(): the client went away.                                *)
SendAbandoned(c) ==
  /\ At(c, "send")
  /\ Return(c)
  /\ UNCHANGED <<dbVars, keysMade, files, procVars, mutex, histVars>>

-----------------------------------------------------------------------------
(***************************************************************************)
(* core.Main, from the moment its gRPC server listens.                     *)
(***************************************************************************)

MainGoto(place) == mainPc' = place /\ UNCHANGED <<callVars, histVars>>

SetDaemonLocked ==
  /\ MainAt("lock")
  /\ gate' = "daemonLocked"
  /\ MainGoto("await")
  /\ UNCHANGED <<dbVars, keysMade, files, msgs, mainPwd, mainKey, late>>

(* waitForPassword receives a password.                                    *)
TakePassword ==
  /\ MainAt("await")
  /\ msgs # << >>
  /\ mainPwd' = Head(msgs)
  /\ msgs' = Tail(msgs)
  /\ MainGoto("unlock")
  /\ UNCHANGED <<dbVars, keysMade, files, gate, mainKey, late>>

(* Handlers that were admitted before run on.                              *)
SetDaemonUnlocked ==
  /\ MainAt("unlock")
  /\ gate' = "daemonUnlocked"
  /\ late' = (\E c \in Clients : ~At(c, "idle"))
  /\ MainGoto("copyStore")
  /\ UNCHANGED <<dbVars, keysMade, files, msgs, mainPwd, mainKey>>

(* macaroons.InitService with a copy of db.                                *)
MainCopyStore ==
  /\ MainAt("copyStore")
  /\ \E place \in Copied :
       /\ MainGoto(place)
       /\ IF place = "hung" THEN UNCHANGED dbVars ELSE Begin(Main)
  /\ UNCHANGED <<keysMade, files, gate, msgs, mainPwd, mainKey, late>>

MainInitStore ==
  /\ \/ MainAt("initStore")  /\ MainGoto("unlockStore")
     \/ MainAt("initLocked") /\ MainGoto("hung")
  /\ Commit(Main, view[Main])
  /\ UNCHANGED <<keysMade, files, gate, msgs, mainPwd, mainKey, late>>

(* The transactions of CreateUnlock, and of RootKey for a file that does   *)
(* not exist.                                                              *)
MainBegin ==
  /\ \/ MainAt("unlockStore")
     \/ MainAt("bakeAdmin") /\ "admin" \notin files
     \/ MainAt("bakeTest") /\ "test" \notin files
  /\ ~InTransaction(Main)
  /\ Begin(Main)
  /\ UNCHANGED <<keysMade, files, procVars, callVars, histVars>>

(* The store keeps the key in memory, also when the commit is lost.  An    *)
(* error ends core.Main and with it the daemon.                            *)
MainUnlockStore ==
  /\ MainAt("unlockStore") /\ InTransaction(Main)
  /\ \/ /\ CreateUnlock(Main, mainPwd)
        /\ mainKey' = IF view[Main].encPwd = NoPassword THEN keysMade' ELSE view[Main].encKey
        /\ MainGoto("regenerate")
     \/ CreateUnlockFails(Main, mainPwd) /\ MainGoto("exit") /\ UNCHANGED mainKey
  /\ UNCHANGED <<files, gate, msgs, mainPwd, late>>

(* cfg.RegenerateMacaroons removes the files; an error is only logged.     *)
Regenerate(removed) ==
  /\ MainAt("regenerate")
  /\ files' = files \ removed
  /\ MainGoto("bakeAdmin")
  /\ UNCHANGED <<dbVars, keysMade, gate, msgs, mainPwd, mainKey, late>>

(* RootKeyStorage.RootKey: the root key is opened with the key in memory,  *)
(* or made and sealed with it.                                             *)
RootKey ==
  /\ view[Main].rootSeal \in {0, mainKey}
  /\ Commit(Main, [view[Main] EXCEPT !.rootSeal = mainKey])

RootKeyFails ==
  /\ view[Main].rootSeal \notin {0, mainKey}
  /\ Rollback(Main)

(* genMacaroons, for a file that does not exist.  The file may not get     *)
(* written after the root key was made.                                    *)
Bake(place, file, next) ==
  /\ MainAt(place)
  /\ \/ ~InTransaction(Main) /\ file \in files /\ MainGoto(next) /\ UNCHANGED <<dbVars, files>>
     \/ InTransaction(Main) /\ RootKey /\ MainGoto(next) /\ files' = files \cup {file}
     \/ InTransaction(Main) /\ (RootKey \/ RootKeyFails) /\ MainGoto("exit") /\ UNCHANGED files
  /\ UNCHANGED <<keysMade, gate, msgs, mainPwd, mainKey, late>>

(* A transaction of core.Main fails by itself.                             *)
MainStorageFails ==
  /\ InTransaction(Main)
  /\ Rollback(Main)
  /\ MainGoto("exit")
  /\ UNCHANGED <<keysMade, files, gate, msgs, mainPwd, mainKey, late>>

SetRPCActive ==
  /\ MainAt("activate")
  /\ gate' = "rpcActive"
  /\ MainGoto("active")
  /\ UNCHANGED <<dbVars, keysMade, files, msgs, mainPwd, mainKey, late>>

(* The process ends after a shutdown request or an error, or by a crash,   *)
(* a panic of bbolt included.  All but the database and the files is lost. *)
Down ==
  /\ ~MainAt("down")
  /\ view' = [o \in Owners |-> NoView] /\ fresh' = {} /\ other' = db
  /\ gate' = "waitingToStart" /\ msgs' = << >> /\ mutex' = Nobody
  /\ pc' = [c \in Clients |-> "idle"]
  /\ req' = [c \in Clients |-> NoRequest]
  /\ mainPc' = "down" /\ mainPwd' = NoPassword /\ mainKey' = 0
  /\ late' = FALSE
  /\ UNCHANGED <<db, crossed, keysMade, files, load, firstSets, known>>

(* The operator starts the daemon again.                                   *)
Start ==
  /\ MainAt("down")
  /\ MainGoto("lock")
  /\ UNCHANGED <<dbVars, keysMade, files, gate, msgs, mainPwd, mainKey, late>>

-----------------------------------------------------------------------------
HandlerStep(c) ==
  \/ Lock(c) \/ ReadPassword(c) \/ SetPasswordRefused(c) \/ SetPassword(c)
  \/ RemoveFiles(c) \/ CopyStore(c) \/ InitStore(c) \/ BeginStore(c)
  \/ UnlockStore(c) \/ ChangeStore(c) \/ ChangeStoreFails(c)
  \/ Send(c) \/ SendAbandoned(c) \/ StorageFails(c)

MainStep ==
  \/ SetDaemonLocked \/ TakePassword \/ SetDaemonUnlocked
  \/ MainCopyStore \/ MainInitStore \/ MainBegin \/ MainUnlockStore
  \/ \E removed \in SUBSET MacaroonFiles : Regenerate(removed)
  \/ Bake("bakeAdmin", "admin", "bakeTest")
  \/ Bake("bakeTest", "test", "activate")
  \/ SetRPCActive \/ MainStorageFails

Next ==
  \/ \E c \in Clients, r \in Asked : Admit(c, r)
  \/ \E c \in Clients : HandlerStep(c)
  \/ MainStep \/ Down \/ Start

Spec == Init /\ [][Next]_vars

(* core.Main is scheduled; nobody has to call, to answer or to crash.      *)
FairSpec == Spec /\ WF_vars(MainStep)

-----------------------------------------------------------------------------
(***************************************************************************)
(* Properties.                                                             *)
(***************************************************************************)

(* Type invariant; PasswordMsgs holds at most one password.                *)
TypeOK ==
  /\ db \in Database /\ other \in Database
  /\ view \in [Owners -> Database \cup {NoView}] /\ fresh \subseteq Owners
  /\ keysMade \in Nat /\ mainKey \in Nat
  /\ files \subseteq MacaroonFiles
  /\ gate \in {"waitingToStart", "daemonLocked", "daemonUnlocked", "rpcActive"}
  /\ msgs \in Seq(Passwords) /\ Len(msgs) <= 1
  /\ mutex \in Clients \cup {Nobody}
  /\ pc \in [Clients -> {"idle", "lockToRead", "read", "lockToWrite", "write",
                         "removeAdmin", "removeTest", "copyStore", "initStore",
                         "initLocked", "unlockStore", "changeStore", "send", "hung"}]
  /\ req \in [Clients -> Requests \cup {NoRequest}]
  /\ mainPc \in {"lock", "await", "unlock", "copyStore", "initStore", "initLocked",
                 "unlockStore", "regenerate", "bakeAdmin", "bakeTest", "activate",
                 "active", "exit", "hung", "down"}
  /\ mainPwd \in Passwords \cup {NoPassword}
  /\ load \in Nat /\ firstSets \in Nat
  /\ known \subseteq Passwords /\ late \in BOOLEAN /\ crossed \in BOOLEAN

(* The root key in the database can be opened: it is sealed with the       *)
(* encryption key that is there too, whatever handlers and core.Main, each *)
(* with an encryption key of its own in memory, have done to the two, in   *)
(* transactions that handlers overlap, and wherever a crash cut them off.  *)
(* The exception is real: when a handler's transaction and one of          *)
(* core.Main overlap, the key that core.Main seals with may get lost.      *)
RootKeySealedUnlessCrossed == ~crossed /\ db.rootSeal # 0 => db.rootSeal = db.encKey

(* The store opens with a password that was accepted for login at some     *)
(* time, so its owner can always get back in, whichever overlapping        *)
(* transactions got lost.                                                  *)
StorePasswordKnown == db.encPwd \in known \cup {NoPassword}

(* A first password is set at most once in the life of the database,       *)
(* however many SetPasswords race, whichever transactions get lost and     *)
(* however often the daemon restarts.                                      *)
FirstPasswordOnce == firstSets <= 1

(* "Laniakea started successfully and ready to use": an active daemon can  *)
(* open the root key, that is, check a macaroon.  The exception is real:   *)
(* an Unlocker call that was still at work when the daemon was unlocked    *)
(* may change the store under the running daemon.                          *)
ReadyUnlessLate ==
  mainPc = "active" /\ ~late /\ ~crossed => db.rootSeal # 0 /\ db.rootSeal = mainKey

(* Once it has a password, core.Main gets the daemon running or ends, with *)
(* the same exception: it may have copied a locked lock.                   *)
StartupEndsUnlessLate ==
  mainPc = "copyStore" ~> (mainPc \in {"active", "exit", "down"} \/ late)

(* What core.Main tells the operator, src/core/laniakea.go:205: "`lanicli  *)
(* login` to unlock the daemon with an existing password".  A password     *)
(* that Login accepted opens the store.                                    *)
LoginUnlocks ==
  MainAt("unlockStore") /\ InTransaction(Main) => view[Main].encPwd \in {NoPassword, mainPwd}
=============================================================================
