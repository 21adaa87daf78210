--------------------------- MODULE UnlockerProofs ---------------------------
(***************************************************************************)
(* Proofs about module Unlocker, for any passwords, clients and requests   *)
(* and any number of calls and crashes.                                    *)
(***************************************************************************)
EXTENDS Unlocker, TLAPS

Places == {"idle", "lockToRead", "read", "lockToWrite", "write", "removeAdmin", "removeTest",
           "copyStore", "initStore", "initLocked", "unlockStore", "changeStore", "send",
           "hung"}

(* Where ChangePassword is once it has stored the new password.            *)
StorePlaces == {"removeAdmin", "removeTest", "copyStore", "initStore", "initLocked",
                "unlockStore", "changeStore"}

(* Where a transaction may be open.                                        *)
TransactionPlaces == {"read", "write", "initStore", "initLocked", "unlockStore", "changeStore"}
MainPlaces == {"initStore", "initLocked", "unlockStore", "bakeAdmin", "bakeTest"}

(* What holds of a handler by itself: it is at work only with a request,   *)
(* and its transactions are where its place says.                          *)
HandlerInv(c) ==
  /\ pc[c] # "idle" => req[c] \in Requests
  /\ pc[c] \in StorePlaces => Overwrites(c)
  /\ InTransaction(c) => pc[c] \in TransactionPlaces
  /\ pc[c] \in {"read", "write", "initStore", "initLocked"} => InTransaction(c)
  /\ pc[c] \in {"read", "write"} <=> mutex = c

MainInv ==
  /\ InTransaction(Main) => mainPc \in MainPlaces
  /\ mainPc \in {"initStore", "initLocked"} => InTransaction(Main)

TypeInv == TypeOK /\ (\A c \in Clients : HandlerInv(c)) /\ MainInv

DataOK ==
  /\ db \in Database /\ other \in Database /\ fresh \subseteq Owners
  /\ view \in [Owners -> Database \cup {NoView}] /\ crossed \in BOOLEAN

(* All that the database may still become without a further write.         *)
Kept == {db, other} \cup {view[o] : o \in {p \in Owners : InTransaction(p)}}

LEMMA OwnerFacts ==
  /\ Main \in Owners /\ \A c \in Clients : c \in Owners /\ c # Main /\ c # Nobody
  BY MainAssumption, NobodyAssumption DEF Owners

LEMMA KeptFacts ==
  ASSUME DataOK
  PROVE  /\ db \in Kept /\ other \in Kept
         /\ \A o \in Owners : InTransaction(o) => view[o] \in Kept /\ view[o] \in Database
         /\ Kept \subseteq Database
<1>1. \A o \in Owners : InTransaction(o) => view[o] \in Kept /\ view[o] \in Database
  BY DEF DataOK, InTransaction, Kept
<1>2. db \in Kept /\ other \in Kept
  BY DEF Kept
<1>3. ASSUME NEW d \in Kept
      PROVE  d \in Database
  BY <1>1, <1>3 DEF Kept, DataOK
<1> QED BY <1>1, <1>2, <1>3

-----------------------------------------------------------------------------
(* What the steps of a transaction do.                                     *)
LEMMA BeginFacts ==
  ASSUME DataOK, NEW o \in Owners, Begin(o)
  PROVE  /\ DataOK' /\ Kept' \subseteq Kept /\ UNCHANGED <<db, other>>
         /\ InTransaction(o)' /\ view'[o] = db /\ o \in fresh'
         /\ fresh' = fresh \cup {o}
         /\ \A p \in Owners \ {o} : view'[p] = view[p]
         /\ crossed => crossed'
<1>1. /\ view' \in [Owners -> Database \cup {NoView}] /\ view'[o] = db
      /\ \A p \in Owners \ {o} : view'[p] = view[p]
  BY DEF DataOK, Begin
<1>2. InTransaction(o)'
  BY <1>1, NoViewAssumption DEF DataOK, InTransaction
<1>3. crossed' \in BOOLEAN /\ (crossed => crossed')
  BY Zenon DEF Begin, DataOK
<1>4. UNCHANGED <<db, other>> /\ fresh' = fresh \cup {o}
  BY DEF Begin
<1>5. DataOK'
  BY <1>1, <1>3, <1>4 DEF DataOK
<1>6. Kept' \subseteq Kept
  BY <1>1, <1>4 DEF Kept, InTransaction
<1> QED BY <1>1, <1>2, <1>3, <1>4, <1>5, <1>6

LEMMA EndsFacts ==
  ASSUME DataOK, NEW o \in Owners, NEW now \in Database, NEW old \in Database,
         Ends(o, now, old)
  PROVE  /\ db' = now /\ other' \in {now, old} /\ (~Overlapped(o) => other' = now)
         /\ db' \in Database /\ other' \in Database
         /\ view' \in [Owners -> Database \cup {NoView}] /\ crossed' = crossed
         /\ ~InTransaction(o)' /\ \A p \in Owners \ {o} : view'[p] = view[p]
         /\ Kept' \subseteq Kept \cup {now, old}
<1>1. /\ db' = now /\ other' \in {now, old} /\ (~Overlapped(o) => other' = now)
      /\ crossed' = crossed
  BY DEF Ends
<1>2. /\ view' \in [Owners -> Database \cup {NoView}]
      /\ ~InTransaction(o)' /\ \A p \in Owners \ {o} : view'[p] = view[p]
  BY DEF Ends, DataOK, InTransaction
<1>3. Kept' \subseteq Kept \cup {now, old}
  BY <1>1, <1>2 DEF Kept, InTransaction
<1> QED BY <1>1, <1>2, <1>3

LEMMA CommitFacts ==
  ASSUME DataOK, NEW o \in Owners, NEW new \in Database, Commit(o, new)
  PROVE  /\ DataOK' /\ Kept' \subseteq Kept \cup {new} /\ crossed' = crossed
         /\ ~InTransaction(o)' /\ \A p \in Owners \ {o} : view'[p] = view[p]
         /\ o \in fresh => db' = new
         /\ ~Overlapped(o) => other' = db'
<1>1. PICK now \in {new, db, other}, old \in {new, db, other} :
        Ends(o, now, old) /\ (o \in fresh => now = new)
  BY DEF Commit
<1>2. now \in Database /\ old \in Database /\ {now, old} \subseteq Kept \cup {new}
  BY KeptFacts DEF DataOK
<1>3. fresh' \subseteq Owners
  BY DEF Commit
<1> QED BY <1>1, <1>2, <1>3, EndsFacts DEF DataOK

LEMMA RollbackFacts ==
  ASSUME DataOK, NEW o \in Owners, Rollback(o)
  PROVE  /\ DataOK' /\ Kept' \subseteq Kept /\ crossed' = crossed
         /\ ~InTransaction(o)' /\ \A p \in Owners \ {o} : view'[p] = view[p]
         /\ db' = db /\ fresh' = fresh \ {o}
         /\ ~Overlapped(o) => other' = db'
<1>1. db \in Database /\ other \in Database /\ {db, other} \subseteq Kept
  BY KeptFacts DEF DataOK
<1>2. Ends(o, db, other) /\ fresh' = fresh \ {o}
  BY DEF Rollback
<1> QED BY <1>1, <1>2, EndsFacts DEF DataOK

(* What a transaction writes.                                              *)
WithLogin(d, p) == [d EXCEPT !.login = p]
WithKey(d, p, k) == [d EXCEPT !.encPwd = p, !.encKey = k]
Resealed(d, p, k) ==
  [d EXCEPT !.encPwd = p, !.encKey = k, !.rootSeal = IF @ = 0 THEN 0 ELSE k]
WithSeal(d, k) == [d EXCEPT !.rootSeal = k]

LEMMA WriteFacts ==
  ASSUME NEW d \in Database, NEW p \in Passwords \cup {NoPassword}, NEW k \in Nat
  PROVE  /\ WithLogin(d, p) \in Database /\ WithLogin(d, p).login = p
         /\ WithLogin(d, p).encPwd = d.encPwd /\ WithLogin(d, p).encKey = d.encKey
         /\ WithLogin(d, p).rootSeal = d.rootSeal
         /\ WithKey(d, p, k) \in Database /\ WithKey(d, p, k).login = d.login
         /\ WithKey(d, p, k).encPwd = p /\ WithKey(d, p, k).encKey = k
         /\ WithKey(d, p, k).rootSeal = d.rootSeal
         /\ Resealed(d, p, k) \in Database /\ Resealed(d, p, k).login = d.login
         /\ Resealed(d, p, k).encPwd = p /\ Resealed(d, p, k).encKey = k
         /\ Resealed(d, p, k).rootSeal = IF d.rootSeal = 0 THEN 0 ELSE k
         /\ WithSeal(d, k) \in Database /\ WithSeal(d, k).login = d.login
         /\ WithSeal(d, k).encPwd = d.encPwd /\ WithSeal(d, k).encKey = d.encKey
         /\ WithSeal(d, k).rootSeal = k
  BY DEF Database, WithLogin, WithKey, Resealed, WithSeal

(* The same, for one kind of write at a time.                              *)
LEMMA KeyFacts ==
  ASSUME NEW d \in Database, NEW p \in Passwords \cup {NoPassword}, NEW k \in Nat
  PROVE  /\ WithKey(d, p, k).login = d.login /\ WithKey(d, p, k).encPwd = p
         /\ WithKey(d, p, k).encKey = k /\ WithKey(d, p, k).rootSeal = d.rootSeal
  BY WriteFacts

LEMMA ResealFacts ==
  ASSUME NEW d \in Database, NEW p \in Passwords \cup {NoPassword}, NEW k \in Nat
  PROVE  /\ Resealed(d, p, k).login = d.login /\ Resealed(d, p, k).encPwd = p
         /\ Resealed(d, p, k).encKey = k
         /\ Resealed(d, p, k).rootSeal = IF d.rootSeal = 0 THEN 0 ELSE k
  BY WriteFacts

LEMMA SealFacts ==
  ASSUME NEW d \in Database, NEW k \in Nat
  PROVE  /\ WithSeal(d, k).login = d.login /\ WithSeal(d, k).encPwd = d.encPwd
         /\ WithSeal(d, k).encKey = d.encKey /\ WithSeal(d, k).rootSeal = k
  BY DEF Database, WithSeal

-----------------------------------------------------------------------------
(* The passwords of a request, and what is made of them.                   *)
LEMMA RequestFacts ==
  ASSUME NEW c \in Clients, req[c] \in Requests
  PROVE  /\ req[c].cur \in Passwords /\ req[c].new \in Passwords \cup {NoPassword}
         /\ Overwrites(c) => req[c].new \in Passwords
         /\ NewLogin(c) \in Passwords /\ Sent(c) = NewLogin(c)
  BY DEF Requests, NewLogin, Sent, Overwrites

LEMMA TypeData ==
  ASSUME TypeInv
  PROVE  /\ DataOK /\ pc \in [Clients -> Places] /\ req \in [Clients -> Requests \cup {NoRequest}]
         /\ keysMade \in Nat
  BY DEF TypeInv, TypeOK, DataOK, Places

LEMMA GotoFacts ==
  ASSUME TypeInv, NEW c \in Clients, NEW place \in Places, Goto(c, place)
  PROVE  /\ pc' \in [Clients -> Places] /\ pc'[c] = place /\ req' = req
         /\ \A d \in Clients \ {c} : pc'[d] = pc[d] /\ req'[d] = req[d]
  BY TypeData DEF Goto

LEMMA ReturnFacts ==
  ASSUME TypeInv, NEW c \in Clients, Return(c)
  PROVE  /\ pc' \in [Clients -> Places] /\ req' \in [Clients -> Requests \cup {NoRequest}]
         /\ pc'[c] = "idle"
         /\ \A d \in Clients \ {c} : pc'[d] = pc[d] /\ req'[d] = req[d]
  BY TypeData DEF Return, Places

(* How the mutex may change in a step of c.                                *)
MutexStep(c) ==
  \/ UNCHANGED mutex
  \/ mutex' = Nobody /\ pc[c] \in {"read", "write"}
  \/ mutex = Nobody /\ mutex' = c

(* A step of c leaves the other handlers as they are.                      *)
LEMMA HandlersAside ==
  ASSUME TypeInv, NEW c \in Clients, HandlerInv(c)', MutexStep(c),
         \A d \in Clients \ {c} : pc'[d] = pc[d] /\ req'[d] = req[d] /\ view'[d] = view[d]
  PROVE  \A d \in Clients : HandlerInv(d)'
<1> SUFFICES ASSUME NEW d \in Clients \ {c}
             PROVE  HandlerInv(d)'
  OBVIOUS
<1>1. HandlerInv(d) /\ HandlerInv(c)
  BY DEF TypeInv
<1>2. pc[d] \in {"read", "write"} <=> mutex' = d
  BY <1>1, OwnerFacts DEF HandlerInv, MutexStep
<1> QED BY <1>1, <1>2 DEF HandlerInv, InTransaction, Overwrites

-----------------------------------------------------------------------------
(***************************************************************************)
(* What a step of a handler may write, and what it leaves alone.           *)
(***************************************************************************)

ReadsOnly == Kept' \subseteq Kept /\ UNCHANGED <<known, firstSets>>

SetsLogin(c) ==
  /\ At(c, "write") /\ InTransaction(c)
  /\ view[c].login = NoPassword \/ Overwrites(c)
  /\ Kept' \subseteq Kept \cup {WithLogin(view[c], NewLogin(c))}
  /\ ~InTransaction(c)' /\ (~Overlapped(c) => other' = db')
  /\ c \in fresh => db' = WithLogin(view[c], NewLogin(c))
  /\ known' = known \cup {NewLogin(c)}
  /\ firstSets' = IF Overwrites(c) THEN firstSets ELSE firstSets + 1

MakesKey(c) ==
  /\ At(c, "unlockStore") /\ InTransaction(c)
  /\ view[c].encPwd = NoPassword
  /\ Kept' \subseteq Kept \cup {WithKey(view[c], req[c].cur, keysMade + 1)}
  /\ UNCHANGED <<known, firstSets>>

ChangesKey(c) ==
  /\ At(c, "changeStore") /\ InTransaction(c)
  /\ Changeable(view[c], req[c].cur)
  /\ Kept' \subseteq Kept \cup {Resealed(view[c], req[c].new, keysMade + 1)}
  /\ UNCHANGED <<known, firstSets>>

Writes(c) == ReadsOnly \/ SetsLogin(c) \/ MakesKey(c) \/ ChangesKey(c)

(* What a step of c does to its transaction.                               *)
Transacts(c) ==
  \/ UNCHANGED dbVars
  \/ ~InTransaction(c) /\ Begin(c)
  \/ InTransaction(c) /\ ~InTransaction(c)' /\ (~Overlapped(c) => other' = db')

(* The control state of c and the transactions after a step of it.         *)
Moves(c) ==
  /\ DataOK' /\ (crossed => crossed')
  /\ pc' \in [Clients -> Places] /\ req' \in [Clients -> Requests \cup {NoRequest}]
  /\ HandlerInv(c)' /\ Transacts(c)
  /\ \A d \in Clients \ {c} : pc'[d] = pc[d] /\ req'[d] = req[d]
  /\ \A o \in Owners \ {c} : view'[o] = view[o]
  /\ MutexStep(c)

LEMMA LockFacts ==
  ASSUME TypeInv, NEW c \in Clients, Lock(c)
  PROVE  Moves(c) /\ ReadsOnly
<1>0. c \in Owners /\ DataOK /\ HandlerInv(c)
  BY OwnerFacts, TypeData DEF TypeInv
<1>1. PICK place \in {"read", "write"} : Goto(c, place) /\ pc[c] \in {"lockToRead", "lockToWrite"}
  BY DEF Lock, At
<1>2. /\ pc' \in [Clients -> Places] /\ pc'[c] = place /\ req' = req
      /\ \A d \in Clients \ {c} : pc'[d] = pc[d] /\ req'[d] = req[d]
  BY <1>1, GotoFacts DEF Places
<1>3. /\ DataOK' /\ Kept' \subseteq Kept /\ InTransaction(c)' /\ (crossed => crossed')
      /\ \A o \in Owners \ {c} : view'[o] = view[o]
  BY <1>0, BeginFacts DEF Lock
<1>4. mutex = Nobody /\ mutex' = c /\ UNCHANGED <<known, firstSets>>
  BY DEF Lock, histVars
<1>5. HandlerInv(c)' /\ Transacts(c)
  <2>1. ~InTransaction(c)
    BY <1>0, <1>1 DEF HandlerInv, TransactionPlaces
  <2> QED BY <1>0, <1>1, <1>2, <1>3, <1>4, <2>1
          DEF HandlerInv, TransactionPlaces, StorePlaces, Transacts, Lock
<1>6. req' \in [Clients -> Requests \cup {NoRequest}]
  BY <1>2, TypeData
<1> QED BY <1>2, <1>3, <1>4, <1>5, <1>6 DEF Moves, MutexStep, ReadsOnly

(* Whatever ends a transaction of c and sends it to a place outside one.   *)
LEMMA EndsMoves ==
  ASSUME TypeInv, NEW c \in Clients, pc[c] # "idle", MutexStep(c),
         pc[c] \in {"read", "write"} => mutex' = Nobody, mutex' # c \/ mutex = c,
         DataOK', crossed' = crossed, ~InTransaction(c)', Transacts(c),
         \A p \in Owners \ {c} : view'[p] = view[p],
         \/ Return(c)
         \/ \E place \in Places \ {"idle", "read", "write", "initStore", "initLocked"} :
              Goto(c, place) /\ (place \in StorePlaces => Overwrites(c))
  PROVE  Moves(c)
<1>0. HandlerInv(c) /\ req \in [Clients -> Requests \cup {NoRequest}]
  BY TypeData DEF TypeInv
<1>1. CASE Return(c)
  <2>1. HandlerInv(c)'
    BY <1>0, <1>1, ReturnFacts, OwnerFacts DEF HandlerInv, StorePlaces
  <2> QED BY <1>1, <2>1, ReturnFacts DEF Moves
<1>2. ASSUME NEW place \in Places \ {"idle", "read", "write", "initStore", "initLocked"},
             Goto(c, place), place \in StorePlaces => Overwrites(c)
      PROVE  Moves(c)
  <2>1. /\ pc' \in [Clients -> Places] /\ pc'[c] = place /\ req' = req
        /\ \A d \in Clients \ {c} : pc'[d] = pc[d] /\ req'[d] = req[d]
    BY <1>2, GotoFacts
  <2>2. HandlerInv(c)'
    BY <1>0, <1>2, <2>1, OwnerFacts DEF HandlerInv, Overwrites
  <2> QED BY <1>0, <2>1, <2>2 DEF Moves
<1> QED BY <1>1, <1>2

LEMMA ReadPasswordFacts ==
  ASSUME TypeInv, NEW c \in Clients, ReadPassword(c)
  PROVE  Moves(c) /\ ReadsOnly
<1>0. /\ c \in Owners /\ DataOK /\ HandlerInv(c) /\ pc[c] = "read" /\ InTransaction(c)
      /\ view[c] \in Kept /\ view[c] \in Database
  BY OwnerFacts, TypeData, KeptFacts DEF TypeInv, HandlerInv, ReadPassword, At
<1>1. MutexStep(c) /\ mutex' = Nobody /\ mutex' # c /\ UNCHANGED <<known, firstSets>>
  BY <1>0, OwnerFacts DEF ReadPassword, MutexStep, histVars
<1>2. CASE Rollback(c) /\ Return(c)
  BY <1>0, <1>1, <1>2, RollbackFacts, EndsMoves DEF ReadsOnly, Transacts
<1>3. CASE /\ Commit(c, view[c])
           /\ \E place \in {"send", "lockToWrite"} : Goto(c, place)
  <2>1. Moves(c)
    BY <1>0, <1>1, <1>3, CommitFacts, EndsMoves DEF Places, StorePlaces, Transacts
  <2>2. Kept' \subseteq Kept
    BY <1>0, <1>3, CommitFacts
  <2> QED BY <1>1, <2>1, <2>2 DEF ReadsOnly
<1> QED BY <1>2, <1>3 DEF ReadPassword, PasswordRead

LEMMA SetPasswordFacts ==
  ASSUME TypeInv, NEW c \in Clients, SetPassword(c)
  PROVE  Moves(c) /\ SetsLogin(c)
<1>0. /\ c \in Owners /\ DataOK /\ HandlerInv(c) /\ pc[c] = "write" /\ InTransaction(c)
      /\ view[c] \in Kept /\ view[c] \in Database
  BY OwnerFacts, TypeData, KeptFacts DEF TypeInv, HandlerInv, SetPassword, At
<1>1. MutexStep(c) /\ mutex' = Nobody /\ mutex' # c
  BY <1>0, OwnerFacts DEF SetPassword, PasswordStored, MutexStep
<1>2. NewLogin(c) \in Passwords
  BY <1>0, RequestFacts DEF HandlerInv
<1>3. Commit(c, WithLogin(view[c], NewLogin(c)))
  BY DEF SetPassword, PasswordStored, WithLogin
<1>4. WithLogin(view[c], NewLogin(c)) \in Database
  BY <1>0, <1>2, WriteFacts
<1>5. \E place \in {"send", "removeAdmin", "copyStore"} :
        Goto(c, place) /\ (place # "send" => Overwrites(c))
  <2>1. CASE Overwrites(c)
    BY <2>1 DEF SetPassword, PasswordStored
  <2>2. CASE ~Overwrites(c)
    BY <2>2 DEF SetPassword, PasswordStored
  <2> QED BY <2>1, <2>2
<1>6. Moves(c)
  BY <1>0, <1>1, <1>3, <1>4, <1>5, CommitFacts, EndsMoves DEF Places, StorePlaces, Transacts
<1>7. /\ Kept' \subseteq Kept \cup {WithLogin(view[c], NewLogin(c))}
      /\ ~InTransaction(c)' /\ (~Overlapped(c) => other' = db')
      /\ c \in fresh => db' = WithLogin(view[c], NewLogin(c))
  BY <1>0, <1>3, <1>4, CommitFacts
<1> QED BY <1>0, <1>6, <1>7 DEF SetPassword, PasswordStored, SetsLogin, At

LEMMA AsideKept ==
  ASSUME UNCHANGED dbVars
  PROVE  /\ Kept' = Kept /\ (DataOK => DataOK') /\ UNCHANGED <<db, other, view, fresh, crossed>>
         /\ \A o \in Owners : InTransaction(o)' = InTransaction(o)
  BY DEF dbVars, Kept, DataOK, InTransaction

(* Whatever leaves the transactions alone.                                 *)
LEMMA AsideMoves ==
  ASSUME TypeInv, NEW c \in Clients, pc[c] # "idle", UNCHANGED mutex, UNCHANGED dbVars,
         ~InTransaction(c), pc[c] \notin {"read", "write"},
         \/ Return(c)
         \/ \E place \in Places \ {"idle", "read", "write", "initStore", "initLocked"} :
              Goto(c, place) /\ (place \in StorePlaces => Overwrites(c))
  PROVE  Moves(c)
  BY TypeData, AsideKept, EndsMoves, OwnerFacts DEF MutexStep, Transacts

LEMMA RemoveFilesFacts ==
  ASSUME TypeInv, NEW c \in Clients, RemoveFiles(c)
  PROVE  Moves(c) /\ ReadsOnly
<1>1. PICK place \in {"removeAdmin", "removeTest"}, file \in MacaroonFiles,
           next \in {"removeTest", "copyStore"} : RemoveFile(c, place, file, next)
  BY DEF RemoveFiles, MacaroonFiles
<1>2. /\ UNCHANGED <<mutex, known, firstSets>> /\ UNCHANGED dbVars
      /\ Return(c) \/ Goto(c, next)
      /\ pc[c] \in StorePlaces /\ pc[c] \notin TransactionPlaces /\ pc[c] # "idle"
  BY <1>1 DEF RemoveFile, At, histVars, StorePlaces, TransactionPlaces
<1>3. ~InTransaction(c) /\ Overwrites(c)
  BY <1>2 DEF TypeInv, HandlerInv
<1>4. Moves(c)
  BY <1>2, <1>3, AsideMoves DEF Places, StorePlaces
<1> QED BY <1>2, <1>4, AsideKept DEF ReadsOnly

LEMMA CopyStoreFacts ==
  ASSUME TypeInv, NEW c \in Clients, CopyStore(c)
  PROVE  Moves(c) /\ ReadsOnly
<1>0. /\ c \in Owners /\ DataOK /\ HandlerInv(c) /\ pc[c] = "copyStore" /\ Overwrites(c)
      /\ ~InTransaction(c) /\ UNCHANGED <<mutex, known, firstSets>>
  BY OwnerFacts, TypeData
  DEF TypeInv, HandlerInv, CopyStore, At, StorePlaces, TransactionPlaces, histVars
<1>1. PICK place \in {"initStore", "initLocked", "hung"} :
        Goto(c, place) /\ IF place = "hung" THEN UNCHANGED dbVars ELSE Begin(c)
  BY DEF CopyStore, Copied
<1>2. CASE place = "hung"
  <2>1. Moves(c)
    BY <1>0, <1>1, <1>2, AsideMoves DEF Places, StorePlaces
  <2> QED BY <1>0, <1>1, <1>2, <2>1, AsideKept DEF ReadsOnly
<1>3. CASE place # "hung"
  <2>1. /\ pc' \in [Clients -> Places] /\ pc'[c] = place /\ req' = req
        /\ \A d \in Clients \ {c} : pc'[d] = pc[d] /\ req'[d] = req[d]
    BY <1>1, GotoFacts DEF Places
  <2>2. /\ DataOK' /\ Kept' \subseteq Kept /\ InTransaction(c)' /\ (crossed => crossed')
        /\ \A o \in Owners \ {c} : view'[o] = view[o]
    BY <1>0, <1>1, <1>3, BeginFacts
  <2>3. HandlerInv(c)' /\ Transacts(c)
    BY <1>0, <1>1, <1>3, <2>1, <2>2
    DEF HandlerInv, TransactionPlaces, StorePlaces, Overwrites, Transacts
  <2>4. req' \in [Clients -> Requests \cup {NoRequest}]
    BY <2>1, TypeData
  <2> QED BY <1>0, <2>1, <2>2, <2>3, <2>4 DEF Moves, MutexStep, ReadsOnly
<1> QED BY <1>2, <1>3

LEMMA InitStoreFacts ==
  ASSUME TypeInv, NEW c \in Clients, InitStore(c)
  PROVE  Moves(c) /\ ReadsOnly
<1>0. /\ c \in Owners /\ DataOK /\ pc[c] \in {"initStore", "initLocked"} /\ Overwrites(c)
      /\ InTransaction(c)
      /\ UNCHANGED <<mutex, known, firstSets>>
      /\ view[c] \in Kept /\ view[c] \in Database
  BY OwnerFacts, TypeData, KeptFacts DEF TypeInv, HandlerInv, InitStore, At, StorePlaces, histVars
<1>1. \E place \in {"unlockStore", "hung"} : Goto(c, place)
  BY DEF InitStore
<1>2. Commit(c, view[c])
  BY DEF InitStore
<1>3. Moves(c)
  BY <1>0, <1>1, <1>2, CommitFacts, EndsMoves DEF Places, StorePlaces, MutexStep, Transacts
<1>4. Kept' \subseteq Kept
  BY <1>0, <1>2, CommitFacts
<1> QED BY <1>0, <1>3, <1>4 DEF ReadsOnly

LEMMA BeginStoreFacts ==
  ASSUME TypeInv, NEW c \in Clients, BeginStore(c)
  PROVE  Moves(c) /\ ReadsOnly
<1>0. /\ c \in Owners /\ DataOK /\ HandlerInv(c) /\ pc[c] \in {"unlockStore", "changeStore"}
      /\ UNCHANGED <<mutex, pc, req, known, firstSets>>
  BY OwnerFacts, TypeData DEF TypeInv, BeginStore, callVars, histVars
<1>1. /\ DataOK' /\ Kept' \subseteq Kept /\ InTransaction(c)' /\ (crossed => crossed')
      /\ \A o \in Owners \ {c} : view'[o] = view[o]
  BY <1>0, BeginFacts DEF BeginStore
<1>2. HandlerInv(c)' /\ Transacts(c)
  BY <1>0, <1>1 DEF HandlerInv, TransactionPlaces, Overwrites, Transacts, BeginStore
<1> QED BY <1>0, <1>1, <1>2, TypeData DEF Moves, MutexStep, ReadsOnly

LEMMA CreateUnlockFacts ==
  ASSUME TypeInv, NEW o \in Owners, NEW p \in Passwords \cup {NoPassword}, InTransaction(o),
         CreateUnlock(o, p)
  PROVE  \E new \in Database :
           /\ Commit(o, new)
           /\ \/ new = view[o] /\ view[o].encPwd = p /\ UNCHANGED keysMade
              \/ /\ new = WithKey(view[o], p, keysMade + 1)
                 /\ view[o].encPwd = NoPassword /\ keysMade' = keysMade + 1
<1>1. view[o] \in Database /\ keysMade + 1 \in Nat
  BY TypeData, KeptFacts
<1>2. CASE view[o].encPwd = p /\ Commit(o, view[o]) /\ UNCHANGED keysMade
  BY <1>1, <1>2
<1>3. CASE /\ view[o].encPwd = NoPassword /\ keysMade' = keysMade + 1
           /\ Commit(o, [view[o] EXCEPT !.encPwd = p, !.encKey = keysMade + 1])
  BY <1>1, <1>3, WriteFacts DEF WithKey
<1> QED BY <1>2, <1>3 DEF CreateUnlock

LEMMA UnlockStoreFacts ==
  ASSUME TypeInv, NEW c \in Clients, UnlockStore(c)
  PROVE  Moves(c) /\ (ReadsOnly \/ MakesKey(c))
<1>0. /\ c \in Owners /\ DataOK /\ pc[c] = "unlockStore" /\ InTransaction(c) /\ Overwrites(c)
      /\ UNCHANGED <<mutex, known, firstSets>> /\ req[c] \in Requests
      /\ view[c] \in Kept /\ view[c] \in Database
  BY OwnerFacts, TypeData, KeptFacts
  DEF TypeInv, HandlerInv, UnlockStore, At, StorePlaces, histVars
<1>1. CASE CreateUnlock(c, req[c].cur) /\ Goto(c, "changeStore")
  <2>1. req[c].cur \in Passwords \cup {NoPassword}
    BY <1>0, RequestFacts
  <2>2. PICK new \in Database :
           /\ Commit(c, new)
           /\ \/ new = view[c]
              \/ new = WithKey(view[c], req[c].cur, keysMade + 1) /\ view[c].encPwd = NoPassword
    BY <1>0, <1>1, <2>1, CreateUnlockFacts
  <2>3. Moves(c)
    BY <1>0, <1>1, <2>2, CommitFacts, EndsMoves DEF Places, StorePlaces, MutexStep, Transacts
  <2>4. Kept' \subseteq Kept \cup {new}
    BY <1>0, <2>2, CommitFacts
  <2> QED BY <1>0, <2>2, <2>3, <2>4 DEF ReadsOnly, MakesKey, At
<1>2. CASE CreateUnlockFails(c, req[c].cur) /\ Return(c)
  <2>1. Rollback(c)
    BY <1>2 DEF CreateUnlockFails
  <2> QED BY <1>0, <1>2, <2>1, RollbackFacts, EndsMoves DEF ReadsOnly, MutexStep, Transacts
<1> QED BY <1>1, <1>2 DEF UnlockStore

LEMMA ChangeStoreFacts ==
  ASSUME TypeInv, NEW c \in Clients, ChangeStore(c)
  PROVE  Moves(c) /\ ChangesKey(c)
<1>0. /\ c \in Owners /\ DataOK /\ pc[c] = "changeStore" /\ InTransaction(c) /\ Overwrites(c)
      /\ UNCHANGED <<mutex, known, firstSets>> /\ req[c] \in Requests
      /\ view[c] \in Kept /\ view[c] \in Database
  BY OwnerFacts, TypeData, KeptFacts
  DEF TypeInv, HandlerInv, ChangeStore, At, StorePlaces, histVars
<1>1. req[c].new \in Passwords \cup {NoPassword} /\ keysMade + 1 \in Nat
  BY <1>0, RequestFacts, TypeData
<1>2. /\ Commit(c, Resealed(view[c], req[c].new, keysMade + 1)) /\ Goto(c, "send")
      /\ Changeable(view[c], req[c].cur)
  BY DEF ChangeStore, Resealed
<1>3. Resealed(view[c], req[c].new, keysMade + 1) \in Database
  BY <1>0, <1>1, WriteFacts
<1>4. Moves(c)
  BY <1>0, <1>2, <1>3, CommitFacts, EndsMoves DEF Places, StorePlaces, MutexStep, Transacts
<1>5. Kept' \subseteq Kept \cup {Resealed(view[c], req[c].new, keysMade + 1)}
  BY <1>0, <1>2, <1>3, CommitFacts
<1> QED BY <1>0, <1>2, <1>4, <1>5 DEF ChangesKey, At

(* The steps that only end a call.                                         *)
LEMMA GivesUpFacts ==
  ASSUME TypeInv, NEW c \in Clients,
         SetPasswordRefused(c) \/ ChangeStoreFails(c) \/ StorageFails(c)
  PROVE  Moves(c) /\ ReadsOnly
<1>0. c \in Owners /\ DataOK /\ HandlerInv(c)
  BY OwnerFacts, TypeData DEF TypeInv
<1>1. /\ pc[c] # "idle" /\ MutexStep(c) /\ UNCHANGED <<known, firstSets>> /\ Return(c)
      /\ (pc[c] \in {"read", "write"} => mutex' = Nobody) /\ (mutex' # c \/ mutex = c)
      /\ \/ InTransaction(c) /\ Rollback(c)
         \/ pc[c] \in {"removeAdmin", "removeTest"} /\ UNCHANGED <<dbVars, mutex>>
  <2>1. CASE SetPasswordRefused(c)
    BY <1>0, <2>1, OwnerFacts DEF SetPasswordRefused, At, histVars, HandlerInv, MutexStep
  <2>2. CASE ChangeStoreFails(c)
    BY <2>2 DEF ChangeStoreFails, At, histVars, MutexStep
  <2>3. CASE StorageFails(c)
    <3>1. CASE mutex = c
      BY <1>0, <2>3, <3>1, OwnerFacts DEF StorageFails, histVars, MutexStep, HandlerInv
    <3>2. CASE mutex # c
      BY <1>0, <2>3, <3>2 DEF StorageFails, histVars, MutexStep, HandlerInv, TransactionPlaces
    <3> QED BY <3>1, <3>2
  <2> QED BY <2>1, <2>2, <2>3
<1>2. CASE InTransaction(c) /\ Rollback(c)
  BY <1>0, <1>1, <1>2, RollbackFacts, EndsMoves DEF ReadsOnly, Transacts
<1>3. CASE pc[c] \in {"removeAdmin", "removeTest"} /\ UNCHANGED <<dbVars, mutex>>
  <2>1. ~InTransaction(c)
    BY <1>0, <1>3 DEF HandlerInv, TransactionPlaces
  <2>2. Moves(c)
    BY <1>1, <1>3, <2>1, AsideMoves
  <2> QED BY <1>1, <1>3, <2>2, AsideKept DEF ReadsOnly
<1> QED BY <1>1, <1>2, <1>3

LEMMA SendFacts ==
  ASSUME TypeInv, NEW c \in Clients, Send(c) \/ SendAbandoned(c)
  PROVE  Moves(c) /\ ReadsOnly
<1>1. /\ pc[c] = "send" /\ UNCHANGED <<mutex, known, firstSets>> /\ UNCHANGED dbVars /\ Return(c)
  BY DEF Send, SendAbandoned, At, histVars
<1>2. ~InTransaction(c)
  BY <1>1 DEF TypeInv, HandlerInv, TransactionPlaces
<1>3. Moves(c)
  BY <1>1, <1>2, AsideMoves
<1> QED BY <1>1, <1>3, AsideKept DEF ReadsOnly

LEMMA HandlerFacts ==
  ASSUME TypeInv, NEW c \in Clients, HandlerStep(c)
  PROVE  Moves(c) /\ Writes(c)
  BY LockFacts, ReadPasswordFacts, SetPasswordFacts, RemoveFilesFacts, CopyStoreFacts,
     InitStoreFacts, BeginStoreFacts, UnlockStoreFacts, ChangeStoreFacts, GivesUpFacts, SendFacts
  DEF HandlerStep, Writes

(* What a step of a handler leaves alone.                                  *)
LEMMA HandlerFrame ==
  ASSUME TypeInv, NEW c \in Clients, HandlerStep(c)
  PROVE  /\ UNCHANGED <<gate, mainPc, mainPwd, mainKey, late, load>>
         /\ pc[c] # "idle" /\ files' \subseteq files
         /\ keysMade' \in {keysMade, keysMade + 1}
         /\ msgs' = msgs \/ (At(c, "send") /\ msgs' = <<Sent(c)>>)
<1> USE DEF At, procVars, mainVars, callVars, histVars
<1>1. CASE Lock(c) \/ ReadPassword(c) \/ SetPasswordRefused(c) \/ SetPassword(c)
  BY <1>1 DEF Lock, ReadPassword, SetPasswordRefused, SetPassword, PasswordStored
<1>2. CASE RemoveFiles(c)
  BY <1>2 DEF RemoveFiles, RemoveFile
<1>3. CASE CopyStore(c) \/ InitStore(c) \/ BeginStore(c)
  BY <1>3 DEF CopyStore, InitStore, BeginStore
<1>4. CASE UnlockStore(c)
  BY <1>4 DEF UnlockStore, CreateUnlock, CreateUnlockFails
<1>5. CASE ChangeStore(c) \/ ChangeStoreFails(c)
  BY <1>5 DEF ChangeStore, ChangeStoreFails
<1>6. CASE StorageFails(c)
  BY <1>6 DEF StorageFails, TypeInv, HandlerInv, TransactionPlaces
<1>7. CASE Send(c) \/ SendAbandoned(c)
  BY <1>7 DEF Send, SendAbandoned
<1> QED BY <1>1, <1>2, <1>3, <1>4, <1>5, <1>6, <1>7 DEF HandlerStep

LEMMA HandlerType ==
  ASSUME TypeInv, NEW c \in Clients, HandlerStep(c)
  PROVE  TypeInv'
<1>1. Moves(c) /\ Writes(c)
  BY HandlerFacts
<1>2. \A d \in Clients : HandlerInv(d)'
  BY <1>1, HandlersAside DEF Moves, Owners
<1>3. MainInv'
  BY <1>1, HandlerFrame, OwnerFacts DEF Moves, TypeInv, MainInv, InTransaction
<1>4. keysMade' \in Nat /\ mainKey' \in Nat
  BY HandlerFrame DEF TypeInv, TypeOK
<1>5. /\ files' \subseteq MacaroonFiles /\ mutex' \in Clients \cup {Nobody}
  BY <1>1, HandlerFrame DEF TypeInv, TypeOK, Moves, MutexStep
<1>6. msgs' \in Seq(Passwords) /\ Len(msgs') <= 1
  <2>1. CASE msgs' = msgs
    BY <2>1 DEF TypeInv, TypeOK
  <2>2. CASE At(c, "send") /\ msgs' = <<Sent(c)>>
    <3>1. Sent(c) \in Passwords
      BY <2>2, RequestFacts DEF TypeInv, HandlerInv, At
    <3> QED BY <2>2, <3>1
  <2> QED BY <2>1, <2>2, HandlerFrame
<1>7. known' \subseteq Passwords /\ firstSets' \in Nat
  <2>1. CASE UNCHANGED <<known, firstSets>>
    BY <2>1 DEF TypeInv, TypeOK
  <2>2. CASE SetsLogin(c)
    <3>1. NewLogin(c) \in Passwords
      BY <2>2, RequestFacts DEF TypeInv, HandlerInv, At, SetsLogin
    <3> QED BY <2>2, <3>1 DEF SetsLogin, TypeInv, TypeOK
  <2> QED BY <1>1, <2>1, <2>2 DEF Writes, ReadsOnly, MakesKey, ChangesKey
<1>8. TypeOK'
  BY <1>1, <1>4, <1>5, <1>6, <1>7, HandlerFrame DEF Moves, DataOK, TypeInv, TypeOK, Places
<1> QED BY <1>2, <1>3, <1>8 DEF TypeInv

-----------------------------------------------------------------------------
(***************************************************************************)
(* The same for core.Main.                                                 *)
(***************************************************************************)

(* How core.Main ends a transaction, with new if it commits.               *)
MainMakesKey(new) ==
  /\ MainAt("unlockStore") /\ mainPc' = "regenerate" /\ UNCHANGED files
  /\ view[Main].encPwd = NoPassword /\ new = WithKey(view[Main], mainPwd, keysMade + 1)
  /\ keysMade' = keysMade + 1 /\ mainKey' = keysMade + 1

MainOpensKey(new) ==
  /\ MainAt("unlockStore") /\ mainPc' = "regenerate" /\ UNCHANGED <<keysMade, files>>
  /\ view[Main].encPwd = mainPwd /\ new = view[Main]
  /\ mainKey' = IF mainPwd = NoPassword THEN keysMade ELSE view[Main].encKey

MainSeals(new) ==
  /\ \/ MainAt("bakeAdmin") /\ mainPc' \in {"bakeTest", "exit"}
     \/ MainAt("bakeTest") /\ mainPc' \in {"activate", "exit"}
  /\ files \subseteq files' /\ files' \subseteq MacaroonFiles /\ UNCHANGED <<keysMade, mainKey>>
  /\ view[Main].rootSeal \in {0, mainKey} /\ new = WithSeal(view[Main], mainKey)

MainInits(new) ==
  /\ mainPc \in {"initStore", "initLocked"} /\ mainPc' \in {"unlockStore", "hung"}
  /\ new = view[Main] /\ UNCHANGED <<keysMade, mainKey, files>>

MainCommits(new) ==
  /\ InTransaction(Main) /\ Commit(Main, new) /\ new \in Database
  /\ MainMakesKey(new) \/ MainOpensKey(new) \/ MainSeals(new) \/ MainInits(new)

MainGivesUp ==
  /\ InTransaction(Main) /\ Rollback(Main) /\ mainPc' = "exit"
  /\ UNCHANGED <<keysMade, mainKey, files>>

(* The other steps of core.Main, by what they do to transactions.          *)
MainBegins ==
  /\ Begin(Main) /\ UNCHANGED <<keysMade, mainKey, files>>
  /\ \/ mainPc = "copyStore" /\ mainPc' \in {"initStore", "initLocked"}
     \/ mainPc \in {"unlockStore", "bakeAdmin", "bakeTest"} /\ ~InTransaction(Main) /\ UNCHANGED mainPc

MainGoesOn ==
  /\ UNCHANGED dbVars /\ ~InTransaction(Main) /\ UNCHANGED <<keysMade, mainKey>>
  /\ files' \subseteq files
  /\ \/ mainPc \in {"lock", "await", "unlock"} /\ mainPc' \in {"await", "unlock", "copyStore"}
     \/ mainPc = "copyStore" /\ mainPc' = "hung"
     \/ mainPc = "regenerate" /\ mainPc' = "bakeAdmin"
     \/ mainPc = "bakeAdmin" /\ "admin" \in files /\ mainPc' = "bakeTest" /\ UNCHANGED files
     \/ mainPc = "bakeTest" /\ "test" \in files /\ mainPc' = "activate" /\ UNCHANGED files
     \/ mainPc = "activate" /\ mainPc' = "active"

MainFrame ==
  /\ UNCHANGED <<mutex, pc, req, load, known, firstSets>>
  /\ msgs' = msgs \/ (MainAt("await") /\ msgs # << >> /\ msgs' = Tail(msgs))
  /\ mainPwd' = mainPwd \/ (MainAt("await") /\ msgs # << >> /\ mainPwd' = Head(msgs))
  /\ gate' \in {gate, "daemonLocked", "daemonUnlocked", "rpcActive"}
  /\ late' = late \/ (MainAt("unlock") /\ late' = (\E c \in Clients : ~At(c, "idle")))

LEMMA MainFrameFacts == MainStep => MainFrame
<1> SUFFICES ASSUME MainStep PROVE MainFrame
  OBVIOUS
<1> USE DEF MainFrame, MainGoto, callVars, histVars
<1>1. CASE SetDaemonLocked \/ TakePassword \/ SetRPCActive \/ MainStorageFails
  BY <1>1 DEF SetDaemonLocked, TakePassword, SetRPCActive, MainStorageFails
<1>2. CASE SetDaemonUnlocked
  BY <1>2 DEF SetDaemonUnlocked
<1>3. CASE MainCopyStore \/ MainInitStore \/ MainUnlockStore
  BY <1>3 DEF MainCopyStore, MainInitStore, MainUnlockStore
<1>4. CASE MainBegin
  BY <1>4 DEF MainBegin, procVars, mainVars
<1>5. ASSUME NEW removed, Regenerate(removed)
      PROVE  MainFrame
  BY <1>5 DEF Regenerate
<1>6. ASSUME NEW place, NEW file, NEW next, Bake(place, file, next)
      PROVE  MainFrame
  BY <1>6 DEF Bake
<1> QED BY <1>1, <1>2, <1>3, <1>4, <1>5, <1>6 DEF MainStep

LEMMA MainFacts ==
  ASSUME TypeInv, MainStep
  PROVE  \/ MainGoesOn \/ MainBegins \/ MainGivesUp
         \/ \E new \in Database : MainCommits(new)
<1> USE DEF MainAt, MainGoto
<1>0. /\ MainInv /\ mainPwd \in Passwords \cup {NoPassword} /\ mainKey \in Nat /\ keysMade + 1 \in Nat
      /\ InTransaction(Main) => view[Main] \in Database
      /\ files \subseteq MacaroonFiles
  BY TypeData, KeptFacts, OwnerFacts DEF TypeInv, TypeOK
<1>1. CASE SetDaemonLocked \/ TakePassword \/ SetDaemonUnlocked \/ SetRPCActive
  <2>1. MainGoesOn
    BY <1>0, <1>1
    DEF SetDaemonLocked, TakePassword, SetDaemonUnlocked, SetRPCActive, MainGoesOn, MainInv,
        MainPlaces
  <2> QED BY <2>1
<1>2. CASE MainCopyStore
  <2>1. MainGoesOn \/ MainBegins
    BY <1>0, <1>2 DEF MainCopyStore, Copied, MainGoesOn, MainBegins, MainInv, MainPlaces
  <2> QED BY <2>1
<1>3. CASE MainInitStore
  <2>1. InTransaction(Main)
    BY <1>0, <1>3 DEF MainInitStore, MainInv
  <2>2. MainCommits(view[Main])
    BY <1>0, <1>3, <2>1 DEF MainInitStore, MainCommits, MainInits
  <2> QED BY <1>0, <2>1, <2>2
<1>4. CASE MainBegin
  <2>1. MainBegins
    BY <1>4 DEF MainBegin, MainBegins, procVars, mainVars
  <2> QED BY <2>1
<1>5. CASE MainUnlockStore
  <2>1. CASE CreateUnlock(Main, mainPwd)
    <3>1. PICK new \in Database :
             /\ Commit(Main, new)
             /\ \/ new = view[Main] /\ view[Main].encPwd = mainPwd /\ UNCHANGED keysMade
                \/ /\ new = WithKey(view[Main], mainPwd, keysMade + 1)
                   /\ view[Main].encPwd = NoPassword /\ keysMade' = keysMade + 1
      BY <1>0, <1>5, <2>1, CreateUnlockFacts, OwnerFacts DEF MainUnlockStore
    <3>2. CASE mainPc' = "regenerate"
      <4>1. mainKey' = IF view[Main].encPwd = NoPassword THEN keysMade' ELSE view[Main].encKey
        BY <1>5, <3>2 DEF MainUnlockStore
      <4>2. MainCommits(new)
        BY <1>0, <1>5, <3>1, <3>2, <4>1 DEF MainUnlockStore, MainCommits, MainMakesKey, MainOpensKey
      <4> QED BY <4>2
    <3>3. CASE mainPc' # "regenerate"
      <4>1. CreateUnlockFails(Main, mainPwd)
        BY <1>5, <3>3 DEF MainUnlockStore
      <4> QED BY <3>1, <4>1 DEF CreateUnlockFails
    <3> QED BY <3>2, <3>3
  <2>2. CASE CreateUnlockFails(Main, mainPwd) /\ MainGoto("exit") /\ UNCHANGED mainKey
    <3>1. MainGivesUp
      BY <1>5, <2>2 DEF MainUnlockStore, CreateUnlockFails, MainGivesUp
    <3> QED BY <3>1
  <2> QED BY <1>5, <2>1, <2>2 DEF MainUnlockStore
<1>6. ASSUME NEW removed \in SUBSET MacaroonFiles, Regenerate(removed)
      PROVE  MainGoesOn
  BY <1>0, <1>6 DEF Regenerate, MainGoesOn, MainInv, MainPlaces
<1>7. ASSUME NEW place, NEW file \in MacaroonFiles, NEW next, Bake(place, file, next),
             \/ place = "bakeAdmin" /\ file = "admin" /\ next = "bakeTest"
             \/ place = "bakeTest" /\ file = "test" /\ next = "activate"
      PROVE  \/ MainGoesOn \/ MainGivesUp
             \/ \E new \in Database : MainCommits(new)
  <2>1. CASE ~InTransaction(Main)
    BY <1>7, <2>1 DEF Bake, MainGoesOn
  <2>2. CASE InTransaction(Main) /\ RootKey
    <3>1. WithSeal(view[Main], mainKey) \in Database
      BY <1>0, <2>2, WriteFacts
    <3>2. mainPc' \in {next, "exit"} /\ (files' = files \/ files' = files \cup {file})
      BY <1>7 DEF Bake
    <3>3. MainCommits(WithSeal(view[Main], mainKey))
      BY <1>0, <1>7, <2>2, <3>1, <3>2 DEF Bake, RootKey, MainCommits, MainSeals, WithSeal
    <3> QED BY <3>1, <3>3
  <2>3. CASE InTransaction(Main) /\ RootKeyFails /\ mainPc' = "exit" /\ UNCHANGED files
    BY <1>7, <2>3 DEF Bake, RootKeyFails, MainGivesUp
  <2> QED BY <1>7, <2>1, <2>2, <2>3 DEF Bake
<1>8. CASE MainStorageFails
  BY <1>8 DEF MainStorageFails, MainGivesUp
<1> QED BY <1>1, <1>2, <1>3, <1>4, <1>5, <1>6, <1>7, <1>8 DEF MainStep, MacaroonFiles

(* What all steps of core.Main have in common.                             *)
LEMMA MainMoves ==
  ASSUME TypeInv, MainStep
  PROVE  /\ DataOK' /\ (crossed => crossed') /\ MainInv'
         /\ \A c \in Clients : view'[c] = view[c]
         /\ mainPc' \in {"await", "unlock", "copyStore", "initStore", "initLocked",
                        "unlockStore", "regenerate", "bakeAdmin", "bakeTest", "activate",
                        "active", "exit", "hung"}
         /\ keysMade' \in Nat /\ mainKey' \in Nat /\ files' \subseteq MacaroonFiles
<1>0. /\ DataOK /\ Main \in Owners /\ \A c \in Clients : c \in Owners \ {Main}
      /\ mainKey \in Nat /\ keysMade \in Nat /\ files \subseteq MacaroonFiles
  BY TypeData, OwnerFacts DEF TypeInv, TypeOK
<1>1. CASE MainGoesOn
  <2>1. DataOK' /\ UNCHANGED <<view, crossed>>
    BY <1>0, <1>1, AsideKept DEF MainGoesOn
  <2> QED BY <1>0, <1>1, <2>1 DEF MainGoesOn, MainInv, InTransaction
<1>2. CASE MainBegins
  BY <1>0, <1>2, BeginFacts DEF MainBegins, MainInv, MainPlaces
<1>3. CASE MainGivesUp
  BY <1>0, <1>3, RollbackFacts DEF MainGivesUp, MainInv
<1>4. ASSUME NEW new \in Database, MainCommits(new)
      PROVE  /\ DataOK' /\ crossed' = crossed /\ MainInv'
             /\ \A c \in Clients : view'[c] = view[c]
             /\ mainPc' \in {"unlockStore", "hung", "regenerate", "bakeTest", "activate", "exit"}
             /\ keysMade' \in Nat /\ mainKey' \in Nat /\ files' \subseteq MacaroonFiles
  <2>1. /\ DataOK' /\ crossed' = crossed /\ ~InTransaction(Main)'
        /\ \A c \in Clients : view'[c] = view[c]
    BY <1>0, <1>4, CommitFacts DEF MainCommits
  <2>2. mainPc' \in {"unlockStore", "hung", "regenerate", "bakeTest", "activate", "exit"}
    BY <1>4 DEF MainCommits, MainMakesKey, MainOpensKey, MainSeals, MainInits
  <2>3. MainInv'
    BY <2>1, <2>2 DEF MainInv
  <2>4. keysMade' \in Nat /\ files' \subseteq MacaroonFiles
    BY <1>0, <1>4 DEF MainCommits, MainMakesKey, MainOpensKey, MainSeals, MainInits
  <2>5. mainKey' \in Nat
    <3>1. CASE MainOpensKey(new)
      <4>1. view[Main].encKey \in Nat
        BY <3>1 DEF MainOpensKey, Database
      <4> QED BY <1>0, <3>1, <4>1 DEF MainOpensKey
    <3>2. CASE MainMakesKey(new) \/ MainSeals(new) \/ MainInits(new)
      BY <1>0, <3>2 DEF MainMakesKey, MainSeals, MainInits
    <3> QED BY <1>4, <3>1, <3>2 DEF MainCommits
  <2> QED BY <2>1, <2>2, <2>3, <2>4, <2>5
<1> QED BY <1>1, <1>2, <1>3, <1>4, MainFacts

LEMMA MainType ==
  ASSUME TypeInv, MainStep
  PROVE  TypeInv'
<1>1. MainFrame
  BY MainFrameFacts
<1>2. \A c \in Clients : HandlerInv(c)'
  BY <1>1, MainMoves DEF TypeInv, HandlerInv, MainFrame, InTransaction, Overwrites
<1>3. /\ msgs' \in Seq(Passwords) /\ Len(msgs') <= 1
      /\ mainPwd' \in Passwords \cup {NoPassword}
  BY <1>1 DEF TypeInv, TypeOK, MainFrame
<1>4. late' \in BOOLEAN
  <2>1. (\E c \in Clients : ~At(c, "idle")) \in BOOLEAN
    BY Zenon
  <2> QED BY <1>1, <2>1 DEF MainFrame, TypeInv, TypeOK
<1>5. TypeOK'
  BY <1>1, <1>3, <1>4, MainMoves DEF TypeInv, TypeOK, DataOK, MainFrame
<1> QED BY <1>2, <1>5, MainMoves DEF TypeInv

-----------------------------------------------------------------------------
LEMMA DownType ==
  ASSUME TypeInv, Down
  PROVE  /\ TypeInv' /\ Kept' \subseteq Kept
         /\ \A o \in Owners : ~InTransaction(o)'
<1>1. /\ pc' \in [Clients -> Places] /\ req' \in [Clients -> Requests \cup {NoRequest}]
      /\ \A c \in Clients : pc'[c] = "idle"
  BY DEF Down, Places
<1>2. /\ view' \in [Owners -> Database \cup {NoView}]
      /\ \A o \in Owners : ~InTransaction(o)'
  BY DEF Down, InTransaction
<1>3. msgs' \in Seq(Passwords) /\ Len(msgs') <= 1
  BY DEF Down
<1>4. TypeOK'
  BY <1>1, <1>2, <1>3 DEF Down, TypeInv, TypeOK, Places
<1>5. \A c \in Clients : HandlerInv(c)'
  BY <1>1, <1>2, OwnerFacts DEF HandlerInv, StorePlaces, Down
<1>6. MainInv'
  BY <1>2, OwnerFacts DEF MainInv, Down
<1>7. Kept' \subseteq Kept
  BY <1>2 DEF Kept, Down
<1> QED BY <1>2, <1>4, <1>5, <1>6, <1>7 DEF TypeInv

LEMMA AdmitFacts ==
  ASSUME TypeInv, NEW c \in Clients, NEW r \in Asked, Admit(c, r)
  PROVE  /\ TypeInv' /\ pc[c] = "idle" /\ pc'[c] \in {"lockToRead", "lockToWrite"}
         /\ (pc'[c] = "lockToWrite" => ~Overwrites(c)') /\ gate = "daemonLocked"
         /\ \A d \in Clients \ {c} : pc'[d] = pc[d] /\ req'[d] = req[d]
         /\ UNCHANGED <<dbVars, keysMade, files, procVars, mutex, firstSets, known>>
<1>1. /\ pc[c] = "idle" /\ gate = "daemonLocked" /\ r \in Requests
      /\ req' = [req EXCEPT ![c] = r]
      /\ pc' = [pc EXCEPT ![c] = IF r.rpc = "SetPassword" THEN "lockToWrite" ELSE "lockToRead"]
      /\ UNCHANGED <<dbVars, keysMade, files, procVars, mutex, firstSets, known>>
      /\ load' \in Nat
  BY AskedAssumption DEF Admit, Arrives, At, Weight, TypeInv, TypeOK
<1>2. /\ pc' \in [Clients -> Places] /\ req' \in [Clients -> Requests \cup {NoRequest}]
      /\ req'[c] = r /\ pc'[c] \in {"lockToRead", "lockToWrite"}
      /\ pc'[c] = "lockToWrite" => r.rpc = "SetPassword"
      /\ \A d \in Clients \ {c} : pc'[d] = pc[d] /\ req'[d] = req[d]
  BY <1>1, TypeData DEF Places
<1>3. UNCHANGED <<db, other, view, fresh, crossed, gate, msgs, mainPc, mainPwd, mainKey, late>>
  BY <1>1 DEF dbVars, procVars, mainVars
<1>4. HandlerInv(c)'
  BY <1>1, <1>2, <1>3
  DEF TypeInv, HandlerInv, StorePlaces, TransactionPlaces, InTransaction
<1>5. \A d \in Clients : HandlerInv(d)'
  BY <1>1, <1>2, <1>3, <1>4, HandlersAside DEF MutexStep
<1>6. TypeOK'
  BY <1>1, <1>2, <1>3 DEF TypeInv, TypeOK, Places
<1>7. MainInv'
  BY <1>3 DEF TypeInv, MainInv, InTransaction
<1> QED BY <1>1, <1>2, <1>5, <1>6, <1>7 DEF TypeInv, Overwrites

LEMMA NextType ==
  ASSUME TypeInv, [Next]_vars
  PROVE  TypeInv'
<1>1. CASE UNCHANGED vars
  BY <1>1
  DEF vars, dbVars, procVars, mainVars, callVars, histVars, TypeInv, TypeOK, HandlerInv, MainInv,
      InTransaction, Overwrites
<1>2. CASE \E c \in Clients, r \in Asked : Admit(c, r)
  BY <1>2, AdmitFacts
<1>3. CASE Start
  BY <1>3
  DEF Start, MainGoto, MainAt, dbVars, callVars, histVars, TypeInv, TypeOK, HandlerInv, MainInv,
      MainPlaces, InTransaction, Overwrites
<1> QED BY <1>1, <1>2, <1>3, HandlerType, MainType, DownType DEF Next

LEMMA InitData ==
  ASSUME Init
  PROVE  /\ db \in Database /\ Kept = {db} /\ keysMade \in Nat /\ firstSets \in Nat
         /\ files \subseteq MacaroonFiles /\ known \subseteq Passwords
<1>1. \A o \in Owners : ~InTransaction(o)
  BY DEF Init, InTransaction
<1>2. Kept = {db}
  BY <1>1 DEF Kept, Init
<1>3. CASE NewStore
  BY <1>2, <1>3 DEF NewStore, EmptyDatabase, Database
<1>4. CASE UsedStore
  BY <1>2, <1>4 DEF UsedStore, UsedDatabase, Database
<1> QED BY <1>3, <1>4 DEF Init

LEMMA InitType == Init => TypeInv
<1> SUFFICES ASSUME Init PROVE TypeInv
  OBVIOUS
<1>1. msgs \in Seq(Passwords) /\ Len(msgs) <= 1
  BY DEF Init
<1>2. /\ pc \in [Clients -> Places] /\ req \in [Clients -> Requests \cup {NoRequest}]
      /\ \A c \in Clients : pc[c] = "idle" /\ mutex # c
  BY OwnerFacts DEF Init, Places
<1>3. /\ view \in [Owners -> Database \cup {NoView}]
      /\ \A o \in Owners : ~InTransaction(o)
  BY DEF Init, InTransaction
<1>4. TypeOK
  BY <1>1, <1>2, <1>3, InitData DEF Init, TypeOK, Places
<1>5. \A c \in Clients : HandlerInv(c)
  BY <1>2, <1>3, OwnerFacts DEF HandlerInv, StorePlaces
<1>6. MainInv
  BY <1>3, OwnerFacts DEF MainInv, Init
<1> QED BY <1>4, <1>5, <1>6 DEF TypeInv

(* Type correctness: PasswordMsgs never holds more than one password, and  *)
(* a transaction always writes a whole database, whatever calls race,      *)
(* transactions overlap, steps fail and processes die.                     *)
THEOREM TypeCorrect == Spec => []TypeOK
<1>1. TypeInv => TypeOK
  BY DEF TypeInv
<1> QED BY InitType, NextType, <1>1, PTL DEF Spec

-----------------------------------------------------------------------------
(***************************************************************************)
(* The inductive invariant.                                                *)
(***************************************************************************)

(* Where core.Main has set the gate to unlocked, and where it has opened   *)
(* the store.                                                              *)
Opened == {"regenerate", "bakeAdmin", "bakeTest", "activate", "active"}
Unlocked == {"copyStore", "initStore", "initLocked", "unlockStore"} \cup Opened

(* Behind the unlocked gate no handler is at work, unless it is late.      *)
GateInv ==
  /\ mainPc \in Unlocked => gate \in {"daemonUnlocked", "rpcActive"}
  /\ mainPc \in Unlocked /\ ~late => \A c \in Clients : pc[c] = "idle"

(* When no handler's transaction overlaps that of core.Main, nothing else  *)
(* is left of the database than the snapshot of core.Main.                 *)
LoneInv ==
  /\ (\A o \in Owners : ~InTransaction(o)) => other = db
  /\ InTransaction(Main) /\ (~crossed \/ ~late) =>
       /\ \A c \in Clients : ~InTransaction(c)
       /\ view[Main] = db /\ other = db /\ Main \in fresh

(* There is no root key without an encryption key, and none that cannot be *)
(* opened.                                                                 *)
Consistent(d) ==
  /\ d.encPwd = NoPassword => d.rootSeal = 0
  /\ d.encPwd # NoPassword => d.encKey # 0
  /\ d.rootSeal # 0 => d.rootSeal = d.encKey

(* Every database that may still come back is consistent; there is no file *)
(* without a root key; until there is a root key, nobody makes another     *)
(* encryption key than the one core.Main has opened.                       *)
KeysInv ==
  ~crossed =>
    /\ \A d \in Kept : Consistent(d)
    /\ mainPc \in {"bakeTest", "activate", "active"} \/ files # {} => \A d \in Kept : d.rootSeal # 0
    /\ mainPc \in Opened =>
         /\ mainKey # 0
         /\ \A d \in Kept : d.encPwd # NoPassword /\ (d.rootSeal = 0 => d.encKey = mainKey)

(* The encryption key in memory is the one in the database.                *)
ReadyInv == mainPc \in Opened /\ ~late /\ ~crossed => db.encKey = mainKey

(* The passwords that a handler has found right or has stored, and those it*)
(* sends, were login passwords.                                            *)
Vouched(c) ==
  /\ Overwrites(c) /\ pc[c] \in {"lockToWrite", "write"} => req[c].cur \in known
  /\ pc[c] \in StorePlaces => req[c].cur \in known /\ req[c].new \in known
  /\ pc[c] = "send" => Sent(c) \in known

KnownInv ==
  /\ \A d \in Kept : d.login \in known \cup {NoPassword} /\ d.encPwd \in known \cup {NoPassword}
  /\ \A c \in Clients : Vouched(c)
  /\ msgs # << >> => Head(msgs) \in known
  /\ mainPc \in {"unlock"} \cup Unlocked => mainPwd \in known

(* Until there is a password, only the holder of the mutex can be in a     *)
(* transaction; after that, no database without one can come back.         *)
OnceInv ==
  /\ FirstPasswordOnce
  /\ firstSets = 0 => known = {} /\ \A c \in Clients : InTransaction(c) => c \in fresh
  /\ firstSets # 0 => \A d \in Kept : d.login # NoPassword

Inv == TypeInv /\ GateInv /\ LoneInv /\ KeysInv /\ ReadyInv /\ KnownInv /\ OnceInv

-----------------------------------------------------------------------------
(* A handler at work is late, or core.Main is not yet past the gate.       *)
LEMMA GateHandler ==
  ASSUME TypeInv, GateInv, NEW c \in Clients, HandlerStep(c)
  PROVE  GateInv' /\ (mainPc \in Unlocked => late)
  BY HandlerFrame DEF GateInv

LEMMA GateMain ==
  ASSUME GateInv, MainStep
  PROVE  GateInv' /\ (mainPc' \in Opened => mainPc \in Unlocked /\ UNCHANGED late)
<1> USE DEF GateInv, Unlocked, Opened, MainAt, MainGoto, callVars
<1>1. CASE SetDaemonLocked \/ TakePassword \/ MainStorageFails
  BY <1>1 DEF SetDaemonLocked, TakePassword, MainStorageFails
<1>2. CASE SetDaemonUnlocked
  BY <1>2 DEF SetDaemonUnlocked, At
<1>3. CASE MainCopyStore \/ MainInitStore \/ MainUnlockStore
  BY <1>3 DEF MainCopyStore, Copied, MainInitStore, MainUnlockStore
<1>4. CASE MainBegin
  BY <1>4 DEF MainBegin, procVars, mainVars
<1>5. ASSUME NEW removed, Regenerate(removed)
      PROVE  GateInv' /\ (mainPc' \in Opened => mainPc \in Unlocked /\ UNCHANGED late)
  BY <1>5 DEF Regenerate
<1>6. CASE Bake("bakeAdmin", "admin", "bakeTest") \/ Bake("bakeTest", "test", "activate")
  BY <1>6 DEF Bake
<1>7. CASE SetRPCActive
  BY <1>7 DEF SetRPCActive
<1> QED BY <1>1, <1>2, <1>3, <1>4, <1>5, <1>6, <1>7 DEF MainStep

LEMMA GateNext ==
  ASSUME Inv, [Next]_vars
  PROVE  GateInv'
<1> USE DEF Inv
<1>1. CASE UNCHANGED vars
  BY <1>1 DEF vars, procVars, mainVars, callVars, GateInv
<1>2. CASE \E c \in Clients, r \in Asked : Admit(c, r)
  BY <1>2, AdmitFacts DEF GateInv, procVars, mainVars
<1>3. CASE Down \/ Start
  BY <1>3 DEF Down, Start, MainGoto, GateInv, Opened, Unlocked
<1> QED BY <1>1, <1>2, <1>3, GateHandler, GateMain DEF Next

-----------------------------------------------------------------------------
LEMMA LoneHandler ==
  ASSUME Inv, NEW c \in Clients, HandlerStep(c)
  PROVE  LoneInv'
<1>0. /\ Moves(c) /\ UNCHANGED <<mainPc, late>> /\ c \in Owners /\ Main \in Owners /\ Main # c
      /\ mainPc \in Unlocked => late
  BY HandlerFacts, HandlerFrame, GateHandler, OwnerFacts DEF Inv
<1>1. /\ \A o \in Owners \ {c} : InTransaction(o)' = InTransaction(o) /\ view'[o] = view[o]
      /\ crossed => crossed'
  BY <1>0 DEF Moves, InTransaction
<1>2. (\A o \in Owners : ~InTransaction(o)') => other' = db'
  <2> SUFFICES ASSUME \A o \in Owners : ~InTransaction(o)'
               PROVE  other' = db'
    OBVIOUS
  <2>1. ~Overlapped(c)
    BY <1>1 DEF Overlapped
  <2>2. CASE UNCHANGED dbVars
    BY <1>0, <1>1, <2>2, AsideKept DEF Inv, LoneInv
  <2>3. CASE Begin(c)
    BY <1>0, <2>3, BeginFacts, TypeData DEF Inv
  <2> QED BY <1>0, <2>1, <2>2, <2>3 DEF Moves, Transacts
<1>3. ASSUME InTransaction(Main)', ~crossed' \/ ~late'
      PROVE  UNCHANGED dbVars /\ InTransaction(Main) /\ ~crossed
  <2>1. InTransaction(Main) /\ mainPc \in Unlocked
    BY <1>0, <1>1, <1>3 DEF Inv, TypeInv, MainInv, MainPlaces, Unlocked, Opened
  <2>2. ~crossed' /\ ~crossed /\ ~InTransaction(c)
    BY <1>0, <1>1, <1>3, <2>1 DEF Inv, LoneInv
  <2>3. ~Begin(c)
    BY <1>0, <2>1, <2>2 DEF Begin
  <2> QED BY <1>0, <2>1, <2>2, <2>3 DEF Moves, Transacts
<1>4. ASSUME InTransaction(Main)', ~crossed' \/ ~late'
      PROVE  /\ \A d \in Clients : ~InTransaction(d)'
             /\ view'[Main] = db' /\ other' = db' /\ Main \in fresh'
  BY <1>3, <1>4, AsideKept, OwnerFacts DEF Inv, LoneInv
<1> QED BY <1>2, <1>4 DEF LoneInv

LEMMA LoneMain ==
  ASSUME Inv, MainStep
  PROVE  LoneInv'
<1>0. /\ DataOK /\ MainInv /\ LoneInv /\ Main \in Owners
      /\ \A c \in Clients : c \in Owners \ {Main} /\ InTransaction(c)' = InTransaction(c)
      /\ Owners = Clients \cup {Main}
  BY TypeData, OwnerFacts, MainMoves DEF Inv, TypeInv, InTransaction, Owners
<1>1. CASE MainGoesOn
  BY <1>0, <1>1, AsideKept DEF MainGoesOn, LoneInv
<1>2. CASE MainBegins
  <2>1. /\ ~InTransaction(Main) /\ UNCHANGED <<db, other>> /\ view'[Main] = db /\ Main \in fresh'
        /\ InTransaction(Main)'
    BY <1>0, <1>2, BeginFacts DEF MainBegins, MainInv, MainPlaces
  <2>2. ASSUME ~crossed'
        PROVE  \A c \in Clients : ~InTransaction(c)
    BY <1>0, <1>2, <2>2 DEF MainBegins, Begin, Overlapped
  <2>3. ASSUME ~late'
        PROVE  \A c \in Clients : ~InTransaction(c)
    <3>1. mainPc \in Unlocked /\ late' = late
      BY <1>2, MainFrameFacts DEF MainBegins, MainFrame, MainAt, Unlocked, Opened
    <3> QED BY <2>3, <3>1 DEF Inv, GateInv, TypeInv, HandlerInv, TransactionPlaces
  <2>4. ASSUME \A c \in Clients : ~InTransaction(c)
        PROVE  other = db
    BY <1>0, <2>1, <2>4 DEF LoneInv
  <2>5. ~crossed' \/ ~late' => \A c \in Clients : ~InTransaction(c)
    BY <2>2, <2>3
  <2> QED BY <1>0, <2>1, <2>4, <2>5 DEF LoneInv
<1>3. ASSUME ~InTransaction(Main)', ~Overlapped(Main) => other' = db'
      PROVE  LoneInv'
  BY <1>0, <1>3 DEF LoneInv, Overlapped
<1>4. CASE MainGivesUp
  BY <1>0, <1>3, <1>4, RollbackFacts DEF MainGivesUp
<1>5. CASE \E new \in Database : MainCommits(new)
  BY <1>0, <1>3, <1>5, CommitFacts DEF MainCommits
<1> QED BY <1>1, <1>2, <1>4, <1>5, MainFacts DEF Inv

LEMMA LoneNext ==
  ASSUME Inv, [Next]_vars
  PROVE  LoneInv'
<1>1. ASSUME UNCHANGED dbVars, UNCHANGED late \/ ~InTransaction(Main)
      PROVE  LoneInv'
  BY <1>1, AsideKept, OwnerFacts DEF Inv, LoneInv
<1>2. CASE UNCHANGED vars
  BY <1>1, <1>2 DEF vars, procVars
<1>3. CASE \E c \in Clients, r \in Asked : Admit(c, r)
  BY <1>1, <1>3, AdmitFacts DEF Inv, procVars
<1>4. CASE Down
  BY <1>4, DownType, OwnerFacts DEF Inv, LoneInv, Down
<1>5. CASE Start
  BY <1>1, <1>5 DEF Start
<1> QED BY <1>2, <1>3, <1>4, <1>5, LoneHandler, LoneMain DEF Next

-----------------------------------------------------------------------------
(* A step that writes nothing new and opens no store.                      *)
LEMMA KeysAside ==
  ASSUME KeysInv, Kept' \subseteq Kept, files' \subseteq files, crossed => crossed',
         mainPc' \in Opened => mainPc \in Opened /\ mainKey' = mainKey,
         mainPc' \in {"bakeTest", "activate", "active"} =>
           mainPc \in {"bakeTest", "activate", "active"} \/ files # {}
  PROVE  KeysInv'
<1>1. ASSUME ~crossed'
      PROVE  /\ \A d \in Kept' : Consistent(d)
             /\ mainPc' \in {"bakeTest", "activate", "active"} \/ files' # {} =>
                  \A d \in Kept' : d.rootSeal # 0
             /\ mainPc' \in Opened =>
                  /\ mainKey' # 0
                  /\ \A d \in Kept' : d.encPwd # NoPassword /\ (d.rootSeal = 0 => d.encKey = mainKey')
  BY <1>1 DEF KeysInv
<1> QED BY <1>1 DEF KeysInv, Consistent

LEMMA KeysHandler ==
  ASSUME Inv, NEW c \in Clients, HandlerStep(c)
  PROVE  KeysInv'
<1> USE DEF Inv
<1>0. /\ Moves(c) /\ Writes(c) /\ UNCHANGED <<mainPc, mainKey>> /\ files' \subseteq files
      /\ c \in Owners /\ DataOK /\ (crossed => crossed') /\ HandlerInv(c)
      /\ keysMade \in Nat /\ keysMade + 1 \in Nat /\ keysMade + 1 # 0
  BY HandlerFacts, HandlerFrame, OwnerFacts, TypeData DEF Moves, TypeInv
<1>1. CASE ReadsOnly
  BY <1>0, <1>1, KeysAside DEF ReadsOnly
<1>2. ASSUME InTransaction(c), ~crossed, NEW new,
             Kept' \subseteq Kept \cup {new}, Consistent(new),
             mainPc \in {"bakeTest", "activate", "active"} \/ files # {} => new.rootSeal # 0,
             mainPc \in Opened => new.encPwd # NoPassword /\ (new.rootSeal = 0 => new.encKey = mainKey)
      PROVE  KeysInv'
  BY <1>0, <1>2 DEF KeysInv, Consistent
<1>3. ASSUME InTransaction(c)
      PROVE  view[c] \in Kept /\ view[c] \in Database
  BY <1>0, <1>3, KeptFacts
<1>4. CASE SetsLogin(c)
  <2>1. NewLogin(c) \in Passwords
    BY <1>0, <1>4, RequestFacts DEF SetsLogin, At, HandlerInv
  <2> DEFINE new == WithLogin(view[c], NewLogin(c))
  <2>2. /\ new.encPwd = view[c].encPwd /\ new.encKey = view[c].encKey
        /\ new.rootSeal = view[c].rootSeal
    <3>1. view[c] \in Database /\ NewLogin(c) \in Passwords \cup {NoPassword} /\ 0 \in Nat
      BY <1>3, <1>4, <2>1 DEF SetsLogin
    <3> QED BY <3>1, WriteFacts
  <2>3. CASE crossed
    BY <1>0, <2>3 DEF KeysInv
  <2>4. CASE ~crossed
    <3>1. /\ Consistent(view[c])
          /\ mainPc \in {"bakeTest", "activate", "active"} \/ files # {} => view[c].rootSeal # 0
          /\ mainPc \in Opened => /\ view[c].encPwd # NoPassword
                                  /\ view[c].rootSeal = 0 => view[c].encKey = mainKey
      BY <1>3, <1>4, <2>4 DEF SetsLogin, KeysInv
    <3>2. Consistent(new)
      BY <2>2, <3>1 DEF Consistent
    <3>3. InTransaction(c) /\ Kept' \subseteq Kept \cup {new}
      BY <1>4 DEF SetsLogin
    <3> HIDE DEF new
    <3> QED BY <1>2, <2>2, <2>4, <3>1, <3>2, <3>3
  <2> QED BY <2>3, <2>4
<1>5. CASE MakesKey(c)
  <2>1. req[c].cur \in Passwords /\ req[c].cur # NoPassword
    BY <1>0, <1>5, RequestFacts, NoPasswordAssumption DEF MakesKey, At, HandlerInv
  <2> DEFINE new == WithKey(view[c], req[c].cur, keysMade + 1)
  <2>2. new.encPwd = req[c].cur /\ new.encKey = keysMade + 1 /\ new.rootSeal = view[c].rootSeal
    <3>1. view[c] \in Database /\ req[c].cur \in Passwords \cup {NoPassword}
      BY <1>3, <1>5, <2>1 DEF MakesKey
    <3>2. PICK p \in Passwords \cup {NoPassword}, k \in Nat : p = req[c].cur /\ k = keysMade + 1
      BY <1>0, <3>1
    <3>3. WithKey(view[c], p, k).encPwd = p /\ WithKey(view[c], p, k).encKey = k
      BY <3>1, KeyFacts
    <3>4. WithKey(view[c], p, k).rootSeal = view[c].rootSeal
      BY <3>1, KeyFacts
    <3> QED BY <3>2, <3>3, <3>4
  <2>3. CASE crossed
    BY <1>0, <2>3 DEF KeysInv
  <2>4. CASE ~crossed
    <3>1. /\ view[c].rootSeal = 0 /\ mainPc \notin Opened
          /\ mainPc \notin {"bakeTest", "activate", "active"} /\ files = {}
      BY <1>3, <1>5, <2>4 DEF MakesKey, KeysInv, Consistent, Opened
    <3>2. Consistent(new)
      BY <1>0, <2>1, <2>2, <3>1 DEF Consistent
    <3>3. InTransaction(c) /\ Kept' \subseteq Kept \cup {new}
      BY <1>5 DEF MakesKey
    <3> HIDE DEF new
    <3> QED BY <1>2, <2>4, <3>1, <3>2, <3>3
  <2> QED BY <2>3, <2>4
<1>6. CASE ChangesKey(c)
  <2>1. req[c].new \in Passwords /\ req[c].new # NoPassword
    BY <1>0, <1>6, RequestFacts, NoPasswordAssumption DEF ChangesKey, At, HandlerInv, StorePlaces
  <2>2. view[c].rootSeal # 0
    BY <1>6 DEF ChangesKey, Changeable
  <2> DEFINE new == Resealed(view[c], req[c].new, keysMade + 1)
  <2>3. new.encPwd = req[c].new /\ new.encKey = keysMade + 1 /\ new.rootSeal = keysMade + 1
    <3>1. view[c] \in Database /\ req[c].new \in Passwords \cup {NoPassword}
      BY <1>3, <1>6, <2>1 DEF ChangesKey
    <3> QED BY <1>0, <2>2, <3>1, ResealFacts
  <2>4. CASE crossed
    BY <1>0, <2>4 DEF KeysInv
  <2>5. CASE ~crossed
    <3>1. Consistent(new) /\ new.rootSeal # 0 /\ new.encPwd # NoPassword
      BY <1>0, <2>1, <2>3 DEF Consistent
    <3>2. InTransaction(c) /\ Kept' \subseteq Kept \cup {new}
      BY <1>6 DEF ChangesKey
    <3> HIDE DEF new
    <3> QED BY <1>2, <2>5, <3>1, <3>2
  <2> QED BY <2>4, <2>5
<1> QED BY <1>0, <1>1, <1>4, <1>5, <1>6 DEF Writes

(* When core.Main commits and no handler's transaction overlaps its own,   *)
(* the database is what it wrote.                                          *)
LEMMA LoneCommit ==
  ASSUME Inv, NEW new \in Database, MainCommits(new), ~crossed \/ ~late
  PROVE  Kept' = {new} /\ db' = new /\ view[Main] = db
<1>0. /\ DataOK /\ Main \in Owners /\ Owners = Clients \cup {Main}
      /\ \A c \in Clients : c \in Owners \ {Main} /\ ~InTransaction(c)
      /\ view[Main] = db /\ Main \in fresh
  BY TypeData, OwnerFacts DEF Inv, LoneInv, Owners, MainCommits
<1>1. ~Overlapped(Main)
  BY <1>0 DEF Overlapped
<1>2. /\ db' = new /\ other' = new /\ ~InTransaction(Main)'
      /\ \A o \in Owners : ~InTransaction(o)'
  BY <1>0, <1>1, CommitFacts DEF MainCommits, InTransaction
<1> QED BY <1>0, <1>2 DEF Kept

LEMMA KeysMain ==
  ASSUME Inv, MainStep
  PROVE  KeysInv'
<1> USE DEF Inv
<1>0. /\ DataOK /\ Main \in Owners /\ keysMade \in Nat /\ keysMade + 1 \in Nat /\ keysMade + 1 # 0
      /\ mainKey \in Nat /\ (crossed => crossed')
  BY TypeData, OwnerFacts, MainMoves DEF TypeInv, TypeOK
<1>1. CASE MainGoesOn
  BY <1>0, <1>1, AsideKept, KeysAside DEF MainGoesOn, Opened
<1>2. CASE MainBegins
  BY <1>0, <1>2, BeginFacts, KeysAside DEF MainBegins, Opened
<1>3. CASE MainGivesUp
  BY <1>0, <1>3, RollbackFacts, KeysAside DEF MainGivesUp, Opened
<1>4. ASSUME NEW new \in Database, MainCommits(new), ~crossed
      PROVE  KeysInv'
  <2>1. /\ Kept' = {new} /\ InTransaction(Main)
        /\ view[Main] \in Kept /\ view[Main] \in Database /\ Consistent(view[Main])
    BY <1>0, <1>4, LoneCommit, KeptFacts DEF MainCommits, KeysInv
  <2>2. /\ files # {} => view[Main].rootSeal # 0
        /\ mainPc \in {"bakeTest", "activate", "active"} => view[Main].rootSeal # 0
        /\ mainPc \in Opened => /\ view[Main].encPwd # NoPassword /\ mainKey # 0
                                /\ view[Main].rootSeal = 0 => view[Main].encKey = mainKey
    BY <1>4, <2>1 DEF KeysInv
  <2>3. ASSUME Consistent(new),
               mainPc' \in {"bakeTest", "activate", "active"} \/ files' # {} => new.rootSeal # 0,
               mainPc' \in Opened =>
                 /\ mainKey' # 0 /\ new.encPwd # NoPassword
                 /\ new.rootSeal = 0 => new.encKey = mainKey'
        PROVE  KeysInv'
    BY <2>1, <2>3 DEF KeysInv, Consistent
  <2>4. CASE MainMakesKey(new)
    <3>1. mainPwd \in Passwords /\ mainPwd # NoPassword
      BY <2>4, NoPasswordAssumption
      DEF MainMakesKey, MainAt, KnownInv, Unlocked, TypeInv, TypeOK
    <3>2. new = WithKey(view[Main], mainPwd, keysMade + 1)
      BY <2>4 DEF MainMakesKey
    <3>3. new.encPwd = mainPwd /\ new.encKey = keysMade + 1 /\ new.rootSeal = view[Main].rootSeal
      <4>1. mainPwd \in Passwords \cup {NoPassword}
        BY <3>1
      <4>2. /\ WithKey(view[Main], mainPwd, keysMade + 1).encPwd = mainPwd
            /\ WithKey(view[Main], mainPwd, keysMade + 1).encKey = keysMade + 1
            /\ WithKey(view[Main], mainPwd, keysMade + 1).rootSeal = view[Main].rootSeal
        BY <1>0, <2>1, <4>1, KeyFacts
      <4> QED BY <3>2, <4>2
    <3>4. new.rootSeal = 0 /\ files = {}
      BY <2>1, <2>2, <2>4, <3>3 DEF MainMakesKey, Consistent
    <3>5. mainPc' = "regenerate" /\ files' = files /\ mainKey' = keysMade + 1
      BY <2>4 DEF MainMakesKey
    <3>6. Consistent(new)
      BY <1>0, <3>1, <3>3, <3>4 DEF Consistent
    <3> QED BY <1>0, <2>3, <3>1, <3>3, <3>4, <3>5, <3>6
  <2>5. CASE MainOpensKey(new)
    <3>1. mainPwd \in Passwords /\ mainPwd # NoPassword
      BY <2>5, NoPasswordAssumption
      DEF MainOpensKey, MainAt, KnownInv, Unlocked, TypeInv, TypeOK
    <3>2. /\ new = view[Main] /\ mainKey' = view[Main].encKey /\ view[Main].encPwd = mainPwd
          /\ mainPc' = "regenerate" /\ files' = files
      BY <2>5, <3>1 DEF MainOpensKey
    <3> QED BY <2>1, <2>2, <2>3, <3>1, <3>2 DEF Consistent
  <2>6. CASE MainSeals(new)
    <3>1. /\ new = WithSeal(view[Main], mainKey) /\ mainKey' = mainKey
          /\ view[Main].rootSeal \in {0, mainKey} /\ mainPc \in Opened
      BY <2>6 DEF MainSeals, MainAt, Opened
    <3>2. /\ new.encPwd = view[Main].encPwd /\ new.encKey = view[Main].encKey
          /\ new.rootSeal = mainKey
      <4>2. /\ WithSeal(view[Main], mainKey).encPwd = view[Main].encPwd
            /\ WithSeal(view[Main], mainKey).encKey = view[Main].encKey
            /\ WithSeal(view[Main], mainKey).rootSeal = mainKey
        BY <1>0, <2>1, SealFacts
      <4> QED BY <3>1, <4>2
    <3>3. mainKey # 0 /\ new.encPwd # NoPassword
      BY <2>2, <3>1, <3>2
    <3>4. view[Main].encKey = mainKey
      BY <2>1, <2>2, <3>1, <3>3 DEF Consistent
    <3>5. Consistent(new)
      BY <3>2, <3>3, <3>4 DEF Consistent
    <3> QED BY <2>3, <3>1, <3>2, <3>3, <3>5
  <2>7. CASE MainInits(new)
    <3>1. /\ new = view[Main] /\ mainPc' \in {"unlockStore", "hung"} /\ files' = files
      BY <2>7 DEF MainInits
    <3> QED BY <2>1, <2>2, <2>3, <3>1 DEF Opened
  <2> QED BY <1>4, <2>4, <2>5, <2>6, <2>7 DEF MainCommits
<1>5. CASE crossed
  BY <1>0, <1>5 DEF KeysInv
<1> QED BY <1>1, <1>2, <1>3, <1>4, <1>5, MainFacts

LEMMA KeysNext ==
  ASSUME Inv, [Next]_vars
  PROVE  KeysInv'
<1> USE DEF Inv
<1>1. CASE UNCHANGED vars
  BY <1>1, AsideKept, KeysAside DEF vars, procVars, mainVars
<1>2. CASE \E c \in Clients, r \in Asked : Admit(c, r)
  BY <1>2, AdmitFacts, AsideKept, KeysAside DEF procVars, mainVars
<1>3. CASE Down
  BY <1>3, DownType, KeysAside DEF Down, Opened
<1>4. CASE Start
  BY <1>4, AsideKept, KeysAside DEF Start, MainGoto, Opened
<1> QED BY <1>1, <1>2, <1>3, <1>4, KeysHandler, KeysMain DEF Next

-----------------------------------------------------------------------------
LEMMA ReadyMain ==
  ASSUME Inv, MainStep
  PROVE  ReadyInv'
<1> SUFFICES ASSUME mainPc' \in Opened, ~late', ~crossed'
             PROVE  db'.encKey = mainKey'
  BY DEF ReadyInv
<1> USE DEF Inv
<1>0. /\ DataOK /\ Main \in Owners /\ ~late /\ ~crossed /\ keysMade + 1 \in Nat /\ mainKey \in Nat
  BY TypeData, OwnerFacts, MainMoves, GateMain DEF TypeInv, TypeOK
<1>1. CASE MainGoesOn
  <2>1. mainPc \in Opened /\ db' = db /\ mainKey' = mainKey
    BY <1>1, AsideKept DEF MainGoesOn, Opened
  <2> QED BY <1>0, <2>1 DEF ReadyInv
<1>2. CASE MainBegins
  <2>1. mainPc \in Opened /\ db' = db /\ mainKey' = mainKey
    BY <1>0, <1>2, BeginFacts DEF MainBegins, Opened
  <2> QED BY <1>0, <2>1 DEF ReadyInv
<1>3. CASE MainGivesUp
  BY <1>3 DEF MainGivesUp, Opened
<1>4. ASSUME NEW new \in Database, MainCommits(new)
      PROVE  db'.encKey = mainKey'
  <2>1. db' = new /\ view[Main] = db /\ db \in Database
    BY <1>0, <1>4, LoneCommit DEF DataOK
  <2>2. CASE MainMakesKey(new)
    <3>1. mainPwd \in Passwords \cup {NoPassword}
      BY DEF TypeInv, TypeOK
    <3> QED BY <1>0, <2>1, <2>2, <3>1, KeyFacts DEF MainMakesKey
  <2>3. CASE MainOpensKey(new)
    <3>1. mainPwd # NoPassword
      BY <2>3, NoPasswordAssumption
      DEF MainOpensKey, MainAt, KnownInv, Unlocked, TypeInv, TypeOK
    <3> QED BY <2>1, <2>3, <3>1 DEF MainOpensKey
  <2>4. CASE MainSeals(new)
    <3>1. new.encKey = db.encKey
      <4> QED BY <1>0, <2>1, <2>4, SealFacts DEF MainSeals
    <3>2. mainPc \in Opened /\ mainKey' = mainKey
      BY <2>4 DEF MainSeals, MainAt, Opened
    <3> QED BY <1>0, <2>1, <3>1, <3>2 DEF ReadyInv
  <2>5. CASE MainInits(new)
    BY <2>5 DEF MainInits, Opened
  <2> QED BY <1>4, <2>2, <2>3, <2>4, <2>5 DEF MainCommits
<1> QED BY <1>1, <1>2, <1>3, <1>4, MainFacts

LEMMA ReadyNext ==
  ASSUME Inv, [Next]_vars
  PROVE  ReadyInv'
<1> USE DEF Inv
<1>1. CASE UNCHANGED vars
  BY <1>1, AsideKept DEF vars, procVars, mainVars, ReadyInv
<1>2. CASE \E c \in Clients, r \in Asked : Admit(c, r)
  BY <1>2, AdmitFacts, AsideKept DEF procVars, mainVars, ReadyInv
<1>3. ASSUME NEW c \in Clients, HandlerStep(c)
      PROVE  ReadyInv'
  BY <1>3, HandlerFrame, GateHandler DEF ReadyInv, Opened, Unlocked
<1>4. CASE Down \/ Start
  BY <1>4 DEF Down, Start, MainGoto, ReadyInv, Opened
<1> QED BY <1>1, <1>2, <1>3, <1>4, ReadyMain DEF Next

-----------------------------------------------------------------------------
(* A handler that another step leaves where it is stays vouched for.       *)
LEMMA VouchedAside ==
  ASSUME NEW c \in Clients, Vouched(c), UNCHANGED <<pc[c], req[c]>>, known \subseteq known'
  PROVE  Vouched(c)'
  BY DEF Vouched, Overwrites, Sent

(* What a handler's step writes are passwords that it may write.           *)
LEMMA KnownData ==
  ASSUME Inv, NEW c \in Clients, HandlerStep(c)
  PROVE  /\ known \subseteq known'
         /\ \A d \in Kept' : d.login \in known' \cup {NoPassword} /\ d.encPwd \in known' \cup {NoPassword}
<1> USE DEF Inv
<1>0. /\ Writes(c) /\ Vouched(c) /\ pc[c] # "idle" /\ req[c] \in Requests /\ keysMade + 1 \in Nat
      /\ \A d \in Kept : d.login \in known \cup {NoPassword} /\ d.encPwd \in known \cup {NoPassword}
  BY HandlerFacts, HandlerFrame, TypeData DEF KnownInv, TypeInv, HandlerInv
<1>1. ASSUME InTransaction(c)
      PROVE  view[c] \in Kept /\ view[c] \in Database
  BY <1>1, KeptFacts, TypeData, OwnerFacts
<1>2. CASE ReadsOnly
  BY <1>0, <1>2 DEF ReadsOnly
<1>3. ASSUME known \subseteq known', NEW new, Kept' \subseteq Kept \cup {new},
             new.login \in known' \cup {NoPassword}, new.encPwd \in known' \cup {NoPassword}
      PROVE  \A d \in Kept' : d.login \in known' \cup {NoPassword} /\ d.encPwd \in known' \cup {NoPassword}
  BY <1>0, <1>3
<1>4. CASE SetsLogin(c)
  <2> DEFINE new == WithLogin(view[c], NewLogin(c))
  <2>1. /\ view[c] \in Kept /\ view[c] \in Database /\ NewLogin(c) \in Passwords \cup {NoPassword}
        /\ known' = known \cup {NewLogin(c)} /\ 0 \in Nat /\ Kept' \subseteq Kept \cup {new}
    BY <1>0, <1>1, <1>4, RequestFacts DEF SetsLogin
  <2>2. new.login = NewLogin(c) /\ new.encPwd = view[c].encPwd
    BY <2>1, WriteFacts
  <2> HIDE DEF new
  <2> QED BY <1>0, <1>3, <2>1, <2>2
<1>5. CASE MakesKey(c)
  <2> DEFINE new == WithKey(view[c], req[c].cur, keysMade + 1)
  <2>1. /\ view[c] \in Kept /\ view[c] \in Database /\ req[c].cur \in Passwords \cup {NoPassword}
        /\ known' = known /\ Kept' \subseteq Kept \cup {new}
    BY <1>0, <1>1, <1>5, RequestFacts DEF MakesKey
  <2>2. new.login = view[c].login /\ new.encPwd = req[c].cur
    BY <1>0, <2>1, WriteFacts
  <2>3. req[c].cur \in known
    BY <1>0, <1>5 DEF MakesKey, At, Vouched, StorePlaces
  <2> HIDE DEF new
  <2> QED BY <1>0, <1>3, <2>1, <2>2, <2>3
<1>6. CASE ChangesKey(c)
  <2> DEFINE new == Resealed(view[c], req[c].new, keysMade + 1)
  <2>1. /\ view[c] \in Kept /\ view[c] \in Database /\ req[c].new \in Passwords \cup {NoPassword}
        /\ known' = known /\ Kept' \subseteq Kept \cup {new}
    BY <1>0, <1>1, <1>6, RequestFacts DEF ChangesKey
  <2>2. new.login = view[c].login /\ new.encPwd = req[c].new
    BY <1>0, <2>1, WriteFacts
  <2>3. req[c].new \in known
    BY <1>0, <1>6 DEF ChangesKey, At, Vouched, StorePlaces
  <2> HIDE DEF new
  <2> QED BY <1>0, <1>3, <2>1, <2>2, <2>3
<1> QED BY <1>0, <1>2, <1>4, <1>5, <1>6 DEF Writes, SetsLogin, MakesKey, ChangesKey

(* Nor does a handler go on with a password that nobody found right.       *)
LEMMA KnownPlaces ==
  ASSUME Inv, NEW c \in Clients, HandlerStep(c)
  PROVE  Vouched(c)'
<1> USE DEF Inv, At
<1>0. /\ pc[c] # "idle" /\ Vouched(c) /\ HandlerInv(c) /\ req[c] \in Requests
      /\ known \subseteq known' /\ Moves(c)
  BY HandlerFrame, HandlerFacts, KnownData DEF KnownInv, TypeInv, HandlerInv
<1>1. /\ req[c].cur \in Passwords /\ req[c].cur # NoPassword
      /\ Sent(c) = NewLogin(c) /\ NewLogin(c) \in Passwords
  BY <1>0, RequestFacts, NoPasswordAssumption
<1>2. ASSUME Return(c)
      PROVE  Vouched(c)'
  BY <1>2, ReturnFacts DEF Vouched, StorePlaces
<1>3. ASSUME NEW place \in Places, Goto(c, place)
      PROVE  pc'[c] = place /\ req' = req
  BY <1>3, GotoFacts
<1>4. CASE Lock(c)
  <2>1. PICK place \in {"read", "write"} :
          Goto(c, place) /\ (place = "write" => pc[c] = "lockToWrite")
    BY <1>4 DEF Lock
  <2>2. pc'[c] = place /\ req' = req
    BY <2>1, <1>3 DEF Places
  <2> QED BY <1>0, <2>1, <2>2 DEF Vouched, Overwrites, StorePlaces
<1>5. CASE ReadPassword(c)
  <2>1. CASE Return(c)
    BY <1>2, <2>1
  <2>2. CASE /\ view[c].login = req[c].cur
             /\ Goto(c, IF req[c].rpc = "Login" THEN "send" ELSE "lockToWrite")
    <3>1. req[c].cur \in known
      <4>1. view[c] \in Kept
        BY <1>0, <1>5, KeptFacts, TypeData, OwnerFacts DEF ReadPassword, HandlerInv
      <4>2. view[c].login \in known \cup {NoPassword}
        BY <4>1 DEF KnownInv
      <4> QED BY <1>1, <2>2, <4>2
    <3>2. PICK place \in {"send", "lockToWrite"} :
            Goto(c, place) /\ (place = "send" => req[c].rpc = "Login")
      BY <2>2
    <3>3. pc'[c] = place /\ req' = req
      BY <3>2, <1>3 DEF Places
    <3> QED BY <1>0, <3>1, <3>2, <3>3 DEF Vouched, Overwrites, Sent, StorePlaces
  <2> QED BY <1>5, <2>1, <2>2 DEF ReadPassword, PasswordRead, RightPassword
<1>6. CASE SetPassword(c)
  <2>1. known' = known \cup {NewLogin(c)} /\ pc[c] = "write"
    BY <1>6 DEF SetPassword, PasswordStored
  <2>2. Overwrites(c) => req[c].cur \in known /\ req[c].new = NewLogin(c)
    BY <1>0, <2>1 DEF Vouched, NewLogin
  <2>3. PICK place \in {"send", "removeAdmin", "copyStore"} :
          Goto(c, place) /\ (place # "send" => Overwrites(c))
    <3>1. CASE Overwrites(c)
      BY <1>6, <3>1 DEF SetPassword, PasswordStored
    <3>2. CASE ~Overwrites(c)
      BY <1>6, <3>2 DEF SetPassword, PasswordStored
    <3> QED BY <3>1, <3>2
  <2>4. pc'[c] = place /\ req' = req
    BY <2>3, <1>3 DEF Places
  <2>5. Sent(c)' = Sent(c) /\ Overwrites(c)' = Overwrites(c)
    BY <2>4 DEF Sent, Overwrites
  <2> QED BY <1>0, <1>1, <2>1, <2>2, <2>3, <2>4, <2>5 DEF Vouched, StorePlaces
<1>7. ASSUME pc[c] \in StorePlaces, NEW place \in StorePlaces \cup {"send", "hung"}, Goto(c, place)
      PROVE  Vouched(c)'
  <2>1. pc'[c] = place /\ req' = req
    BY <1>3, <1>7 DEF Places, StorePlaces
  <2>2. req[c].cur \in known /\ req[c].new \in known
    BY <1>0, <1>7 DEF Vouched
  <2> QED BY <1>0, <1>7, <2>1, <2>2 DEF Vouched, Sent, Overwrites, StorePlaces
<1>8. CASE RemoveFiles(c)
  BY <1>2, <1>7, <1>8 DEF RemoveFiles, RemoveFile, StorePlaces
<1>9. CASE CopyStore(c)
  <2>1. \E place \in {"initStore", "initLocked", "hung"} : Goto(c, place)
    BY <1>9 DEF CopyStore, Copied
  <2> QED BY <1>7, <1>9, <2>1 DEF CopyStore, StorePlaces
<1>10. CASE InitStore(c)
  BY <1>7, <1>10 DEF InitStore, StorePlaces
<1>11. CASE BeginStore(c)
  <2>1. UNCHANGED <<pc[c], req[c]>>
    BY <1>11 DEF BeginStore, callVars
  <2> QED BY <1>0, <2>1, VouchedAside
<1>12. CASE UnlockStore(c)
  BY <1>2, <1>7, <1>12 DEF UnlockStore, StorePlaces
<1>13. CASE ChangeStore(c)
  BY <1>7, <1>13 DEF ChangeStore, StorePlaces
<1>14. CASE \/ SetPasswordRefused(c) \/ ChangeStoreFails(c) \/ StorageFails(c)
            \/ Send(c) \/ SendAbandoned(c)
  BY <1>2, <1>14
  DEF SetPasswordRefused, ChangeStoreFails, StorageFails, Send, SendAbandoned
<1> QED BY <1>4, <1>5, <1>6, <1>8, <1>9, <1>10, <1>11, <1>12, <1>13, <1>14 DEF HandlerStep

LEMMA KnownHandler ==
  ASSUME Inv, NEW c \in Clients, HandlerStep(c)
  PROVE  KnownInv'
<1> USE DEF Inv
<1>1. /\ Moves(c) /\ UNCHANGED <<mainPc, mainPwd>> /\ known \subseteq known' /\ Vouched(c)'
      /\ msgs' = msgs \/ (At(c, "send") /\ msgs' = <<Sent(c)>>)
  BY HandlerFacts, HandlerFrame, KnownData, KnownPlaces
<1>2. \A d \in Clients : Vouched(d)'
  BY <1>1, VouchedAside DEF KnownInv, Moves
<1>3. msgs' # << >> => Head(msgs') \in known'
  <2>1. CASE msgs' = msgs
    BY <1>1, <2>1 DEF KnownInv
  <2>2. CASE At(c, "send") /\ msgs' = <<Sent(c)>>
    <3>1. Sent(c) \in known
      BY <2>2 DEF KnownInv, Vouched, At
    <3> QED BY <1>1, <2>2, <3>1
  <2> QED BY <1>1, <2>1, <2>2
<1> QED BY <1>1, <1>2, <1>3, KnownData DEF KnownInv

LEMMA KnownMain ==
  ASSUME Inv, MainStep
  PROVE  KnownInv'
<1> USE DEF Inv
<1>0. /\ DataOK /\ Main \in Owners /\ keysMade + 1 \in Nat /\ mainKey \in Nat /\ MainFrame
      /\ \A d \in Kept : d.login \in known \cup {NoPassword} /\ d.encPwd \in known \cup {NoPassword}
  BY TypeData, OwnerFacts, MainFrameFacts DEF KnownInv, TypeInv, TypeOK
<1>1. \A c \in Clients : Vouched(c)'
  BY <1>0, VouchedAside DEF KnownInv, MainFrame
<1>2. /\ msgs' # << >> => Head(msgs') \in known
      /\ mainPwd' = mainPwd \/ mainPwd' \in known
  BY <1>0 DEF MainFrame, KnownInv, TypeInv, TypeOK
<1>3. mainPc' \in {"unlock"} \cup Unlocked => mainPwd' \in known
  <2> USE DEF MainAt, MainGoto, Unlocked, Opened
  <2>1. CASE TakePassword
    BY <1>0, <2>1 DEF TakePassword, KnownInv
  <2>2. CASE SetDaemonLocked \/ MainStorageFails
    BY <2>2 DEF SetDaemonLocked, MainStorageFails
  <2>3. CASE SetDaemonUnlocked \/ SetRPCActive
    BY <2>3 DEF SetDaemonUnlocked, SetRPCActive, KnownInv
  <2>4. CASE MainCopyStore \/ MainInitStore \/ MainUnlockStore
    BY <2>4 DEF MainCopyStore, Copied, MainInitStore, MainUnlockStore, KnownInv
  <2>5. CASE MainBegin
    BY <2>5 DEF MainBegin, procVars, mainVars, KnownInv
  <2>6. ASSUME NEW removed, Regenerate(removed)
        PROVE  mainPwd' \in known
    BY <2>6 DEF Regenerate, KnownInv
  <2>7. CASE Bake("bakeAdmin", "admin", "bakeTest") \/ Bake("bakeTest", "test", "activate")
    BY <2>7 DEF Bake, KnownInv
  <2> QED BY <2>1, <2>2, <2>3, <2>4, <2>5, <2>6, <2>7 DEF MainStep
<1>4. \A d \in Kept' : d.login \in known \cup {NoPassword} /\ d.encPwd \in known \cup {NoPassword}
  <2>1. CASE MainGoesOn
    BY <1>0, <2>1, AsideKept DEF MainGoesOn
  <2>2. CASE MainBegins
    BY <1>0, <2>2, BeginFacts DEF MainBegins
  <2>3. CASE MainGivesUp
    BY <1>0, <2>3, RollbackFacts DEF MainGivesUp
  <2>4. ASSUME NEW new \in Database, MainCommits(new)
        PROVE  \A d \in Kept' : d.login \in known \cup {NoPassword} /\ d.encPwd \in known \cup {NoPassword}
    <3>1. /\ Kept' \subseteq Kept \cup {new} /\ view[Main] \in Kept /\ view[Main] \in Database
      BY <1>0, <2>4, CommitFacts, KeptFacts DEF MainCommits
    <3>2. /\ view[Main].login \in known \cup {NoPassword}
          /\ view[Main].encPwd \in known \cup {NoPassword}
      BY <1>0, <3>1
    <3>3. CASE MainMakesKey(new)
      <4>1. mainPwd \in known /\ mainPwd \in Passwords \cup {NoPassword}
        BY <3>3 DEF MainMakesKey, MainAt, KnownInv, Unlocked, TypeInv, TypeOK
      <4>2. /\ WithKey(view[Main], mainPwd, keysMade + 1).login = view[Main].login
            /\ WithKey(view[Main], mainPwd, keysMade + 1).encPwd = mainPwd
        BY <1>0, <3>1, <4>1, KeyFacts
      <4>3. new = WithKey(view[Main], mainPwd, keysMade + 1)
        BY <3>3 DEF MainMakesKey
      <4> QED BY <1>0, <3>1, <3>2, <4>1, <4>2, <4>3
    <3>4. CASE MainSeals(new)
      <4>2. /\ WithSeal(view[Main], mainKey).login = view[Main].login
            /\ WithSeal(view[Main], mainKey).encPwd = view[Main].encPwd
        BY <1>0, <3>1, SealFacts
      <4>3. new = WithSeal(view[Main], mainKey)
        BY <3>4 DEF MainSeals
      <4> QED BY <1>0, <3>1, <3>2, <4>2, <4>3
    <3>5. CASE MainOpensKey(new) \/ MainInits(new)
      BY <1>0, <3>1, <3>2, <3>5 DEF MainOpensKey, MainInits
    <3> QED BY <2>4, <3>3, <3>4, <3>5 DEF MainCommits
  <2> QED BY <2>1, <2>2, <2>3, <2>4, MainFacts
<1>5. known' = known
  BY <1>0 DEF MainFrame
<1> QED BY <1>1, <1>2, <1>3, <1>4, <1>5 DEF KnownInv

LEMMA KnownNext ==
  ASSUME Inv, [Next]_vars
  PROVE  KnownInv'
<1> USE DEF Inv
<1>1. CASE UNCHANGED vars
  <2>1. \A c \in Clients : Vouched(c)'
    BY <1>1, VouchedAside DEF KnownInv, vars, callVars, histVars
  <2> QED BY <1>1, <2>1, AsideKept DEF KnownInv, vars, procVars, mainVars, histVars
<1>2. ASSUME NEW c \in Clients, NEW r \in Asked, Admit(c, r)
      PROVE  KnownInv'
  <2>1. Vouched(c)'
    BY <1>2, AdmitFacts DEF Vouched, StorePlaces
  <2>2. \A d \in Clients : Vouched(d)'
    BY <1>2, <2>1, AdmitFacts, VouchedAside DEF KnownInv
  <2> QED BY <1>2, <2>2, AdmitFacts, AsideKept DEF KnownInv, procVars, mainVars
<1>3. CASE Down
  <2>1. \A c \in Clients : Vouched(c)'
    BY <1>3 DEF Down, Vouched, StorePlaces
  <2> QED BY <1>3, <2>1, DownType DEF Down, KnownInv, Unlocked, Opened
<1>4. CASE Start
  <2>1. \A c \in Clients : Vouched(c)'
    BY <1>4, VouchedAside DEF KnownInv, Start, MainGoto, callVars, histVars
  <2> QED BY <1>4, <2>1, AsideKept DEF Start, MainGoto, KnownInv, Unlocked, Opened, histVars
<1> QED BY <1>1, <1>2, <1>3, <1>4, KnownHandler, KnownMain DEF Next

-----------------------------------------------------------------------------
(* Before there is a password only the holder of the mutex is in a         *)
(* transaction, and core.Main waits.                                       *)
LEMMA OnceAlone ==
  ASSUME Inv, firstSets = 0
  PROVE  /\ known = {} /\ mainPc \notin Unlocked /\ ~InTransaction(Main)
         /\ \A c \in Clients : InTransaction(c) => mutex = c /\ c \in fresh
<1> USE DEF Inv
<1>1. known = {} /\ \A c \in Clients : InTransaction(c) => c \in fresh
  BY DEF OnceInv
<1>2. mainPc \notin Unlocked
  BY <1>1 DEF KnownInv
<1>3. ~InTransaction(Main)
  BY <1>2 DEF TypeInv, MainInv, MainPlaces, Unlocked, Opened
<1>4. \A c \in Clients : InTransaction(c) => mutex = c
  BY <1>1 DEF TypeInv, HandlerInv, TransactionPlaces, StorePlaces, KnownInv, Vouched
<1> QED BY <1>1, <1>2, <1>3, <1>4

LEMMA OnceHandler ==
  ASSUME Inv, NEW c \in Clients, HandlerStep(c)
  PROVE  OnceInv'
<1> USE DEF Inv
<1>0. /\ Moves(c) /\ Writes(c) /\ c \in Owners /\ HandlerInv(c) /\ Vouched(c) /\ DataOK
      /\ firstSets \in Nat /\ keysMade + 1 \in Nat /\ OnceInv /\ pc[c] # "idle"
      /\ Owners = Clients \cup {Main}
  BY HandlerFacts, HandlerFrame, OwnerFacts, TypeData
  DEF TypeInv, TypeOK, KnownInv, Owners
<1>1. ASSUME InTransaction(c)
      PROVE  view[c] \in Kept /\ view[c] \in Database /\ req[c] \in Requests
  BY <1>0, <1>1, KeptFacts DEF HandlerInv
<1>2. ASSUME firstSets = 0
      PROVE  \A d \in Clients : InTransaction(d)' => d \in fresh'
  <2>1. \A d \in Clients \ {c} : InTransaction(d)' = InTransaction(d)
    BY <1>0, OwnerFacts DEF Moves, InTransaction
  <2>2. CASE UNCHANGED dbVars
    BY <1>2, <2>2, AsideKept, OnceAlone, OwnerFacts
  <2>3. CASE Begin(c)
    BY <1>0, <1>2, <2>1, <2>3, BeginFacts, OnceAlone
  <2>4. CASE InTransaction(c) /\ ~InTransaction(c)'
    BY <1>2, <2>1, <2>4, OnceAlone
  <2> QED BY <1>0, <2>2, <2>3, <2>4 DEF Moves, Transacts
<1>3. ASSUME NEW new, Kept' \subseteq Kept \cup {new}, UNCHANGED <<known, firstSets>>,
             firstSets # 0 => new.login # NoPassword
      PROVE  OnceInv'
  BY <1>2, <1>3 DEF OnceInv, FirstPasswordOnce
<1>4. CASE ReadsOnly
  BY <1>2, <1>4 DEF ReadsOnly, OnceInv, FirstPasswordOnce
<1>5. CASE SetsLogin(c)
  <2> DEFINE new == WithLogin(view[c], NewLogin(c))
  <2>1. NewLogin(c) \in Passwords /\ NewLogin(c) # NoPassword /\ view[c] \in Kept
    BY <1>1, <1>5, RequestFacts, NoPasswordAssumption DEF SetsLogin
  <2>2. new.login = NewLogin(c)
    <3>1. view[c] \in Database /\ NewLogin(c) \in Passwords \cup {NoPassword} /\ 0 \in Nat
      BY <1>1, <1>5, <2>1 DEF SetsLogin
    <3> QED BY <3>1, WriteFacts
  <2>3. /\ Kept' \subseteq Kept \cup {new}
        /\ ~InTransaction(c)' /\ (~Overlapped(c) => other' = db')
        /\ c \in fresh => db' = new
    BY <1>5 DEF SetsLogin
  <2> HIDE DEF new
  <2>4. CASE Overwrites(c)
    <3>1. firstSets # 0 /\ firstSets' = firstSets
      BY <1>0, <1>5, <2>4 DEF SetsLogin, At, Vouched, OnceInv
    <3> QED BY <2>1, <2>2, <2>3, <3>1 DEF OnceInv, FirstPasswordOnce
  <2>5. CASE ~Overwrites(c)
    <3>1. firstSets = 0 /\ firstSets' = 1 /\ InTransaction(c)
      BY <1>0, <1>5, <2>1, <2>5 DEF SetsLogin, OnceInv
    <3>2. ~Overlapped(c) /\ c \in fresh
      BY <1>0, <3>1, OnceAlone DEF Overlapped
    <3>3. \A o \in Owners : ~InTransaction(o)'
      BY <1>0, <2>3, <3>2 DEF Moves, InTransaction, Overlapped
    <3>4. Kept' = {new}
      BY <2>3, <3>2, <3>3 DEF Kept
    <3> QED BY <2>1, <2>2, <3>1, <3>4 DEF OnceInv, FirstPasswordOnce
  <2> QED BY <2>4, <2>5
<1>6. CASE MakesKey(c)
  <2> DEFINE new == WithKey(view[c], req[c].cur, keysMade + 1)
  <2>1. /\ view[c] \in Kept /\ view[c] \in Database /\ req[c].cur \in Passwords \cup {NoPassword}
        /\ UNCHANGED <<known, firstSets>> /\ Kept' \subseteq Kept \cup {new}
    BY <1>1, <1>6, RequestFacts DEF MakesKey
  <2>2. new.login = view[c].login
    BY <1>0, <2>1, WriteFacts
  <2> HIDE DEF new
  <2> QED BY <1>0, <1>3, <2>1, <2>2 DEF OnceInv
<1>7. CASE ChangesKey(c)
  <2> DEFINE new == Resealed(view[c], req[c].new, keysMade + 1)
  <2>1. /\ view[c] \in Kept /\ view[c] \in Database /\ req[c].new \in Passwords \cup {NoPassword}
        /\ UNCHANGED <<known, firstSets>> /\ Kept' \subseteq Kept \cup {new}
    BY <1>1, <1>7, RequestFacts DEF ChangesKey
  <2>2. new.login = view[c].login
    BY <1>0, <2>1, WriteFacts
  <2> HIDE DEF new
  <2> QED BY <1>0, <1>3, <2>1, <2>2 DEF OnceInv
<1> QED BY <1>0, <1>4, <1>5, <1>6, <1>7 DEF Writes

LEMMA OnceMain ==
  ASSUME Inv, MainStep
  PROVE  OnceInv'
<1> USE DEF Inv
<1>0. /\ DataOK /\ Main \in Owners /\ keysMade + 1 \in Nat /\ mainKey \in Nat
      /\ UNCHANGED <<known, firstSets>> /\ OnceInv /\ FirstPasswordOnce'
  BY TypeData, OwnerFacts, MainFrameFacts DEF TypeInv, TypeOK, MainFrame, OnceInv, FirstPasswordOnce
<1>1. CASE firstSets = 0
  <2>1. mainPc \notin Unlocked /\ ~InTransaction(Main)
    BY <1>1, OnceAlone
  <2>2. ~MainBegins
    BY <2>1 DEF MainBegins, Unlocked, Opened
  <2>3. ~MainGivesUp /\ ~(\E new \in Database : MainCommits(new))
    BY <2>1 DEF MainGivesUp, MainCommits
  <2>4. MainGoesOn
    BY <2>2, <2>3, MainFacts
  <2> QED BY <1>0, <1>1, <2>4, AsideKept, OnceAlone, OwnerFacts DEF MainGoesOn, OnceInv
<1>2. CASE firstSets # 0
  <2>1. CASE MainGoesOn
    BY <1>0, <1>2, <2>1, AsideKept DEF MainGoesOn, OnceInv
  <2>2. CASE MainBegins
    BY <1>0, <1>2, <2>2, BeginFacts DEF MainBegins, OnceInv
  <2>3. CASE MainGivesUp
    BY <1>0, <1>2, <2>3, RollbackFacts DEF MainGivesUp, OnceInv
  <2>4. ASSUME NEW new \in Database, MainCommits(new)
        PROVE  OnceInv'
    <3>1. /\ Kept' \subseteq Kept \cup {new} /\ view[Main] \in Kept /\ view[Main] \in Database
      BY <1>0, <2>4, CommitFacts, KeptFacts DEF MainCommits
    <3>2. new.login = view[Main].login
      <4>1. CASE MainMakesKey(new)
        <5>1. mainPwd \in Passwords \cup {NoPassword}
          BY DEF TypeInv, TypeOK
        <5>2. WithKey(view[Main], mainPwd, keysMade + 1).login = view[Main].login
          BY <1>0, <3>1, <5>1, KeyFacts
        <5> QED BY <4>1, <5>2 DEF MainMakesKey
      <4>2. CASE MainSeals(new)
        <5>2. WithSeal(view[Main], mainKey).login = view[Main].login
          BY <1>0, <3>1, SealFacts
        <5> QED BY <4>2, <5>2 DEF MainSeals
      <4>3. CASE MainOpensKey(new) \/ MainInits(new)
        BY <4>3 DEF MainOpensKey, MainInits
      <4> QED BY <2>4, <4>1, <4>2, <4>3 DEF MainCommits
    <3> QED BY <1>0, <1>2, <3>1, <3>2 DEF OnceInv
  <2> QED BY <2>1, <2>2, <2>3, <2>4, MainFacts
<1> QED BY <1>1, <1>2

LEMMA OnceNext ==
  ASSUME Inv, [Next]_vars
  PROVE  OnceInv'
<1> USE DEF Inv
<1>1. ASSUME UNCHANGED dbVars, UNCHANGED <<known, firstSets>>
      PROVE  OnceInv'
  BY <1>1, AsideKept, OwnerFacts DEF OnceInv, FirstPasswordOnce
<1>2. CASE UNCHANGED vars
  BY <1>1, <1>2 DEF vars, histVars
<1>3. CASE \E c \in Clients, r \in Asked : Admit(c, r)
  BY <1>1, <1>3, AdmitFacts
<1>4. CASE Down
  BY <1>4, DownType, OwnerFacts DEF Down, OnceInv, FirstPasswordOnce
<1>5. CASE Start
  BY <1>1, <1>5 DEF Start, MainGoto, histVars
<1> QED BY <1>2, <1>3, <1>4, <1>5, OnceHandler, OnceMain DEF Next

-----------------------------------------------------------------------------
LEMMA InvInit == Init => Inv
<1> SUFFICES ASSUME Init PROVE Inv
  OBVIOUS
<1>1. /\ Kept = {db} /\ \A o \in Owners : ~InTransaction(o)
  BY DEF Init, Kept, InTransaction
<1>2. /\ mainPc = "lock" /\ msgs = << >> /\ other = db /\ \A c \in Clients : pc[c] = "idle"
  BY DEF Init
<1>3. GateInv /\ LoneInv /\ ReadyInv
  BY <1>1, <1>2, OwnerFacts DEF GateInv, LoneInv, ReadyInv, Unlocked, Opened
<1>4. \A c \in Clients : Vouched(c)
  BY <1>2 DEF Vouched, StorePlaces
<1>5. CASE NewStore
  <2>1. db.login = NoPassword /\ db.encPwd = NoPassword /\ db.rootSeal = 0
    BY <1>5 DEF NewStore, EmptyDatabase
  <2> QED BY <1>1, <1>2, <1>3, <1>4, <1>5, <2>1, InitType, OwnerFacts
          DEF Inv, NewStore, KeysInv, Consistent, KnownInv, OnceInv, FirstPasswordOnce, Unlocked, Opened
<1>6. CASE UsedStore
  <2>1. PICK p \in Passwords : /\ db = UsedDatabase(p) /\ firstSets = 1 /\ known = {p}
    BY <1>6 DEF UsedStore
  <2>2. /\ db.login = p /\ db.encPwd = p /\ db.rootSeal = 1 /\ db.encKey = 1 /\ p # NoPassword
    BY <2>1, NoPasswordAssumption DEF UsedDatabase
  <2> QED BY <1>1, <1>2, <1>3, <1>4, <2>1, <2>2, InitType, OwnerFacts
          DEF Inv, KeysInv, Consistent, KnownInv, OnceInv, FirstPasswordOnce, Unlocked, Opened
<1> QED BY <1>5, <1>6 DEF Init

LEMMA InvInductive == Inv /\ [Next]_vars => Inv'
  BY NextType, GateNext, LoneNext, KeysNext, ReadyNext, KnownNext, OnceNext DEF Inv

(* A root key that a handler and core.Main never wrote around each other   *)
(* can be opened, however many handlers change the store in overlapping    *)
(* transactions, and wherever a crash cuts them off.                       *)
THEOREM RootKeyCorrect == Spec => []RootKeySealedUnlessCrossed
<1>1. Inv => RootKeySealedUnlessCrossed
  BY KeptFacts, TypeData DEF Inv, KeysInv, Consistent, RootKeySealedUnlessCrossed
<1> QED BY InvInit, InvInductive, <1>1, PTL DEF Spec

(* The password of the store is one that was accepted for login, whichever *)
(* of the transactions that overlapped got lost.                           *)
THEOREM StorePasswordCorrect == Spec => []StorePasswordKnown
<1>1. Inv => StorePasswordKnown
  BY KeptFacts, TypeData DEF Inv, KnownInv, StorePasswordKnown
<1> QED BY InvInit, InvInductive, <1>1, PTL DEF Spec

(* At most one SetPassword writes a password, whatever calls race and      *)
(* however often the daemon restarts: no transaction that began without a  *)
(* password can bring the database without one back.                       *)
THEOREM FirstPasswordCorrect == Spec => []FirstPasswordOnce
<1>1. Inv => FirstPasswordOnce
  BY DEF Inv, OnceInv
<1> QED BY InvInit, InvInductive, <1>1, PTL DEF Spec

(* A daemon that is ready has the encryption key in memory that the root   *)
(* key in its database is sealed with, unless a handler outlived the gate  *)
(* or shared the store with core.Main.                                     *)
THEOREM ReadyCorrect == Spec => []ReadyUnlessLate
<1>1. Inv => ReadyUnlessLate
  BY KeptFacts, TypeData
  DEF Inv, KeysInv, Consistent, ReadyInv, Opened, ReadyUnlessLate
<1> QED BY InvInit, InvInductive, <1>1, PTL DEF Spec
=============================================================================
