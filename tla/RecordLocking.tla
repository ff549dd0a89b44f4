--------------------------- MODULE RecordLocking ----------------------------
(***************************************************************************)
(* Record locks: the LockTable that all sessions of a daemon share, the    *)
(* FileSystem operations that consult it, and the session life cycle       *)
(* (create, attach at logon and LOGTO, LOGOFF, QUIT, destroy) that gives   *)
(* sessions their lock ids and releases their locks.                       *)
(*                                                                         *)
(* An account stands for its Pick root, with files of its own; the lock    *)
(* table is keyed by the names of file and record alone.  A lock's type    *)
(* only appears in messages and is left out, and so are plain reads, which *)
(* change nothing.  Operations are atomic: sessions call them while they   *)
(* hold the execution token.  A session is created on any free port.       *)
(***************************************************************************)
EXTENDS Naturals

CONSTANTS
    Ports,          \* the ports sessions may have
    Accounts, NoAccount,
    Files, Records, \* their names
    Values, Absent  \* what a record holds, or that there is none

ASSUME PortsAssumption == Ports \subseteq Nat \ {0}
ASSUME AbsenceAssumption == NoAccount \notin Accounts /\ Absent \notin Values

VARIABLES
    table,  \* the ports of the session table
    login,  \* the account a session is logged in to, or NoAccount
    locks,  \* LockTable::locks_: the owner of each name's lock, or Nobody
    files,  \* the files of each account
    store,  \* the records of each account
    actor   \* history: the session whose operation came last

lockVars == <<table, login, locks, files, store, actor>>

Keys == Files \X Records

\* makeSessionLockId.  A session that is not logged in has the empty id.
LockId(p) == <<p, login[p]>>
LoggedIn(p) == p \in table /\ login[p] # NoAccount

Nobody == <<0, NoAccount>>

LockInit ==
    /\ table = {}
    /\ login = [p \in Ports |-> NoAccount]
    /\ locks = [k \in Keys |-> Nobody]
    /\ files = [a \in Accounts |-> {}]
    /\ store = [a \in Accounts |-> [k \in Keys |-> Absent]]
    /\ actor = 0

-----------------------------------------------------------------------------
(* LockTable.                                                              *)

CanLock(id, k) == locks[k] \in {Nobody, id}

\* Faulty variant: release does not ask who owns the lock.
ReleaseAnyLock(id, k) == [locks EXCEPT ![k] = Nobody]

\* release: nothing happens unless the caller owns the lock.
ReleaseLock(id, k) == [locks EXCEPT ![k] = IF @ = id THEN Nobody ELSE @]

ReleaseAllForSession(id) == [k \in Keys |-> IF locks[k] = id THEN Nobody ELSE locks[k]]

ReleaseAllForFile(f) == [k \in Keys |-> IF k[1] = f THEN Nobody ELSE locks[k]]

-----------------------------------------------------------------------------
(* The session life cycle.                                                 *)

Create(p) ==
    /\ p \notin table
    /\ table' = table \cup {p}
    /\ actor' = p
    /\ UNCHANGED <<login, locks, files, store>>

\* Faulty variant: LOGTO changes the lock id and keeps the locks.
AttachKeepsLocks(p, a) ==
    /\ p \in table
    /\ login' = [login EXCEPT ![p] = a]
    /\ actor' = p
    /\ UNCHANGED <<table, locks, files, store>>

\* attach, at logon and at LOGTO: reset releases the locks of the old id.
Attach(p, a) ==
    /\ p \in table
    /\ locks' = ReleaseAllForSession(LockId(p))
    /\ login' = [login EXCEPT ![p] = a]
    /\ actor' = p
    /\ UNCHANGED <<table, files, store>>

\* QUIT: reset, without a logoff.
Quit(p) ==
    /\ LoggedIn(p)
    /\ locks' = ReleaseAllForSession(LockId(p))
    /\ actor' = p
    /\ UNCHANGED <<table, login, files, store>>

\* LOGOFF: detach and reset.
Logoff(p) ==
    /\ LoggedIn(p)
    /\ locks' = ReleaseAllForSession(LockId(p))
    /\ login' = [login EXCEPT ![p] = NoAccount]
    /\ actor' = p
    /\ UNCHANGED <<table, files, store>>

\* Faulty variant: the session goes and its locks stay.
DestroyKeepsLocks(p) ==
    /\ p \in table
    /\ login' = [login EXCEPT ![p] = NoAccount]
    /\ table' = table \ {p}
    /\ actor' = p
    /\ UNCHANGED <<locks, files, store>>

\* destroy, by KILLSESSION or at shutdown.
Destroy(p) ==
    /\ p \in table
    /\ locks' = ReleaseAllForSession(LockId(p))
    /\ login' = [login EXCEPT ![p] = NoAccount]
    /\ table' = table \ {p}
    /\ actor' = p
    /\ UNCHANGED <<files, store>>

-----------------------------------------------------------------------------
(* FileSystem.  A refused or failed operation throws; what it changed       *)
(* before, it keeps.                                                        *)

\* readU locks the record before it opens the file, which need not exist.  (A
\* writeU whose write fails leaves the same state.)
ReadU(p, k) ==
    /\ LoggedIn(p)
    /\ CanLock(LockId(p), k)
    /\ locks' = [locks EXCEPT ![k] = LockId(p)]
    /\ actor' = p
    /\ UNCHANGED <<table, login, files, store>>

\* Faulty variant: a plain write does not look at the lock table.
WriteUnchecked(p, k, v) ==
    /\ LoggedIn(p)
    /\ k[1] \in files[login[p]]
    /\ store' = [store EXCEPT ![login[p]][k] = v]
    /\ actor' = p
    /\ UNCHANGED <<table, login, locks, files>>

\* write: assertRecordAccessible, then the record is replaced.
Write(p, k, v) ==
    /\ LoggedIn(p)
    /\ k[1] \in files[login[p]]
    /\ CanLock(LockId(p), k)
    /\ store' = [store EXCEPT ![login[p]][k] = v]
    /\ actor' = p
    /\ UNCHANGED <<table, login, locks, files>>

WriteU(p, k, v) ==
    /\ LoggedIn(p)
    /\ CanLock(LockId(p), k)
    /\ locks' = [locks EXCEPT ![k] = LockId(p)]
    /\ store' = IF k[1] \in files[login[p]]
                THEN [store EXCEPT ![login[p]][k] = v] ELSE store
    /\ actor' = p
    /\ UNCHANGED <<table, login, files>>

\* deleteRecord, which gives up the caller's lock on what it deletes.
DeleteRecord(p, k) ==
    /\ LoggedIn(p)
    /\ k[1] \in files[login[p]]
    /\ CanLock(LockId(p), k)
    /\ store[login[p]][k] # Absent
    /\ store' = [store EXCEPT ![login[p]][k] = Absent]
    /\ locks' = ReleaseLock(LockId(p), k)
    /\ actor' = p
    /\ UNCHANGED <<table, login, files>>

ReleaseRecord(p, k) ==
    /\ LoggedIn(p)
    /\ locks' = ReleaseLock(LockId(p), k)
    /\ actor' = p
    /\ UNCHANGED <<table, login, files, store>>

CreateFile(p, f) ==
    /\ LoggedIn(p)
    /\ f \notin files[login[p]]
    /\ files' = [files EXCEPT ![login[p]] = @ \cup {f}]
    /\ actor' = p
    /\ UNCHANGED <<table, login, locks, store>>

\* deleteFile releases every lock under the name before it looks for the file.
DeleteFile(p, f) ==
    /\ LoggedIn(p)
    /\ locks' = ReleaseAllForFile(f)
    /\ files' = [files EXCEPT ![login[p]] = @ \ {f}]
    /\ store' = [store EXCEPT ![login[p]] =
                    [k \in Keys |-> IF k[1] = f THEN Absent ELSE @[k]]]
    /\ actor' = p
    /\ UNCHANGED <<table, login>>

\* deleteFile when remove_all fails half way: the locks are gone all the same.
DeleteFileFails(p, f) ==
    /\ LoggedIn(p)
    /\ f \in files[login[p]]
    /\ locks' = ReleaseAllForFile(f)
    /\ \E lost \in SUBSET Records :
          store' = [store EXCEPT ![login[p]] =
                       [k \in Keys |-> IF k[1] = f /\ k[2] \in lost THEN Absent ELSE @[k]]]
    /\ actor' = p
    /\ UNCHANGED <<table, login, files>>

SessionOp(p) ==
    \/ \E a \in Accounts : Attach(p, a)
    \/ Quit(p)
    \/ Logoff(p)
    \/ \E k \in Keys : ReadU(p, k) \/ DeleteRecord(p, k) \/ ReleaseRecord(p, k)
    \/ \E k \in Keys, v \in Values : Write(p, k, v) \/ WriteU(p, k, v)
    \/ \E f \in Files : CreateFile(p, f) \/ DeleteFile(p, f) \/ DeleteFileFails(p, f)

LockOp(p) == Create(p) \/ Destroy(p) \/ SessionOp(p)

LockNext == \E p \in Ports : LockOp(p)

LockSpec == LockInit /\ [][LockNext]_lockVars

-----------------------------------------------------------------------------
(* Properties.                                                             *)

\* The state is well formed; records are in files that exist.
LockTypeOK ==
    /\ table \in SUBSET Ports
    /\ login \in [Ports -> Accounts \cup {NoAccount}]
    /\ \A p \in Ports \ table : login[p] = NoAccount
    /\ locks \in [Keys -> (Ports \cup {0}) \X (Accounts \cup {NoAccount})]
    /\ files \in [Accounts -> SUBSET Files]
    /\ store \in [Accounts -> [Keys -> Values \cup {Absent}]]
    /\ \A a \in Accounts : \A k \in Keys : k[1] \notin files[a] => store[a][k] = Absent
    /\ actor \in Ports \cup {0}

Holds(p, k) == LoggedIn(p) /\ locks[k] = LockId(p)

\* No lock outlives its owner: across LOGTO, LOGOFF, QUIT, kills and the reuse
\* of ports, whoever a lock names is logged in under that very id.  An orphan
\* would lock its record until the daemon restarts, or fall to a later session.
NoOrphanLocks == \A k \in Keys : locks[k] = Nobody \/ \E p \in Ports : Holds(p, k)

LockInv == LockTypeOK /\ NoOrphanLocks

\* What READU promises: as long as a session holds the lock, no other session
\* changes the record, by any of write, writeU, deleteRecord, file deletion and
\* re-creation, from the same account or another.
LockedRecordIsStable ==
    [][\A p \in Ports, k \in Keys :
          Holds(p, k) /\ Holds(p, k)' /\ actor' # p =>
              store'[login[p]][k] = store[login[p]][k]]_lockVars

\* Nobody takes a lock from a session: it goes by an operation of the session
\* itself or with the session, or DELETE-FILE has released every lock under the
\* name of the file -- in whichever account that file was, for the lock table
\* does not know accounts.
LocksPersist ==
    [][\A p \in Ports, k \in Keys :
          Holds(p, k) /\ actor' # p =>
              Holds(p, k)' \/ \A r \in Records : locks'[<<k[1], r>>] = Nobody]_lockVars
=============================================================================
