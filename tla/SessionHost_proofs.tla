-------------------------- MODULE SessionHost_proofs ------------------------
(***************************************************************************)
(* The session table: ports and sessions correspond, ports stay within the *)
(* limit, and the table implements PortPool.  The record locks: every lock *)
(* has a live owner, and the record under a lock changes only by its       *)
(* owner's hand.  The host implements both at once, so what is proved of   *)
(* either holds of the composition; and the two together give that a port  *)
(* is not reused while there are locks under it.                           *)
(***************************************************************************)
EXTENDS SessionHost, FiniteSetTheorems, TLAPS

-----------------------------------------------------------------------------
(* The session table.                                                      *)

\* The pigeonhole behind the limit: with every port below it taken, a port is
\* at most one more than the number of ports taken.
LEMMA FirstFreeBound ==
    ASSUME NEW S, IsFiniteSet(S), NEW port \in Nat \ {0}, 1..(port - 1) \subseteq S
    PROVE  port <= Cardinality(S) + 1
<1>1. Cardinality(1..(port - 1)) = port - 1
  BY FS_Interval
<1>2. Cardinality(1..(port - 1)) <= Cardinality(S)
  BY FS_Subset
<1>3. Cardinality(S) \in Nat
  BY FS_CardinalityType
<1> QED
  BY <1>1, <1>2, <1>3

\* What allocate's search returns: a free port with none free below it, within
\* the limit.
LEMMA AllocateLowest ==
    ASSUME TableInv, NEW port \in Candidates, Allocate(port)
    PROVE  /\ port \in 1..MaxPorts
           /\ port \notin inUse
           /\ 1..(port - 1) \subseteq inUse
<1>1. Cardinality(inUse) \in Nat
  BY FS_CardinalityType DEF TableInv, TableTypeOK
<1>2. port \in Nat \ {0} /\ port \notin inUse /\ nextCandidate <= port
      /\ port <= nextCandidate + Cardinality(inUse)
  BY <1>1 DEF Candidates, TableInv, TableTypeOK
<1>3. ASSUME NEW q \in 1..(port - 1)  PROVE q \in inUse
  <2>1. CASE q < nextCandidate
    BY <2>1, <1>2 DEF TableInv, TableTypeOK, BelowCandidateInUse
  <2>2. CASE nextCandidate <= q
    BY <2>2, <1>1, <1>2 DEF Candidates, Allocate, TableInv, TableTypeOK
  <2> QED
    BY <2>1, <2>2, <1>2 DEF TableInv, TableTypeOK
<1>4. port <= Cardinality(inUse) + 1
  BY <1>2, <1>3, FirstFreeBound DEF TableInv, TableTypeOK
<1> QED
  BY <1>1, <1>2, <1>3, <1>4, MaxPortsAssumption DEF Allocate

\* The inductive invariant holds initially.
LEMMA TableInitInv == TableInit => TableInv /\ PortsWithinLimit
BY FS_EmptySet DEF TableInit, TableInv, TableTypeOK, PortsMatchSessions,
                   BelowCandidateInUse, PortsWithinLimit

\* createSession keeps it.
LEMMA CreateInv ==
    ASSUME TableInv, PortsWithinLimit, CreateSession
    PROVE  TableInv' /\ PortsWithinLimit'
<1>1. PICK port \in Candidates : Allocate(port) /\ sessions' = sessions \cup {port}
  BY DEF CreateSession
<1>2. port \in 1..MaxPorts /\ port \notin inUse /\ 1..(port - 1) \subseteq inUse
  BY <1>1, AllocateLowest
<1>3. inUse' = inUse \cup {port} /\ nextCandidate' = port + 1
  BY <1>1 DEF Allocate
<1>4. IsFiniteSet(inUse')
  BY <1>3, FS_AddElement DEF TableInv, TableTypeOK
<1>5. TableTypeOK'
  BY <1>1, <1>2, <1>3, <1>4, MaxPortsAssumption DEF TableInv, TableTypeOK
<1>6. PortsMatchSessions' /\ PortsWithinLimit'
  BY <1>1, <1>2, <1>3 DEF TableInv, PortsMatchSessions, PortsWithinLimit
<1>7. BelowCandidateInUse'
  BY <1>2, <1>3, MaxPortsAssumption DEF BelowCandidateInUse
<1> QED
  BY <1>5, <1>6, <1>7 DEF TableInv

\* destroySession keeps it.
LEMMA DestroyInv ==
    ASSUME TableInv, PortsWithinLimit, NEW id \in sessions, DestroySession(id)
    PROVE  TableInv' /\ PortsWithinLimit'
<1>1. IsFiniteSet(inUse')
  BY FS_RemoveElement DEF TableInv, TableTypeOK, DestroySession, ReleasePort
<1>2. TableTypeOK' /\ PortsMatchSessions' /\ PortsWithinLimit'
  BY <1>1 DEF TableInv, TableTypeOK, PortsMatchSessions, PortsWithinLimit,
              DestroySession, ReleasePort
<1>3. BelowCandidateInUse'
  BY DEF TableInv, TableTypeOK, BelowCandidateInUse, DestroySession, ReleasePort
<1> QED
  BY <1>2, <1>3 DEF TableInv

\* Every step keeps it.
LEMMA TableStepInv ==
    TableInv /\ PortsWithinLimit /\ [TableNext]_tableVars => TableInv' /\ PortsWithinLimit'
<1> SUFFICES ASSUME TableInv, PortsWithinLimit, [TableNext]_tableVars
             PROVE  TableInv' /\ PortsWithinLimit'
  OBVIOUS
<1>1. CASE CreateSession
  BY <1>1, CreateInv
<1>2. CASE \E id \in sessions : DestroySession(id)
  BY <1>2, DestroyInv
<1>3. CASE UNCHANGED tableVars
  BY <1>3 DEF TableInv, TableTypeOK, PortsMatchSessions, BelowCandidateInUse,
              PortsWithinLimit, tableVars
<1> QED
  BY <1>1, <1>2, <1>3 DEF TableNext

\* The table and the port manager stay consistent, for every limit: types,
\* ports equal to sessions, and no free port below the candidate.
THEOREM TableInvariant == TableSpec => [](TableInv /\ PortsWithinLimit)
BY TableInitInv, TableStepInv, PTL DEF TableSpec

\* No port leaks and none is shared: inUse_ is the set of live sessions.
THEOREM PortsAreSessions == TableSpec => []PortsMatchSessions
<1>1. TableInv /\ PortsWithinLimit => PortsMatchSessions
  BY DEF TableInv
<1> QED
  BY <1>1, TableInvariant, PTL

\* However sessions come and go, no port above the limit is handed out.
THEOREM PortsAreBounded == TableSpec => []PortsWithinLimit
BY TableInvariant, PTL

\* createSession always hands out the lowest free port, and destroySession
\* gives exactly its own port back.
THEOREM TableImplementsPool == TableSpec => PoolRefinement
<1>1. TableInit => sessions = {}
  BY DEF TableInit
<1>2. TableInv /\ PortsWithinLimit /\ [TableNext]_tableVars => [Pool!PoolNext]_sessions
  <2> SUFFICES ASSUME TableInv, PortsWithinLimit, [TableNext]_tableVars
               PROVE  Pool!PoolNext \/ UNCHANGED sessions
    OBVIOUS
  <2>1. ASSUME CreateSession  PROVE Pool!PoolNext
    <3>1. PICK port \in Candidates :
              Allocate(port) /\ sessions' = sessions \cup {port}
      BY <2>1 DEF CreateSession
    <3>2. port \in 1..MaxPorts /\ port \notin inUse /\ 1..(port - 1) \subseteq inUse
      BY <3>1, AllocateLowest
    <3>3. Pool!Hand(port)
      BY <3>1, <3>2 DEF Pool!Hand, Allocate, TableInv, PortsMatchSessions
    <3> QED
      BY <3>2, <3>3 DEF Pool!PoolNext
  <2>2. ASSUME NEW id \in sessions, DestroySession(id)  PROVE Pool!PoolNext
    <3>1. id \in 1..MaxPorts
      BY DEF TableInv, PortsMatchSessions, PortsWithinLimit
    <3>2. Pool!GiveUp(id)
      BY <2>2 DEF Pool!GiveUp, DestroySession
    <3> QED
      BY <3>1, <3>2 DEF Pool!PoolNext
  <2> QED
    BY <2>1, <2>2 DEF TableNext, tableVars
<1> QED
  BY <1>1, <1>2, TableInvariant, PTL DEF TableSpec, PoolRefinement, Pool!PoolSpec

-----------------------------------------------------------------------------
(* The record locks.                                                       *)

\* Lock ids tell sessions apart, and from Nobody.
LEMMA LockIdsDiffer ==
    ASSUME NEW p \in Ports, NEW q \in Ports
    PROVE  LockId(p) # Nobody /\ (LockId(p) = LockId(q) => p = q)
BY PortsAssumption DEF LockId, Nobody

\* The invariant holds initially.
LEMMA LockInitInv == LockInit => LockInv
<1> SUFFICES ASSUME LockInit  PROVE LockInv
  OBVIOUS
<1>1. /\ table \in SUBSET Ports
      /\ login \in [Ports -> Accounts \cup {NoAccount}]
      /\ \A p \in Ports \ table : login[p] = NoAccount
      /\ actor \in Ports \cup {0}
  BY DEF LockInit
<1>2. locks \in [Keys -> (Ports \cup {0}) \X (Accounts \cup {NoAccount})]
  BY DEF LockInit, Nobody
<1>3. /\ files \in [Accounts -> SUBSET Files]
      /\ store \in [Accounts -> [Keys -> Values \cup {Absent}]]
      /\ \A a \in Accounts : \A k \in Keys : k[1] \notin files[a] => store[a][k] = Absent
  BY DEF LockInit
<1>4. NoOrphanLocks
  BY DEF LockInit, NoOrphanLocks
<1> QED
  BY <1>1, <1>2, <1>3, <1>4 DEF LockInv, LockTypeOK

\* What the three ways to give locks up leave: owners as before, or Nobody.
LEMMA ReleaseTyped ==
    ASSUME LockTypeOK, NEW id, NEW f, NEW k \in Keys
    PROVE  /\ ReleaseLock(id, k) \in [Keys -> (Ports \cup {0}) \X (Accounts \cup {NoAccount})]
           /\ ReleaseAllForSession(id) \in [Keys -> (Ports \cup {0}) \X (Accounts \cup {NoAccount})]
           /\ ReleaseAllForFile(f) \in [Keys -> (Ports \cup {0}) \X (Accounts \cup {NoAccount})]
<1>1. Nobody \in (Ports \cup {0}) \X (Accounts \cup {NoAccount})
  BY DEF Nobody
<1> QED
  BY <1>1 DEF LockTypeOK, ReleaseLock, ReleaseAllForSession, ReleaseAllForFile

\* A step of the life cycle keeps the invariant: the session's locks go with
\* the id under which it took them.
LEMMA LifeCycleInv ==
    ASSUME LockInv, NEW p \in Ports,
           locks' = ReleaseAllForSession(LockId(p)),
           NEW a \in Accounts \cup {NoAccount}, login' = [login EXCEPT ![p] = a],
           \/ table' = table /\ p \in table
           \/ table' = table \ {p} /\ a = NoAccount,
           actor' = p, files' = files, store' = store
    PROVE  LockInv'
<1>1. table' \in SUBSET Ports /\ login' \in [Ports -> Accounts \cup {NoAccount}]
      /\ \A q \in Ports \ table' : login'[q] = NoAccount
  BY DEF LockInv, LockTypeOK
<1>2. locks' = [k \in Keys |-> IF locks[k] = LockId(p) THEN Nobody ELSE locks[k]]
  BY DEF ReleaseAllForSession
<1>3. locks' \in [Keys -> (Ports \cup {0}) \X (Accounts \cup {NoAccount})]
  BY <1>2 DEF LockInv, LockTypeOK, Nobody
<1>4. LockTypeOK'
  BY <1>1, <1>3 DEF LockInv, LockTypeOK
<1>5. ASSUME NEW k \in Keys, locks'[k] # Nobody
      PROVE  \E q \in Ports : Holds(q, k)'
  <2>1. locks'[k] = locks[k] /\ locks[k] # LockId(p) /\ locks[k] # Nobody
    BY <1>2, <1>5
  <2>2. PICK q \in Ports : Holds(q, k)
    BY <2>1 DEF LockInv, NoOrphanLocks
  <2>3. q # p
    BY <2>1, <2>2 DEF Holds
  <2>4. Holds(q, k)'
    BY <2>1, <2>2, <2>3 DEF Holds, LoggedIn, LockId, LockInv, LockTypeOK
  <2> QED
    BY <2>4
<1> QED
  BY <1>4, <1>5 DEF LockInv, NoOrphanLocks

\* An operation of a logged-in session that leaves every lock as it is, free or
\* the session's own keeps every lock owned.
LEMMA OwnLocksOnly ==
    ASSUME LockInv, NEW p \in Ports, LoggedIn(p),
           table' = table, login' = login,
           \A k \in Keys : locks'[k] \in {locks[k], Nobody, LockId(p)}
    PROVE  NoOrphanLocks'
<1> SUFFICES ASSUME NEW k \in Keys, locks'[k] # Nobody
             PROVE  \E q \in Ports : Holds(q, k)'
  BY DEF NoOrphanLocks
<1>1. CASE locks'[k] = LockId(p)
  <2>1. Holds(p, k)'
    BY <1>1 DEF Holds, LoggedIn, LockId
  <2> QED
    BY <2>1
<1>2. CASE locks'[k] = locks[k]
  <2>1. PICK q \in Ports : Holds(q, k)
    BY <1>2 DEF LockInv, NoOrphanLocks
  <2>2. Holds(q, k)'
    BY <1>2, <2>1 DEF Holds, LoggedIn, LockId
  <2> QED
    BY <2>2
<1> QED
  BY <1>1, <1>2

\* One operation of one session keeps the invariant.
LEMMA LockOpInv == ASSUME LockInv, NEW p \in Ports, LockOp(p)  PROVE LockInv'
<1> USE DEF LockInv
<1> DEFINE Owners == (Ports \cup {0}) \X (Accounts \cup {NoAccount})
<1>1. CASE Create(p)
  <2>1. LockTypeOK'
    BY <1>1 DEF Create, LockTypeOK
  <2>2. ASSUME NEW k \in Keys  PROVE locks'[k] = Nobody \/ \E q \in Ports : Holds(q, k)'
    BY <1>1 DEF Create, NoOrphanLocks, Holds, LoggedIn, LockId
  <2> QED
    BY <2>1, <2>2 DEF NoOrphanLocks
<1>2. ASSUME NEW a \in Accounts, Attach(p, a)  PROVE LockInv'
  BY <1>2, LifeCycleInv DEF Attach
<1>3. CASE Quit(p)
  <2>1. login' = [login EXCEPT ![p] = login[p]]
    BY <1>3 DEF Quit, LockTypeOK
  <2>2. PICK a \in Accounts \cup {NoAccount} : a = login[p]
    BY DEF LockTypeOK
  <2> QED
    BY <1>3, <2>1, <2>2, LifeCycleInv DEF Quit, LoggedIn
<1>4. CASE Logoff(p)
  BY <1>4, LifeCycleInv DEF Logoff, LoggedIn
<1>5. CASE Destroy(p)
  BY <1>5, LifeCycleInv DEF Destroy
<1>6. LoggedIn(p) => LockId(p) \in Owners /\ login[p] \in Accounts
  BY DEF LockTypeOK, LoggedIn, LockId
<1>7. ASSUME NEW k \in Keys, ReadU(p, k)  PROVE LockInv'
  <2>1. NoOrphanLocks'
    BY <1>7, OwnLocksOnly DEF ReadU, LockTypeOK
  <2>2. LockTypeOK'
    BY <1>6, <1>7 DEF ReadU, LockTypeOK
  <2> QED
    BY <2>1, <2>2
<1>8. ASSUME NEW k \in Keys, DeleteRecord(p, k)  PROVE LockInv'
  <2>1. NoOrphanLocks'
    BY <1>8, OwnLocksOnly DEF DeleteRecord, ReleaseLock, LockTypeOK
  <2>2. locks' \in [Keys -> Owners]
    BY <1>8, ReleaseTyped DEF DeleteRecord
  <2>3. LockTypeOK'
    BY <1>6, <1>8, <2>2 DEF DeleteRecord, LockTypeOK
  <2> QED
    BY <2>1, <2>3
<1>9. ASSUME NEW k \in Keys, ReleaseRecord(p, k)  PROVE LockInv'
  <2>1. NoOrphanLocks'
    BY <1>9, OwnLocksOnly DEF ReleaseRecord, ReleaseLock, LockTypeOK
  <2>2. locks' \in [Keys -> Owners]
    BY <1>9, ReleaseTyped DEF ReleaseRecord
  <2>3. LockTypeOK'
    BY <1>9, <2>2 DEF ReleaseRecord, LockTypeOK
  <2> QED
    BY <2>1, <2>3
<1>10. ASSUME NEW k \in Keys, NEW v \in Values, Write(p, k, v)  PROVE LockInv'
  <2>1. NoOrphanLocks'
    BY <1>10, OwnLocksOnly DEF Write
  <2>2. LockTypeOK'
    BY <1>6, <1>10 DEF Write, LockTypeOK
  <2> QED
    BY <2>1, <2>2
<1>11. ASSUME NEW k \in Keys, NEW v \in Values, WriteU(p, k, v)  PROVE LockInv'
  <2>1. NoOrphanLocks'
    BY <1>11, OwnLocksOnly DEF WriteU, LockTypeOK
  <2>2. LockTypeOK'
    BY <1>6, <1>11 DEF WriteU, LockTypeOK
  <2> QED
    BY <2>1, <2>2
<1>12. ASSUME NEW f \in Files, CreateFile(p, f)  PROVE LockInv'
  <2>1. NoOrphanLocks'
    BY <1>12, OwnLocksOnly DEF CreateFile
  <2>2. LockTypeOK'
    BY <1>6, <1>12 DEF CreateFile, LockTypeOK
  <2> QED
    BY <2>1, <2>2
<1>13. ASSUME NEW f \in Files, DeleteFile(p, f) \/ DeleteFileFails(p, f)
       PROVE  locks' \in [Keys -> Owners] /\ NoOrphanLocks'
  <2>1. NoOrphanLocks'
    BY <1>13, OwnLocksOnly DEF DeleteFile, DeleteFileFails, ReleaseAllForFile
  <2>2. locks' = ReleaseAllForFile(f)
    BY <1>13 DEF DeleteFile, DeleteFileFails
  <2>3. locks' \in [Keys -> Owners]
    BY <2>2 DEF ReleaseAllForFile, LockTypeOK, Nobody
  <2> QED
    BY <2>1, <2>3
<1>14. ASSUME NEW f \in Files, DeleteFile(p, f)  PROVE LockInv'
  BY <1>6, <1>13, <1>14 DEF DeleteFile, LockTypeOK
<1>15. ASSUME NEW f \in Files, DeleteFileFails(p, f)  PROVE LockInv'
  <2>1. PICK lost \in SUBSET Records :
            store' = [store EXCEPT ![login[p]] =
                         [k \in Keys |-> IF k[1] = f /\ k[2] \in lost THEN Absent ELSE @[k]]]
    BY <1>15 DEF DeleteFileFails
  <2>2. login[p] \in Accounts /\ UNCHANGED <<table, login, files>> /\ actor' = p
    BY <1>6, <1>15 DEF DeleteFileFails
  <2>3. store' \in [Accounts -> [Keys -> Values \cup {Absent}]]
    BY <2>1, <2>2 DEF LockTypeOK
  <2>4. \A a \in Accounts : \A k \in Keys : k[1] \notin files'[a] => store'[a][k] = Absent
    BY <2>1, <2>2 DEF LockTypeOK
  <2> QED
    BY <1>13, <1>15, <2>2, <2>3, <2>4 DEF LockTypeOK
<1> QED
  BY <1>1, <1>2, <1>3, <1>4, <1>5, <1>7, <1>8, <1>9, <1>10, <1>11, <1>12, <1>14, <1>15
     DEF LockOp, SessionOp

\* Every step keeps the invariant.
LEMMA LockStepInv == LockInv /\ [LockNext]_lockVars => LockInv'
<1> SUFFICES ASSUME LockInv, [LockNext]_lockVars  PROVE LockInv'
  OBVIOUS
<1>1. CASE LockNext
  BY <1>1, LockOpInv DEF LockNext
<1>2. CASE UNCHANGED lockVars
  BY <1>2 DEF lockVars, LockInv, LockTypeOK, NoOrphanLocks, Holds, LoggedIn, LockId
<1> QED
  BY <1>1, <1>2

\* The lock table, the sessions and the accounts' files stay well formed, and
\* every lock has a live owner.
THEOREM LockInvariant == LockSpec => []LockInv
BY LockInitInv, LockStepInv, PTL DEF LockSpec

\* For any number of sessions, accounts, files and records: no lock outlives
\* the login under which it was taken.
THEOREM LocksHaveOwners == LockSpec => []NoOrphanLocks
<1>1. LockInv => NoOrphanLocks
  BY DEF LockInv
<1> QED
  BY <1>1, LockInvariant, PTL

\* For any number of sessions, accounts, files and records: as long as a
\* session keeps a lock, no other session changes the record in its account.
THEOREM LockedRecordsAreStable == LockSpec => LockedRecordIsStable
<1> DEFINE Stable == \A p \in Ports, k \in Keys :
                         Holds(p, k) /\ Holds(p, k)' /\ actor' # p =>
                             store'[login[p]][k] = store[login[p]][k]
<1>1. LockInv /\ [LockNext]_lockVars => [Stable]_lockVars
  <2> SUFFICES ASSUME LockInv, NEW q \in Ports, LockOp(q),
                      NEW p \in Ports, NEW k \in Keys,
                      Holds(p, k), Holds(p, k)', actor' # p
               PROVE  store'[login[p]][k] = store[login[p]][k]
    BY DEF LockNext
  <2> USE DEF LockInv
  <2>1. actor' = q
    BY DEF LockOp, SessionOp, Create, Attach, Quit, Logoff, Destroy, ReadU,
           DeleteRecord, ReleaseRecord, Write, WriteU, CreateFile, DeleteFile,
           DeleteFileFails
  <2>2. locks[k] = LockId(p) /\ locks'[k] # Nobody /\ LockId(p) # Nobody
        /\ LockId(p) # LockId(q)
    BY <2>1, PortsAssumption DEF Holds, LockId, Nobody
  <2>3. login[p] \in Accounts
    BY DEF Holds, LoggedIn, LockTypeOK
  <2>4. ~ CanLock(LockId(q), k)
    BY <2>2 DEF CanLock
  <2>5. CASE store' = store
    BY <2>5
  <2>6. ASSUME NEW j \in Keys, DeleteRecord(q, j)
        PROVE  store'[login[p]][k] = store[login[p]][k]
    BY <2>3, <2>4, <2>6 DEF DeleteRecord, LockTypeOK
  <2>7. ASSUME NEW j \in Keys, NEW v \in Values, Write(q, j, v)
        PROVE  store'[login[p]][k] = store[login[p]][k]
    BY <2>3, <2>4, <2>7 DEF Write, LockTypeOK
  <2>8. ASSUME NEW j \in Keys, NEW v \in Values, WriteU(q, j, v)
        PROVE  store'[login[p]][k] = store[login[p]][k]
    BY <2>3, <2>4, <2>8 DEF WriteU, LockTypeOK
  <2>9. ASSUME NEW f \in Files, DeleteFile(q, f) \/ DeleteFileFails(q, f)
        PROVE  k[1] # f
    BY <2>2, <2>9 DEF DeleteFile, DeleteFileFails, ReleaseAllForFile
  <2>10. ASSUME NEW f \in Files, DeleteFile(q, f)
         PROVE  store'[login[p]][k] = store[login[p]][k]
    BY <2>3, <2>9, <2>10 DEF DeleteFile, LockTypeOK
  <2>11. ASSUME NEW f \in Files, DeleteFileFails(q, f)
         PROVE  store'[login[p]][k] = store[login[p]][k]
    <3>1. PICK lost \in SUBSET Records :
              store' = [store EXCEPT ![login[q]] =
                           [j \in Keys |-> IF j[1] = f /\ j[2] \in lost THEN Absent ELSE @[j]]]
      BY <2>11 DEF DeleteFileFails
    <3>2. k[1] # f
      BY <2>9, <2>11
    <3> QED
      BY <2>3, <3>1, <3>2 DEF LockTypeOK
  <2> QED
    BY <2>5, <2>6, <2>7, <2>8, <2>10, <2>11
       DEF LockOp, SessionOp, Create, Attach, Quit, Logoff, Destroy, ReadU,
           ReleaseRecord, CreateFile
<1> QED
  BY <1>1, LockInvariant, PTL DEF LockSpec, LockedRecordIsStable

\* For any number of sessions, accounts, files and records: a lock survives
\* whatever other sessions do, short of a deletion of a file of that name.
THEOREM LocksSurviveOthers == LockSpec => LocksPersist
<1> DEFINE Persist == \A p \in Ports, k \in Keys :
                          Holds(p, k) /\ actor' # p =>
                              Holds(p, k)' \/ \A r \in Records : locks'[<<k[1], r>>] = Nobody
<1>1. LockInv /\ [LockNext]_lockVars => [Persist]_lockVars
  <2> SUFFICES ASSUME LockInv, NEW q \in Ports, LockOp(q),
                      NEW p \in Ports, NEW k \in Keys,
                      Holds(p, k), actor' # p
               PROVE  Holds(p, k)' \/ \A r \in Records : locks'[<<k[1], r>>] = Nobody
    BY DEF LockNext
  <2> USE DEF LockInv
  <2>1. actor' = q
    BY DEF LockOp, SessionOp, Create, Attach, Quit, Logoff, Destroy, ReadU,
           DeleteRecord, ReleaseRecord, Write, WriteU, CreateFile, DeleteFile,
           DeleteFileFails
  <2>2. locks[k] = LockId(p) /\ LockId(p) # Nobody /\ LockId(p) # LockId(q) /\ p # q
    BY <2>1, LockIdsDiffer DEF Holds
  <2>3. ~ CanLock(LockId(q), k)
    BY <2>2 DEF CanLock
  <2>4. ASSUME NEW f \in Files, DeleteFile(q, f) \/ DeleteFileFails(q, f)
        PROVE  Holds(p, k)' \/ \A r \in Records : locks'[<<k[1], r>>] = Nobody
    <3>1. locks' = ReleaseAllForFile(f) /\ UNCHANGED <<table, login>>
      BY <2>4 DEF DeleteFile, DeleteFileFails
    <3>2. CASE k[1] = f
      <4>1. \A r \in Records : <<k[1], r>> \in Keys
        BY DEF Keys
      <4> QED
        BY <3>1, <3>2, <4>1 DEF ReleaseAllForFile
    <3>3. CASE k[1] # f
      <4>1. locks'[k] = locks[k]
        BY <3>1, <3>3 DEF ReleaseAllForFile
      <4> QED
        BY <3>1, <4>1 DEF Holds, LoggedIn, LockId
    <3> QED
      BY <3>2, <3>3
  <2>5. ASSUME locks'[k] = locks[k], p \in table', login'[p] = login[p]
        PROVE  Holds(p, k)'
    BY <2>5 DEF Holds, LoggedIn, LockId
  <2>6. p \in table /\ login[p] # NoAccount
    BY DEF Holds, LoggedIn
  <2>7. CASE Create(q) \/ Quit(q) \/ Logoff(q) \/ Destroy(q)
             \/ \E a \in Accounts : Attach(q, a)
    <3>1. locks'[k] = locks[k]
      BY <2>2, <2>7 DEF Create, Quit, Logoff, Destroy, Attach, ReleaseAllForSession
    <3>2. p \in table' /\ login'[p] = login[p]
      BY <2>2, <2>6, <2>7 DEF Create, Quit, Logoff, Destroy, Attach, LockTypeOK
    <3> QED
      BY <2>5, <3>1, <3>2
  <2>8. ASSUME NEW j \in Keys, ReadU(q, j) \/ DeleteRecord(q, j) \/ ReleaseRecord(q, j)
                               \/ \E v \in Values : Write(q, j, v) \/ WriteU(q, j, v)
        PROVE  Holds(p, k)'
    <3>1. UNCHANGED <<table, login>>
      BY <2>8 DEF ReadU, DeleteRecord, ReleaseRecord, Write, WriteU
    <3>2. locks'[k] = locks[k]
      BY <2>2, <2>3, <2>8
         DEF ReadU, DeleteRecord, ReleaseRecord, Write, WriteU, ReleaseLock, LockTypeOK
    <3> QED
      BY <2>5, <2>6, <3>1, <3>2
  <2>9. ASSUME NEW f \in Files, CreateFile(q, f)
        PROVE  Holds(p, k)'
    BY <2>5, <2>6, <2>9 DEF CreateFile
  <2> QED
    BY <2>4, <2>7, <2>8, <2>9 DEF LockOp, SessionOp
<1> QED
  BY <1>1, LockInvariant, PTL DEF LockSpec, LocksPersist

-----------------------------------------------------------------------------
(* The host.                                                               *)

\* A step of the host is a step of the table, or leaves it alone.
LEMMA HostStepOfTable == [HostNext]_hostVars => [TableNext]_tableVars
<1> SUFFICES ASSUME [HostNext]_hostVars  PROVE [TableNext]_tableVars
  OBVIOUS
<1>1. CASE HostCreate
  BY <1>1 DEF HostCreate, TableNext
<1>2. ASSUME NEW p \in Ports, HostDestroy(p)  PROVE TableNext
  BY <1>2 DEF HostDestroy, TableNext, DestroySession
<1>3. ASSUME NEW p \in Ports, HostWork(p)  PROVE UNCHANGED tableVars
  BY <1>3 DEF HostWork
<1>4. CASE UNCHANGED hostVars
  BY <1>4 DEF hostVars
<1> QED
  BY <1>1, <1>2, <1>3, <1>4 DEF HostNext

\* A step of the host is a step of the locks' specification.
LEMMA HostStepOfLocks == [HostNext]_hostVars => [LockNext]_lockVars
<1> SUFFICES ASSUME [HostNext]_hostVars  PROVE [LockNext]_lockVars
  OBVIOUS
<1>1. CASE HostCreate
  BY <1>1 DEF HostCreate, LockNext, LockOp
<1>2. ASSUME NEW p \in Ports, HostDestroy(p)  PROVE LockNext
  BY <1>2 DEF HostDestroy, LockNext, LockOp
<1>3. ASSUME NEW p \in Ports, HostWork(p)  PROVE LockNext
  BY <1>3 DEF HostWork, LockNext, LockOp
<1>4. CASE UNCHANGED hostVars
  BY <1>4 DEF hostVars
<1> QED
  BY <1>1, <1>2, <1>3, <1>4 DEF HostNext

\* The host's sessions come and go as SessionTable specifies.
THEOREM HostImplementsTable == HostSpec => TableSpec
<1>1. HostInit => TableInit
  BY DEF HostInit
<1> QED
  BY <1>1, HostStepOfTable, PTL DEF HostSpec, TableSpec

\* The host's sessions use files and locks as RecordLocking specifies.
THEOREM HostImplementsLocks == HostSpec => LockSpec
<1>1. HostInit => LockInit
  BY DEF HostInit
<1> QED
  BY <1>1, HostStepOfLocks, PTL DEF HostSpec, LockSpec

\* The host gives each new session the lowest free port.
THEOREM HostImplementsPool == HostSpec => PoolRefinement
  BY HostImplementsTable, TableImplementsPool, PTL

\* A step of the host keeps the two tables equal.
LEMMA TablesAgreeStep == TableTypeOK /\ TablesAgree /\ [HostNext]_hostVars => TablesAgree'
<1> SUFFICES ASSUME TableTypeOK, TablesAgree, [HostNext]_hostVars  PROVE TablesAgree'
  OBVIOUS
<1> USE DEF TablesAgree
<1>1. CASE HostCreate
  <2>1. PICK c : c \in Candidates /\ sessions' = sessions \cup {c}
    BY <1>1 DEF HostCreate, CreateSession
  <2>2. PICK p \in Ports : p \in sessions' \ sessions /\ Create(p)
    BY <1>1 DEF HostCreate
  <2>3. p = c
    BY <2>1, <2>2
  <2> QED
    BY <2>1, <2>2, <2>3 DEF Create
<1>2. ASSUME NEW p \in Ports, HostDestroy(p)  PROVE TablesAgree'
  BY <1>2 DEF HostDestroy, DestroySession, Destroy
<1>3. ASSUME NEW p \in Ports, HostWork(p)  PROVE TablesAgree'
  <2>1. sessions' = sessions
    BY <1>3 DEF HostWork, tableVars
  <2>2. table' = table
    BY <1>3 DEF HostWork, SessionOp, Attach, Quit, Logoff, ReadU, DeleteRecord, ReleaseRecord, Write,
                WriteU, CreateFile, DeleteFile, DeleteFileFails
  <2> QED
    BY <2>1, <2>2
<1>4. CASE UNCHANGED hostVars
  BY <1>4 DEF hostVars, tableVars, lockVars
<1> QED
  BY <1>1, <1>2, <1>3, <1>4 DEF HostNext

\* The sessions that act are the sessions of the table, at all times.
LEMMA HostTablesAgree == HostSpec => []TablesAgree
<1>1. HostInit => TablesAgree
  BY DEF HostInit, TableInit, LockInit, TablesAgree
<1>2. HostSpec => []TableTypeOK
  <2>1. TableInv /\ PortsWithinLimit => TableTypeOK
    BY DEF TableInv
  <2> QED
    BY <2>1, HostImplementsTable, TableInvariant, PTL
<1> QED
  BY <1>1, <1>2, TablesAgreeStep, PTL DEF HostSpec

\* A port under which there are locks is in use, so the pool cannot give it to
\* a new session: locks are released before the port is.
THEOREM PortsWithLocksAreTaken == HostSpec => []OwnersKeepTheirPorts
<1>1. ASSUME LockInv, PortsMatchSessions, TablesAgree  PROVE OwnersKeepTheirPorts
  <2> SUFFICES ASSUME NEW k \in Keys, locks[k] # Nobody  PROVE locks[k][1] \in inUse
    BY DEF OwnersKeepTheirPorts
  <2>1. PICK p \in Ports : Holds(p, k)
    BY <1>1 DEF LockInv, NoOrphanLocks
  <2>2. p \in table /\ locks[k] = <<p, login[p]>>
    BY <2>1 DEF Holds, LoggedIn, LockId
  <2> QED
    BY <1>1, <2>2 DEF PortsMatchSessions, TablesAgree
<1> QED
  BY <1>1, HostImplementsLocks, LockInvariant, HostImplementsTable, PortsAreSessions, HostTablesAgree, PTL
=============================================================================
