---------------------------- MODULE SessionHost -----------------------------
(***************************************************************************)
(* GeminiSessionHost: the session table and its ports, composed with what  *)
(* the sessions on those ports do to accounts, files and record locks.     *)
(* A session is created on the port that the table allocates, and its      *)
(* port returns to the pool when its destruction has released its locks.   *)
(***************************************************************************)
EXTENDS SessionTable, RecordLocking

\* Every port the pool can give to a session is one that RecordLocking knows.
ASSUME HostPortsAssumption == 1..MaxPorts \subseteq Ports

hostVars == <<tableVars, lockVars>>

HostInit == TableInit /\ LockInit

\* createSession: a port, and a session object under it.
HostCreate ==
    /\ CreateSession
    /\ \E p \in Ports : p \in sessions' \ sessions /\ Create(p)

\* destroySession, by KILLSESSION or one of destroyAllSessions.
HostDestroy(p) == DestroySession(p) /\ Destroy(p)

\* Sessions at work.
HostWork(p) == SessionOp(p) /\ UNCHANGED tableVars

HostNext == HostCreate \/ \E p \in Ports : HostDestroy(p) \/ HostWork(p)

HostSpec == HostInit /\ [][HostNext]_hostVars

-----------------------------------------------------------------------------
(* Properties.                                                             *)

\* The table's ports and the sessions that act are the same.
TablesAgree == table = sessions

\* Whoever a lock names keeps the port: a new session is never given a port
\* under which there are still locks.
OwnersKeepTheirPorts == \A k \in Keys : locks[k] = Nobody \/ locks[k][1] \in inUse
=============================================================================
